------------------------- MODULE PartitionFailover --------------------------
(***************************************************************************)
(* One partition while its leader changes: the control plane of            *)
(* MetadataCluster decides who leads, and the brokers' replication         *)
(* managers, replica fetchers and produce handlers act on it               *)
(* (internal/replication manager.go, fetcher.go, partition_state.go;       *)
(* internal/network produce.go, fetch.go).                                 *)
(*                                                                         *)
(* Cancelling a fetcher does not wait for it (stopFollowingKey): the fetch *)
(* it is in the middle of goes on, and appends what it brings back.  No    *)
(* append compares the offsets stamped on a batch with the log's end, and  *)
(* no log is ever truncated.                                               *)
(*                                                                         *)
(* A fetch handler is one action here (LeaderPartition splits it), and     *)
(* time is left to chance: a follower may drop out of the leader's ISR at  *)
(* any moment, which is what the faults switches SlowFollowerDelay and     *)
(* Paused bring about.  A produce with acks=1 is one whose wait never      *)
(* ends.  Brokers die here and stay dead, pings of live brokers succeed    *)
(* and no topic is created or deleted: with a restart or a suspicion two   *)
(* brokers lead for a while, which the code does not fence.  A ping that   *)
(* succeeds, or fails once the peer is known to be dead, changes nothing   *)
(* then, and is left out.  Appends to the partition's own log succeed.     *)
(***************************************************************************)
EXTENDS MetadataCluster

CONSTANTS
    Part,         \* the partition: a topic and an index
    MaxProduced   \* bound on produced records

ASSUME PartAssumption == Part \in Keys /\ MaxProduced \in Nat

VARIABLES
    data,      \* [Brokers -> Seq(1..MaxProduced)], the partition's log on disk
    state,     \* [Brokers -> the PartitionState of a leader]
    fetches,   \* [Brokers -> fetchOnce calls under way]
    waiting,   \* [Brokers -> produce calls that appended, not yet answered]
    produced,
    acked,     \* history: produces answered through a PartitionState: record,
               \* offset, ISR, and whether a failover was decided before
    forked     \* history: a failover chose a leader whose log does not
               \* cover the others, or a fetcher was replaced by one of the
               \* same leader while its fetch was under way

dataVars == <<data, state, fetches, waiting, produced, acked, forked>>
allVars  == <<vars, dataVars>>

Topic == Part[1]
Leads(b) == Part \in led[b]

\* A faulty producePartition that takes produces wherever there is a replica
AcceptsReplica(b) == /\ b \in up
                     /\ topics[b][Topic] # NoTopic
                     /\ b \in topics[b][Topic][Part[2]].isr

\* producePartition takes produces for the partition: the registry decides.
Accepts(b) == /\ b \in up
              /\ topics[b][Topic] # NoTopic
              /\ topics[b][Topic][Part[2]].leader = b

\* NewPartitionState: every follower is in the ISR, at offset 0
NewState(b, isr) == [members |-> isr \ {b}, inSync |-> isr \ {b},
                     offset |-> [f \in Brokers |-> 0]]
NoState == [members |-> {}, inSync |-> {}, offset |-> [f \in Brokers |-> 0]]

\* recompute: the offset that the leader and all in-sync followers have reached
HighWatermark(b) ==
    Min({Len(data[b])} \cup {state[b].offset[f] : f \in state[b].inSync})

ISR(b) == {b} \cup state[b].inSync

DataInit ==
    /\ Start(Topics)
    /\ data = [b \in Brokers |-> <<>>]
    /\ state = [b \in Brokers |-> IF Leads(b) THEN NewState(b, AssignReplicas(Part[2]))
                                  ELSE NoState]
    /\ fetches = [b \in Brokers |-> {}]
    /\ waiting = [b \in Brokers |-> {}]
    /\ produced = 0
    /\ acked = {}
    /\ forked = FALSE
-----------------------------------------------------------------------------
(* Produce                                                                 *)

\* producePartition up to the append
Produce(b) ==
    /\ Accepts(b)
    /\ produced < MaxProduced
    /\ produced' = produced + 1
    /\ data' = [data EXCEPT ![b] = Append(@, produced')]
    /\ waiting' = [waiting EXCEPT ![b] =
           @ \cup {[record |-> produced', offset |-> Len(data[b]), parked |-> FALSE]}]
    /\ UNCHANGED <<vars, state, fetches, acked, forked>>

\* The call w of b returns without an error.
Answer(b, w) ==
    /\ waiting' = [waiting EXCEPT ![b] = @ \ {w}]
    /\ acked' = IF Leads(b)
                THEN acked \cup {[record |-> w.record, offset |-> w.offset,
                                  isr |-> ISR(b), first |-> writers = {}]}
                ELSE acked
    /\ UNCHANGED <<vars, data, state, fetches, produced, forked>>

\* waitForAllAcks: a broker without a PartitionState answers at once.
Wait(b, w) ==
    /\ w \in waiting[b] /\ ~w.parked
    /\ IF Leads(b) => HighWatermark(b) > w.offset
       THEN Answer(b, w)
       ELSE /\ waiting' = [waiting EXCEPT ![b] = (@ \ {w}) \cup {[w EXCEPT !.parked = TRUE]}]
            /\ UNCHANGED <<vars, data, state, fetches, produced, acked, forked>>

\* A recompute releases the call.
Release(b, w) ==
    /\ w \in waiting[b] /\ w.parked
    /\ HighWatermark(b) > w.offset
    /\ Answer(b, w)

\* A follower's last fetch is older than lagTimeout.
DropOut(b, f) ==
    /\ f \in state[b].inSync
    /\ state' = [state EXCEPT ![b].inSync = @ \ {f}]
    /\ UNCHANGED <<vars, data, fetches, waiting, produced, acked, forked>>
-----------------------------------------------------------------------------
(* Replica fetch                                                           *)

\* fetchOnce of the running fetcher: dial the leader, ask for what follows the
\* own log's end
FetchData(b) ==
    LET l == fetcher[b][Part]
    IN  /\ b \in up /\ l \in up
        /\ \A c \in fetches[b] : ~c.live
        /\ fetches' = [fetches EXCEPT ![b] = @ \cup
               {[live |-> TRUE, leader |-> l, at |-> "sent",
                 from |-> Len(data[b]), batches |-> <<>>]}]
        /\ UNCHANGED <<vars, data, state, waiting, produced, acked, forked>>

\* The cancelled fetcher was about to ask.
LateSend(b, c) ==
    /\ c \in fetches[b] /\ c.at = "woken"
    /\ fetches' = [fetches EXCEPT ![b] = (@ \ {c}) \cup
           IF c.leader \in up THEN {[c EXCEPT !.at = "sent", !.from = Len(data[b])]}
           ELSE {}]
    /\ UNCHANGED <<vars, data, state, waiting, produced, acked, forked>>

\* A faulty fetchPartition that records the offset it is about to bring b to
ServeDataRecorded(b, c) ==
    LET l == c.leader
        batches == SubSeq(data[l], c.from + 1, Len(data[l]))
        known == topics[l][Topic] # NoTopic
    IN  /\ c \in fetches[b] /\ c.at = "sent"
        /\ state' = IF known /\ Leads(l)
                    THEN [state EXCEPT ![l].offset[b] = Len(data[l]),
                                       ![l].inSync = @ \cup ({b} \cap state[l].members)]
                    ELSE state
        /\ fetches' = [fetches EXCEPT ![b] = (@ \ {c}) \cup
               IF known /\ batches # <<>>
               THEN {[c EXCEPT !.at = "replied", !.batches = batches]} ELSE {}]
        /\ UNCHANGED <<vars, data, waiting, produced, acked, forked>>

\* fetchPartition at the broker asked, leader or not.  At or past the log's
\* end there is nothing to append.
ServeData(b, c) ==
    LET l == c.leader
        batches == SubSeq(data[l], c.from + 1, Len(data[l]))
        known == topics[l][Topic] # NoTopic
    IN  /\ c \in fetches[b] /\ c.at = "sent"
        /\ state' = IF known /\ Leads(l)
                    THEN [state EXCEPT ![l].offset[b] = c.from,
                                       ![l].inSync = @ \cup ({b} \cap state[l].members)]
                    ELSE state
        /\ fetches' = [fetches EXCEPT ![b] = (@ \ {c}) \cup
               IF known /\ batches # <<>>
               THEN {[c EXCEPT !.at = "replied", !.batches = batches]} ELSE {}]
        /\ UNCHANGED <<vars, data, waiting, produced, acked, forked>>

\* fetchOnce: append the next batch of the answer
AppendData(b, c) ==
    /\ c \in fetches[b] /\ c.at = "replied"
    /\ data' = [data EXCEPT ![b] = Append(@, Head(c.batches))]
    /\ fetches' = [fetches EXCEPT ![b] = (@ \ {c}) \cup
           IF Len(c.batches) = 1 THEN {} ELSE {[c EXCEPT !.batches = Tail(@)]}]
    /\ UNCHANGED <<vars, state, waiting, produced, acked, forked>>
-----------------------------------------------------------------------------
(* The control plane's steps, with what they do to the partition           *)

\* stopFollowingKey: the fetcher's call under way goes on; if there is none it
\* may be about to start one.
Cancelled(b) ==
    LET running == {c \in fetches[b] : c.live}
        l == fetcher[b][Part]
        woken == [live |-> FALSE, leader |-> l, at |-> "woken", from |-> 0, batches |-> <<>>]
    IN  IF fetcher'[b][Part] = l THEN {fetches[b]}
        ELSE IF running = {} THEN {fetches[b], fetches[b] \cup {woken}}
        ELSE {(fetches[b] \ running) \cup {[c EXCEPT !.live = FALSE] : c \in running}}

\* A cancelled call asks the leader that is followed from now on.
Refollowed(b, x, left) ==
    /\ Current(b, x).topic = Part[1]
    /\ \E c \in left : c.leader = Current(b, x).partitions[Part[2]].leader

StopFetcher(b, x) ==
    /\ StopFollowing(b, x)
    /\ \E left \in Cancelled(b) :
          /\ fetches' = [fetches EXCEPT ![b] = left]
          /\ forked' = (forked \/ Refollowed(b, x, left))
    /\ UNCHANGED <<data, state, waiting, produced, acked>>

\* A broker that now follows forgets its PartitionState; the calls parked on
\* it will time out.
StartFetcher(b, x) ==
    /\ StartFollowing(b, x)
    /\ state' = [state EXCEPT ![b] = IF Part \in led'[b] THEN @ ELSE NoState]
    /\ waiting' = [waiting EXCEPT ![b] =
           IF Part \in led[b] \ led'[b] THEN {w \in @ : ~w.parked} ELSE @]
    /\ UNCHANGED <<data, fetches, produced, acked, forked>>

\* Some log is not covered by b's, or a fetch is still to add to one.
Uncovered(b) ==
    \E f \in up : ~IsPrefix(data[f], data[b]) \/ \E c \in fetches[f] : c.at = "replied"

\* The record of a failover names the new leader.
LogRecord(b, x) ==
    /\ AppendRecord(b, x)
    /\ forked' = (forked \/ (x = "monitor"
                             /\ Uncovered(Current(b, x).partitions[Part[2]].leader)))
    /\ UNCHANGED <<data, state, fetches, waiting, produced, acked>>

TakeLead(b, x) ==
    /\ Lead(b, x)
    /\ state' = IF Part \in led'[b] \ led[b]
                THEN [state EXCEPT ![b] =
                         NewState(b, Current(b, x).partitions[Part[2]].isr)]
                ELSE state
    /\ UNCHANGED <<data, fetches, waiting, produced, acked, forked>>

\* The process dies with everything that is not on disk; fetches it was to
\* answer fail.
CrashBroker(b) ==
    /\ Crash(b)
    /\ state' = [state EXCEPT ![b] = NoState]
    /\ fetches' = [f \in Brokers |->
           IF f = b THEN {}
           ELSE {c \in fetches[f] : ~(c.at = "sent" /\ c.leader = b)}]
    /\ waiting' = [waiting EXCEPT ![b] = {}]
    /\ UNCHANGED <<data, produced, acked, forked>>

Control ==
    \/ \E b \in Brokers, x \in Threads :
          LogRecord(b, x) \/ StopFetcher(b, x) \/ StartFetcher(b, x) \/ TakeLead(b, x)
    \/ \E b \in Brokers : CrashBroker(b)
    \/ /\ \/ \E b \in Brokers, x \in Threads :
                AppendFails(b, x) \/ ApplyMetadataRecord(b, x)
          \/ \E b \in Brokers : \E p \in alive[b] \ up : RecordMiss(b, p)
          \/ \E b \in Brokers : FetchSend(b) \/ FetchServed(b)
       /\ UNCHANGED dataVars

DataNext ==
    \/ \E b \in Brokers : Produce(b)
    \/ \E b \in Brokers : \E w \in waiting[b] : Wait(b, w)
    \/ \E b \in Brokers : \E w \in waiting[b] : Release(b, w)
    \/ \E b, f \in Brokers : DropOut(b, f)
    \/ \E b \in Brokers : FetchData(b)
    \/ \E b \in Brokers : \E c \in fetches[b] : LateSend(b, c)
    \/ \E b \in Brokers : \E c \in fetches[b] : ServeData(b, c)
    \/ \E b \in Brokers : \E c \in fetches[b] : AppendData(b, c)
    \/ Control

DataSpec == DataInit /\ [][DataNext]_allVars
-----------------------------------------------------------------------------
(* Properties                                                              *)

\* A record acknowledged to an acks=all producer stays at its offset in the log
\* of every broker that was in the ISR then, so each of them would serve it as
\* the next leader: always before the first failover, and as long as each new
\* leader's log covered the others when it was chosen and no fetch ran twice
\* (produce.go:155-163, PROGRESS.md:90-93).
AckedIsHeld ==
    \A a \in acked : a.first \/ ~forked =>
        \A b \in a.isr : Len(data[b]) > a.offset /\ data[b][a.offset + 1] = a.record

\* "byte-identical follower logs" (README.md:28) survive a failover if every
\* live log is covered by the new leader's when the controller decides, no
\* fetch from the old leader is still to be appended, and no fetcher was
\* replaced in the middle of a fetch by one of the same leader (manager.go:159).
LogsAgree ==
    ~forked => \A b, c \in up : IsPrefix(data[b], data[c]) \/ IsPrefix(data[c], data[b])
=============================================================================
