--------------------------- MODULE MetadataCluster --------------------------
(***************************************************************************)
(* The cluster's control plane: every broker pings its peers and takes the *)
(* highest live id for the controller; the controller creates and deletes  *)
(* topics and replaces dead leaders, writing each decision to its metadata *)
(* log before it applies it; the others pull the controller's log          *)
(* (internal/cluster liveness.go, metadatalog.go, metadatafollower.go;     *)
(* internal/network failover.go, create_topics.go, delete_topics.go,       *)
(* apply_topic.go; internal/replication manager.go).                       *)
(*                                                                         *)
(* Threads of a broker: request handlers, the liveness monitor, which also *)
(* runs the failover, and the metadata follower.  None holds a lock from   *)
(* its append to the end of its apply, so the log, the registry and the    *)
(* replication manager are locked, and the steps taken, one by one.  The   *)
(* partitions of a record go through the manager together: their entries   *)
(* are independent.                                                        *)
(***************************************************************************)
EXTENDS MetadataRecord

CONSTANTS
    N,              \* brokers have the ids 1..N
    Topics,
    NumPartitions, ReplicationFactor,
    FailAfter,      \* failAfter, 3 in main.go
    Handlers,       \* request handlers of a broker
    NoTopic,        \* not in the registry; in a record: a TopicDelete
    MaxRecords, MaxCrashes, MaxRestarts,   \* bounds, and one on topic
    MaxInputs,      \* requests, failed pings of live brokers and failed appends
    BothFaults      \* may a restart and such a ping come in one behaviour?

ASSUME ClusterAssumption ==
    /\ {N, NumPartitions, ReplicationFactor, FailAfter} \subseteq Nat \ {0}
    /\ ReplicationFactor <= N
    /\ {MaxRecords, MaxCrashes, MaxRestarts, MaxInputs} \subseteq Nat
    /\ Handlers \cap {"monitor", "follower"} = {}
    /\ IsFiniteSet(Topics)
    /\ BothFaults \in BOOLEAN

VARIABLES
    up,             \* the brokers that run
    alive, misses,  \* [Brokers -> ...], the liveness monitors
    log,            \* [Brokers -> Seq(Record)], the metadata logs on disk
    topics,         \* [Brokers -> [Topics -> ...]], the topic registries
    led, fetcher,   \* [Brokers -> ...], the replication managers
    thread,         \* [Brokers -> [Threads -> Thread]]
    request,        \* [Brokers -> the metadata fetch under way]
    inputs, crashes, restarts,
    suspected,      \* history: has a ping of a live broker failed?
    writers,        \* history: the brokers that decided something
    overlapped,     \* history: brokers that appended while a record was applied
    covered         \* history: topics LeaderReplaced speaks of.  Every live
                    \* broker knew them at each crash, when no live broker was
                    \* taken for dead, and at each wrong suspicion, when all
                    \* crashes had been noticed; they were not created or deleted
                    \* since, and their failover was logged.

clusterVars == <<up, log, crashes, restarts, writers, overlapped, covered>>
viewVars    == <<alive, misses, suspected>>
applyVars   == <<topics, led, fetcher>>
vars        == <<clusterVars, viewVars, applyVars, thread, request, inputs>>

Brokers    == 1..N
Partitions == 0..(NumPartitions - 1)
Threads    == Handlers \cup {"monitor", "follower"}
NoLeader   == 0

\* AssignReplicas: consecutive brokers from p % N on; the first one leads
AssignReplicas(p) ==
    {((p + r) % N) + 1 : r \in 0..(ReplicationFactor - 1)}

\* A faulty createTopic that counts brokers from zero
CreatedFromZero == [p \in Partitions |-> [leader |-> p % N, isr |-> AssignReplicas(p)]]

Created == [p \in Partitions |-> [leader |-> (p % N) + 1, isr |-> AssignReplicas(p)]]

\* Topic metadata, and a record of the log
TopicState == {s \in [Partitions -> [leader : Brokers, isr : SUBSET Brokers]] :
                  \A p \in Partitions : s[p].leader \in s[p].isr
                                        /\ s[p].isr \subseteq AssignReplicas(p)}
Record == [topic : Topics, partitions : TopicState \cup {NoTopic}]

\* The record as the code has it, and back: all replicas and the ISR are lists.
ToCode(r) ==
    [type |-> IF r.partitions = NoTopic THEN TopicDelete ELSE TopicUpsert,
     topic |-> r.topic,
     partitions |-> IF r.partitions = NoTopic THEN <<>>
                    ELSE [i \in 1..NumPartitions |->
                            [id |-> i - 1, leader |-> r.partitions[i - 1].leader,
                             replicas |-> SetToSeq(AssignReplicas(i - 1)),
                             isr |-> SetToSeq(r.partitions[i - 1].isr)]]]
FromCode(c) ==
    [topic |-> c.topic,
     partitions |-> IF c.type = TopicDelete THEN NoTopic
                    ELSE [p \in Partitions |->
                            LET i == CHOOSE j \in DOMAIN c.partitions : c.partitions[j].id = p
                            IN  [leader |-> c.partitions[i].leader,
                                 isr |-> Range(c.partitions[i].isr)]]]

\* How far a thread got with the records it has to append and apply
Steps  == {"idle", "sent", "append", "apply", "stop", "start", "lead"}
Idle   == [at |-> "idle", todo |-> <<>>]
Keys   == Topics \X Partitions

TypeOK ==
    /\ up \in SUBSET Brokers
    /\ alive \in [Brokers -> SUBSET Brokers] /\ \A b \in Brokers : b \in alive[b]
    /\ misses \in [Brokers -> [Brokers -> 0..FailAfter]]
    /\ \A b \in Brokers : \A i \in DOMAIN log[b] : log[b][i] \in Record
    /\ topics \in [Brokers -> [Topics -> TopicState \cup {NoTopic}]]
    /\ led \in [Brokers -> SUBSET Keys]
    /\ fetcher \in [Brokers -> [Keys -> Brokers \cup {NoLeader}]]
    /\ \A b \in Brokers, x \in Threads : thread[b][x].at \in Steps
    /\ request \in [Brokers -> [controller : Brokers \cup {NoLeader}, offset : 0..MaxRecords]]
-----------------------------------------------------------------------------
(* Replaying a metadata log                                                *)

RecordsOf(records, t) == {i \in DOMAIN records : records[i].topic = t}
UpsertsOf(records, t) ==
    SelectSeq(records, LAMBDA r : r.topic = t /\ r.partitions # NoTopic)

\* The registry, and the roles the manager ends up with: a TopicDelete does
\* not touch them, so the last upsert of a topic decides.
ReplayTopics(records) ==
    [t \in Topics |-> IF RecordsOf(records, t) = {} THEN NoTopic
                      ELSE records[Max(RecordsOf(records, t))].partitions]
LeaderAfter(records, k) ==
    IF UpsertsOf(records, k[1]) = <<>> THEN NoLeader
    ELSE Last(UpsertsOf(records, k[1])).partitions[k[2]].leader
ReplayLed(b, records) == {k \in Keys : LeaderAfter(records, k) = b}
ReplayFetcher(b, records) ==
    [k \in Keys |-> IF b \in AssignReplicas(k[2]) /\ LeaderAfter(records, k) # b
                    THEN LeaderAfter(records, k) ELSE NoLeader]
-----------------------------------------------------------------------------
\* Every broker has just started, with the same metadata log: an empty one, or
\* that of a cluster whose topics in known were created before.
Start(known) ==
    LET records == SetToSeq({[topic |-> t, partitions |-> Created] : t \in known})
    IN  /\ log = [b \in Brokers |-> records]
        /\ topics = [b \in Brokers |-> ReplayTopics(records)]
        /\ led = [b \in Brokers |-> ReplayLed(b, records)]
        /\ fetcher = [b \in Brokers |-> ReplayFetcher(b, records)]
        /\ up = Brokers
        /\ alive = [b \in Brokers |-> Brokers]
        /\ misses = [b \in Brokers |-> [p \in Brokers |-> 0]]
        /\ thread = [b \in Brokers |-> [x \in Threads |-> Idle]]
        /\ request = [b \in Brokers |-> [controller |-> NoLeader, offset |-> 0]]
        /\ inputs = 0 /\ crashes = 0 /\ restarts = 0 /\ suspected = FALSE
        /\ writers = {} /\ overlapped = {} /\ covered = Topics

Init == \E known \in SUBSET Topics : Start(known)

\* LivenessMonitor.ControllerID
ControllerID(live) == Max(live)

\* One more input, if the bound allows it
Input == inputs < MaxInputs /\ inputs' = inputs + 1

Go(b, x, at, todo) ==
    thread' = [thread EXCEPT ![b][x] = [at |-> at, todo |-> todo]]

At(b, x, at) == b \in up /\ thread[b][x].at = at
Current(b, x) == Head(thread[b][x].todo)

\* No record is under way, and views holds: the topics that the brokers know,
\* which a failure now is noticed for
Settled == \A c, d \in up : /\ log[c] = log[d]
                            /\ \A x \in Threads : thread[c][x].at \in {"idle", "sent"}
StillCovered(b, views) ==
    IF Settled /\ views THEN {t \in covered : topics[b][t] # NoTopic} ELSE {}

\* On to the thread's next record, if it has one
NextRecord(b, x) ==
    LET rest == Tail(thread[b][x].todo)
    IN  Go(b, x, IF rest = <<>> THEN "idle" ELSE "append", rest)
-----------------------------------------------------------------------------
(* Topic requests, at the broker that takes itself for the controller      *)

Decide(b, h, t, partitions) ==
    /\ At(b, h, "idle")
    /\ ControllerID(alive[b]) = b
    /\ Input
    /\ Go(b, h, "append", <<[topic |-> t, partitions |-> partitions]>>)
    /\ covered' = IF crashes > 0 \/ suspected THEN covered \ {t} ELSE covered
    /\ UNCHANGED <<up, log, crashes, restarts, writers, overlapped>>
    /\ UNCHANGED <<viewVars, applyVars, request>>

\* handleCreateTopics, createTopic up to the registry check.  Replicas are
\* assigned to all brokers of the membership, live or not.
CreateTopic(b, h, t) == topics[b][t] = NoTopic /\ Decide(b, h, t, Created)

DeleteTopic(b, h, t) == topics[b][t] # NoTopic /\ Decide(b, h, t, NoTopic)
-----------------------------------------------------------------------------
(* Append and apply, in any thread                                         *)

Applying == {"apply", "stop", "start", "lead"}

\* MetadataLog.Append or AppendRaw
AppendRecord(b, x) ==
    /\ At(b, x, "append")
    /\ Len(log[b]) < MaxRecords
    /\ log' = [log EXCEPT ![b] = Append(@, Current(b, x))]
    /\ Go(b, x, "apply", thread[b][x].todo)
    /\ writers' = IF x = "follower" THEN writers ELSE writers \cup {b}
    /\ overlapped' = IF \E y \in Threads : thread[b][y].at \in Applying
                     THEN overlapped \cup {b} ELSE overlapped
    /\ UNCHANGED <<up, crashes, restarts, covered>>
    /\ UNCHANGED <<viewVars, applyVars, request, inputs>>

\* A faulty caller of Append that ignores its error
AppendErrorIgnored(b, x) ==
    /\ At(b, x, "append")
    /\ Input
    /\ Go(b, x, "apply", thread[b][x].todo)
    /\ UNCHANGED <<clusterVars, viewVars, applyVars, request>>

\* The append fails: a handler answers with an error, the follower gives up
\* this fetch, the failover goes on to the next topic.
AppendFails(b, x) ==
    /\ At(b, x, "append")
    /\ Input
    /\ IF x = "follower" THEN Go(b, x, "idle", <<>>) ELSE NextRecord(b, x)
    /\ covered' = IF x = "monitor" THEN covered \ {Current(b, x).topic} ELSE covered
    /\ UNCHANGED <<up, log, crashes, restarts, writers, overlapped>>
    /\ UNCHANGED <<viewVars, applyVars, request>>

\* ApplyMetadataRecord: a delete ends here, an upsert goes on to the manager.
ApplyMetadataRecord(b, x) ==
    LET r == Current(b, x)
    IN  /\ At(b, x, "apply")
        /\ topics' = [topics EXCEPT ![b][r.topic] = r.partitions]
        /\ IF r.partitions = NoTopic THEN NextRecord(b, x)
           ELSE Go(b, x, "stop", thread[b][x].todo)
        /\ UNCHANGED <<clusterVars, viewVars, led, fetcher, request, inputs>>

\* The fetchers of the record's partitions in S become what F says.
SetFetchers(b, t, S, F) ==
    fetcher' = [fetcher EXCEPT ![b] = [k \in Keys |->
                   IF k[1] = t /\ k[2] \in S THEN F[k[2]] ELSE fetcher[b][k]]]

\* applyTopic: StopFollowing every partition
StopFollowing(b, x) ==
    /\ At(b, x, "stop")
    /\ SetFetchers(b, Current(b, x).topic, Partitions,
                   [p \in Partitions |-> NoLeader])
    /\ Go(b, x, "start", thread[b][x].todo)
    /\ UNCHANGED <<clusterVars, viewVars, topics, led, request, inputs>>

\* A faulty StartFollowing that goes on leading what it now follows
StartKeepsLed(b, x) ==
    LET r == Current(b, x)
        mine == {p \in Partitions : r.partitions[p].leader = b}
        follow == {p \in Partitions \ mine :
                      b \in AssignReplicas(p) /\ fetcher[b][<<r.topic, p>>] = NoLeader}
    IN  /\ At(b, x, "start")
        /\ SetFetchers(b, r.topic, mine \cup follow,
                       [p \in Partitions |-> IF p \in mine THEN NoLeader
                                         ELSE r.partitions[p].leader])
        /\ IF mine = {} THEN NextRecord(b, x) ELSE Go(b, x, "lead", thread[b][x].todo)
        /\ UNCHANGED <<clusterVars, viewVars, topics, led, request, inputs>>

\* StartFollowing: follow the partitions another broker leads, unless a fetcher
\* is there already; stop the fetchers of those this broker leads.
StartFollowing(b, x) ==
    LET r == Current(b, x)
        mine == {p \in Partitions : r.partitions[p].leader = b}
        follow == {p \in Partitions \ mine :
                      b \in AssignReplicas(p) /\ fetcher[b][<<r.topic, p>>] = NoLeader}
    IN  /\ At(b, x, "start")
        /\ SetFetchers(b, r.topic, mine \cup follow,
                       [p \in Partitions |-> IF p \in mine THEN NoLeader
                                         ELSE r.partitions[p].leader])
        /\ led' = [led EXCEPT ![b] = @ \ ({r.topic} \X follow)]
        /\ IF mine = {} THEN NextRecord(b, x) ELSE Go(b, x, "lead", thread[b][x].todo)
        /\ UNCHANGED <<clusterVars, viewVars, topics, request, inputs>>

\* ... and then lead them: the manager's lock is taken a second time.
Lead(b, x) ==
    LET r == Current(b, x)
        mine == {p \in Partitions : r.partitions[p].leader = b}
    IN  /\ At(b, x, "lead")
        /\ led' = [led EXCEPT ![b] = @ \cup ({r.topic} \X mine)]
        /\ NextRecord(b, x)
        /\ UNCHANGED <<clusterVars, viewVars, topics, fetcher, request, inputs>>
-----------------------------------------------------------------------------
(* Liveness and failover                                                   *)

\* liveISR, as b sees it; peerAlive(b) holds of b itself.
LiveISR(isr, dead, live) == (isr \cap live) \ {dead}

\* OnPeerDown for one topic: the lowest live member of the ISR takes over each
\* partition the dead broker led.
Reassigned(s, dead, live) ==
    [p \in Partitions |->
        LET rest == LiveISR(s[p].isr, dead, live)
        IN  IF s[p].leader = dead /\ rest # {}
            THEN [leader |-> Min(rest), isr |-> rest] ELSE s[p]]

\* A faulty OnPeerDown that runs before the dead peer is marked dead
OnPeerDownEarly(b, dead, live) ==
    LET known == {t \in Topics : topics[b][t] # NoTopic}
    IN  IF ControllerID(live \cup {dead}) # b THEN {}
        ELSE {[topic |-> t, partitions |-> Reassigned(topics[b][t], dead, live)] :
                 t \in {u \in known : Reassigned(topics[b][u], dead, live) # topics[b][u]}}

\* OnPeerDown: the records to write, from a copy of the registry
OnPeerDown(b, dead, live) ==
    LET known == {t \in Topics : topics[b][t] # NoTopic}
    IN  IF ControllerID(live) # b THEN {}
        ELSE {[topic |-> t, partitions |-> Reassigned(topics[b][t], dead, live)] :
                 t \in {u \in known : Reassigned(topics[b][u], dead, live) # topics[b][u]}}

\* ping fails; recordMiss calls OnPeerDown when the peer goes from live to dead.
RecordMiss(b, p) ==
    LET n == Min({misses[b][p] + 1, FailAfter})
        down == n >= FailAfter /\ p \in alive[b]
        records == IF down THEN OnPeerDown(b, p, alive[b] \ {p}) ELSE {}
    IN  /\ At(b, "monitor", "idle") /\ p # b
        /\ IF p \in up THEN Input /\ suspected' = TRUE /\ (BothFaults \/ restarts = 0)
           ELSE UNCHANGED <<inputs, suspected>>
        /\ misses' = [misses EXCEPT ![b][p] = n]
        /\ alive' = [alive EXCEPT ![b] = IF down THEN @ \ {p} ELSE @]
        /\ covered' = IF down /\ p \in up
                      THEN StillCovered(b, \A c \in up : alive[c] = up) ELSE covered
        /\ IF records = {} THEN UNCHANGED thread
           ELSE \E todo \in SetToSeqs(records) : Go(b, "monitor", "append", todo)
        /\ UNCHANGED <<up, log, crashes, restarts, writers, overlapped, applyVars, request>>

\* A faulty recordSuccess that forgets to take the peer for live again
RecordSuccessOnlyMisses(b, p) ==
    /\ At(b, "monitor", "idle") /\ p # b
    /\ p \in up
    /\ misses' = [misses EXCEPT ![b][p] = 0]
    /\ UNCHANGED <<clusterVars, alive, suspected, applyVars, thread, request, inputs>>

\* ping succeeds; OnPeerUp only logs.
RecordSuccess(b, p) ==
    /\ At(b, "monitor", "idle") /\ p # b
    /\ p \in up
    /\ misses' = [misses EXCEPT ![b][p] = 0]
    /\ alive' = [alive EXCEPT ![b] = @ \cup {p}]
    /\ UNCHANGED <<clusterVars, suspected, applyVars, thread, request, inputs>>
-----------------------------------------------------------------------------
(* The metadata follower                                                   *)

\* A faulty fetchOnce that asks the controller of a cluster without failures
FetchSendFixed(b) ==
    LET c == ControllerID(Brokers)
    IN  /\ At(b, "follower", "idle")
        /\ c # b /\ c \in up
        /\ request' = [request EXCEPT ![b] = [controller |-> c, offset |-> Len(log[b])]]
        /\ Go(b, "follower", "sent", <<>>)
        /\ UNCHANGED <<clusterVars, viewVars, applyVars, inputs>>

\* fetchOnce: ask the broker taken for the controller for what follows the own
\* log's end.  A dial to a dead broker fails and changes nothing.
FetchSend(b) ==
    LET c == ControllerID(alive[b])
    IN  /\ At(b, "follower", "idle")
        /\ c # b /\ c \in up
        /\ request' = [request EXCEPT ![b] = [controller |-> c, offset |-> Len(log[b])]]
        /\ Go(b, "follower", "sent", <<>>)
        /\ UNCHANGED <<clusterVars, viewVars, applyVars, inputs>>

\* A faulty fetch that asks for the last record it has once more
FetchServedAgain(b) ==
    LET from == log[request[b].controller]
        payloads == SubSeq(from, Max({1, request[b].offset}), Len(from))
    IN  /\ At(b, "follower", "sent")
        /\ Go(b, "follower", IF payloads = <<>> THEN "idle" ELSE "append", payloads)
        /\ request' = [request EXCEPT ![b] = [controller |-> NoLeader, offset |-> 0]]
        /\ UNCHANGED <<clusterVars, viewVars, applyVars, inputs>>

\* handleFetchMetadataLog, whoever the serving broker takes for the controller
FetchServed(b) ==
    LET from == log[request[b].controller]
        payloads == SubSeq(from, request[b].offset + 1, Len(from))
    IN  /\ At(b, "follower", "sent")
        /\ Go(b, "follower", IF payloads = <<>> THEN "idle" ELSE "append", payloads)
        /\ request' = [request EXCEPT ![b] = [controller |-> NoLeader, offset |-> 0]]
        /\ UNCHANGED <<clusterVars, viewVars, applyVars, inputs>>
-----------------------------------------------------------------------------
(* Crash and restart                                                       *)

\* The process dies; so do its threads and the fetches it was to answer.
Crash(b) ==
    /\ b \in up
    /\ crashes < MaxCrashes
    /\ crashes' = crashes + 1
    /\ up' = up \ {b}
    /\ covered' = StillCovered(b, \A c \in up : up \subseteq alive[c])
    /\ LET cut == {c \in Brokers : request[c].controller = b}
       IN  /\ thread' = [c \in Brokers |->
                 IF c = b THEN [x \in Threads |-> Idle]
                 ELSE IF c \in cut THEN [thread[c] EXCEPT !["follower"] = Idle]
                 ELSE thread[c]]
           /\ request' = [c \in Brokers |->
                 IF c \in cut \cup {b} THEN [controller |-> NoLeader, offset |-> 0]
                 ELSE request[c]]
    /\ alive' = [alive EXCEPT ![b] = Brokers]
    /\ misses' = [misses EXCEPT ![b] = [p \in Brokers |-> 0]]
    /\ topics' = [topics EXCEPT ![b] = [t \in Topics |-> NoTopic]]
    /\ led' = [led EXCEPT ![b] = {}]
    /\ fetcher' = [fetcher EXCEPT ![b] = [k \in Keys |-> NoLeader]]
    /\ overlapped' = overlapped \ {b}
    /\ UNCHANGED <<log, restarts, suspected, writers, inputs>>

\* main: replay the metadata log, take every peer for live
Restart(b) ==
    /\ b \notin up
    /\ restarts < MaxRestarts /\ (BothFaults \/ ~suspected)
    /\ restarts' = restarts + 1
    /\ up' = up \cup {b}
    /\ topics' = [topics EXCEPT ![b] = ReplayTopics(log[b])]
    /\ led' = [led EXCEPT ![b] = ReplayLed(b, log[b])]
    /\ fetcher' = [fetcher EXCEPT ![b] = ReplayFetcher(b, log[b])]
    /\ UNCHANGED <<log, crashes, writers, overlapped, covered>>
    /\ UNCHANGED <<viewVars, thread, request, inputs>>

Step(b, x) ==
    \/ AppendRecord(b, x)
    \/ AppendFails(b, x)
    \/ ApplyMetadataRecord(b, x)
    \/ StopFollowing(b, x)
    \/ StartFollowing(b, x)
    \/ Lead(b, x)

Next ==
    \/ \E b \in Brokers, h \in Handlers, t \in Topics : CreateTopic(b, h, t)
    \/ \E b \in Brokers, h \in Handlers, t \in Topics : DeleteTopic(b, h, t)
    \/ \E b \in Brokers, x \in Threads : Step(b, x)
    \/ \E b, p \in Brokers : RecordMiss(b, p)
    \/ \E b, p \in Brokers : RecordSuccess(b, p)
    \/ \E b \in Brokers : FetchSend(b)
    \/ \E b \in Brokers : FetchServed(b)
    \/ \E b \in Brokers : Crash(b)
    \/ \E b \in Brokers : Restart(b)

Spec == Init /\ [][Next]_vars

\* A ping that tells the truth
Ping(b, p) == IF p \in up THEN RecordSuccess(b, p) ELSE RecordMiss(b, p)

\* Threads run, the monitor pings every peer at each of its ticks, and the
\* follower fetches at each of its own; nobody has to send requests, crash or
\* restart, and no ping of a live broker has to fail.
Fairness ==
    \A b \in Brokers :
        /\ WF_vars(\E x \in Threads \ {"follower"} : Step(b, x))
        /\ WF_vars(FetchSend(b) \/ FetchServed(b) \/ Step(b, "follower"))
        /\ \A p \in Brokers \ {b} : WF_vars(Ping(b, p))

FairSpec == Spec /\ Fairness
-----------------------------------------------------------------------------
(* Properties                                                              *)

\* As long as one broker decides, every other metadata log is a prefix of its
\* log, through suspected controllers, fetches from the wrong broker, crashes
\* and restarts (metadatafollower.go:52-96: EndOffset is read before the
\* request, the records are appended after it).
SingleWriterPrefix ==
    \A w \in writers : writers = {w} =>
        \A b \in Brokers : IsPrefix(log[b], log[w])

\* "every broker replays [the metadata log] on restart, so the cluster comes
\* back with identical metadata" (README.md:29): whenever nothing is being
\* applied, a restart would give a broker the registry and the roles it has,
\* unless an append overtook another record's apply.
RestartKeepsView ==
    \A b \in up \ overlapped :
        (\A x \in Threads : thread[b][x].at \notin Applying) =>
            /\ topics[b] = ReplayTopics(log[b])
            /\ led[b] = ReplayLed(b, log[b])
            /\ fetcher[b] = ReplayFetcher(b, log[b])

\* A broker serves no metadata that a crash could take back: whatever is in
\* its registry is in its log (create_topics.go:86-89, failover.go:43-47).
AppliedIsLogged ==
    \A b \in up, t \in Topics : topics[b][t] # NoTopic =>
        [topic |-> t, partitions |-> topics[b][t]] \in Range(log[b])

\* What followers and restarts will decode from a record is what its decider
\* applies from memory, ISRs shrunk by a failover and deletes included
\* (metadatalog.go:95-154, failover.go:43-48).
RecordsDecode ==
    \A b \in up, x \in Threads : thread[b][x].at = "append" =>
        FromCode(decodeMetadataRecord(encodeMetadataRecord(ToCode(Current(b, x)))))
            = Current(b, x)

\* "the cluster elects exactly one new controller ... with no split-brain"
\* (PROGRESS.md:98-99): when pings do not fail by themselves, the brokers
\* that run come to agree on the highest of them.
OneController ==
    <>[](\A b \in up : ControllerID(alive[b]) = Max(up))

\* A broker that was away gives up what it thought: the registries of the live
\* brokers end up equal, if the controller is the only one that ever decided
\* and no append overtook another record's apply (main.go:85-95 replays the own
\* log, metadatafollower.go:52-96 fetches the rest).
ViewsConverge ==
    <>[](writers \subseteq {Max(up)} /\ overlapped = {} =>
            \A b, c \in up : topics[b] = topics[c])

\* Failover (failover.go:20-54): a topic every broker knew when a leader died
\* ends up, in the registry of each live broker, with live leaders, except for
\* partitions that have no live member left in their ISR.  The death must be
\* news: a leader already taken for dead gets no second OnPeerDown, and a
\* partition whose ISR is taken for dead when its leader dies is not retried.
LeaderReplaced ==
    <>[](\A t \in covered, b \in up, p \in Partitions :
            crashes > 0 /\ topics[b][t] # NoTopic =>
                \/ topics[b][t][p].leader \in up
                \/ topics[b][t][p].isr \cap up = {})
=============================================================================
