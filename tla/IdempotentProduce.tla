-------------------------- MODULE IdempotentProduce -------------------------
(***************************************************************************)
(* Idempotent producers and one partition leader (internal/producer        *)
(* manager.go, internal/network produce.go and init_producer_id.go): the   *)
(* broker remembers the last batch of each producer id and tells a resent  *)
(* batch from a new one by its sequence number.                            *)
(*                                                                         *)
(* A producer has one batch under way and resends it until it is           *)
(* acknowledged.  A request that was sent may reach a handler any number   *)
(* of times and at any later moment: a client that gives up waiting leaves *)
(* its request behind on the old connection.  AppendBatch holds the        *)
(* manager's lock over check, append and commit, so it is one action.      *)
(* The log holds a batch per offset, as storage.Log does.                  *)
(***************************************************************************)
EXTENDS Integers, Sequences, FiniteSets

CONSTANTS
    Producer,
    Counts,       \* record counts of batches
    MaxBatches,   \* bound on the batches of each producer
    Half,         \* sequence numbers are -Half..(Half - 1), 2^31 in the code
    Restarts      \* bound on broker restarts

ASSUME ProduceAssumption ==
    /\ IsFiniteSet(Producer)
    /\ Counts \subseteq Nat \ {0}
    /\ MaxBatches \in [Producer -> Nat] /\ Half \in Nat \ {0} /\ Restarts \in Nat

\* No request is still around when its sequence number comes up again.
ASSUME CycleAssumption == \A p \in Producer, c \in Counts : MaxBatches[p] * c < 2 * Half

VARIABLES
    nextPID,        \* m.nextPID
    seqs,           \* [Pids -> SeqState], m.seqs for this partition
    log,            \* the batches appended, as <<producer, number>>
    highWatermark,  \* how many of them are replicated
    session,        \* [Producer -> Session], the client's state
    sent,           \* the requests sent so far
    waiting,        \* the handlers in waitForAllAcks
    acked,          \* the batches answered with success
    restarts

brokerVars == <<nextPID, seqs, waiting>>
vars == <<brokerVars, log, highWatermark, session, sent, acked, restarts>>

Batch    == UNION {{p} \X (1..MaxBatches[p]) : p \in Producer}
\* A producer asks for one id; a new broker process starts again from 1.
Pids     == 1..Cardinality(Producer)

\* int32 arithmetic, modulo 2 * Half
Wrap(x)  == ((x + Half) % (2 * Half)) - Half
Sequence == (-Half)..(Half - 1)

\* seqState, and known = the map has an entry
SeqState == [known : BOOLEAN, lastSequence : Sequence, lastBaseOffset : Nat,
             lastRecordCount : Counts \cup {0}]
Unknown  == [known |-> FALSE, lastSequence |-> 0, lastBaseOffset |-> 0, lastRecordCount |-> 0]

\* The client: its id, the number of its current batch, that batch's base
\* sequence and record count (0: not sent yet)
Session  == [pid : Pids \cup {0}, n : Nat \ {0}, seq : Sequence,
             count : Counts \cup {0}]
Request  == [batch : Batch, pid : Pids, baseSeq : Sequence, recordCount : Counts]
Waiter   == [batch : Batch, baseOffset : Nat]

TypeOK ==
    /\ nextPID \in 0..Cardinality(Producer)
    /\ seqs \in [Pids -> SeqState]
    /\ log \in Seq(Batch)
    /\ highWatermark \in 0..Len(log)
    /\ session \in [Producer -> Session]
    /\ sent \in SUBSET Request
    /\ waiting \in SUBSET Waiter
    /\ acked \in SUBSET Batch
    /\ restarts \in 0..Restarts
-----------------------------------------------------------------------------
Init ==
    /\ nextPID = 0
    /\ seqs = [pid \in Pids |-> Unknown]
    /\ log = <<>>
    /\ highWatermark = 0
    /\ session = [p \in Producer |-> [pid |-> 0, n |-> 1, seq |-> 0, count |-> 0]]
    /\ sent = {}
    /\ waiting = {}
    /\ acked = {}
    /\ restarts = 0

InitProducerID(p) ==
    /\ session[p].pid = 0
    /\ nextPID' = nextPID + 1
    /\ session' = [session EXCEPT ![p].pid = nextPID']
    /\ UNCHANGED <<seqs, waiting, log, highWatermark, sent, acked, restarts>>

\* The client sends a new batch.
Send(p, count) ==
    /\ session[p].pid > 0 /\ session[p].count = 0 /\ session[p].n <= MaxBatches[p]
    /\ session' = [session EXCEPT ![p].count = count]
    /\ sent' = sent \cup {[batch |-> <<p, session[p].n>>, pid |-> session[p].pid,
                           baseSeq |-> session[p].seq, recordCount |-> count]}
    /\ UNCHANGED <<brokerVars, log, highWatermark, acked, restarts>>

\* A faulty check that takes every known sequence number but the last for new
CheckLastOnly(r) ==
    LET s == seqs[r.pid]
    IN  IF s.known /\ r.baseSeq = Wrap(s.lastSequence - s.lastRecordCount + 1)
        THEN "Duplicate" ELSE "Append"

\* A faulty check that refuses whatever is not the next batch
CheckNextOnly(r) ==
    LET s == seqs[r.pid]
    IN  IF r.baseSeq = (IF s.known THEN Wrap(s.lastSequence + 1) ELSE 0)
        THEN "Append" ELSE "OutOfOrder"

\* checkSequenceLocked
checkSequenceLocked(r) ==
    LET s == seqs[r.pid]
        lastBaseSeq == Wrap(s.lastSequence - s.lastRecordCount + 1)
    IN  CASE ~s.known -> IF r.baseSeq = 0 THEN "Append" ELSE "OutOfOrder"
          [] s.known /\ r.baseSeq = lastBaseSeq -> "Duplicate"
          [] s.known /\ r.baseSeq # lastBaseSeq ->
                IF r.baseSeq = Wrap(s.lastSequence + 1) THEN "Append"
                ELSE IF r.baseSeq <= s.lastSequence THEN "Duplicate" ELSE "OutOfOrder"

\* A faulty commit that counts one sequence number too many
CommittedPastEnd(r, baseOffset) ==
    [known |-> TRUE, lastSequence |-> Wrap(r.baseSeq + r.recordCount),
     lastBaseOffset |-> baseOffset, lastRecordCount |-> r.recordCount]

\* A faulty commit that counts one record too many
CommittedExtra(r, baseOffset) ==
    [known |-> TRUE, lastSequence |-> Wrap(r.baseSeq + r.recordCount - 1),
     lastBaseOffset |-> baseOffset, lastRecordCount |-> r.recordCount + 1]

\* committedLocked, an entry of m.seqs
committedLocked(r, baseOffset) ==
    [known |-> TRUE, lastSequence |-> Wrap(r.baseSeq + r.recordCount - 1),
     lastBaseOffset |-> baseOffset, lastRecordCount |-> r.recordCount]

\* The client learns that batch b is in: on to the next, if b is its current.
Acknowledge(b) ==
    LET s == session[b[1]]
    IN  /\ acked' = acked \cup {b}
        /\ session' = IF b[2] = s.n
                      THEN [session EXCEPT ![b[1]].n = @ + 1, ![b[1]].count = 0,
                                           ![b[1]].seq = Wrap(@ + s.count)]
                      ELSE session

\* producePartition, a new batch: append it, remember it, then wait for the ISR
ProduceAppend(r) ==
    /\ checkSequenceLocked(r) = "Append"
    /\ log' = Append(log, r.batch)
    /\ seqs' = [seqs EXCEPT ![r.pid] = committedLocked(r, Len(log))]
    /\ waiting' = waiting \cup {[batch |-> r.batch, baseOffset |-> Len(log)]}
    /\ UNCHANGED <<nextPID, highWatermark, session, sent, acked, restarts>>

\* producePartition, a duplicate: success at once.  (The third outcome, an
\* OutOfOrder error, changes nothing here, nor does a failed append.)
ProduceDuplicate(r) ==
    /\ checkSequenceLocked(r) = "Duplicate"
    /\ Acknowledge(r.batch)
    /\ UNCHANGED <<brokerVars, log, highWatermark, sent, restarts>>

\* waitForAllAcks returns: the high watermark is at baseOffset + 1, or the time
\* is up and the client will resend.
WaitDone(w) ==
    /\ highWatermark >= w.baseOffset + 1
    /\ waiting' = waiting \ {w}
    /\ Acknowledge(w.batch)
    /\ UNCHANGED <<nextPID, seqs, log, highWatermark, sent, restarts>>

WaitTimedOut(w) ==
    /\ waiting' = waiting \ {w}
    /\ UNCHANGED <<nextPID, seqs, log, highWatermark, session, sent, acked, restarts>>

\* Replication proceeds (module LeaderPartition).
Replicate ==
    /\ highWatermark < Len(log)
    /\ highWatermark' = highWatermark + 1
    /\ UNCHANGED <<brokerVars, log, session, sent, acked, restarts>>

\* The broker restarts: its log is on disk, the producer manager is not.
Restart ==
    /\ restarts < Restarts
    /\ restarts' = restarts + 1
    /\ nextPID' = 0
    /\ seqs' = [pid \in Pids |-> Unknown]
    /\ waiting' = {}
    /\ UNCHANGED <<log, highWatermark, session, sent, acked>>

Next ==
    \/ \E p \in Producer : InitProducerID(p)
    \/ \E p \in Producer, c \in Counts : Send(p, c)
    \/ \E r \in sent : ProduceAppend(r)
    \/ \E r \in sent : ProduceDuplicate(r)
    \/ \E w \in waiting : WaitDone(w)
    \/ \E w \in waiting : WaitTimedOut(w)
    \/ Replicate
    \/ Restart

Spec == Init /\ [][Next]_vars

\* Clients resend what is not acknowledged, handlers run, followers fetch.
Fairness ==
    /\ WF_vars(Replicate)
    /\ \A p \in Producer :
          /\ WF_vars(\E r \in sent : r.batch = <<p, session[p].n>> /\ ProduceAppend(r))
          /\ WF_vars(\E r \in sent : r.batch = <<p, session[p].n>> /\ ProduceDuplicate(r))

FairSpec == Spec /\ Fairness
-----------------------------------------------------------------------------
(* Properties                                                              *)

\* "a resent batch lands exactly once" (README.md:27): a broker process appends
\* no batch twice, and as long as it keeps running the batches of a producer
\* are in the log in the order sent.  A restart forgets what was appended, so
\* each one may add a copy.
LandsOnce ==
    /\ \A b \in Batch : Cardinality({i \in DOMAIN log : log[i] = b}) <= restarts + 1
    /\ restarts = 0 =>
          \A i, j \in DOMAIN log :
              i < j /\ log[i][1] = log[j][1] => log[i][2] < log[j][2]

\* A restart can confuse batches in two ways.  The new process may give the id
\* of one producer to another (manager.go:40-46).  And it may first hear of a
\* producer by a late, old request: a wrapped, negative sequence number is below
\* that one's, so its batch is then taken for an old duplicate (manager.go:96).
Unconfused ==
    /\ \A a, b \in Producer : a # b /\ session[a].pid > 0 => session[a].pid # session[b].pid
    /\ restarts = 0 \/ \A r \in sent : r.baseSeq >= 0

\* A batch answered with success, as new or as a duplicate, is in the log: a
\* new batch is never mistaken for a resent one (manager.go:80-103), also over
\* restarts, as long as they have confused nothing.
AckedIsLogged ==
    Unconfused => \A b \in acked : \E i \in DOMAIN log : log[i] = b

\* A producer is never stuck: what it sends is acknowledged in the end, through
\* timeouts, duplicates and the wrap-around of sequence numbers, unless the
\* broker restarts.
SentIsAcked ==
    \A b \in Batch : (\E r \in sent : r.batch = b) ~> b \in acked \/ restarts > 0

\* "Produce(acks=all) only returns once enough ISR members have fetched up to
\* that offset" (docs/master-plan.html:564).
AckedIsReplicated ==
    [][\A b \in acked' \ acked :
          \E i \in 1..highWatermark : log[i] = b]_vars
=============================================================================
