----------------------- MODULE MetadataClusterProofs ------------------------
(***************************************************************************)
(* MetadataCluster for every number of brokers, partitions, topics and     *)
(* handlers and any number of crashes, restarts and suspicions: a single   *)
(* writer's log extends every other, and registries hold logged records.   *)
(***************************************************************************)
EXTENDS MetadataClusterLogs

\* Steps that leave logs and registries alone and bring no thread to "apply"
LEMMA LoggedKept ==
    ASSUME Logged, UNCHANGED <<log, topics>>,
           \A b \in Brokers, x \in Threads :
              thread'[b][x] = thread[b][x] \/ thread'[b][x].at # "apply"
    PROVE  Logged'
  BY DEF Logged, Current

\* A log only grows.
LEMMA AppendRange ==
    ASSUME NEW S, NEW s \in Seq(S), NEW e \in S
    PROVE  Range(s) \subseteq Range(Append(s, e)) /\ e \in Range(Append(s, e))
<1>1. /\ Append(s, e) \in Seq(S) /\ Len(Append(s, e)) = Len(s) + 1
      /\ Append(s, e)[Len(s) + 1] = e
      /\ \A i \in 1..Len(s) : Append(s, e)[i] = s[i]
  OBVIOUS
<1>2. DOMAIN s = 1..Len(s) /\ DOMAIN Append(s, e) = 1..(Len(s) + 1)
  BY <1>1
<1>3. 1..Len(s) \subseteq 1..(Len(s) + 1) /\ Len(s) + 1 \in 1..(Len(s) + 1)
  OBVIOUS
<1> QED
  BY <1>1, <1>2, <1>3 DEF Range

\* AppendRecord brings a thread to its apply, with the record now in the log.
LEMMA LoggedAppend ==
    ASSUME Types, Logged, NEW b \in Brokers, NEW x \in Threads, AppendRecord(b, x)
    PROVE  Logged'
<1>1. /\ thread[b][x].at = "append" /\ "apply" \in Steps
      /\ thread[b][x].todo \in Seq(Record) /\ thread[b][x].todo # <<>>
  BY DEF AppendRecord, At, Types, Thread, Busy, Steps
<1>2. Current(b, x) \in Record /\ Current(b, x) = Head(thread[b][x].todo)
  BY <1>1 DEF Current
<1>3. /\ thread'[b][x] = [at |-> "apply", todo |-> thread[b][x].todo]
      /\ \A c \in Brokers, y \in Threads : c # b \/ y # x => thread'[c][y] = thread[c][y]
  BY <1>1, GoThread DEF AppendRecord
<1>4. /\ log'[b] = Append(log[b], Current(b, x)) /\ topics' = topics
      /\ \A c \in Brokers \ {b} : log'[c] = log[c]
  BY DEF AppendRecord, Types, applyVars
<1>5. /\ \A c \in Brokers : Range(log[c]) \subseteq Range(log'[c])
      /\ Current(b, x) \in Range(log'[b])
  <2>1. /\ Range(log[b]) \subseteq Range(log'[b])
        /\ Current(b, x) \in Range(log'[b])
    BY <1>2, <1>4, AppendRange DEF Types
  <2> QED
    BY <1>4, <2>1
<1>6. ASSUME NEW c \in Brokers, NEW y \in Threads, thread'[c][y].at = "apply"
      PROVE  Current(c, y)' \in Range(log'[c])
  <2>1. CASE c = b /\ y = x
    BY <1>2, <1>3, <1>5, <2>1 DEF Current
  <2>2. CASE c # b \/ y # x
    BY <1>3, <1>5, <1>6, <2>2 DEF Logged, Current
  <2> QED
    BY <2>1, <2>2
<1>7. ASSUME NEW c \in Brokers, NEW t \in Topics, topics'[c][t] # NoTopic
      PROVE  [topic |-> t, partitions |-> topics'[c][t]] \in Range(log'[c])
  BY <1>4, <1>5, <1>7 DEF Logged
<1> QED
  BY <1>6, <1>7 DEF Logged

\* ApplyMetadataRecord registers a record that its thread has logged.
LEMMA LoggedApply ==
    ASSUME Types, Logged, NEW b \in Brokers, NEW x \in Threads, ApplyMetadataRecord(b, x)
    PROVE  Logged'
<1> DEFINE r == Current(b, x)
<1>1. /\ thread[b][x].at = "apply" /\ "stop" \in Steps
      /\ thread[b][x].todo \in Seq(Record) /\ thread[b][x].todo # <<>>
      /\ thread[b][x].at \in Busy
  BY DEF ApplyMetadataRecord, At, Types, Thread, Busy, Applying, Steps
<1>2. r \in Record /\ r \in Range(log[b])
  BY <1>1 DEF Current, Logged
<1>3. /\ thread'[b][x].at # "apply"
      /\ \A c \in Brokers, y \in Threads : c # b \/ y # x => thread'[c][y] = thread[c][y]
  <2>1. CASE NextRecord(b, x)
    BY <1>1, <2>1, NextThread
  <2>2. CASE Go(b, x, "stop", thread[b][x].todo)
    <3>1. thread'[b][x] = [at |-> "stop", todo |-> thread[b][x].todo]
          /\ \A c \in Brokers, y \in Threads : c # b \/ y # x => thread'[c][y] = thread[c][y]
      BY <1>1, <2>2, GoThread
    <3> QED
      BY <3>1
  <2> QED
    BY <2>1, <2>2 DEF ApplyMetadataRecord
<1>4. topics' = [topics EXCEPT ![b][r.topic] = r.partitions] /\ log' = log
  BY DEF ApplyMetadataRecord, clusterVars
<1> HIDE DEF r
<1>5. ASSUME NEW c \in Brokers, NEW y \in Threads, thread'[c][y].at = "apply"
      PROVE  Current(c, y)' \in Range(log'[c])
  BY <1>3, <1>4, <1>5 DEF Logged, Current
<1>6. ASSUME NEW c \in Brokers, NEW t \in Topics, topics'[c][t] # NoTopic
      PROVE  [topic |-> t, partitions |-> topics'[c][t]] \in Range(log'[c])
  <2>1. CASE c = b /\ t = r.topic
    <3>1. topics'[c][t] = r.partitions
      BY <1>4, <2>1 DEF Types
    <3>2. r = [topic |-> t, partitions |-> r.partitions]
      BY <1>2, <2>1 DEF Record
    <3> QED
      BY <1>2, <1>4, <2>1, <3>1, <3>2
  <2>2. CASE c # b \/ t # r.topic
    <3>1. topics'[c][t] = topics[c][t]
      BY <1>4, <2>2 DEF Types
    <3> QED
      BY <1>4, <1>6, <3>1 DEF Logged
  <2> QED
    BY <2>1, <2>2
<1> QED
  BY <1>5, <1>6 DEF Logged

\* Every step keeps Logged: a failed append skips the apply, a restart replays
\* the log.
LEMMA LoggedStep ==
    ASSUME Types, Flow, Logged, Next
    PROVE  Logged'
<1>h. /\ "follower" \in Threads /\ "monitor" \in Threads /\ Handlers \subseteq Threads
  BY DEF Threads
<1>g. ASSUME NEW b \in Brokers, NEW x \in Threads, NEW at, NEW todo, at # "apply",
             Go(b, x, at, todo), UNCHANGED <<log, topics>>
      PROVE  Logged'
  <2>1. thread' = [thread EXCEPT ![b][x] = [at |-> at, todo |-> todo]]
    BY <1>g DEF Go
  <2>2. \A c \in Brokers, y \in Threads :
           thread'[c][y] = thread[c][y] \/ thread'[c][y].at # "apply"
    BY <1>g, <2>1 DEF Types
  <2> QED
    BY <1>g, <2>2, LoggedKept
<1>n. ASSUME NEW b \in Brokers, NEW x \in Threads, NextRecord(b, x), UNCHANGED <<log, topics>>
      PROVE  Logged'
  <2>1. \E at \in {"idle", "append"} : Go(b, x, at, Tail(thread[b][x].todo))
    BY <1>n DEF NextRecord
  <2> QED
    BY <1>g, <1>n, <2>1
<1>1. ASSUME NEW b \in Brokers, NEW h \in Handlers, NEW t \in Topics, NEW partitions,
             Decide(b, h, t, partitions)
      PROVE  Logged'
  <2>1. /\ Go(b, h, "append", <<[topic |-> t, partitions |-> partitions]>>)
        /\ UNCHANGED <<log, topics>>
    BY <1>1 DEF Decide, applyVars
  <2> QED
    BY <1>g, <1>h, <2>1
<1>2. ASSUME NEW b \in Brokers, NEW x \in Threads, AppendFails(b, x)
      PROVE  Logged'
  <2>1. (Go(b, x, "idle", <<>>) \/ NextRecord(b, x)) /\ UNCHANGED <<log, topics>>
    BY <1>2 DEF AppendFails, applyVars
  <2> QED
    BY <1>g, <1>n, <2>1
<1>3. ASSUME NEW b \in Brokers, NEW x \in Threads,
             StopFollowing(b, x) \/ StartFollowing(b, x) \/ Lead(b, x)
      PROVE  Logged'
  <2>1. /\ \/ \E at \in {"start", "lead"} : Go(b, x, at, thread[b][x].todo)
           \/ NextRecord(b, x)
        /\ UNCHANGED <<log, topics>>
    BY <1>3 DEF StopFollowing, StartFollowing, Lead, clusterVars
  <2> QED
    BY <1>g, <1>n, <2>1
<1>4. ASSUME NEW b \in Brokers, NEW p \in Brokers, RecordMiss(b, p) \/ RecordSuccess(b, p)
      PROVE  Logged'
  <2>1. /\ UNCHANGED thread \/ \E todo : Go(b, "monitor", "append", todo)
        /\ UNCHANGED <<log, topics>>
    BY <1>4 DEF RecordMiss, RecordSuccess, clusterVars, applyVars
  <2> QED
    BY <1>g, <1>h, <2>1, LoggedKept
<1>5. ASSUME NEW b \in Brokers, FetchSend(b) \/ FetchServed(b)
      PROVE  Logged'
  <2>1. /\ \E at \in {"sent", "idle", "append"} : \E todo : Go(b, "follower", at, todo)
        /\ UNCHANGED <<log, topics>>
    BY <1>5 DEF FetchSend, FetchServed, clusterVars, applyVars
  <2> QED
    BY <1>g, <1>h, <2>1
<1>6. ASSUME NEW b \in Brokers, Crash(b)
      PROVE  Logged'
  <2>1. log' = log /\ topics' = [topics EXCEPT ![b] = [t \in Topics |-> NoTopic]]
    BY <1>6 DEF Crash
  <2>2. ASSUME NEW c \in Brokers, NEW y \in Threads
        PROVE  thread'[c][y] \in {Idle, thread[c][y]}
    BY <1>6 DEF Crash, Types
  <2>3. ASSUME NEW c \in Brokers, NEW y \in Threads, thread'[c][y].at = "apply"
        PROVE  Current(c, y)' \in Range(log'[c])
    <3>1. thread'[c][y] = thread[c][y]
      BY <2>2, <2>3 DEF Idle
    <3> QED
      BY <2>1, <2>3, <3>1 DEF Logged, Current
  <2>4. ASSUME NEW c \in Brokers, NEW t \in Topics, topics'[c][t] # NoTopic
        PROVE  [topic |-> t, partitions |-> topics'[c][t]] \in Range(log'[c])
    <3>1. topics'[c][t] = topics[c][t]
      BY <2>1, <2>4 DEF Types
    <3> QED
      BY <2>1, <2>4, <3>1 DEF Logged
  <2> QED
    BY <2>3, <2>4 DEF Logged
<1>7. ASSUME NEW b \in Brokers, Restart(b)
      PROVE  Logged'
  <2>1. /\ UNCHANGED <<log, thread>>
        /\ topics' = [topics EXCEPT ![b] = ReplayTopics(log[b])]
    BY <1>7 DEF Restart
  <2>2. ASSUME NEW c \in Brokers, NEW t \in Topics, topics'[c][t] # NoTopic
        PROVE  [topic |-> t, partitions |-> topics'[c][t]] \in Range(log'[c])
    <3>1. CASE c = b
      <4>1. log[b] \in Seq(Record) /\ topics'[b] = ReplayTopics(log[b])
        BY <2>1 DEF Types
      <4> QED
        BY <2>1, <2>2, <3>1, <4>1, ReplayTypes
    <3>2. CASE c # b
      BY <2>1, <2>2, <3>2 DEF Logged, Types
    <3> QED
      BY <3>1, <3>2
  <2> QED
    BY <2>1, <2>2 DEF Logged, Current
<1> QED
  BY <1>1, <1>2, <1>3, <1>4, <1>5, <1>6, <1>7, LoggedAppend, LoggedApply
     DEF Next, Step, CreateTopic, DeleteTopic
-----------------------------------------------------------------------------
(* Theorems                                                                *)

\* Types, Flow and Logged hold in every reachable state.
THEOREM ClusterInvariant == Spec => [](Types /\ Flow /\ Logged)
<1>1. Init => Types /\ Flow /\ Logged
  BY InitTypes
<1>2. Types /\ Flow /\ Logged /\ [Next]_vars => (Types /\ Flow /\ Logged)'
  <2>1. CASE Next
    BY <2>1, TypesStep, FlowStep, LoggedStep
  <2>2. CASE UNCHANGED vars
    BY <2>2 DEF Types, Flow, Logged, Current, vars, clusterVars, viewVars, applyVars
  <2> QED
    BY <2>1, <2>2
<1> QED
  BY <1>1, <1>2, PTL DEF Spec

\* As long as one broker decides, every other metadata log is a prefix of its
\* log (metadatafollower.go:52-96), whatever the number of brokers, crashes,
\* restarts and wrong suspicions.
THEOREM SingleWriter == Spec => []SingleWriterPrefix
<1>1. Types /\ Flow => SingleWriterPrefix
  <2> SUFFICES ASSUME Types, Flow, NEW w \in writers, writers = {w}, NEW b \in Brokers
               PROVE  IsPrefix(log[b], log[w])
    BY DEF SingleWriterPrefix
  <2> DEFINE p == Pending(thread[b]["follower"])
  <2>1. w \in Brokers /\ log[w] \in Seq(Record) /\ log[b] \in Seq(Record)
    BY DEF Types, Flow
  <2>2. CASE b = w
    BY <2>1, <2>2 DEF IsPrefix
  <2>3. CASE b # w
    <3>1. Before(log[b] \o p, log[w])
      BY <2>1, <2>3 DEF Flow
    <3>2. thread[b]["follower"] \in Thread
          /\ (thread[b]["follower"].at \in Busy => thread[b]["follower"].todo # <<>>)
      BY DEF Types, Threads
    <3>3. p \in Seq(Record)
      BY <3>2, PendingType
    <3> HIDE DEF p
    <3> QED
      BY <2>1, <3>1, <3>3, BeforeHead, BeforeIsPrefix
  <2> QED
    BY <2>2, <2>3
<1> QED
  BY <1>1, ClusterInvariant, PTL

\* A broker serves no metadata that a crash could take back: its registry is
\* in its log (create_topics.go:86-89, failover.go:43-47).
THEOREM RegistryIsLogged == Spec => []AppliedIsLogged
<1>1. Types /\ Logged => AppliedIsLogged
  BY DEF Types, Logged, AppliedIsLogged
<1> QED
  BY <1>1, ClusterInvariant, PTL
=============================================================================
