------------------------ MODULE MetadataClusterTypes ------------------------
(***************************************************************************)
(* MetadataCluster keeps its types; the invariants hold initially.         *)
(***************************************************************************)
EXTENDS MetadataClusterFacts

\* Brokers start with equal logs, registries replayed from them and idle threads.
LEMMA InitTypes ==
    ASSUME Init
    PROVE  Types /\ Flow /\ Logged
<1>1. PICK known \in SUBSET Topics : Start(known)
  BY DEF Init
<1> DEFINE S == {[topic |-> t, partitions |-> Created] : t \in known}
           records == SetToSeq(S)
<1>2. records \in Seq(Record)
  <2> DEFINE f == [t \in known |-> Created]
  <2>1. f \in [known -> TopicState] /\ S = {[topic |-> t, partitions |-> f[t]] : t \in known}
    BY CreatedType
  <2>2. S \in SUBSET Record /\ IsFiniteSet(S)
    <3> HIDE DEF f, S
    <3> QED BY <2>1, PerTopic
  <2> HIDE DEF S
  <2> QED
    BY <2>2, SetToSeqType
<1>3. /\ log = [b \in Brokers |-> records]
      /\ topics = [b \in Brokers |-> ReplayTopics(records)]
      /\ up = Brokers /\ alive = [b \in Brokers |-> Brokers]
      /\ thread = [b \in Brokers |-> [x \in Threads |-> Idle]]
      /\ request = [b \in Brokers |-> [controller |-> NoLeader, offset |-> 0]]
      /\ writers = {}
  BY <1>1 DEF Start
<1> HIDE DEF records
<1>4. Types
  <2>1. Idle \in Thread /\ Idle.at \notin Busy
    BY DEF Idle, Thread, Steps, Busy, Applying
  <2>2. topics \in [Brokers -> [Topics -> TopicState \cup {NoTopic}]]
    BY <1>2, <1>3, ReplayTypes
  <2> QED
    BY <1>2, <1>3, <2>1, <2>2 DEF Types
<1>5. Flow
  <2>1. \A b \in Brokers : thread[b]["follower"] = Idle /\ log[b] = records
    BY <1>3 DEF Threads
  <2>2. Pending(Idle) = <<>>
    BY DEF Pending, Idle, Applying
  <2>3. records \o <<>> = records
    BY <1>2
  <2>4. Before(records, records)
    BY <1>2 DEF Before
  <2>5. ASSUME NEW b \in Brokers, NEW w \in Brokers
        PROVE  Before(log[b] \o Pending(thread[b]["follower"]), log[w])
    <3>1. log[b] \o Pending(thread[b]["follower"]) = records /\ log[w] = records
      BY <2>1, <2>2, <2>3
    <3> QED
      BY <2>4, <3>1
  <2>6. \A b \in Brokers : thread[b]["follower"].at = "idle"
    BY <2>1 DEF Idle
  <2> QED
    BY <1>3, <2>5, <2>6 DEF Flow
<1>6. Logged
  <2>1. \A b \in Brokers, x \in Threads : thread[b][x].at = "idle"
    BY <1>3 DEF Idle
  <2>2. ASSUME NEW b \in Brokers, NEW t \in Topics, topics[b][t] # NoTopic
        PROVE  [topic |-> t, partitions |-> topics[b][t]] \in Range(log[b])
    <3>1. topics[b] = ReplayTopics(records) /\ log[b] = records
      BY <1>3
    <3> QED
      BY <1>2, <2>2, <3>1, ReplayTypes
  <2>3. \A b \in Brokers, x \in Threads :
           thread[b][x].at = "apply" => Current(b, x) \in Range(log[b])
    BY <2>1
  <2> QED
    BY <2>2, <2>3 DEF Logged
<1> QED
  BY <1>4, <1>5, <1>6

\* A step of one thread
LEMMA GoThread ==
    ASSUME Types, NEW b \in Brokers, NEW x \in Threads,
           NEW at \in Steps, NEW todo \in Seq(Record),
           at \in Busy => todo # <<>>, Go(b, x, at, todo)
    PROVE  /\ thread' \in [Brokers -> [Threads -> Thread]]
           /\ \A c \in Brokers, y \in Threads :
                 thread'[c][y].at \in Busy => thread'[c][y].todo # <<>>
           /\ \A c \in Brokers, y \in Threads : c # b \/ y # x =>
                 thread'[c][y] = thread[c][y]
           /\ thread'[b][x] = [at |-> at, todo |-> todo]
<1> DEFINE new == [at |-> at, todo |-> todo]
<1>1. new \in Thread /\ (new.at \in Busy => new.todo # <<>>)
  BY DEF Thread
<1> HIDE DEF new
<1>2. thread' = [thread EXCEPT ![b][x] = new]
  BY DEF Go, new
<1>3. thread' \in [Brokers -> [Threads -> Thread]]
  BY <1>1, <1>2 DEF Types
<1>4. /\ thread'[b][x] = new
      /\ \A c \in Brokers, y \in Threads : c # b \/ y # x =>
            thread'[c][y] = thread[c][y]
  BY <1>2 DEF Types
<1>5. ASSUME NEW c \in Brokers, NEW y \in Threads
      PROVE  thread'[c][y].at \in Busy => thread'[c][y].todo # <<>>
  <2>1. CASE c = b /\ y = x
    BY <1>1, <1>4, <2>1
  <2>2. CASE c # b \/ y # x
    BY <1>4, <2>2 DEF Types
  <2> QED
    BY <2>1, <2>2
<1> QED
  BY <1>3, <1>4, <1>5 DEF new

\* A thread done with a record goes on to the next one, or rests.
LEMMA NextThread ==
    ASSUME Types, NEW b \in Brokers, NEW x \in Threads,
           thread[b][x].at \in Busy, NextRecord(b, x)
    PROVE  /\ thread' \in [Brokers -> [Threads -> Thread]]
           /\ \A c \in Brokers, y \in Threads :
                 thread'[c][y].at \in Busy => thread'[c][y].todo # <<>>
           /\ \A c \in Brokers, y \in Threads : c # b \/ y # x =>
                 thread'[c][y] = thread[c][y]
           /\ thread'[b][x].todo = Tail(thread[b][x].todo)
           /\ thread'[b][x].at =
                 IF Tail(thread[b][x].todo) = <<>> THEN "idle" ELSE "append"
<1> DEFINE rest == Tail(thread[b][x].todo)
           at == IF rest = <<>> THEN "idle" ELSE "append"
<1>1. rest \in Seq(Record)
  BY DEF Types, Thread
<1>2. at \in Steps /\ (at \in Busy => rest # <<>>)
  BY DEF Steps, Busy, Applying
<1>3. Go(b, x, at, rest)
  BY DEF NextRecord
<1> HIDE DEF at, rest
<1>4. thread'[b][x] = [at |-> at, todo |-> rest]
  BY <1>1, <1>2, <1>3, GoThread
<1>5. /\ thread' \in [Brokers -> [Threads -> Thread]]
      /\ \A c \in Brokers, y \in Threads :
            thread'[c][y].at \in Busy => thread'[c][y].todo # <<>>
      /\ \A c \in Brokers, y \in Threads : c # b \/ y # x =>
            thread'[c][y] = thread[c][y]
  BY <1>1, <1>2, <1>3, GoThread
<1> QED
  BY <1>4, <1>5 DEF at, rest

\* Every step keeps the types.
LEMMA TypesStep ==
    ASSUME Types, Flow, Next
    PROVE  Types'
<1> DEFINE ThreadsTyped ==
              /\ thread' \in [Brokers -> [Threads -> Thread]]
              /\ \A c \in Brokers, y \in Threads :
                    thread'[c][y].at \in Busy => thread'[c][y].todo # <<>>
<1>h. /\ Handlers \subseteq Threads /\ "monitor" \in Threads /\ "follower" \in Threads
      /\ Busy \subseteq Steps /\ {"idle", "sent"} \subseteq Steps \ Busy
      /\ "append" \in Busy /\ Applying \subseteq Busy
      /\ {"apply", "stop", "start", "lead"} = Applying
  BY DEF Threads, Busy, Steps, Applying
<1>e. <<>> \in Seq(Record)
  OBVIOUS
<1>a. ASSUME NEW b \in Brokers, NEW x \in Threads, thread[b][x].at \in Busy
      PROVE  /\ thread[b][x].todo \in Seq(Record) /\ thread[b][x].todo # <<>>
             /\ Current(b, x) \in Record
  <2>1. thread[b][x].todo \in Seq(Record) /\ thread[b][x].todo # <<>>
    BY <1>a DEF Types, Thread
  <2> QED
    BY <2>1 DEF Current
<1>1. ASSUME NEW b \in Brokers, NEW h \in Handlers, NEW t \in Topics,
             NEW partitions \in TopicState \cup {NoTopic}, Decide(b, h, t, partitions)
      PROVE  Types'
  <2> DEFINE todo == <<[topic |-> t, partitions |-> partitions]>>
  <2>1. todo \in Seq(Record) /\ todo # <<>>
    BY DEF Record
  <2>2. Go(b, h, "append", todo)
    BY <1>1 DEF Decide
  <2> HIDE DEF todo
  <2>3. ThreadsTyped
    BY <1>h, <2>1, <2>2, GoThread
  <2>4. UNCHANGED <<up, alive, log, topics, request>>
    BY <1>1 DEF Decide, viewVars, applyVars
  <2> QED
    BY <2>3, <2>4 DEF Types
<1>2. ASSUME NEW b \in Brokers, NEW x \in Threads, AppendRecord(b, x)
      PROVE  Types'
  <2>1. thread[b][x].at = "append" /\ Go(b, x, "apply", thread[b][x].todo)
        /\ log' = [log EXCEPT ![b] = Append(@, Current(b, x))]
    BY <1>2 DEF AppendRecord, At
  <2>2. ThreadsTyped
    BY <1>a, <1>h, <2>1, GoThread
  <2>3. log' \in [Brokers -> Seq(Record)]
    BY <1>a, <1>h, <2>1 DEF Types
  <2>4. UNCHANGED <<up, alive, topics, request>>
    BY <1>2 DEF AppendRecord, viewVars, applyVars
  <2> QED
    BY <2>2, <2>3, <2>4 DEF Types
<1>3. ASSUME NEW b \in Brokers, NEW x \in Threads, AppendFails(b, x)
      PROVE  Types'
  <2>1. thread[b][x].at = "append" /\ (Go(b, x, "idle", <<>>) \/ NextRecord(b, x))
    BY <1>3 DEF AppendFails, At
  <2>2. ThreadsTyped
    <3>1. CASE Go(b, x, "idle", <<>>)
      BY <1>e, <1>h, <3>1, GoThread
    <3>2. CASE NextRecord(b, x)
      BY <1>h, <2>1, <3>2, NextThread
    <3> QED
      BY <2>1, <3>1, <3>2
  <2>3. UNCHANGED <<up, alive, log, topics, request>>
    BY <1>3 DEF AppendFails, viewVars, applyVars
  <2> QED
    BY <2>2, <2>3 DEF Types
<1>4. ASSUME NEW b \in Brokers, NEW x \in Threads, ApplyMetadataRecord(b, x)
      PROVE  Types'
  <2>1. thread[b][x].at = "apply"
        /\ (Go(b, x, "stop", thread[b][x].todo) \/ NextRecord(b, x))
        /\ topics' = [topics EXCEPT ![b][Current(b, x).topic] = Current(b, x).partitions]
    BY <1>4 DEF ApplyMetadataRecord, At
  <2>2. ThreadsTyped
    <3>1. CASE Go(b, x, "stop", thread[b][x].todo)
      BY <1>a, <1>h, <2>1, <3>1, GoThread
    <3>2. CASE NextRecord(b, x)
      BY <1>h, <2>1, <3>2, NextThread
    <3> QED
      BY <2>1, <3>1, <3>2
  <2>3. Current(b, x).partitions \in TopicState \cup {NoTopic}
    BY <1>a, <1>h, <2>1 DEF Record
  <2>4. topics' \in [Brokers -> [Topics -> TopicState \cup {NoTopic}]]
    BY <2>1, <2>3 DEF Types
  <2>5. UNCHANGED <<up, alive, log, request>>
    BY <1>4 DEF ApplyMetadataRecord, viewVars, clusterVars
  <2> QED
    BY <2>2, <2>4, <2>5 DEF Types
<1>5. ASSUME NEW b \in Brokers, NEW x \in Threads,
             StopFollowing(b, x) \/ StartFollowing(b, x) \/ Lead(b, x)
      PROVE  Types'
  <2>1. /\ thread[b][x].at \in Applying
        /\ \/ \E at \in {"start", "lead"} : Go(b, x, at, thread[b][x].todo)
           \/ NextRecord(b, x)
    BY <1>5 DEF StopFollowing, StartFollowing, Lead, At, Applying
  <2>2. ThreadsTyped
    <3>1. ASSUME NEW at \in {"start", "lead"}, Go(b, x, at, thread[b][x].todo)
          PROVE  ThreadsTyped
      BY <1>a, <1>h, <2>1, <3>1, GoThread
    <3>2. CASE NextRecord(b, x)
      BY <1>h, <2>1, <3>2, NextThread
    <3> QED
      BY <2>1, <3>1, <3>2
  <2>3. UNCHANGED <<up, alive, log, topics, request>>
    BY <1>5 DEF StopFollowing, StartFollowing, Lead, viewVars, clusterVars
  <2> QED
    BY <2>2, <2>3 DEF Types
<1>6. ASSUME NEW b \in Brokers, NEW p \in Brokers, RecordMiss(b, p)
      PROVE  Types'
  <2> DEFINE n == Min({misses[b][p] + 1, FailAfter})
             down == n >= FailAfter /\ p \in alive[b]
             live == alive[b] \ {p}
             records == IF down THEN OnPeerDown(b, p, live) ELSE {}
  <2>1. /\ IF records = {} THEN UNCHANGED thread
           ELSE \E todo \in SetToSeqs(records) : Go(b, "monitor", "append", todo)
        /\ alive' = [alive EXCEPT ![b] = IF down THEN @ \ {p} ELSE @]
        /\ UNCHANGED <<up, log, topics, request>>
    BY <1>6 DEF RecordMiss, applyVars
  <2>2. records \in SUBSET Record /\ IsFiniteSet(records)
    <3> DEFINE K == {t \in Topics : topics[b][t] # NoTopic
                                     /\ Reassigned(topics[b][t], p, live) # topics[b][t]}
               f == [t \in K |-> Reassigned(topics[b][t], p, live)]
               S == {[topic |-> t, partitions |-> f[t]] : t \in K}
    <3>1. \A t \in K : topics[b][t] \in TopicState
      BY DEF Types
    <3>2. K \in SUBSET Topics /\ f \in [K -> TopicState]
      BY <3>1, ReassignedType
    <3>3. S \in SUBSET Record /\ IsFiniteSet(S)
      <4> HIDE DEF K, f
      <4> QED BY <3>2, PerTopic
    <3>4. records = {} \/ records = S
      BY DEF OnPeerDown
    <3> HIDE DEF records, S
    <3> QED
      BY <3>3, <3>4, FS_EmptySet
  <2>3. alive' \in [Brokers -> SUBSET Brokers]
    <3> HIDE DEF down
    <3> QED BY <2>1 DEF Types
  <2> HIDE DEF records, down
  <2>4. ThreadsTyped
    <3>1. CASE records = {}
      BY <2>1, <3>1 DEF Types
    <3>2. CASE records # {}
      <4>1. PICK todo \in SetToSeqs(records) : Go(b, "monitor", "append", todo)
        BY <2>1, <3>2
      <4>2. todo \in Seq(Record) /\ todo # <<>>
        BY <2>2, <3>2, SetToSeqsType
      <4> QED
        BY <1>h, <4>1, <4>2, GoThread
    <3> QED
      BY <3>1, <3>2
  <2> QED
    BY <2>1, <2>3, <2>4 DEF Types
<1>7. ASSUME NEW b \in Brokers, NEW p \in Brokers, RecordSuccess(b, p)
      PROVE  Types'
  <2>1. alive' = [alive EXCEPT ![b] = @ \cup {p}] /\ UNCHANGED <<up, log, topics, thread, request>>
    BY <1>7 DEF RecordSuccess, clusterVars, applyVars
  <2>2. alive' \in [Brokers -> SUBSET Brokers]
    BY <2>1 DEF Types
  <2> QED
    BY <2>1, <2>2 DEF Types
<1>8. ASSUME NEW b \in Brokers, FetchSend(b)
      PROVE  Types'
  <2>1. PICK c \in up :
           /\ request' = [request EXCEPT ![b] = [controller |-> c, offset |-> Len(log[b])]]
           /\ Go(b, "follower", "sent", <<>>)
           /\ UNCHANGED <<up, alive, log, topics>>
    BY <1>8 DEF FetchSend, clusterVars, viewVars, applyVars
  <2>2. ThreadsTyped
    BY <1>e, <1>h, <2>1, GoThread
  <2>3. c \in Brokers /\ Len(log[b]) \in Nat
    BY DEF Types
  <2>4. request' \in [Brokers -> [controller : Brokers \cup {NoLeader}, offset : Nat]]
    BY <2>1, <2>3 DEF Types
  <2> QED
    BY <2>1, <2>2, <2>4 DEF Types
<1>9. ASSUME NEW b \in Brokers, FetchServed(b)
      PROVE  Types'
  <2> DEFINE from == log[request[b].controller]
             payloads == SubSeq(from, request[b].offset + 1, Len(from))
             at == IF payloads = <<>> THEN "idle" ELSE "append"
  <2>1. Go(b, "follower", at, payloads) /\ UNCHANGED <<up, alive, log, topics>>
        /\ request' = [request EXCEPT ![b] = [controller |-> NoLeader, offset |-> 0]]
    BY <1>9 DEF FetchServed, clusterVars, viewVars, applyVars
  <2>2. payloads \in Seq(Record)
    <3>1. request[b].controller \in Brokers
      BY <1>9 DEF Flow, FetchServed, At
    <3>2. from \in Seq(Record) /\ request[b].offset \in Nat
      BY <3>1 DEF Types
    <3> HIDE DEF from
    <3>3. \A i \in (request[b].offset + 1)..Len(from) : from[i] \in Record
      BY <3>2
    <3> QED
      BY <3>2, <3>3
  <2>3. at \in Steps /\ (at \in Busy => payloads # <<>>)
    BY <1>h
  <2> HIDE DEF at, payloads
  <2>4. ThreadsTyped
    BY <1>h, <2>1, <2>2, <2>3, GoThread
  <2>5. request' \in [Brokers -> [controller : Brokers \cup {NoLeader}, offset : Nat]]
    BY <2>1 DEF Types
  <2> QED
    BY <2>1, <2>4, <2>5 DEF Types
<1>10. ASSUME NEW b \in Brokers, Crash(b)
       PROVE  Types'
  <2> DEFINE none == [controller |-> NoLeader, offset |-> 0]
  <2>1. /\ \A c \in Brokers : thread'[c] \in
               {[x \in Threads |-> Idle], [thread[c] EXCEPT !["follower"] = Idle], thread[c]}
        /\ thread' = [c \in Brokers |-> thread'[c]]
        /\ \A c \in Brokers : request'[c] \in {none, request[c]}
        /\ request' = [c \in Brokers |-> request'[c]]
    BY <1>10 DEF Crash
  <2>2. /\ up' = up \ {b} /\ log' = log
        /\ alive' = [alive EXCEPT ![b] = Brokers]
        /\ topics' = [topics EXCEPT ![b] = [t \in Topics |-> NoTopic]]
    BY <1>10 DEF Crash
  <2>3. Idle \in Thread /\ Idle.at \notin Busy
    BY DEF Idle, Thread, Steps, Busy, Applying
  <2>4. ASSUME NEW c \in Brokers
        PROVE  /\ thread'[c] \in [Threads -> Thread]
               /\ \A y \in Threads : thread'[c][y] \in {Idle, thread[c][y]}
    <3>1. thread[c] \in [Threads -> Thread]
      BY DEF Types
    <3> DEFINE cut == [thread[c] EXCEPT !["follower"] = Idle]
               lost == [x \in Threads |-> Idle]
    <3>2. cut \in [Threads -> Thread] /\ \A y \in Threads : cut[y] \in {Idle, thread[c][y]}
      BY <2>3, <3>1
    <3>3. lost \in [Threads -> Thread] /\ \A y \in Threads : lost[y] = Idle
      BY <2>3
    <3>4. thread'[c] \in {lost, cut, thread[c]}
      BY <2>1
    <3> HIDE DEF cut, lost
    <3> QED
      BY <3>1, <3>2, <3>3, <3>4
  <2>5. ThreadsTyped
    <3>1. ASSUME NEW c \in Brokers, NEW y \in Threads
          PROVE  thread'[c][y].at \in Busy => thread'[c][y].todo # <<>>
      <4>1. CASE thread'[c][y] = Idle
        BY <2>3, <4>1
      <4>2. CASE thread'[c][y] = thread[c][y]
        BY <4>2 DEF Types
      <4> QED
        BY <2>4, <4>1, <4>2
    <3> QED
      BY <2>1, <2>4, <3>1
  <2>6. request' \in [Brokers -> [controller : Brokers \cup {NoLeader}, offset : Nat]]
    <3>1. none \in [controller : Brokers \cup {NoLeader}, offset : Nat]
      OBVIOUS
    <3> HIDE DEF none
    <3> QED
      BY <2>1, <3>1 DEF Types
  <2>7. /\ alive' \in [Brokers -> SUBSET Brokers] /\ up' \in SUBSET Brokers
        /\ topics' \in [Brokers -> [Topics -> TopicState \cup {NoTopic}]]
    BY <2>2 DEF Types
  <2> QED
    BY <2>2, <2>5, <2>6, <2>7 DEF Types
<1>11. ASSUME NEW b \in Brokers, Restart(b)
       PROVE  Types'
  <2>1. /\ up' = up \cup {b}
        /\ topics' = [topics EXCEPT ![b] = ReplayTopics(log[b])]
        /\ UNCHANGED <<alive, log, thread, request>>
    BY <1>11 DEF Restart, viewVars
  <2>2. ReplayTopics(log[b]) \in [Topics -> TopicState \cup {NoTopic}]
    BY ReplayTypes DEF Types
  <2>3. topics' \in [Brokers -> [Topics -> TopicState \cup {NoTopic}]]
    BY <2>1, <2>2 DEF Types
  <2> QED
    BY <2>1, <2>3 DEF Types
<1> QED
  BY <1>1, <1>2, <1>3, <1>4, <1>5, <1>6, <1>7, <1>8, <1>9, <1>10, <1>11, CreatedType
     DEF Next, Step, CreateTopic, DeleteTopic
=============================================================================
