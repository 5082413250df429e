------------------------ MODULE MetadataClusterLogs -------------------------
(***************************************************************************)
(* The metadata logs: every step of MetadataCluster keeps Flow, so that the*)
(* records a follower has fetched continue its log up to the only writer's.*)
(***************************************************************************)
EXTENDS MetadataClusterTypes

\* What a follower has still to append is a list of records.
LEMMA PendingType ==
    ASSUME NEW f \in Thread, f.at \in Busy => f.todo # <<>>
    PROVE  Pending(f) \in Seq(Record)
<1>1. f.todo \in Seq(Record)
  BY DEF Thread
<1>2. f.at \in Applying => Tail(f.todo) \in Seq(Record)
  BY <1>1 DEF Busy
<1> QED
  BY <1>1, <1>2 DEF Pending

\* Steps that leave the logs alone: every follower goes on, drops what it
\* fetched or takes its next record.
LEMMA FlowKept ==
    ASSUME Types, Flow, log' = log, writers' = writers,
           \A b \in Brokers :
              \/ thread'[b]["follower"] = thread[b]["follower"] /\ request'[b] = request[b]
              \/ /\ thread'[b]["follower"].at # "sent"
                 /\ Pending(thread'[b]["follower"])
                       \in {Pending(thread[b]["follower"]), <<>>}
    PROVE  Flow'
<1>1. ASSUME NEW b \in Brokers, thread'[b]["follower"].at = "sent"
      PROVE  /\ request'[b].controller \in Brokers
             /\ b \notin writers' => request'[b].offset = Len(log'[b])
  <2>1. thread'[b]["follower"] = thread[b]["follower"] /\ request'[b] = request[b]
    BY <1>1
  <2> QED
    BY <1>1, <2>1 DEF Flow
<1>2. ASSUME NEW w \in Brokers, writers' \subseteq {w}, NEW b \in Brokers \ {w}
      PROVE  Before(log'[b] \o Pending(thread'[b]["follower"]), log'[w])
  <2> DEFINE f == thread[b]["follower"]
             p == Pending(thread'[b]["follower"])
  <2>1. Before(log[b] \o Pending(f), log[w])
    BY <1>2 DEF Flow
  <2>2. f \in Thread /\ (f.at \in Busy => f.todo # <<>>)
    BY DEF Types, Threads
  <2>3. log[b] \in Seq(Record) /\ log[w] \in Seq(Record) /\ log[b] \o <<>> = log[b]
    BY DEF Types
  <2>4. p \in {Pending(f), <<>>}
    OBVIOUS
  <2> HIDE DEF f, p
  <2>5. Pending(f) \in Seq(Record)
    BY <2>2, PendingType
  <2>6. Before(log[b], log[w])
    BY <2>1, <2>3, <2>5, BeforeHead
  <2>7. Before(log[b] \o p, log[w])
    BY <2>1, <2>3, <2>4, <2>6
  <2> QED
    BY <2>7 DEF p
<1> QED
  BY <1>1, <1>2 DEF Flow

\* AppendRecord: a follower appends what it has fetched, so log and rest stay
\* the same together; a decider's log only gets longer, or there are two.
LEMMA FlowAppend ==
    ASSUME Types, Flow, NEW b \in Brokers, NEW x \in Threads, AppendRecord(b, x)
    PROVE  Flow'
<1> DEFINE t == thread[b][x]
           F(c) == thread[c]["follower"]
<1>1. /\ t.at = "append" /\ t \in Thread /\ t.todo \in Seq(Record) /\ t.todo # <<>>
      /\ "apply" \in Steps /\ "follower" \in Threads
  BY DEF AppendRecord, At, Types, Thread, Busy, Steps, Threads
<1>2. Current(b, x) \in Record /\ Current(b, x) = Head(t.todo)
  BY <1>1 DEF Current
<1>3. /\ thread'[b][x] = [at |-> "apply", todo |-> t.todo]
      /\ \A c \in Brokers, y \in Threads : c # b \/ y # x => thread'[c][y] = thread[c][y]
  BY <1>1, GoThread DEF AppendRecord
<1>4. /\ log'[b] = Append(log[b], Current(b, x))
      /\ \A c \in Brokers \ {b} : log'[c] = log[c]
      /\ request' = request
      /\ writers' = IF x = "follower" THEN writers ELSE writers \cup {b}
  BY DEF AppendRecord, Types
<1>5. \A c \in Brokers : log[c] \in Seq(Record) /\ Pending(F(c)) \in Seq(Record)
  <2>1. ASSUME NEW c \in Brokers
        PROVE  F(c) \in Thread /\ (F(c).at \in Busy => F(c).todo # <<>>)
    BY <1>1 DEF Types
  <2> QED
    BY <2>1, PendingType DEF Types
<1>6. ASSUME NEW c \in Brokers, thread'[c]["follower"].at = "sent"
      PROVE  /\ request'[c].controller \in Brokers
             /\ c \notin writers' => request'[c].offset = Len(log'[c])
  <2>1. c # b \/ x # "follower"
    BY <1>3, <1>6
  <2>2. thread'[c]["follower"] = F(c)
    BY <1>1, <1>3, <2>1
  <2>3. F(c).at = "sent" /\ writers \subseteq writers'
    BY <1>4, <1>6, <2>2
  <2>4. c \notin writers' => log'[c] = log[c]
    BY <1>4, <2>1
  <2> QED
    BY <1>4, <2>3, <2>4 DEF Flow
<1>7. ASSUME NEW w \in Brokers, writers' \subseteq {w}, NEW c \in Brokers \ {w}
      PROVE  Before(log'[c] \o Pending(thread'[c]["follower"]), log'[w])
  <2>1. writers \subseteq {w}
    BY <1>4, <1>7
  <2>2. Before(log[c] \o Pending(F(c)), log[w])
    BY <2>1 DEF Flow
  <2>3. log'[c] \o Pending(thread'[c]["follower"]) = log[c] \o Pending(F(c))
    <3>1. CASE c = b
      <4>1. x = "follower"
        BY <1>4, <1>7, <3>1
      <4>2. Pending(F(c)) = t.todo /\ Pending(thread'[c]["follower"]) = Tail(t.todo)
        BY <1>1, <1>3, <3>1, <4>1 DEF Pending, Applying
      <4>3. Append(log[b], Head(t.todo)) \o Tail(t.todo) = log[b] \o t.todo
        <5> HIDE DEF t
        <5> QED BY <1>1, <1>5, AppendHead
      <4> QED
        BY <1>2, <1>4, <3>1, <4>2, <4>3
    <3>2. CASE c # b
      BY <1>1, <1>3, <1>4, <3>2
    <3> QED
      BY <3>1, <3>2
  <2>4. log'[w] = log[w] \/ log'[w] = Append(log[w], Current(b, x))
    BY <1>4
  <2>5. log[c] \o Pending(F(c)) \in Seq(Record)
    <3> HIDE DEF F
    <3> QED BY <1>5
  <2>6. Before(log[c] \o Pending(F(c)), log'[w])
    <3> DEFINE s == log[c] \o Pending(F(c))
    <3> HIDE DEF s
    <3>1. s \in Seq(Record) /\ Before(s, log[w]) /\ log[w] \in Seq(Record)
      BY <1>5, <2>2, <2>5 DEF s
    <3>2. Before(s, Append(log[w], Current(b, x)))
      BY <1>2, <3>1, BeforeAppend
    <3> QED
      BY <2>4, <3>1, <3>2 DEF s
  <2> QED
    BY <2>3, <2>6
<1> QED
  BY <1>4, <1>6, <1>7 DEF Flow

\* FetchSend reads the end of the log and drops nothing that was fetched.
LEMMA FlowSend ==
    ASSUME Types, Flow, NEW b \in Brokers, FetchSend(b)
    PROVE  Flow'
<1> DEFINE F(c) == thread[c]["follower"]
<1>1. PICK k \in up :
         /\ request' = [request EXCEPT ![b] = [controller |-> k, offset |-> Len(log[b])]]
         /\ Go(b, "follower", "sent", <<>>)
         /\ UNCHANGED <<log, writers>>
  BY DEF FetchSend, clusterVars
<1>2. /\ "follower" \in Threads /\ "sent" \in Steps /\ "sent" \notin Busy
      /\ <<>> \in Seq(Record)
  BY DEF Threads, Steps, Busy, Applying
<1>3. /\ thread'[b]["follower"] = [at |-> "sent", todo |-> <<>>]
      /\ \A c \in Brokers \ {b} : thread'[c]["follower"] = F(c)
  <2>1. /\ thread'[b]["follower"] = [at |-> "sent", todo |-> <<>>]
        /\ \A c \in Brokers, y \in Threads : c # b \/ y # "follower" =>
              thread'[c][y] = thread[c][y]
    BY <1>1, <1>2, GoThread
  <2> QED
    BY <1>2, <2>1
<1>4. Pending(F(b)) = <<>> /\ Pending(thread'[b]["follower"]) = <<>>
  BY <1>3 DEF FetchSend, At, Pending, Applying
<1>5. /\ request'[b] = [controller |-> k, offset |-> Len(log[b])] /\ k \in Brokers
      /\ \A c \in Brokers \ {b} : request'[c] = request[c]
  BY <1>1 DEF Types
<1>6. \A c \in Brokers : Pending(thread'[c]["follower"]) = Pending(F(c))
  BY <1>3, <1>4
<1>7. ASSUME NEW c \in Brokers, thread'[c]["follower"].at = "sent"
      PROVE  /\ request'[c].controller \in Brokers
             /\ c \notin writers' => request'[c].offset = Len(log'[c])
  <2>1. CASE c = b
    BY <1>1, <1>5, <2>1
  <2>2. CASE c # b
    BY <1>1, <1>3, <1>5, <1>7, <2>2 DEF Flow
  <2> QED
    BY <2>1, <2>2
<1>8. ASSUME NEW w \in Brokers, writers' \subseteq {w}, NEW c \in Brokers \ {w}
      PROVE  Before(log'[c] \o Pending(thread'[c]["follower"]), log'[w])
  BY <1>1, <1>6, <1>8 DEF Flow
<1> QED
  BY <1>1, <1>7, <1>8 DEF Flow

\* What a fetch brings back continues the log, up to the writer's.
LEMMA FlowServed ==
    ASSUME Types, Flow, NEW b \in Brokers, FetchServed(b), Types'
    PROVE  Flow'
<1> DEFINE F(c) == thread[c]["follower"]
           from == log[request[b].controller]
           payloads == SubSeq(from, request[b].offset + 1, Len(from))
           at == IF payloads = <<>> THEN "idle" ELSE "append"
<1>1. /\ F(b).at = "sent" /\ Go(b, "follower", at, payloads)
      /\ UNCHANGED <<log, writers>>
      /\ request' = [request EXCEPT ![b] = [controller |-> NoLeader, offset |-> 0]]
  BY DEF FetchServed, At, clusterVars
<1>2. request[b].controller \in Brokers /\ "follower" \in Threads
  BY <1>1 DEF Flow, Threads
<1>3. /\ thread'[b]["follower"] = [at |-> at, todo |-> payloads]
      /\ \A c \in Brokers \ {b} : thread'[c]["follower"] = F(c) /\ request'[c] = request[c]
  <2> HIDE DEF at, payloads
  <2> QED BY <1>1, <1>2 DEF Go, Types
<1>4. thread'[b]["follower"].at # "sent" /\ Pending(thread'[b]["follower"]) = payloads
  <2> HIDE DEF payloads
  <2>1. CASE payloads = <<>>
    BY <1>3, <2>1 DEF Pending, Applying
  <2>2. CASE payloads # <<>>
    BY <1>3, <2>2 DEF Pending
  <2> QED
    BY <2>1, <2>2
<1>5. \A c \in Brokers : log[c] \in Seq(Record) /\ Pending(F(c)) \in Seq(Record)
  <2>1. ASSUME NEW c \in Brokers
        PROVE  F(c) \in Thread /\ (F(c).at \in Busy => F(c).todo # <<>>)
    BY <1>2 DEF Types
  <2> QED
    BY <2>1, PendingType DEF Types
<1>6. ASSUME NEW c \in Brokers, thread'[c]["follower"].at = "sent"
      PROVE  /\ request'[c].controller \in Brokers
             /\ c \notin writers' => request'[c].offset = Len(log'[c])
  <2>1. c # b
    BY <1>4, <1>6
  <2> QED
    BY <1>1, <1>3, <1>6, <2>1 DEF Flow
<1>7. ASSUME NEW w \in Brokers, writers' \subseteq {w}, NEW c \in Brokers \ {w}
      PROVE  Before(log'[c] \o Pending(thread'[c]["follower"]), log'[w])
  <2>1. \A d \in Brokers \ {w} : Before(log[d] \o Pending(F(d)), log[w])
    BY <1>1, <1>7 DEF Flow
  <2>2. \A d \in Brokers : Before(log[d], log[w])
    <3>1. Before(log[w], log[w])
      BY <1>5 DEF Before
    <3>2. ASSUME NEW d \in Brokers \ {w} PROVE Before(log[d], log[w])
      <4> HIDE DEF F
      <4> QED BY <1>5, <2>1, BeforeHead
    <3> QED
      BY <3>1, <3>2
  <2>3. CASE c = b
    <3>1. request[b].offset = Len(log[b])
      BY <1>1, <1>7, <2>3 DEF Flow
    <3>2. Before(log[b], log[w]) /\ Before(from, log[w]) /\ from \in Seq(Record)
      BY <1>2, <1>5, <2>2
    <3>3. Before(log[b] \o SubSeq(from, Len(log[b]) + 1, Len(from)), log[w])
      <4> HIDE DEF from
      <4> QED BY <1>5, <3>2, BeforeFetched
    <3> QED
      BY <1>1, <1>4, <2>3, <3>1, <3>3
  <2>4. CASE c # b
    BY <1>1, <1>3, <2>1, <2>4
  <2> QED
    BY <2>3, <2>4
<1> QED
  BY <1>1, <1>6, <1>7 DEF Flow

\* A thread other than the follower that steps leaves the follower alone; a
\* follower that steps keeps what it has to append.
LEMMA FollowerKept ==
    ASSUME Types, NEW b \in Brokers, NEW x \in Threads, thread[b][x].at \in Applying,
           \/ \E at \in {"stop", "start", "lead"} : Go(b, x, at, thread[b][x].todo)
           \/ NextRecord(b, x)
    PROVE  \A c \in Brokers :
              \/ thread'[c]["follower"] = thread[c]["follower"]
              \/ /\ thread'[c]["follower"].at # "sent"
                 /\ Pending(thread'[c]["follower"]) = Pending(thread[c]["follower"])
<1>1. /\ thread[b][x].todo \in Seq(Record) /\ thread[b][x].todo # <<>>
      /\ thread[b][x].at \in Busy /\ "follower" \in Threads
  BY DEF Types, Thread, Busy, Threads
<1>2. /\ \A c \in Brokers, y \in Threads : c # b \/ y # x => thread'[c][y] = thread[c][y]
      /\ thread'[b][x].at # "sent"
      /\ Pending(thread'[b][x]) = Tail(thread[b][x].todo)
  <2>1. ASSUME NEW at \in {"stop", "start", "lead"}, Go(b, x, at, thread[b][x].todo)
        PROVE  /\ \A c \in Brokers, y \in Threads : c # b \/ y # x =>
                     thread'[c][y] = thread[c][y]
               /\ thread'[b][x] = [at |-> at, todo |-> thread[b][x].todo]
    <3>1. at \in Steps
      BY DEF Steps
    <3> QED
      BY <1>1, <2>1, <3>1, GoThread
  <2>2. CASE \E at \in {"stop", "start", "lead"} : Go(b, x, at, thread[b][x].todo)
    BY <2>1, <2>2 DEF Pending, Applying
  <2>3. CASE NextRecord(b, x)
    BY <1>1, <2>3, NextThread DEF Pending, Applying
  <2> QED
    BY <2>2, <2>3
<1>3. Pending(thread[b][x]) = Tail(thread[b][x].todo)
  BY DEF Pending, Applying
<1> QED
  BY <1>1, <1>2, <1>3

\* Every step keeps Flow; a crash loses what was fetched, never what is logged.
LEMMA FlowStep ==
    ASSUME Types, Flow, Types', Next
    PROVE  Flow'
<1> DEFINE Untouched(c) == thread'[c]["follower"] = thread[c]["follower"]
                           /\ request'[c] = request[c]
<1>h. "follower" \in Threads /\ "monitor" \in Threads /\ Handlers \subseteq Threads
      /\ "follower" \notin Handlers
  BY ClusterAssumption DEF Threads
<1>1. ASSUME NEW b \in Brokers, NEW h \in Handlers, NEW t \in Topics, NEW partitions,
             Decide(b, h, t, partitions)
      PROVE  Flow'
  <2>1. /\ thread' = [thread EXCEPT ![b][h] = [at |-> "append",
                         todo |-> <<[topic |-> t, partitions |-> partitions]>>]]
        /\ UNCHANGED <<log, writers, request>>
    BY <1>1 DEF Decide, Go
  <2>2. \A c \in Brokers : Untouched(c)
    BY <1>h, <2>1 DEF Types
  <2> QED
    BY <2>1, <2>2, FlowKept
<1>2. ASSUME NEW b \in Brokers, NEW x \in Threads, AppendFails(b, x)
      PROVE  Flow'
  <2>1. /\ thread[b][x].at = "append"
        /\ IF x = "follower" THEN Go(b, x, "idle", <<>>) ELSE NextRecord(b, x)
        /\ UNCHANGED <<log, writers, request>>
    BY <1>2 DEF AppendFails, At
  <2>2. ASSUME NEW c \in Brokers
        PROVE  \/ Untouched(c)
               \/ /\ thread'[c]["follower"].at # "sent"
                  /\ Pending(thread'[c]["follower"]) = <<>>
    <3>1. CASE x = "follower"
      <4>1. thread' = [thread EXCEPT ![b]["follower"] = [at |-> "idle", todo |-> <<>>]]
        BY <2>1, <3>1 DEF Go
      <4>2. CASE c = b
        <5>1. thread'[c]["follower"] = [at |-> "idle", todo |-> <<>>]
          BY <1>h, <4>1, <4>2 DEF Types
        <5> QED
          BY <5>1 DEF Pending, Applying
      <4>3. CASE c # b
        BY <2>1, <4>1, <4>3 DEF Types
      <4> QED
        BY <4>2, <4>3
    <3>2. CASE x # "follower"
      <4>1. thread[b][x].at \in Busy
        BY <2>1 DEF Busy
      <4>2. \A d \in Brokers, y \in Threads : d # b \/ y # x => thread'[d][y] = thread[d][y]
        BY <2>1, <3>2, <4>1, NextThread
      <4> QED
        BY <1>h, <2>1, <3>2, <4>2
    <3> QED
      BY <3>1, <3>2
  <2> QED
    BY <2>1, <2>2, FlowKept
<1>3. ASSUME NEW b \in Brokers, NEW x \in Threads,
             \/ ApplyMetadataRecord(b, x) \/ StopFollowing(b, x)
             \/ StartFollowing(b, x) \/ Lead(b, x)
      PROVE  Flow'
  <2>1. /\ thread[b][x].at \in Applying
        /\ \/ \E at \in {"stop", "start", "lead"} : Go(b, x, at, thread[b][x].todo)
           \/ NextRecord(b, x)
    BY <1>3 DEF ApplyMetadataRecord, StopFollowing, StartFollowing, Lead, At, Applying
  <2>2. UNCHANGED <<log, writers, request>>
    BY <1>3 DEF ApplyMetadataRecord, StopFollowing, StartFollowing, Lead, clusterVars
  <2>3. \A c \in Brokers :
           \/ Untouched(c)
           \/ /\ thread'[c]["follower"].at # "sent"
              /\ Pending(thread'[c]["follower"]) = Pending(thread[c]["follower"])
    BY <2>1, <2>2, FollowerKept
  <2> QED
    BY <2>2, <2>3, FlowKept
<1>4. ASSUME NEW b \in Brokers, NEW p \in Brokers, RecordMiss(b, p)
      PROVE  Flow'
  <2>1. /\ UNCHANGED thread \/ \E todo : Go(b, "monitor", "append", todo)
        /\ UNCHANGED <<log, writers, request>>
    BY <1>4 DEF RecordMiss
  <2>2. \A c \in Brokers : Untouched(c)
    BY <1>h, <2>1 DEF Types, Go
  <2> QED
    BY <2>1, <2>2, FlowKept
<1>5. ASSUME NEW b \in Brokers, NEW p \in Brokers, RecordSuccess(b, p) \/ Restart(b)
      PROVE  Flow'
  <2>1. UNCHANGED <<log, writers, thread, request>>
    BY <1>5 DEF RecordSuccess, Restart, clusterVars
  <2> QED
    BY <2>1, FlowKept
<1>6. ASSUME NEW b \in Brokers, Crash(b)
      PROVE  Flow'
  <2>1. UNCHANGED <<log, writers>>
    BY <1>6 DEF Crash
  <2>2. ASSUME NEW c \in Brokers
        PROVE  Untouched(c) \/ thread'[c]["follower"] = Idle
    BY <1>6, <1>h DEF Crash, Types
  <2>3. Idle.at # "sent" /\ Pending(Idle) = <<>>
    BY DEF Idle, Pending, Applying
  <2>4. \A c \in Brokers :
           \/ Untouched(c)
           \/ /\ thread'[c]["follower"].at # "sent"
              /\ Pending(thread'[c]["follower"]) = <<>>
    BY <2>2, <2>3
  <2> QED
    BY <2>1, <2>4, FlowKept
<1> QED
  BY <1>1, <1>2, <1>3, <1>4, <1>5, <1>6, FlowAppend, FlowSend, FlowServed
     DEF Next, Step, CreateTopic, DeleteTopic
=============================================================================
