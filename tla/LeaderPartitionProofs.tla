------------------------ MODULE LeaderPartitionProofs -----------------------
(***************************************************************************)
(* LeaderPartition for any replicas, handlers, produce calls and offsets:  *)
(* its handlers use the partition state as PartitionState says, the        *)
(* leader's view stays behind the logs, and acks=all means what it says.   *)
(*                                                                         *)
(* The view is conservative because of what is on its way: the offset in a *)
(* request, however late it is served, is one the follower has reached,    *)
(* and an answer that a fetcher still waits for continues its log.         *)
(***************************************************************************)
EXTENDS LeaderPartition, PartitionStateProofs

\* How far a handler gets that serves a follower
Fetching == {"sent", "ended", "recorded", "marked", "replied"}

\* A handler knows a log end that exists; it serves an offset its follower has
\* reached; and the handler a fetcher waits for has its current offset and, once
\* it has read the log, records that are there.
OnTheWay ==
    /\ \A h \in Handlers : handler[h].end <= logEnd
    /\ \A h \in Handlers : handler[h].at \in Fetching =>
          handler[h].by \in Followers /\ handler[h].offset <= replicaEnd[handler[h].by]
    /\ \A f \in Followers, h \in Handlers : waitsFor[f] = h =>
          /\ handler[h].at \in Fetching /\ handler[h].by = f
          /\ handler[h].offset = replicaEnd[f]
    /\ \A h \in Handlers : handler[h].at = "replied" =>
          waitsFor[handler[h].by] = h /\ handler[h].offset + handler[h].count <= logEnd

\* Besides, a produce call waits for its own record.
Serving ==
    /\ \A w \in Callers :
          produced[w] <= logEnd /\ (call[w] # "idle" => target[w] = produced[w])
    /\ OnTheWay

\* The types of what the handlers pass on
LEMMA LeaderTypes ==
    ASSUME LeaderTypeOK
    PROVE  /\ logEnd \in Nat /\ logEnd <= MaxOffset /\ MaxOffset \in Nat
           /\ \A f \in Followers : replicaEnd[f] \in Nat
           /\ \A w \in Callers : produced[w] \in Nat /\ produced[w] \in Offsets
           /\ \A h \in Handlers :
                 /\ handler[h] \in Request
                 /\ handler[h].offset \in Nat /\ handler[h].end \in Nat
                 /\ handler[h].count \in Nat /\ handler[h].offset \in Offsets
                 /\ handler[h].end \in Offsets /\ handler[h].count \in Offsets
           /\ \A n \in Nat : n <= logEnd => n \in Offsets
  BY BoundsAssumption DEF LeaderTypeOK, Offsets, Request

\* Every handler uses the partition state through its methods, with arguments
\* that PartitionState allows.
LEMMA CallsPartitionState ==
    ASSUME LeaderTypeOK, Serving, [LeaderNext]_leaderVars
    PROVE  [Next]_vars
<1>1. ASSUME NEW w \in Callers,
             ProduceAppend(w) \/ ProduceWait(w) \/ ProduceAcked(w) \/ ProduceTimedOut(w)
      PROVE  [Next]_vars
  BY <1>1, LeaderTypes DEF ProduceAppend, ProduceWait, ProduceAcked, ProduceTimedOut, Next
<1>2. ASSUME NEW h \in Handlers, FetchRecord(h) PROVE [Next]_vars
  <2>1. handler[h].by \in Brokers
    BY <1>2, BrokersAssumption DEF FetchRecord, Serving, OnTheWay, Fetching, Followers
  <2> QED
    BY <1>2, <2>1, LeaderTypes DEF FetchRecord, Next
<1>3. ASSUME NEW h \in Handlers,
             FetchHighWatermark(h) \/ ConsumerHighWatermark(h) \/ StatusHighWatermark(h)
      PROVE  [Next]_vars
  BY <1>3, LeaderTypes DEF FetchHighWatermark, ConsumerHighWatermark, StatusHighWatermark, Next
<1>4. ASSUME NEW h \in Handlers, StatusISR(h) PROVE [Next]_vars
  BY <1>4 DEF StatusISR, Next
<1>5. CASE Clock
  BY <1>5 DEF Clock, Next
<1>6. ASSUME NEW h \in Handlers, NEW f \in Followers,
             FetcherSend(f, h) \/ FetcherAppend(f, h) \/ FetcherDisconnect(f, h)
      PROVE  UNCHANGED vars
  BY <1>6 DEF FetcherSend, FetcherAppend, FetcherDisconnect
<1>7. ASSUME NEW h \in Handlers, FetchEndOffset(h) \/ FetchRead(h) PROVE UNCHANGED vars
  BY <1>7 DEF FetchEndOffset, FetchRead
<1>8. ASSUME NEW h \in Handlers, NEW kind, ClientEndOffset(h, kind) PROVE UNCHANGED vars
  BY <1>8 DEF ClientEndOffset
<1>9. CASE ProduceNoWait \/ UNCHANGED leaderVars
  BY <1>9 DEF ProduceNoWait, leaderVars
<1> QED
  BY <1>1, <1>2, <1>3, <1>4, <1>5, <1>6, <1>7, <1>8, <1>9
  DEF LeaderNext, Produce, ReplicaFetch, ClientRead
-----------------------------------------------------------------------------
\* Logs only grow, and a follower grows by what its fetcher waited for.
LEMMA LogsGrow ==
    ASSUME LeaderTypeOK, Serving, ViewIsConservative, [LeaderNext]_leaderVars
    PROVE  /\ logEnd' \in Offsets /\ logEnd <= logEnd'
           /\ replicaEnd' \in [Followers -> Offsets]
           /\ \A f \in Followers : replicaEnd[f] <= replicaEnd'[f] /\ replicaEnd'[f] <= logEnd'
<1>0. /\ logEnd \in Offsets /\ replicaEnd \in [Followers -> Offsets]
      /\ \A f \in Followers : replicaEnd[f] <= logEnd
  BY DEF LeaderTypeOK, ViewIsConservative
<1>1. ASSUME NEW f \in Followers, NEW h \in Handlers, FetcherAppend(f, h)
      PROVE  /\ logEnd' = logEnd
             /\ replicaEnd' = [replicaEnd EXCEPT ![f] = @ + handler[h].count]
             /\ replicaEnd[f] + handler[h].count <= logEnd
             /\ handler[h].count \in Nat
  BY <1>1, LeaderTypes DEF FetcherAppend, Serving, OnTheWay
<1>2. ASSUME NEW f \in Followers, NEW h \in Handlers, FetcherAppend(f, h)
      PROVE  /\ logEnd' \in Offsets /\ logEnd <= logEnd'
             /\ replicaEnd' \in [Followers -> Offsets]
             /\ \A g \in Followers : replicaEnd[g] <= replicaEnd'[g] /\ replicaEnd'[g] <= logEnd'
  BY <1>0, <1>1, <1>2, LeaderTypes
<1>3. CASE ProduceNoWait \/ \E w \in Callers : ProduceAppend(w)
  BY <1>0, <1>3, LeaderTypes DEF ProduceNoWait, ProduceAppend, Offsets
<1>4. CASE UNCHANGED <<logEnd, replicaEnd>>
  BY <1>0, <1>4, LeaderTypes
<1>5. ASSUME NEW w \in Callers, ProduceWait(w) \/ ProduceAcked(w) \/ ProduceTimedOut(w)
      PROVE  UNCHANGED <<logEnd, replicaEnd>>
  BY <1>5 DEF ProduceWait, ProduceAcked, ProduceTimedOut, logVars
<1>6. ASSUME NEW h \in Handlers,
             \/ FetchEndOffset(h) \/ FetchRecord(h) \/ FetchHighWatermark(h) \/ FetchRead(h)
             \/ ConsumerHighWatermark(h) \/ StatusHighWatermark(h) \/ StatusISR(h)
      PROVE  UNCHANGED <<logEnd, replicaEnd>>
  BY <1>6 DEF FetchEndOffset, FetchRecord, FetchHighWatermark, FetchRead,
              ConsumerHighWatermark, StatusHighWatermark, StatusISR, logVars
<1>7. ASSUME NEW h \in Handlers, NEW f \in Followers, FetcherSend(f, h) \/ FetcherDisconnect(f, h)
      PROVE  UNCHANGED <<logEnd, replicaEnd>>
  BY <1>7 DEF FetcherSend, FetcherDisconnect, logVars
<1>8. ASSUME NEW h \in Handlers, NEW kind, ClientEndOffset(h, kind)
      PROVE  UNCHANGED <<logEnd, replicaEnd>>
  BY <1>8 DEF ClientEndOffset, logVars
<1>9. CASE Clock \/ UNCHANGED leaderVars
  BY <1>4, <1>9 DEF Clock, leaderVars, logVars
<1> QED
  BY <1>2, <1>3, <1>4, <1>5, <1>6, <1>7, <1>8, <1>9
  DEF LeaderNext, Produce, ReplicaFetch, ClientRead

\* The leader's view stays behind the logs: a recorded fetch offset comes with a
\* request, and the end offset from the log or from a produce call.
LEMMA ViewStep ==
    ASSUME LeaderTypeOK, Serving, ViewIsConservative, [LeaderNext]_leaderVars
    PROVE  ViewIsConservative'
<1>0. /\ leaderEndOffset \in Nat /\ leaderEndOffset <= logEnd
      /\ followerOffset \in [Brokers -> Offsets]
      /\ \A f \in Followers : f \in Brokers /\ followerOffset[f] <= replicaEnd[f]
                              /\ followerOffset[f] \in Nat
  BY BrokersAssumption, BoundsAssumption
     DEF LeaderTypeOK, TypeOK, ViewIsConservative, Followers, Offsets
<1>1. /\ logEnd' \in Nat /\ logEnd <= logEnd'
      /\ \A f \in Followers : /\ replicaEnd[f] <= replicaEnd'[f] /\ replicaEnd'[f] <= logEnd'
                              /\ replicaEnd'[f] \in Nat
  BY LogsGrow, BoundsAssumption DEF Offsets
<1>2. ASSUME leaderEndOffset' <= logEnd, leaderEndOffset' \in Nat,
             \A f \in Followers : followerOffset'[f] <= replicaEnd[f] /\ followerOffset'[f] \in Nat
      PROVE  ViewIsConservative'
  BY <1>1, <1>2, LeaderTypes DEF ViewIsConservative
<1>3. ASSUME NEW h \in Handlers, FetchRecord(h) PROVE ViewIsConservative'
  <2>1. /\ handler[h].by \in Followers /\ handler[h].offset <= replicaEnd[handler[h].by]
        /\ handler[h].end <= logEnd
    BY <1>3 DEF FetchRecord, Serving, OnTheWay, Fetching
  <2>2. /\ leaderEndOffset' = handler[h].end
        /\ followerOffset' = [followerOffset EXCEPT ![handler[h].by] = handler[h].offset]
    BY <1>3 DEF FetchRecord, RecordFollowerFetch
  <2> QED
    BY <1>0, <1>2, <2>1, <2>2, LeaderTypes
<1>4. ASSUME NEW h \in Handlers,
             FetchHighWatermark(h) \/ ConsumerHighWatermark(h) \/ StatusHighWatermark(h)
      PROVE  ViewIsConservative'
  <2>1. leaderEndOffset' = handler[h].end /\ UNCHANGED followerOffset
    BY <1>4 DEF FetchHighWatermark, ConsumerHighWatermark, StatusHighWatermark, HighWatermark
  <2> QED
    BY <1>0, <1>2, <2>1, LeaderTypes DEF Serving, OnTheWay
<1>5. ASSUME NEW w \in Callers, ProduceWait(w) PROVE ViewIsConservative'
  <2>1. leaderEndOffset' = Max({leaderEndOffset, produced[w]}) /\ UNCHANGED followerOffset
    BY <1>5 DEF ProduceWait, WaitForHighWatermark
  <2>2. produced[w] <= logEnd /\ produced[w] \in Nat
    BY LeaderTypes DEF Serving
  <2> QED
    BY <1>0, <1>2, <2>1, <2>2, MaxPair
<1>6. ASSUME UNCHANGED <<leaderEndOffset, followerOffset>> PROVE ViewIsConservative'
  BY <1>0, <1>2, <1>6
<1>7. ASSUME NEW w \in Callers, ProduceAppend(w) \/ ProduceAcked(w) \/ ProduceTimedOut(w)
      PROVE  UNCHANGED <<leaderEndOffset, followerOffset>>
  BY <1>7 DEF ProduceAppend, ProduceAcked, ProduceTimedOut, Done, TimedOut, vars, stateVars
<1>8. ASSUME NEW h \in Handlers, FetchEndOffset(h) \/ FetchRead(h) \/ StatusISR(h)
      PROVE  UNCHANGED <<leaderEndOffset, followerOffset>>
  BY <1>8 DEF FetchEndOffset, FetchRead, StatusISR, ISR, vars, stateVars
<1>9. ASSUME NEW h \in Handlers, NEW f \in Followers,
             FetcherSend(f, h) \/ FetcherAppend(f, h) \/ FetcherDisconnect(f, h)
      PROVE  UNCHANGED <<leaderEndOffset, followerOffset>>
  BY <1>9 DEF FetcherSend, FetcherAppend, FetcherDisconnect, vars, stateVars
<1>10. ASSUME NEW h \in Handlers, NEW kind, ClientEndOffset(h, kind)
       PROVE  UNCHANGED <<leaderEndOffset, followerOffset>>
  BY <1>10 DEF ClientEndOffset, vars, stateVars
<1>11. CASE ProduceNoWait \/ Clock \/ UNCHANGED leaderVars
  BY <1>6, <1>11 DEF ProduceNoWait, Clock, Tick, leaderVars, vars, stateVars
<1> QED
  BY <1>3, <1>4, <1>5, <1>6, <1>7, <1>8, <1>9, <1>10, <1>11
  DEF LeaderNext, Produce, ReplicaFetch, ClientRead
-----------------------------------------------------------------------------
\* The other variables keep their types.
LEMMA NetTypes ==
    ASSUME LeaderTypeOK, Serving, [LeaderNext]_leaderVars
    PROVE  /\ produced' \in [Callers -> Offsets]
           /\ handler' \in [Handlers -> Request]
           /\ waitsFor' \in [Followers -> Handlers \cup {NoHandler}]
<1>0. /\ produced \in [Callers -> Offsets] /\ handler \in [Handlers -> Request]
      /\ waitsFor \in [Followers -> Handlers \cup {NoHandler}]
      /\ logEnd \in Offsets /\ replicaEnd \in [Followers -> Offsets]
  BY DEF LeaderTypeOK
<1>1. FreeSlot \in Request /\ 0 \in Offsets
  BY BoundsAssumption DEF FreeSlot, Request, Steps, Offsets
<1>2. ASSUME NEW h \in Handlers, NEW r \in Request, Serve(h, r)
      PROVE  handler' \in [Handlers -> Request]
  BY <1>0, <1>2 DEF Serve
<1>3. ASSUME NEW w \in Callers, ProduceAppend(w) PROVE produced' \in [Callers -> Offsets]
  BY <1>0, <1>3, BoundsAssumption DEF ProduceAppend, Offsets
<1>4. ASSUME NEW f \in Followers, NEW h \in Handlers, FetcherSend(f, h)
      PROVE  handler' \in [Handlers -> Request]
  <2>1. [FreeSlot EXCEPT !.at = "sent", !.by = f, !.offset = replicaEnd[f]] \in Request
    BY <1>0, <1>1 DEF FreeSlot, Request, Steps
  <2> QED
    BY <1>2, <1>4, <2>1 DEF FetcherSend
<1>5. ASSUME NEW h \in Handlers, FetchEndOffset(h) PROVE handler' \in [Handlers -> Request]
  <2>1. [handler[h] EXCEPT !.at = "ended", !.end = logEnd] \in Request
    BY <1>0 DEF Request, Steps
  <2> QED
    BY <1>2, <1>5, <2>1 DEF FetchEndOffset
<1>6. ASSUME NEW h \in Handlers,
             \/ FetchRecord(h) \/ FetchHighWatermark(h) \/ StatusHighWatermark(h)
      PROVE  handler' \in [Handlers -> Request]
  <2>1. \A at \in Steps : [handler[h] EXCEPT !.at = at] \in Request
    BY <1>0 DEF Request
  <2> QED
    BY <1>2, <1>6, <2>1 DEF FetchRecord, FetchHighWatermark, StatusHighWatermark, Steps
<1>7. ASSUME NEW h \in Handlers, FetchRead(h) PROVE handler' \in [Handlers -> Request]
  <2>1. ASSUME NEW n \in Offsets
        PROVE  [handler[h] EXCEPT !.at = "replied", !.count = n] \in Request
    BY <1>0 DEF Request, Steps
  <2>2. 1..(logEnd - handler[h].offset) \subseteq Offsets
    BY LeaderTypes DEF Offsets
  <2> QED
    BY <1>1, <1>2, <1>7, <2>1, <2>2 DEF FetchRead
<1>8. ASSUME NEW h \in Handlers, NEW kind \in {"consumer", "status"}, ClientEndOffset(h, kind)
      PROVE  handler' \in [Handlers -> Request]
  <2>1. [FreeSlot EXCEPT !.at = kind, !.end = logEnd] \in Request
    BY <1>0, <1>1 DEF FreeSlot, Request, Steps
  <2> QED
    BY <1>2, <1>8, <2>1 DEF ClientEndOffset
<1>9. ASSUME NEW f \in Followers, NEW h \in Handlers, FetcherAppend(f, h) \/ FetcherDisconnect(f, h)
      PROVE  handler' \in [Handlers -> Request]
  BY <1>0, <1>1, <1>2, <1>9 DEF FetcherAppend, FetcherDisconnect
<1>10. ASSUME NEW h \in Handlers, ConsumerHighWatermark(h) \/ StatusISR(h)
       PROVE  handler' \in [Handlers -> Request]
  BY <1>1, <1>2, <1>10 DEF ConsumerHighWatermark, StatusISR
<1>11. ASSUME NEW f \in Followers, NEW h \in Handlers,
              FetcherSend(f, h) \/ FetcherAppend(f, h) \/ FetcherDisconnect(f, h)
       PROVE  /\ waitsFor' \in [Followers -> Handlers \cup {NoHandler}]
              /\ UNCHANGED produced
  BY <1>0, <1>11 DEF FetcherSend, FetcherAppend, FetcherDisconnect, logVars
<1>12. ASSUME NEW h \in Handlers,
              \/ FetchEndOffset(h) \/ FetchRecord(h) \/ FetchHighWatermark(h) \/ FetchRead(h)
              \/ ConsumerHighWatermark(h) \/ StatusHighWatermark(h) \/ StatusISR(h)
       PROVE  UNCHANGED <<waitsFor, produced>>
  BY <1>12 DEF FetchEndOffset, FetchRecord, FetchHighWatermark, FetchRead,
               ConsumerHighWatermark, StatusHighWatermark, StatusISR, logVars
<1>13. ASSUME NEW h \in Handlers, NEW kind, ClientEndOffset(h, kind)
       PROVE  UNCHANGED <<waitsFor, produced>>
  BY <1>13 DEF ClientEndOffset, logVars
<1>14. CASE Produce
  BY <1>0, <1>3, <1>14
     DEF Produce, ProduceAppend, ProduceWait, ProduceAcked, ProduceTimedOut, ProduceNoWait,
         logVars, netVars
<1>15. CASE ReplicaFetch
  BY <1>0, <1>4, <1>5, <1>6, <1>7, <1>9, <1>11, <1>12, <1>15 DEF ReplicaFetch
<1>16. CASE ClientRead
  BY <1>0, <1>6, <1>8, <1>10, <1>12, <1>13, <1>16 DEF ClientRead
<1>17. CASE Clock \/ UNCHANGED leaderVars
  BY <1>0, <1>17 DEF Clock, leaderVars, logVars, netVars
<1> QED
  BY <1>14, <1>15, <1>16, <1>17 DEF LeaderNext
-----------------------------------------------------------------------------
\* A produce call waits for the record it has appended.
LEMMA CallsStep ==
    ASSUME LeaderTypeOK, Serving, [LeaderNext]_leaderVars, NEW w \in Callers
    PROVE  produced'[w] <= logEnd' /\ (call'[w] # "idle" => target'[w] = produced'[w])
<1>0. /\ produced[w] <= logEnd /\ (call[w] # "idle" => target[w] = produced[w])
      /\ call \in [Callers -> CallStates] /\ target \in [Callers -> Offsets]
      /\ produced \in [Callers -> Offsets] /\ produced[w] \in Nat /\ logEnd \in Nat
  BY LeaderTypes DEF Serving, LeaderTypeOK, TypeOK
<1>1. ASSUME NEW v \in Callers, ProduceAppend(v)
      PROVE  produced'[w] <= logEnd' /\ (call'[w] # "idle" => target'[w] = produced'[w])
  BY <1>0, <1>1 DEF ProduceAppend, vars, callVars
<1>2. ASSUME NEW v \in Callers, ProduceWait(v)
      PROVE  produced'[w] <= logEnd' /\ (call'[w] # "idle" => target'[w] = produced'[w])
  <2>1. UNCHANGED <<logEnd, produced>> /\ target' = [target EXCEPT ![v] = produced[v]]
    BY <1>2 DEF ProduceWait, WaitForHighWatermark, logVars
  <2>2. v # w /\ call'[w] # "idle" => call[w] # "idle"
    BY <1>0, <1>2 DEF ProduceWait, WaitForHighWatermark, releaseWaiters
  <2> QED
    BY <1>0, <2>1, <2>2
<1>3. ASSUME UNCHANGED target, call'[w] # "idle" => call[w] # "idle",
             UNCHANGED produced, logEnd <= logEnd', logEnd' \in Nat
      PROVE  produced'[w] <= logEnd' /\ (call'[w] # "idle" => target'[w] = produced'[w])
  BY <1>0, <1>3
<1>4. ASSUME NEW leo, NEW offset, NEW age, RecomputeAndRelease(leo, offset, age)
      PROVE  call'[w] # "idle" => call[w] # "idle"
  BY <1>0, <1>4 DEF RecomputeAndRelease, releaseWaiters
<1>5. ASSUME NEW h \in Handlers,
             \/ FetchRecord(h) \/ FetchHighWatermark(h)
             \/ ConsumerHighWatermark(h) \/ StatusHighWatermark(h)
      PROVE  produced'[w] <= logEnd' /\ (call'[w] # "idle" => target'[w] = produced'[w])
  <2>1. UNCHANGED <<target, produced, logEnd>>
    BY <1>5 DEF FetchRecord, FetchHighWatermark, ConsumerHighWatermark, StatusHighWatermark,
                RecordFollowerFetch, HighWatermark, logVars
  <2>2. call'[w] # "idle" => call[w] # "idle"
    BY <1>4, <1>5 DEF FetchRecord, FetchHighWatermark, ConsumerHighWatermark,
                      StatusHighWatermark, RecordFollowerFetch, HighWatermark
  <2> QED
    BY <1>0, <1>3, <2>1, <2>2
<1>6. ASSUME NEW v \in Callers, ProduceAcked(v) \/ ProduceTimedOut(v)
      PROVE  produced'[w] <= logEnd' /\ (call'[w] # "idle" => target'[w] = produced'[w])
  <2>1. UNCHANGED <<target, produced, logEnd>> /\ (call'[w] # "idle" => call[w] # "idle")
    BY <1>0, <1>6 DEF ProduceAcked, ProduceTimedOut, Done, TimedOut, logVars
  <2> QED
    BY <1>0, <1>3, <2>1
<1>7. ASSUME NEW h \in Handlers, FetchEndOffset(h) \/ FetchRead(h) \/ StatusISR(h)
      PROVE  UNCHANGED <<call, target, produced, logEnd>>
  BY <1>7 DEF FetchEndOffset, FetchRead, StatusISR, ISR, vars, callVars, logVars
<1>8. ASSUME NEW h \in Handlers, NEW f \in Followers,
             FetcherSend(f, h) \/ FetcherAppend(f, h) \/ FetcherDisconnect(f, h)
      PROVE  UNCHANGED <<call, target, produced, logEnd>>
  BY <1>8 DEF FetcherSend, FetcherAppend, FetcherDisconnect, vars, callVars, logVars
<1>9. ASSUME NEW h \in Handlers, NEW kind, ClientEndOffset(h, kind)
      PROVE  UNCHANGED <<call, target, produced, logEnd>>
  BY <1>9 DEF ClientEndOffset, vars, callVars, logVars
<1>10. CASE ProduceNoWait
  BY <1>0, <1>10 DEF ProduceNoWait, vars, callVars
<1>11. CASE Clock \/ UNCHANGED leaderVars
  BY <1>0, <1>11 DEF Clock, Tick, leaderVars, vars, callVars, logVars
<1>12. ASSUME UNCHANGED <<call, target, produced, logEnd>>
       PROVE  produced'[w] <= logEnd' /\ (call'[w] # "idle" => target'[w] = produced'[w])
  BY <1>0, <1>12
<1> QED
  BY <1>1, <1>2, <1>5, <1>6, <1>7, <1>8, <1>9, <1>10, <1>11, <1>12
  DEF LeaderNext, Produce, ReplicaFetch, ClientRead

\* A handler goes on with the request of its follower.
LEMMA HandlerGoesOn ==
    ASSUME LeaderTypeOK, Serving, NEW h \in Handlers, NEW r \in Request,
           Serve(h, r), UNCHANGED <<logEnd, replicaEnd, waitsFor>>,
           handler[h].at \in Fetching, r.at \in Fetching,
           r.by = handler[h].by, r.offset = handler[h].offset, r.end <= logEnd,
           r.at = "replied" => waitsFor[r.by] = h /\ r.offset + r.count <= logEnd
    PROVE  OnTheWay'
  BY DEF OnTheWay, Serving, Serve, LeaderTypeOK

\* A handler that no fetcher waits for ends its request or takes another one.
LEMMA HandlerTurns ==
    ASSUME LeaderTypeOK, Serving, NEW h \in Handlers, NEW r \in Request,
           Serve(h, r), UNCHANGED <<logEnd, replicaEnd, waitsFor>>,
           \A f \in Followers : waitsFor[f] # h,
           r.at \notin Fetching, r.end <= logEnd
    PROVE  OnTheWay'
  BY DEF OnTheWay, Serving, Serve, LeaderTypeOK, Fetching

\* Requests and answers under way stay true to the logs.
LEMMA OnTheWayStep ==
    ASSUME LeaderTypeOK, Serving, ViewIsConservative, [LeaderNext]_leaderVars
    PROVE  OnTheWay'
<1>0. /\ handler \in [Handlers -> Request] /\ OnTheWay
      /\ waitsFor \in [Followers -> Handlers \cup {NoHandler}]
      /\ replicaEnd \in [Followers -> Offsets] /\ logEnd \in Offsets
      /\ NoHandler \notin Handlers
  BY HandlersAssumption DEF LeaderTypeOK, Serving
<1>1. FreeSlot \in Request /\ FreeSlot.at \notin Fetching /\ FreeSlot.end <= logEnd
  BY LeaderTypes, BoundsAssumption DEF FreeSlot, Request, Steps, Offsets, Fetching
<1>2. \A h \in Handlers : handler[h].at \notin Fetching => \A f \in Followers : waitsFor[f] # h
  BY <1>0 DEF OnTheWay
<1>3. ASSUME NEW h \in Handlers, FetchEndOffset(h) PROVE OnTheWay'
  <2> DEFINE r == [handler[h] EXCEPT !.at = "ended", !.end = logEnd]
  <2>1. r \in Request /\ r.at = "ended" /\ r.by = handler[h].by /\ r.offset = handler[h].offset
        /\ r.end = logEnd
    BY <1>0 DEF Request, Steps
  <2>2. Serve(h, r) /\ UNCHANGED <<logEnd, replicaEnd, waitsFor>> /\ handler[h].at = "sent"
    BY <1>3 DEF FetchEndOffset, logVars
  <2> HIDE DEF r
  <2> QED
    BY <2>1, <2>2, HandlerGoesOn, LeaderTypes DEF Fetching
<1>4. ASSUME NEW h \in Handlers, FetchRecord(h) \/ FetchHighWatermark(h) PROVE OnTheWay'
  <2>1. PICK at \in {"recorded", "marked"} : Serve(h, [handler[h] EXCEPT !.at = at])
    BY <1>4 DEF FetchRecord, FetchHighWatermark
  <2> DEFINE r == [handler[h] EXCEPT !.at = at]
  <2>2. r \in Request /\ r.at = at /\ r.by = handler[h].by /\ r.offset = handler[h].offset
        /\ r.end = handler[h].end
    BY <1>0, <2>1 DEF Request, Steps
  <2>3. Serve(h, r) /\ UNCHANGED <<logEnd, replicaEnd, waitsFor>>
        /\ handler[h].at \in {"ended", "recorded"} /\ handler[h].end <= logEnd
    BY <1>0, <1>4, <2>1 DEF FetchRecord, FetchHighWatermark, logVars, OnTheWay
  <2> HIDE DEF r
  <2> QED
    BY <2>1, <2>2, <2>3, HandlerGoesOn DEF Fetching
<1>5. ASSUME NEW h \in Handlers, FetchRead(h) PROVE OnTheWay'
  <2>0. UNCHANGED <<logEnd, replicaEnd, waitsFor>> /\ handler[h].at = "marked"
        /\ handler[h].at \in Fetching
    BY <1>5 DEF FetchRead, logVars, Fetching
  <2>1. CASE waitsFor[handler[h].by] = h
    <3>0. handler[h].offset <= logEnd
      BY <2>0, LeaderTypes DEF Serving, OnTheWay, ViewIsConservative
    <3>1. PICK n \in Nat : /\ Serve(h, [handler[h] EXCEPT !.at = "replied", !.count = n])
                           /\ handler[h].offset + n <= logEnd /\ n \in Offsets
      <4>1. PICK n \in IF handler[h].offset >= handler[h].end THEN {0}
                       ELSE 1..(logEnd - handler[h].offset) :
                  Serve(h, [handler[h] EXCEPT !.at = "replied", !.count = n])
        BY <1>5, <2>1 DEF FetchRead
      <4>2. n \in Nat /\ handler[h].offset + n <= logEnd
        BY <3>0, <4>1, LeaderTypes
      <4>3. n \in Offsets
        BY <4>2, LeaderTypes
      <4> QED
        BY <4>1, <4>2, <4>3
    <3> DEFINE r == [handler[h] EXCEPT !.at = "replied", !.count = n]
    <3>2. r \in Request /\ r.at = "replied" /\ r.by = handler[h].by
          /\ r.offset = handler[h].offset /\ r.end = handler[h].end /\ r.count = n
      BY <1>0, <3>1 DEF Request, Steps
    <3>3. Serve(h, r) /\ handler[h].end <= logEnd
      BY <1>0, <3>1 DEF OnTheWay
    <3> HIDE DEF r
    <3> QED
      BY <2>0, <2>1, <3>1, <3>2, <3>3, HandlerGoesOn DEF Fetching
  <2>2. CASE waitsFor[handler[h].by] # h
    <3>1. Serve(h, FreeSlot) /\ \A f \in Followers : waitsFor[f] # h
      BY <1>0, <1>5, <2>2 DEF FetchRead, OnTheWay
    <3> QED
      BY <1>1, <2>0, <3>1, HandlerTurns
  <2> QED
    BY <2>1, <2>2
<1>6. ASSUME NEW h \in Handlers, ConsumerHighWatermark(h) \/ StatusISR(h) PROVE OnTheWay'
  <2>1. Serve(h, FreeSlot) /\ UNCHANGED <<logEnd, replicaEnd, waitsFor>>
        /\ handler[h].at \notin Fetching
    BY <1>6 DEF ConsumerHighWatermark, StatusISR, logVars, Fetching
  <2> QED
    BY <1>1, <1>2, <2>1, HandlerTurns
<1>7. ASSUME NEW h \in Handlers, StatusHighWatermark(h) PROVE OnTheWay'
  <2> DEFINE r == [handler[h] EXCEPT !.at = "polled"]
  <2>1. r \in Request /\ r.at \notin Fetching /\ r.end = handler[h].end
    BY <1>0 DEF Request, Steps, Fetching
  <2>2. Serve(h, r) /\ UNCHANGED <<logEnd, replicaEnd, waitsFor>>
        /\ handler[h].at \notin Fetching /\ handler[h].end <= logEnd
    BY <1>0, <1>7 DEF StatusHighWatermark, logVars, Fetching, OnTheWay
  <2> HIDE DEF r
  <2> QED
    BY <1>2, <2>1, <2>2, HandlerTurns
<1>8. ASSUME NEW h \in Handlers, NEW kind \in {"consumer", "status"}, ClientEndOffset(h, kind)
      PROVE  OnTheWay'
  <2> DEFINE r == [FreeSlot EXCEPT !.at = kind, !.end = logEnd]
  <2>1. r \in Request /\ r.at \notin Fetching /\ r.end = logEnd
    BY <1>0, <1>1 DEF FreeSlot, Request, Steps, Fetching
  <2>2. Serve(h, r) /\ UNCHANGED <<logEnd, replicaEnd, waitsFor>> /\ handler[h].at \notin Fetching
    BY <1>8 DEF ClientEndOffset, logVars, Fetching
  <2> HIDE DEF r
  <2> QED
    BY <1>2, <2>1, <2>2, HandlerTurns, LeaderTypes
<1>9. ASSUME NEW f \in Followers, NEW h \in Handlers, FetcherSend(f, h) PROVE OnTheWay'
  <2> DEFINE r == [FreeSlot EXCEPT !.at = "sent", !.by = f, !.offset = replicaEnd[f]]
  <2>1. r.at = "sent" /\ r.by = f /\ r.offset = replicaEnd[f] /\ r.end = 0
    BY DEF FreeSlot
  <2>2. /\ handler' = [handler EXCEPT ![h] = r] /\ waitsFor' = [waitsFor EXCEPT ![f] = h]
        /\ UNCHANGED <<logEnd, replicaEnd>> /\ handler[h].at \notin Fetching
    BY <1>9 DEF FetcherSend, Serve, logVars, Fetching
  <2> HIDE DEF r
  <2>3. handler'[h] = r /\ \A k \in Handlers : k # h => handler'[k] = handler[k]
    BY <1>0, <2>2
  <2>4. waitsFor[f] = NoHandler /\ waitsFor'[f] = h
        /\ \A g \in Followers : g # f => waitsFor'[g] = waitsFor[g] /\ waitsFor[g] # h
    BY <1>0, <1>2, <1>9, <2>2 DEF FetcherSend
  <2>5. \A k \in Handlers : handler'[k].end <= logEnd'
    BY <1>0, <2>1, <2>2, <2>3, LeaderTypes DEF OnTheWay
  <2>6. \A k \in Handlers : handler'[k].at \in Fetching =>
           handler'[k].by \in Followers /\ handler'[k].offset <= replicaEnd'[handler'[k].by]
    BY <1>0, <2>1, <2>2, <2>3, LeaderTypes DEF OnTheWay
  <2>7. \A g \in Followers, k \in Handlers : waitsFor'[g] = k =>
           /\ handler'[k].at \in Fetching /\ handler'[k].by = g
           /\ handler'[k].offset = replicaEnd'[g]
    BY <1>0, <2>1, <2>2, <2>3, <2>4 DEF OnTheWay, Fetching
  <2>8. \A k \in Handlers : handler'[k].at = "replied" =>
           waitsFor'[handler'[k].by] = k /\ handler'[k].offset + handler'[k].count <= logEnd'
    <3> SUFFICES ASSUME NEW k \in Handlers, handler'[k].at = "replied"
                 PROVE  waitsFor'[handler'[k].by] = k
                        /\ handler'[k].offset + handler'[k].count <= logEnd'
      OBVIOUS
    <3>1. k # h /\ handler'[k] = handler[k]
      BY <2>1, <2>3
    <3>2. handler[k].by \in Followers /\ waitsFor[handler[k].by] = k
          /\ handler[k].offset + handler[k].count <= logEnd
      BY <1>0, <3>1 DEF OnTheWay, Fetching
    <3>3. handler[k].by # f
      BY <1>0, <2>4, <3>2
    <3> QED
      BY <2>2, <2>4, <3>1, <3>2, <3>3
  <2> QED
    BY <2>5, <2>6, <2>7, <2>8 DEF OnTheWay
<1>10. ASSUME NEW f \in Followers, NEW h \in Handlers, FetcherAppend(f, h) PROVE OnTheWay'
  <2>1. /\ handler' = [handler EXCEPT ![h] = FreeSlot]
        /\ waitsFor' = [waitsFor EXCEPT ![f] = NoHandler] /\ waitsFor[f] = h
        /\ replicaEnd' = [replicaEnd EXCEPT ![f] = @ + handler[h].count]
        /\ UNCHANGED logEnd
    BY <1>10 DEF FetcherAppend, Serve
  <2>2. \A g \in Followers : replicaEnd[g] <= replicaEnd'[g] /\ replicaEnd'[g] \in Nat
    BY LogsGrow, BoundsAssumption DEF Offsets
  <2>3. \A k \in Handlers : handler'[k].at \in Fetching => k # h /\ handler'[k] = handler[k]
    BY <1>0, <1>1, <2>1
  <2>4. \A g \in Followers, k \in Handlers : waitsFor'[g] = k => k # h /\ g # f /\ waitsFor[g] = k
    BY <1>0, <2>1 DEF OnTheWay
  <2>5. \A k \in Handlers : handler'[k].end <= logEnd'
    BY <1>0, <1>1, <2>1 DEF OnTheWay
  <2>6. \A k \in Handlers : handler'[k].at \in Fetching =>
           handler'[k].by \in Followers /\ handler'[k].offset <= replicaEnd'[handler'[k].by]
    BY <1>0, <2>2, <2>3, LeaderTypes DEF OnTheWay
  <2>7. \A g \in Followers, k \in Handlers : waitsFor'[g] = k =>
           /\ handler'[k].at \in Fetching /\ handler'[k].by = g
           /\ handler'[k].offset = replicaEnd'[g]
    BY <1>0, <2>1, <2>4 DEF OnTheWay
  <2>8. \A k \in Handlers : handler'[k].at = "replied" =>
           waitsFor'[handler'[k].by] = k /\ handler'[k].offset + handler'[k].count <= logEnd'
    BY <1>0, <2>1, <2>3 DEF OnTheWay, Fetching
  <2> QED
    BY <2>5, <2>6, <2>7, <2>8 DEF OnTheWay
<1>11. ASSUME NEW f \in Followers, NEW h \in Handlers, FetcherDisconnect(f, h) PROVE OnTheWay'
  <2>1. /\ waitsFor' = [waitsFor EXCEPT ![f] = NoHandler] /\ waitsFor[f] = h
        /\ UNCHANGED <<logEnd, replicaEnd>>
        /\ handler' = IF handler[h].at = "replied" THEN [handler EXCEPT ![h] = FreeSlot] ELSE handler
    BY <1>11 DEF FetcherDisconnect, Serve, logVars
  <2> QED
    BY <1>0, <1>1, <2>1 DEF OnTheWay, Fetching
<1>12. CASE UNCHANGED <<replicaEnd, handler, waitsFor>>
  BY <1>0, <1>12, LogsGrow, LeaderTypes, BoundsAssumption DEF OnTheWay, Offsets
<1>13. CASE Produce \/ Clock \/ UNCHANGED leaderVars
  <2>1. UNCHANGED <<replicaEnd, handler, waitsFor>>
    BY <1>13 DEF Produce, ProduceAppend, ProduceWait, ProduceAcked, ProduceTimedOut,
                 ProduceNoWait, Clock, leaderVars, logVars, netVars
  <2> QED
    BY <1>12, <2>1
<1> QED
  BY <1>3, <1>4, <1>5, <1>6, <1>7, <1>8, <1>9, <1>10, <1>11, <1>13
  DEF LeaderNext, ReplicaFetch, ClientRead
-----------------------------------------------------------------------------
(* Theorems                                                                *)

\* The inductive invariant: types, the view, and what is on its way
Conservative == LeaderTypeOK /\ ViewIsConservative /\ Serving

\* An empty log, no calls, idle handlers
LEMMA InitConservative == LeaderInit => Conservative
<1> SUFFICES ASSUME LeaderInit PROVE Conservative
  OBVIOUS
<1>1. TypeOK
  BY BoundsAssumption DEF LeaderInit, Init, TypeOK, Offsets, Ages, Expired, CallStates
<1>2. FreeSlot \in Request /\ 0 \in Offsets
  BY BoundsAssumption DEF FreeSlot, Request, Steps, Offsets
<1>3. LeaderTypeOK
  BY <1>1, <1>2 DEF LeaderInit, LeaderTypeOK
<1>4. ViewIsConservative
  BY BrokersAssumption DEF LeaderInit, Init, ViewIsConservative, Followers
<1>5. OnTheWay
  BY HandlersAssumption DEF LeaderInit, OnTheWay, FreeSlot, Fetching
<1>6. Serving
  BY <1>5 DEF LeaderInit, Init, Serving
<1> QED
  BY <1>3, <1>4, <1>6 DEF Conservative

\* Every critical section of every handler keeps it.
LEMMA StepConservative == Conservative /\ [LeaderNext]_leaderVars => Conservative'
<1> SUFFICES ASSUME LeaderTypeOK, ViewIsConservative, Serving, [LeaderNext]_leaderVars
             PROVE  Conservative'
  BY DEF Conservative
<1>1. TypeOK'
  BY CallsPartitionState, TypeStep DEF LeaderTypeOK
<1>2. LeaderTypeOK'
  BY <1>1, LogsGrow, NetTypes DEF LeaderTypeOK
<1>3. Serving'
  BY CallsStep, OnTheWayStep DEF Serving
<1> QED
  BY <1>2, <1>3, ViewStep DEF Conservative

\* It holds in every state.
THEOREM ConservativeAlways == LeaderSpec => []Conservative
  BY InitConservative, StepConservative, PTL DEF LeaderSpec

\* What the leader believes of its followers and of its log never runs ahead of
\* them, for any number of followers, handlers and lost connections
\* (fetch.go:96-104).
THEOREM ViewConservative == LeaderSpec => []ViewIsConservative
  BY ConservativeAlways, PTL DEF Conservative

\* The produce and fetch handlers of a leader are a use of PartitionState: what
\* is proved of that, holds here.
THEOREM UsesPartitionState == LeaderSpec => Spec
<1>1. LeaderInit => Init
  BY DEF LeaderInit
<1>2. Conservative /\ [LeaderNext]_leaderVars => [Next]_vars
  BY CallsPartitionState DEF Conservative
<1> QED
  BY <1>1, <1>2, ConservativeAlways, PTL DEF LeaderSpec, Spec

\* A produce call with acks=all is let through only when its record is in the
\* log of every follower in the ISR at that moment (produce.go:155-163).
THEOREM AckedMeansReplicated == LeaderSpec => AckedIsReplicated
<1>1. ASSUME Conservative, Conservative', HighWatermarkSafe', [LeaderNext]_leaderVars
      PROVE  [\A w \in Callers :
                (call'[w] \in {"released", "acked"} /\ call[w] \in {"idle", "parked"})
                   => \A f \in InSync(followerAge)' : replicaEnd'[f] >= produced[w]]_leaderVars
  <2> SUFFICES ASSUME NEW w \in Callers,
                      call'[w] \in {"released", "acked"}, call[w] \in {"idle", "parked"},
                      NEW f \in InSync(followerAge)', LeaderNext
               PROVE  replicaEnd'[f] >= produced[w]
    BY <1>1
  <2>1. TypeOK /\ TypeOK' /\ [Next]_vars
    BY <1>1, CallsPartitionState DEF Conservative, LeaderTypeOK
  <2>2. highWatermark' >= target'[w]
    BY <2>1, LetThroughStep
  <2>3. target'[w] = produced'[w]
    BY <1>1 DEF Conservative, Serving
  <2>4. produced'[w] = produced[w]
    <3>1. \A v \in Callers : ProduceAppend(v) => UNCHANGED call
      BY DEF ProduceAppend, vars, callVars
    <3>2. CASE \E v \in Callers : ProduceAppend(v)
      <4>1. UNCHANGED call
        BY <3>1, <3>2
      <4> QED
        BY <4>1
    <3>3. CASE ~\E v \in Callers : ProduceAppend(v)
      BY <3>3 DEF LeaderNext, Produce, ReplicaFetch, ClientRead, ProduceWait, ProduceAcked,
                  ProduceTimedOut, ProduceNoWait, FetcherSend, FetchEndOffset, FetchRecord,
                  FetchHighWatermark, FetchRead, FetcherAppend, FetcherDisconnect,
                  ClientEndOffset, ConsumerHighWatermark, StatusHighWatermark, StatusISR,
                  Clock, logVars
    <3> QED
      BY <3>2, <3>3
  <2>5. f \in Followers /\ f \in Brokers
    BY BrokersAssumption DEF InSync, Followers
  <2>6. highWatermark' <= followerOffset'[f] /\ followerOffset'[f] <= replicaEnd'[f]
    BY <1>1, <2>5 DEF HighWatermarkSafe, Conservative, ViewIsConservative
  <2>7. /\ highWatermark' \in Nat /\ followerOffset'[f] \in Nat /\ target'[w] \in Nat
        /\ replicaEnd'[f] \in Nat
    BY <1>1, <2>5, BoundsAssumption DEF Conservative, LeaderTypeOK, TypeOK, Offsets
  <2> QED
    BY <2>2, <2>3, <2>4, <2>6, <2>7
<1> QED
  BY <1>1, ConservativeAlways, UsesPartitionState, HighWatermarkIsSafe, PTL
  DEF LeaderSpec, AckedIsReplicated
=============================================================================
