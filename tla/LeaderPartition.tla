--------------------------- MODULE LeaderPartition --------------------------
(***************************************************************************)
(* One partition at its leader, under the real callers of PartitionState:  *)
(* produce handlers, fetch handlers serving the followers' replica         *)
(* fetchers and consumers, and the status page (internal/network           *)
(* produce.go, fetch.go, broker_ops.go; internal/replication fetcher.go).  *)
(*                                                                         *)
(* A handler takes the log's lock and the partition state's lock one after *)
(* the other, never together, so each critical section is an action and    *)
(* the log end a handler passes on may be stale when it arrives.  A lost   *)
(* connection makes a fetcher send its next request while the handler of   *)
(* the previous one still runs.                                            *)
(***************************************************************************)
EXTENDS PartitionState

CONSTANTS
    Handlers,     \* connection handlers of the leader that serve a fetch
    NoHandler,    \* a fetcher that waits for no answer
    Disconnects,  \* may a connection break while its request is served?
    Timeouts      \* may the timer of a produce call fire?

ASSUME HandlersAssumption ==
    NoHandler \notin Handlers /\ Disconnects \in BOOLEAN /\ Timeouts \in BOOLEAN

VARIABLES
    logEnd,       \* EndOffset of the leader's log
    replicaEnd,   \* [Followers -> Offsets], EndOffset of each follower's log
    produced,     \* [Callers -> Offsets], base offset + 1, 0 before the append
    handler,      \* [Handlers -> the request it serves and how far it got]
    waitsFor      \* [Followers -> Handlers \cup {NoHandler}]

logVars    == <<logEnd, replicaEnd, produced>>
netVars    == <<handler, waitsFor>>
leaderVars == <<vars, logVars, netVars>>

\* A request: how far its handler got, the follower that asks and from which
\* offset, the log end read for it, how many batches the answer carries.
\* "consumer", "status", "polled": a consumer's fetch or the status page, which
\* have no follower (by = Leader).
Steps    == {"free", "sent", "ended", "recorded", "marked", "replied",
             "consumer", "status", "polled"}
Request  == [at : Steps, by : Followers \cup {Leader}, offset : Offsets,
             end : Offsets, count : Offsets]
FreeSlot == [at |-> "free", by |-> Leader, offset |-> 0, end |-> 0, count |-> 0]

LeaderTypeOK ==
    /\ TypeOK
    /\ logEnd \in Offsets
    /\ replicaEnd \in [Followers -> Offsets]
    /\ produced \in [Callers -> Offsets]
    /\ handler \in [Handlers -> Request]
    /\ waitsFor \in [Followers -> Handlers \cup {NoHandler}]
-----------------------------------------------------------------------------
LeaderInit ==
    /\ Init
    /\ logEnd = 0
    /\ replicaEnd = [f \in Followers |-> 0]
    /\ produced = [w \in Callers |-> 0]
    /\ handler = [h \in Handlers |-> FreeSlot]
    /\ waitsFor = [f \in Followers |-> NoHandler]

\* producePartition with acks=all, up to the append
ProduceAppend(w) ==
    /\ call[w] = "idle"
    /\ produced[w] = 0
    /\ logEnd < MaxOffset
    /\ logEnd' = logEnd + 1
    /\ produced' = [produced EXCEPT ![w] = logEnd + 1]
    /\ UNCHANGED <<vars, replicaEnd, netVars>>

\* A faulty waitForAllAcks that waits for the base offset itself
ProduceWaitShort(w) ==
    /\ produced[w] > 0
    /\ WaitForHighWatermark(w, produced[w] - 1)
    /\ UNCHANGED <<logVars, netVars>>

\* waitForAllAcks: wait for baseOffset + 1
ProduceWait(w) ==
    /\ produced[w] > 0
    /\ WaitForHighWatermark(w, produced[w])
    /\ UNCHANGED <<logVars, netVars>>

ProduceAcked(w) ==
    /\ Done(w)
    /\ UNCHANGED <<logVars, netVars>>

ProduceTimedOut(w) ==
    /\ Timeouts
    /\ TimedOut(w)
    /\ UNCHANGED <<logVars, netVars>>

\* A produce with acks=1, or through the HTTP API: append and answer
ProduceNoWait ==
    /\ logEnd < MaxOffset
    /\ logEnd' = logEnd + 1
    /\ UNCHANGED <<vars, replicaEnd, produced, netVars>>
-----------------------------------------------------------------------------
(* Fetch                                                                   *)

Serve(h, r) == handler' = [handler EXCEPT ![h] = r]

\* fetcher.fetchOnce: ask for what follows the local log's end
FetcherSend(f, h) ==
    /\ waitsFor[f] = NoHandler
    /\ handler[h].at = "free"
    /\ waitsFor' = [waitsFor EXCEPT ![f] = h]
    /\ Serve(h, [FreeSlot EXCEPT !.at = "sent", !.by = f, !.offset = replicaEnd[f]])
    /\ UNCHANGED <<vars, logVars>>

\* fetchPartition: read the log's end
FetchEndOffset(h) ==
    /\ handler[h].at = "sent"
    /\ Serve(h, [handler[h] EXCEPT !.at = "ended", !.end = logEnd])
    /\ UNCHANGED <<vars, logVars, waitsFor>>

\* A faulty fetchPartition that records what it is about to send
RecordServed(h) ==
    /\ handler[h].at = "ended"
    /\ RecordFollowerFetch(handler[h].by, handler[h].end, handler[h].end)
    /\ Serve(h, [handler[h] EXCEPT !.at = "recorded"])
    /\ UNCHANGED <<logVars, waitsFor>>

\* A faulty fetchPartition that records only fetches that find something new
RecordIfBehind(h) ==
    /\ handler[h].at = "ended"
    /\ IF handler[h].offset < handler[h].end
       THEN RecordFollowerFetch(handler[h].by, handler[h].offset, handler[h].end)
       ELSE UNCHANGED vars
    /\ Serve(h, [handler[h] EXCEPT !.at = "recorded"])
    /\ UNCHANGED <<logVars, waitsFor>>

\* fetchPartition: the offset asked for is what the follower holds
FetchRecord(h) ==
    /\ handler[h].at = "ended"
    /\ RecordFollowerFetch(handler[h].by, handler[h].offset, handler[h].end)
    /\ Serve(h, [handler[h] EXCEPT !.at = "recorded"])
    /\ UNCHANGED <<logVars, waitsFor>>

\* fetchPartition: HighWatermark(endOffset) with the log end read earlier
FetchHighWatermark(h) ==
    /\ handler[h].at = "recorded"
    /\ HighWatermark(handler[h].end)
    /\ Serve(h, [handler[h] EXCEPT !.at = "marked"])
    /\ UNCHANGED <<logVars, waitsFor>>

\* A faulty fetchPartition that skips the range check and counts from the last
\* batch
ReadUnchecked(h) ==
    LET r == handler[h]
    IN  /\ r.at = "marked"
        /\ IF waitsFor[r.by] = h
           THEN Serve(h, [r EXCEPT !.at = "replied", !.count = logEnd - r.offset - 1])
           ELSE Serve(h, FreeSlot)
        /\ UNCHANGED <<vars, logVars, waitsFor>>

\* A faulty fetchPartition that takes the end offset for the last record's
ReadBelowLast(h) ==
    LET r == handler[h]
        counts == IF r.offset >= r.end - 1 THEN {0} ELSE 1..(logEnd - r.offset)
    IN  /\ r.at = "marked"
        /\ IF waitsFor[r.by] = h
           THEN \E n \in counts :
                    Serve(h, [r EXCEPT !.at = "replied", !.count = n])
           ELSE Serve(h, FreeSlot)
        /\ UNCHANGED <<vars, logVars, waitsFor>>

\* fetchPartition: no records at or past the end, else Read, which returns
\* from one batch up to all the log holds by then (maxBytes).  The answer is
\* dropped when the fetcher no longer waits for it.
FetchRead(h) ==
    LET r == handler[h]
        counts == IF r.offset >= r.end THEN {0} ELSE 1..(logEnd - r.offset)
    IN  /\ r.at = "marked"
        /\ IF waitsFor[r.by] = h
           THEN \E n \in counts :
                    Serve(h, [r EXCEPT !.at = "replied", !.count = n])
           ELSE Serve(h, FreeSlot)
        /\ UNCHANGED <<vars, logVars, waitsFor>>

\* fetcher.fetchOnce: append every batch of the answer
FetcherAppend(f, h) ==
    /\ waitsFor[f] = h
    /\ handler[h].at = "replied"
    /\ replicaEnd' = [replicaEnd EXCEPT ![f] = @ + handler[h].count]
    /\ waitsFor' = [waitsFor EXCEPT ![f] = NoHandler]
    /\ Serve(h, FreeSlot)
    /\ UNCHANGED <<vars, logEnd, produced>>

\* BrokerClient.Send fails: the fetcher goes back to its ticker, the handler
\* carries on (unless it had answered already).
FetcherDisconnect(f, h) ==
    /\ Disconnects
    /\ waitsFor[f] = h
    /\ waitsFor' = [waitsFor EXCEPT ![f] = NoHandler]
    /\ IF handler[h].at = "replied" THEN Serve(h, FreeSlot) ELSE UNCHANGED handler
    /\ UNCHANGED <<vars, logVars>>

\* A consumer's fetch, or TopicInfos for the status page: read the log's end,
\* ask for the high watermark, then (status only) for the ISR.
ClientEndOffset(h, kind) ==
    /\ handler[h].at = "free"
    /\ kind = "status" => StatusPolls
    /\ Serve(h, [FreeSlot EXCEPT !.at = kind, !.end = logEnd])
    /\ UNCHANGED <<vars, logVars, waitsFor>>

ConsumerHighWatermark(h) ==
    /\ handler[h].at = "consumer"
    /\ HighWatermark(handler[h].end)
    /\ Serve(h, FreeSlot)
    /\ UNCHANGED <<logVars, waitsFor>>

StatusHighWatermark(h) ==
    /\ handler[h].at = "status"
    /\ HighWatermark(handler[h].end)
    /\ Serve(h, [handler[h] EXCEPT !.at = "polled"])
    /\ UNCHANGED <<logVars, waitsFor>>

StatusISR(h) ==
    /\ handler[h].at = "polled"
    /\ ISR
    /\ Serve(h, FreeSlot)
    /\ UNCHANGED <<logVars, waitsFor>>

Clock == Tick /\ UNCHANGED <<logVars, netVars>>
-----------------------------------------------------------------------------
Produce ==
    \/ \E w \in Callers : ProduceAppend(w)
    \/ \E w \in Callers : ProduceWait(w)
    \/ \E w \in Callers : ProduceAcked(w)
    \/ \E w \in Callers : ProduceTimedOut(w)
    \/ ProduceNoWait

ReplicaFetch ==
    \/ \E f \in Followers, h \in Handlers : FetcherSend(f, h)
    \/ \E h \in Handlers : FetchEndOffset(h)
    \/ \E h \in Handlers : FetchRecord(h)
    \/ \E h \in Handlers : FetchHighWatermark(h)
    \/ \E h \in Handlers : FetchRead(h)
    \/ \E f \in Followers, h \in Handlers : FetcherAppend(f, h)
    \/ \E f \in Followers, h \in Handlers : FetcherDisconnect(f, h)

ClientRead ==
    \/ \E h \in Handlers, kind \in {"consumer", "status"} : ClientEndOffset(h, kind)
    \/ \E h \in Handlers : ConsumerHighWatermark(h)
    \/ \E h \in Handlers : StatusHighWatermark(h)
    \/ \E h \in Handlers : StatusISR(h)

LeaderNext == Produce \/ ReplicaFetch \/ ClientRead \/ Clock

LeaderSpec == LeaderInit /\ [][LeaderNext]_leaderVars

\* A handler that has started runs to its end, a produce call that appended
\* goes on to wait and to return, and a replica fetcher asks again at its next
\* tick: the Go scheduler runs every runnable goroutine, and
\* fetcher.run loops on a ticker.  Clients are free to stop.  Strong fairness
\* of the send: the fetcher's dial gets a handler of its own, whatever the
\* other clients do, while the model shares the bounded set Handlers.
LeaderFairness ==
    /\ \A w \in Callers :
          WF_leaderVars(ProduceWait(w)) /\ WF_leaderVars(ProduceAcked(w))
    /\ \A h \in Handlers :
          WF_leaderVars(\/ FetchEndOffset(h) \/ FetchRecord(h)
                        \/ FetchHighWatermark(h) \/ FetchRead(h)
                        \/ ConsumerHighWatermark(h) \/ StatusHighWatermark(h)
                        \/ StatusISR(h))
    /\ \A f \in Followers :
          /\ SF_leaderVars(\E h \in Handlers : FetcherSend(f, h))
          /\ WF_leaderVars(\E h \in Handlers : FetcherAppend(f, h))

FairLeaderSpec == LeaderSpec /\ LeaderFairness
-----------------------------------------------------------------------------
(* Properties                                                              *)

\* What the leader believes never runs ahead of the logs, although it learns
\* it from delayed requests and stale log ends: a follower holds at least what
\* its recorded offset says, no follower is ahead of the leader, and the end
\* offset in the partition state exists (fetch.go:96-104).
ViewIsConservative ==
    /\ leaderEndOffset <= logEnd
    /\ \A f \in Followers :
          followerOffset[f] <= replicaEnd[f] /\ replicaEnd[f] <= logEnd

\* Produce(acks=all) succeeds only for a record that is in the log of every
\* follower that is in the ISR when the call is let through
\* (produce.go:155-163, docs/master-plan.html:564).
AckedIsReplicated ==
    [][\A w \in Callers :
          (call'[w] \in {"released", "acked"} /\ call[w] \in {"idle", "parked"})
             => \A f \in InSync(followerAge)' : replicaEnd'[f] >= produced[w]]_leaderVars

\* From some moment on no fetcher's connection breaks, unless on an empty answer,
\* which is as good as received.  Handlers of broken ones may still be at work.
ConnectionsSettle ==
    <>[][\A f \in Followers, h \in Handlers :
            FetcherDisconnect(f, h) => FetcherAppend(f, h)]_leaderVars

\* With live followers a record produced with acks=all is acknowledged without
\* the help of its timer, however stale the log ends other handlers pass in and
\* however late those of broken connections (produce.go:155-163, fetch.go:96-104).
ProduceCompletes ==
    ConnectionsSettle => \A w \in Callers : produced[w] > 0 ~> call[w] = "acked"

\* Every follower catches up with the leader when producing stops, whatever
\* fetches were cut off before (fetcher.run, fetcher.go:27-70).
FollowersCatchUp ==
    ConnectionsSettle => \A f \in Followers : []<>(replicaEnd[f] = logEnd)
=============================================================================
