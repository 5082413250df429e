--------------------------- MODULE PartitionState ---------------------------
(***************************************************************************)
(* The leader's view of one partition (internal/replication,               *)
(* partition_state.go): the last fetch offset and the last contact of each *)
(* follower, the high watermark computed from them, and the acks=all       *)
(* produce calls parked until the high watermark reaches their target.     *)
(*                                                                         *)
(* Every method holds s.mu from its first to its last access, so a method  *)
(* is one action; WaitForHighWatermark is split at its select, the only    *)
(* place where it runs without the lock.                                   *)
(*                                                                         *)
(* Time: followerSeen is kept as the age of the last contact in units      *)
(* where lagTimeout is LagTimeout.  Ages above LagTimeout are alike, so    *)
(* they stop at LagTimeout + 1, which also stands for "no entry".          *)
(***************************************************************************)
EXTENDS Integers, FiniteSetsExt

CONSTANTS
    Brokers,      \* ids that may appear in a fetch request
    Replicas,     \* the replicas the state was created with
    Leader,       \* this broker
    Callers,      \* WaitForHighWatermark calls, one element per call
    MaxOffset,    \* bound on log offsets
    LagTimeout,   \* lagTimeout, in ticks
    StatusPolls   \* does anyone call ISR() (the status page, TopicInfos)?

ASSUME BrokersAssumption ==
    Replicas \ {Leader} \subseteq Brokers
ASSUME BoundsAssumption ==
    MaxOffset \in Nat /\ LagTimeout \in Nat
ASSUME PollsAssumption ==
    StatusPolls \in BOOLEAN

VARIABLES
    followerOffset,   \* [Brokers -> Offsets], the offset of the last fetch
    followerAge,      \* [Brokers -> Ages], time since the last fetch
    leaderEndOffset,  \* the end offset the last caller passed in
    highWatermark,
    call,             \* [Callers -> CallStates]
    target            \* [Callers -> Offsets], the offset a call waits for

stateVars == <<followerOffset, followerAge, leaderEndOffset, highWatermark>>
callVars  == <<call, target>>
vars      == <<stateVars, callVars>>

Offsets == 0..MaxOffset
Ages    == 0..(LagTimeout + 1)
Expired == LagTimeout + 1

\* "parked": in s.waiters.  "released": removed from s.waiters with its done
\* channel closed, the goroutine not yet through its select.
CallStates == {"idle", "parked", "released", "acked", "timedout"}

Followers == Replicas \ {Leader}

TypeOK ==
    /\ followerOffset \in [Brokers -> Offsets]
    /\ followerAge \in [Brokers -> Ages]
    /\ leaderEndOffset \in Offsets
    /\ highWatermark \in Offsets
    /\ call \in [Callers -> CallStates]
    /\ target \in [Callers -> Offsets]
-----------------------------------------------------------------------------
(* The ISR and the high watermark                                          *)

followerInISR(b, age) == age[b] <= LagTimeout

InSync(age) == {b \in Followers : followerInISR(b, age)}

\* isr(now): the leader and the followers in contact
isr(age) == {Leader} \cup InSync(age)

\* recompute(now): the smallest of the leader's end offset and the in-sync
\* followers' fetch offsets
recompute(leo, offset, age) ==
    Min({leo} \cup {offset[b] : b \in InSync(age)})

\* A faulty releaseWaiters that wakes everyone whenever the mark moves
ReleaseAll(c, hw) ==
    [w \in Callers |-> IF c[w] = "parked" THEN "released" ELSE c[w]]

\* releaseWaiters(): every parked call whose target is reached is woken
releaseWaiters(c, hw) ==
    [w \in Callers |->
        IF c[w] = "parked" /\ target[w] <= hw THEN "released" ELSE c[w]]

\* The tail of every recomputing method: store the new high watermark, and
\* look at the waiters only if it differs from the old one.
RecomputeAndRelease(leo, offset, age) ==
    LET next == recompute(leo, offset, age) IN
    /\ highWatermark' = next
    /\ call' = IF next # highWatermark THEN releaseWaiters(call, next) ELSE call
-----------------------------------------------------------------------------
\* NewPartitionState: every follower counts as just seen, at offset 0
Init ==
    /\ followerOffset = [b \in Brokers |-> 0]
    /\ followerAge = [b \in Brokers |-> IF b \in Followers THEN 0 ELSE Expired]
    /\ leaderEndOffset = 0
    /\ highWatermark = 0
    /\ call = [w \in Callers |-> "idle"]
    /\ target = [w \in Callers |-> 0]

\* A faulty RecordFollowerFetch that takes the contact but not the offset into
\* account
RecordContactOnly(b, fetchOffset, leo) ==
    /\ followerOffset' = [followerOffset EXCEPT ![b] = fetchOffset]
    /\ followerAge' = [followerAge EXCEPT ![b] = 0]
    /\ leaderEndOffset' = leo
    /\ UNCHANGED <<highWatermark, callVars>>

RecordFollowerFetch(b, fetchOffset, leo) ==
    /\ followerOffset' = [followerOffset EXCEPT ![b] = fetchOffset]
    /\ followerAge' = [followerAge EXCEPT ![b] = 0]
    /\ leaderEndOffset' = leo
    /\ RecomputeAndRelease(leo, followerOffset', followerAge')
    /\ UNCHANGED target

\* A faulty HighWatermark that forgets the waiters, the way ISR() does
HighWatermarkNoRelease(leo) ==
    /\ leaderEndOffset' = leo
    /\ highWatermark' = recompute(leo, followerOffset, followerAge)
    /\ UNCHANGED <<followerOffset, followerAge, callVars>>

HighWatermark(leo) ==
    /\ leaderEndOffset' = leo
    /\ RecomputeAndRelease(leo, followerOffset, followerAge)
    /\ UNCHANGED <<followerOffset, followerAge, target>>

\* ISR(): recompute stores the new high watermark, but its result is dropped
\* and the waiters are not looked at.
ISR ==
    /\ StatusPolls
    /\ highWatermark' = recompute(leaderEndOffset, followerOffset, followerAge)
    /\ UNCHANGED <<followerOffset, followerAge, leaderEndOffset, callVars>>

\* WaitForHighWatermark(t) up to its select: raise the leader's end offset,
\* recompute, release the others, then return at once or park.
WaitForHighWatermark(w, t) ==
    LET leo  == Max({leaderEndOffset, t})
        next == recompute(leo, followerOffset, followerAge)
        others == IF next # highWatermark THEN releaseWaiters(call, next) ELSE call
    IN  /\ call[w] = "idle"
        /\ target' = [target EXCEPT ![w] = t]
        /\ leaderEndOffset' = leo
        /\ highWatermark' = next
        /\ call' = [others EXCEPT ![w] = IF next >= t THEN "acked" ELSE "parked"]
        /\ UNCHANGED <<followerOffset, followerAge>>

\* select: <-done
Done(w) ==
    /\ call[w] = "released"
    /\ call' = [call EXCEPT ![w] = "acked"]
    /\ UNCHANGED <<stateVars, target>>

\* select: <-timer.C, then removeWaiter.  When done is closed as well select
\* may still choose the timer.
TimedOut(w) ==
    /\ call[w] \in {"parked", "released"}
    /\ call' = [call EXCEPT ![w] = "timedout"]
    /\ UNCHANGED <<stateVars, target>>

\* The clock advances; nothing in the program reacts to it by itself.
Tick ==
    /\ followerAge' = [b \in Brokers |->
           IF followerAge[b] < Expired THEN followerAge[b] + 1 ELSE Expired]
    /\ UNCHANGED <<followerOffset, leaderEndOffset, highWatermark, callVars>>

Next ==
    \/ \E b \in Brokers, off, leo \in Offsets : RecordFollowerFetch(b, off, leo)
    \/ \E leo \in Offsets : HighWatermark(leo)
    \/ ISR
    \/ \E w \in Callers, t \in Offsets : WaitForHighWatermark(w, t)
    \/ \E w \in Callers : Done(w)
    \/ \E w \in Callers : TimedOut(w)
    \/ Tick

Spec == Init /\ [][Next]_vars
-----------------------------------------------------------------------------
(* Properties                                                              *)

\* The high watermark is never above the leader's end offset, nor above what a
\* follower that is in the ISR now has fetched.  Time shrinks the ISR between
\* calls and a fetch grows it again (recompute, partition_state.go:120-136).
HighWatermarkSafe ==
    /\ highWatermark <= leaderEndOffset
    /\ \A b \in InSync(followerAge) : highWatermark <= followerOffset[b]

\* A WaitForHighWatermark call is let through, at once or by closing its done
\* channel, only when every follower in the ISR has fetched up to its target
\* (partition_state.go:78-81 and 159-169, acks=all).
AckNeedsISR ==
    [][\A w \in Callers :
          (call'[w] \in {"released", "acked"} /\ call[w] \in {"idle", "parked"})
             => \A b \in InSync(followerAge)' : followerOffset'[b] >= target'[w]]_vars

\* "WaitForHighWatermark blocks until the high watermark reaches target or the
\* timeout fires" (partition_state.go:61-62): no call stays parked once the
\* high watermark is at its target.  The methods other than ISR() keep this.
ReleasedUnlessPolled ==
    ~StatusPolls =>
        \A w \in Callers : call[w] = "parked" => highWatermark < target[w]
=============================================================================
