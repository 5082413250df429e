------------------------ MODULE PartitionStateProofs ------------------------
(***************************************************************************)
(* PartitionState for every set of brokers, every lag timeout and any      *)
(* sequence of calls: types, the bound on the high watermark, what an      *)
(* acknowledgement means, and that only ISR() can leave a call asleep.     *)
(***************************************************************************)
EXTENDS PartitionState, WellFoundedInduction, TLAPS

\* Min returns a least element of every non-empty set of naturals.
LEMMA MinNat ==
    ASSUME NEW S \in SUBSET Nat, S # {}
    PROVE  Min(S) \in S /\ \A y \in S : Min(S) <= y
<1> DEFINE R == {ss \in Nat \X Nat : ss[1] < ss[2]}
<1>1. IsWellFoundedOn(R, Nat)
  BY NatLessThanWellFounded DEF OpToRel
<1>2. \A x, y \in Nat : <<y, x>> \notin R => x <= y
  OBVIOUS
<1> HIDE DEF R
<1>3. PICK x \in S : \A y \in S : <<y, x>> \notin R
  BY <1>1, WFMin
<1>4. \A y \in S : x <= y
  BY <1>2, <1>3
<1> QED
  BY <1>4 DEF Min

\* Max of a pair, as WaitForHighWatermark uses it.
LEMMA MaxPair ==
    ASSUME NEW a \in Nat, NEW b \in Nat
    PROVE  Max({a, b}) = IF a >= b THEN a ELSE b
<1>1. \E x \in {a, b} : \A y \in {a, b} : x >= y
  OBVIOUS
<1>2. Max({a, b}) \in {a, b} /\ \A y \in {a, b} : Max({a, b}) >= y
  BY <1>1 DEF Max
<1> QED
  BY <1>2

\* recompute yields an offset bounded by the leader's end offset and by the
\* fetch offset of every follower in the ISR.
LEMMA RecomputeBounds ==
    ASSUME NEW leo \in Offsets, NEW offset \in [Brokers -> Offsets], NEW age
    PROVE  /\ recompute(leo, offset, age) \in Offsets
           /\ recompute(leo, offset, age) <= leo
           /\ \A b \in InSync(age) : recompute(leo, offset, age) <= offset[b]
<1> DEFINE S == {leo} \cup {offset[b] : b \in InSync(age)}
<1>1. InSync(age) \subseteq Brokers
  BY BrokersAssumption DEF InSync, Followers
<1>2. S \subseteq Offsets /\ S # {}
  BY <1>1
<1>3. S \in SUBSET Nat
  BY <1>2, BoundsAssumption DEF Offsets
<1>4. Min(S) \in S /\ \A y \in S : Min(S) <= y
  <2> HIDE DEF S
  <2> QED BY <1>2, <1>3, MinNat
<1>5. recompute(leo, offset, age) = Min(S)
  BY DEF recompute
<1> HIDE DEF S
<1>6. leo \in S /\ \A b \in InSync(age) : offset[b] \in S
  BY DEF S
<1> QED
  BY <1>2, <1>4, <1>5, <1>6

\* What the tail of a recomputing method does to the calls: it wakes parked
\* calls whose target is reached and touches no other.
LEMMA ReleaseTypes ==
    ASSUME TypeOK, NEW hw \in Offsets
    PROVE  /\ releaseWaiters(call, hw) \in [Callers -> CallStates]
           /\ \A w \in Callers :
                 releaseWaiters(call, hw)[w] =
                    IF call[w] = "parked" /\ target[w] <= hw
                    THEN "released" ELSE call[w]
BY DEF TypeOK, releaseWaiters, CallStates
-----------------------------------------------------------------------------
\* Every method keeps the types.
LEMMA TypeStep == TypeOK /\ [Next]_vars => TypeOK'
<1> SUFFICES ASSUME TypeOK, [Next]_vars PROVE TypeOK'
  OBVIOUS
<1>1. ASSUME NEW b \in Brokers, NEW off \in Offsets, NEW leo \in Offsets,
             RecordFollowerFetch(b, off, leo)
      PROVE  TypeOK'
  <2>1. followerOffset' \in [Brokers -> Offsets] /\ followerAge' \in [Brokers -> Ages]
    BY <1>1, BoundsAssumption DEF RecordFollowerFetch, TypeOK, Ages
  <2>2. highWatermark' \in Offsets
    BY <1>1, <2>1, RecomputeBounds DEF RecordFollowerFetch, RecomputeAndRelease
  <2>3. call' \in [Callers -> CallStates]
    BY <1>1, <2>2, ReleaseTypes DEF RecordFollowerFetch, RecomputeAndRelease, TypeOK
  <2> QED
    BY <1>1, <2>1, <2>2, <2>3 DEF RecordFollowerFetch, TypeOK
<1>2. ASSUME NEW leo \in Offsets, HighWatermark(leo)
      PROVE  TypeOK'
  <2>1. highWatermark' \in Offsets
    BY <1>2, RecomputeBounds DEF HighWatermark, RecomputeAndRelease, TypeOK
  <2>2. call' \in [Callers -> CallStates]
    BY <1>2, <2>1, ReleaseTypes DEF HighWatermark, RecomputeAndRelease, TypeOK
  <2> QED
    BY <1>2, <2>1, <2>2 DEF HighWatermark, TypeOK
<1>3. CASE ISR
  BY <1>3, RecomputeBounds DEF ISR, TypeOK, callVars
<1>4. ASSUME NEW w \in Callers, NEW t \in Offsets, WaitForHighWatermark(w, t)
      PROVE  TypeOK'
  <2>1. Max({leaderEndOffset, t}) \in Offsets
    BY MaxPair, BoundsAssumption DEF TypeOK, Offsets
  <2>2. leaderEndOffset' \in Offsets /\ highWatermark' \in Offsets
    BY <1>4, <2>1, RecomputeBounds DEF WaitForHighWatermark, TypeOK
  <2>3. call' \in [Callers -> CallStates]
    BY <1>4, <2>2, ReleaseTypes DEF WaitForHighWatermark, TypeOK, CallStates
  <2> QED
    BY <1>4, <2>2, <2>3 DEF WaitForHighWatermark, TypeOK
<1>5. ASSUME NEW w \in Callers, Done(w) \/ TimedOut(w)
      PROVE  TypeOK'
  BY <1>5 DEF Done, TimedOut, TypeOK, CallStates, stateVars
<1>6. CASE Tick
  BY <1>6, BoundsAssumption DEF Tick, TypeOK, Ages, Expired, callVars
<1>7. CASE UNCHANGED vars
  BY <1>7 DEF vars, stateVars, callVars, TypeOK
<1> QED
  BY <1>1, <1>2, <1>3, <1>4, <1>5, <1>6, <1>7 DEF Next

\* Every variable keeps its type.
THEOREM TypeCorrect == Spec => []TypeOK
<1>1. Init => TypeOK
  BY BoundsAssumption DEF Init, TypeOK, Offsets, Ages, Expired, CallStates
<1> QED
  BY <1>1, TypeStep, PTL DEF Spec
-----------------------------------------------------------------------------
\* One step from a well-typed state keeps HighWatermarkSafe: every method but
\* Done, TimedOut and Tick ends with a recompute over the new state, and Tick
\* only takes followers out of the ISR.
LEMMA HighWatermarkSafeStep ==
    ASSUME TypeOK, TypeOK', HighWatermarkSafe, [Next]_vars
    PROVE  HighWatermarkSafe'
<1>1. ASSUME highWatermark' = recompute(leaderEndOffset', followerOffset', followerAge')
      PROVE  HighWatermarkSafe'
  BY <1>1, RecomputeBounds DEF TypeOK, HighWatermarkSafe
<1>2. ASSUME NEW b \in Brokers, NEW off \in Offsets, NEW leo \in Offsets,
             RecordFollowerFetch(b, off, leo)
      PROVE  HighWatermarkSafe'
  BY <1>1, <1>2 DEF RecordFollowerFetch, RecomputeAndRelease
<1>3. ASSUME NEW leo \in Offsets, HighWatermark(leo)
      PROVE  HighWatermarkSafe'
  BY <1>1, <1>3 DEF HighWatermark, RecomputeAndRelease
<1>4. CASE ISR
  BY <1>1, <1>4 DEF ISR
<1>5. ASSUME NEW w \in Callers, NEW t \in Offsets, WaitForHighWatermark(w, t)
      PROVE  HighWatermarkSafe'
  BY <1>1, <1>5 DEF WaitForHighWatermark
<1>6. ASSUME NEW w \in Callers, Done(w) \/ TimedOut(w)
      PROVE  HighWatermarkSafe'
  BY <1>6 DEF Done, TimedOut, stateVars, HighWatermarkSafe, InSync, followerInISR
<1>7. CASE Tick
  <2>1. InSync(followerAge)' \subseteq InSync(followerAge)
    BY <1>7, BrokersAssumption, BoundsAssumption
       DEF Tick, InSync, followerInISR, Followers, TypeOK, Ages, Expired
  <2> QED
    BY <1>7, <2>1 DEF Tick, HighWatermarkSafe
<1>8. CASE UNCHANGED vars
  BY <1>8 DEF vars, stateVars, HighWatermarkSafe, InSync, followerInISR
<1> QED
  BY <1>2, <1>3, <1>4, <1>5, <1>6, <1>7, <1>8 DEF Next

\* The high watermark is at most the leader's end offset and at most what every
\* follower in the ISR has fetched, for any number of followers.
THEOREM HighWatermarkIsSafe == Spec => []HighWatermarkSafe
<1>1. Init => HighWatermarkSafe
  BY BrokersAssumption, BoundsAssumption
     DEF Init, HighWatermarkSafe, InSync, Followers
<1>2. TypeOK /\ TypeOK' /\ HighWatermarkSafe /\ [Next]_vars => HighWatermarkSafe'
  BY HighWatermarkSafeStep
<1> QED
  BY <1>1, <1>2, TypeCorrect, PTL DEF Spec
-----------------------------------------------------------------------------
\* A call leaves "idle" or "parked" for "released" or "acked" only in a step
\* that leaves the high watermark at or above its target.
LEMMA LetThroughStep ==
    ASSUME TypeOK, TypeOK', [Next]_vars, NEW w \in Callers,
           call'[w] \in {"released", "acked"}, call[w] \in {"idle", "parked"}
    PROVE  highWatermark' >= target'[w]
<1>1. ASSUME NEW leo, NEW offset, NEW age, RecomputeAndRelease(leo, offset, age),
             UNCHANGED target
      PROVE  highWatermark' >= target'[w]
  BY <1>1, ReleaseTypes DEF RecomputeAndRelease, TypeOK, Offsets
<1>2. ASSUME NEW b \in Brokers, NEW off \in Offsets, NEW leo \in Offsets,
             RecordFollowerFetch(b, off, leo)
      PROVE  highWatermark' >= target'[w]
  BY <1>1, <1>2 DEF RecordFollowerFetch
<1>3. ASSUME NEW leo \in Offsets, HighWatermark(leo)
      PROVE  highWatermark' >= target'[w]
  BY <1>1, <1>3 DEF HighWatermark
<1>4. CASE ISR
  BY <1>4 DEF ISR, callVars
<1>5. ASSUME NEW v \in Callers, NEW t \in Offsets, WaitForHighWatermark(v, t)
      PROVE  highWatermark' >= target'[w]
  <2>1. CASE v = w
    BY <1>5, <2>1, ReleaseTypes DEF WaitForHighWatermark, TypeOK
  <2>2. CASE v # w
    BY <1>5, <2>2, ReleaseTypes DEF WaitForHighWatermark, TypeOK, Offsets
  <2> QED
    BY <2>1, <2>2
<1>6. ASSUME NEW v \in Callers, Done(v) \/ TimedOut(v)
      PROVE  highWatermark' >= target'[w]
  BY <1>6 DEF Done, TimedOut, TypeOK
<1>7. CASE Tick
  BY <1>7 DEF Tick, callVars
<1>8. CASE UNCHANGED vars
  BY <1>8 DEF vars, callVars
<1> QED
  BY <1>2, <1>3, <1>4, <1>5, <1>6, <1>7, <1>8 DEF Next

\* No WaitForHighWatermark call is let through before every follower in the
\* ISR at that moment has fetched up to its target.
THEOREM AckMeansISRFetched == Spec => AckNeedsISR
<1>1. ASSUME TypeOK, TypeOK', HighWatermarkSafe', [Next]_vars
      PROVE  [\A w \in Callers :
                (call'[w] \in {"released", "acked"} /\ call[w] \in {"idle", "parked"})
                   => \A b \in InSync(followerAge)' : followerOffset'[b] >= target'[w]]_vars
  <2> SUFFICES ASSUME NEW w \in Callers,
                      call'[w] \in {"released", "acked"}, call[w] \in {"idle", "parked"},
                      NEW b \in InSync(followerAge)'
               PROVE  followerOffset'[b] >= target'[w]
    OBVIOUS
  <2>1. highWatermark' >= target'[w]
    BY <1>1, LetThroughStep
  <2>2. highWatermark' <= followerOffset'[b]
    BY <1>1 DEF HighWatermarkSafe
  <2>3. b \in Brokers
    BY BrokersAssumption DEF InSync, Followers
  <2> QED
    BY <1>1, <2>1, <2>2, <2>3, BoundsAssumption DEF TypeOK, Offsets
<1> QED
  BY <1>1, TypeCorrect, HighWatermarkIsSafe, PTL DEF Spec, AckNeedsISR
-----------------------------------------------------------------------------
\* As long as nobody calls ISR(), no call stays parked once the high watermark
\* has reached its target: a recompute that leaves the mark where it is has
\* nobody to wake, and one that moves it wakes all it must.
THEOREM OnlyPollsLoseWakeups == Spec => []ReleasedUnlessPolled
<1>1. Init => ReleasedUnlessPolled
  BY DEF Init, ReleasedUnlessPolled
<1>2. TypeOK /\ TypeOK' /\ ReleasedUnlessPolled /\ [Next]_vars => ReleasedUnlessPolled'
  <2> SUFFICES ASSUME TypeOK, TypeOK', ReleasedUnlessPolled, [Next]_vars, ~StatusPolls,
                      NEW w \in Callers, call'[w] = "parked"
               PROVE  highWatermark' < target'[w]
    BY DEF ReleasedUnlessPolled
  <2>0. call[w] = "parked" => highWatermark < target[w]
    BY DEF ReleasedUnlessPolled
  <2>1. ASSUME NEW leo, NEW offset, NEW age, RecomputeAndRelease(leo, offset, age),
               UNCHANGED target
        PROVE  highWatermark' < target'[w]
    BY <2>0, <2>1, ReleaseTypes DEF RecomputeAndRelease, TypeOK, Offsets
  <2>2. ASSUME NEW b \in Brokers, NEW off \in Offsets, NEW leo \in Offsets,
               RecordFollowerFetch(b, off, leo)
        PROVE  highWatermark' < target'[w]
    BY <2>1, <2>2 DEF RecordFollowerFetch
  <2>3. ASSUME NEW leo \in Offsets, HighWatermark(leo)
        PROVE  highWatermark' < target'[w]
    BY <2>1, <2>3 DEF HighWatermark
  <2>4. ASSUME NEW v \in Callers, NEW t \in Offsets, WaitForHighWatermark(v, t)
        PROVE  highWatermark' < target'[w]
    <3>1. CASE v = w
      BY <2>4, <3>1, ReleaseTypes DEF WaitForHighWatermark, TypeOK, Offsets
    <3>2. CASE v # w
      BY <2>0, <2>4, <3>2, ReleaseTypes DEF WaitForHighWatermark, TypeOK, Offsets
    <3> QED
      BY <3>1, <3>2
  <2>5. ASSUME NEW v \in Callers, Done(v) \/ TimedOut(v)
        PROVE  highWatermark' < target'[w]
    BY <2>0, <2>5 DEF Done, TimedOut, TypeOK, stateVars
  <2>6. CASE Tick \/ UNCHANGED vars
    BY <2>0, <2>6 DEF Tick, vars, stateVars, callVars
  <2> QED
    BY <2>2, <2>3, <2>4, <2>5, <2>6 DEF Next, ISR
<1> QED
  BY <1>1, <1>2, TypeCorrect, PTL DEF Spec
=============================================================================
