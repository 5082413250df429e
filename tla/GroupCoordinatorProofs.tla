----------------------- MODULE GroupCoordinatorProofs -----------------------
(***************************************************************************)
(* The invariants of GroupCoordinator for every set of clients and any     *)
(* number of joins, and that clients may crash at any moment without       *)
(* touching them.                                                          *)
(*                                                                         *)
(* Most of the invariants are inductive only together: that a rebalance    *)
(* has its timer rests on an empty JoinOrder meaning an empty group, that  *)
(* the leader is first on JoinOrder having no id twice, and that a Stable  *)
(* group is assigned on the roster covering the generation.                *)
(***************************************************************************)
EXTENDS GroupCrashes, TLAPS

\* What concatenation yields, element by element
LEMMA ConcatFacts ==
    ASSUME NEW S, NEW u \in Seq(S), NEW v \in Seq(S)
    PROVE  /\ u \o v \in Seq(S) /\ Len(u \o v) = Len(u) + Len(v)
           /\ \A i \in 1..(Len(u) + Len(v)) :
                 (u \o v)[i] = IF i <= Len(u) THEN u[i] ELSE v[i - Len(u)]
  OBVIOUS

\* removeMember's cut leaves the other ids, in their order: no id comes in, none
\* but the removed one goes, none appears twice, and the first stays first.
LEMMA RemoveAtFacts ==
    ASSUME NEW S, NEW s \in Seq(S), NEW k \in DOMAIN s,
           \A i, j \in DOMAIN s : s[i] = s[j] => i = j
    PROVE  /\ RemoveAt(s, k) \in Seq(S)
           /\ Range(RemoveAt(s, k)) = Range(s) \ {s[k]}
           /\ \A i, j \in DOMAIN RemoveAt(s, k) :
                 RemoveAt(s, k)[i] = RemoveAt(s, k)[j] => i = j
           /\ k # 1 => RemoveAt(s, k) # <<>> /\ Head(RemoveAt(s, k)) = Head(s)
<1> DEFINE u == SubSeq(s, 1, k - 1)
           v == SubSeq(s, k + 1, Len(s))
           r == u \o v
           old(i) == IF i < k THEN i ELSE i + 1
<1>1. Len(s) \in Nat /\ k \in 1..Len(s) /\ DOMAIN s = 1..Len(s)
  OBVIOUS
<1>2. u \in Seq(S) /\ Len(u) = k - 1 /\ \A i \in 1..(k - 1) : u[i] = s[i]
  BY <1>1
<1>3. v \in Seq(S) /\ Len(v) = Len(s) - k /\ \A i \in 1..(Len(s) - k) : v[i] = s[k + i]
  <2>1. v \in Seq(S) /\ \A i \in 1..Len(v) : v[i] = s[k + i]
    BY <1>1
  <2>2. Len(v) = Len(s) - k
    BY <1>1
  <2> QED
    BY <2>1, <2>2
<1>0. RemoveAt(s, k) = r
  BY DEF RemoveAt
<1> HIDE DEF u, v
<1>4. /\ r \in Seq(S) /\ Len(r) = Len(s) - 1
      /\ \A i \in 1..(Len(s) - 1) : r[i] = IF i <= k - 1 THEN u[i] ELSE v[i - (k - 1)]
  <2>1. /\ r \in Seq(S) /\ Len(r) = Len(u) + Len(v)
        /\ \A i \in 1..(Len(u) + Len(v)) : r[i] = IF i <= Len(u) THEN u[i] ELSE v[i - Len(u)]
    <3>1. u \in Seq(S) /\ v \in Seq(S)
      BY <1>2, <1>3
    <3> QED
      BY ONLY <3>1, ConcatFacts, Zenon
  <2>2. Len(u) + Len(v) = Len(s) - 1
    BY <1>1, <1>2, <1>3
  <2> HIDE DEF r
  <2> QED
    BY <2>1, <2>2, <1>2
<1>5. \A i \in 1..(Len(s) - 1) : r[i] = s[old(i)]
  <2> SUFFICES ASSUME NEW i \in 1..(Len(s) - 1) PROVE r[i] = s[old(i)]
    OBVIOUS
  <2> HIDE DEF r
  <2>1. CASE i < k
    BY <2>1, <1>1, <1>2, <1>4
  <2>2. CASE i >= k
    <3>1. i - (k - 1) \in 1..(Len(s) - k) /\ k + (i - (k - 1)) = i + 1
      BY <2>2, <1>1
    <3>2. r[i] = v[i - (k - 1)] /\ old(i) = i + 1
      BY <2>2, <1>1, <1>4
    <3> QED
      BY <3>1, <3>2, <1>3
  <2> QED
    BY <2>1, <2>2, <1>1
<1>6. DOMAIN r = 1..(Len(s) - 1)
  BY <1>4
<1>7. \A i \in 1..(Len(s) - 1) : old(i) \in 1..Len(s) /\ old(i) # k
  BY <1>1
<1>8. \A i, j \in 1..(Len(s) - 1) : old(i) = old(j) => i = j
  BY <1>1
<1>9. \A x \in 1..Len(s) : x # k => \E i \in 1..(Len(s) - 1) : old(i) = x
  <2> SUFFICES ASSUME NEW x \in 1..Len(s), x # k
               PROVE  \E i \in 1..(Len(s) - 1) : old(i) = x
    OBVIOUS
  <2>1. CASE x < k
    BY <2>1, <1>1
  <2>2. CASE x > k
    <3>1. x - 1 \in 1..(Len(s) - 1) /\ old(x - 1) = x
      BY <2>2, <1>1
    <3> QED BY <3>1
  <2> QED BY <2>1, <2>2
<1> HIDE DEF r, old
<1>10. Range(r) = Range(s) \ {s[k]}
  <2>1. ASSUME NEW i \in 1..(Len(s) - 1) PROVE r[i] \in Range(s) \ {s[k]}
    BY <1>1, <1>5, <1>7 DEF Range
  <2>2. ASSUME NEW x \in 1..Len(s), s[x] # s[k] PROVE s[x] \in Range(r)
    BY <2>2, <1>5, <1>6, <1>9 DEF Range
  <2> QED
    BY <1>1, <1>6, <2>1, <2>2 DEF Range
<1>11. \A i, j \in DOMAIN r : r[i] = r[j] => i = j
  BY <1>1, <1>5, <1>6, <1>7, <1>8
<1>12. k # 1 => r # <<>> /\ Head(r) = Head(s)
  <2> SUFFICES ASSUME k # 1 PROVE r # <<>> /\ Head(r) = Head(s)
    OBVIOUS
  <2>1. 1 \in 1..(Len(s) - 1) /\ old(1) = 1
    BY <1>1 DEF old
  <2>2. r[1] = s[1] /\ Len(r) > 0 /\ s # <<>>
    BY <1>1, <1>4, <1>5, <2>1
  <2> QED
    BY <1>4, <2>2
<1> QED
  BY <1>0, <1>4, <1>10, <1>11, <1>12
-----------------------------------------------------------------------------
(* Types                                                                   *)

\* What removeMember makes of Members and JoinOrder
LEMMA Removed ==
    ASSUME TypeOK, MembersMatchJoinOrder, NEW m \in members, removeMember(m)
    PROVE  /\ members' = members \ {m} /\ joinOrder' \in Seq(Member)
           /\ members' = Range(joinOrder')
           /\ \A i, j \in DOMAIN joinOrder' : joinOrder'[i] = joinOrder'[j] => i = j
           /\ joinOrder # <<>> /\ Head(joinOrder) # m
                 => joinOrder' # <<>> /\ Head(joinOrder') = Head(joinOrder)
<1>1. joinOrder \in Seq(Member) /\ members = Range(joinOrder)
      /\ \A i, j \in DOMAIN joinOrder : joinOrder[i] = joinOrder[j] => i = j
  BY DEF TypeOK, MembersMatchJoinOrder
<1>2. \E i \in DOMAIN joinOrder : joinOrder[i] = m
  BY <1>1 DEF Range
<1>3. PICK k \in DOMAIN joinOrder : joinOrder[k] = m /\ joinOrder' = RemoveAt(joinOrder, k)
  <2> DEFINE k == CHOOSE i \in DOMAIN joinOrder : joinOrder[i] = m
  <2>1. k \in DOMAIN joinOrder /\ joinOrder[k] = m
    BY <1>2
  <2>2. joinOrder' = RemoveAt(joinOrder, k)
    BY <1>2 DEF removeMember
  <2> HIDE DEF k
  <2> QED
    BY <2>1, <2>2
<1>4. /\ joinOrder' \in Seq(Member)
      /\ Range(joinOrder') = Range(joinOrder) \ {m}
      /\ \A i, j \in DOMAIN joinOrder' : joinOrder'[i] = joinOrder'[j] => i = j
      /\ k # 1 => joinOrder' # <<>> /\ Head(joinOrder') = Head(joinOrder)
  BY <1>1, <1>3, RemoveAtFacts
<1>5. joinOrder # <<>> /\ Head(joinOrder) # m => k # 1
  BY <1>1, <1>3
<1> QED
  BY <1>1, <1>4, <1>5 DEF removeMember

\* No action leaves the types.
LEMMA TypeStep ==
    ASSUME TypeOK, MembersMatchJoinOrder, [Next]_vars
    PROVE  TypeOK'
<1> USE DEF TypeOK, States, Calls, NoResult
<1>1. ASSUME NEW m \in Member, Join(m) PROVE TypeOK'
  <2>1. joinOrder' \in Seq(Member) /\ joins' \in 0..MaxJoins /\ looseTimers' \in Nat
    BY <1>1, JoinsAssumption DEF Join, OpenJoinWindow
  <2> QED
    BY <1>1, <2>1 DEF Join, OpenJoinWindow, Forget
<1>2. ASSUME NEW m \in Member, SyncRefused(m) \/ HeartbeatRefused(m) PROVE TypeOK'
  <2>1. Forget(m) /\ UNCHANGED <<groupVars, timerVars, memberVars, roster, call, joins>>
    BY <1>2 DEF SyncRefused, HeartbeatRefused
  <2> QED
    BY <2>1 DEF Forget, groupVars, timerVars, memberVars
<1>3. ASSUME NEW m \in Member, SyncLeader(m) PROVE TypeOK'
  <2>1. \A n \in Member : Assigned(n) \in Nat
    BY DEF Assigned
  <2> QED
    BY <1>3, <2>1 DEF SyncLeader, touch
<1>4. ASSUME NEW m \in Member, SyncStable(m) PROVE TypeOK'
  BY <1>4 DEF SyncStable, touch, groupVars, memberVars
<1>5. ASSUME NEW m \in Member, SyncWait(m) PROVE TypeOK'
  BY <1>5 DEF SyncWait, touch, groupVars
<1>6. ASSUME NEW m \in Member, Heartbeat(m) PROVE TypeOK'
  BY <1>6 DEF Heartbeat, touch, groupVars, memberVars, clientVars
<1>7. ASSUME NEW m \in members, DropMember(m)
      PROVE  /\ members' \in SUBSET Member /\ joinOrder' \in Seq(Member)
             /\ state' \in States /\ leader' \in Member \cup {NoMember}
             /\ joinTimer' \in {"off", "armed"}
             /\ session' \in [Member -> {"off", "armed"}]
             /\ assignment' \in [Member -> Nat]
             /\ awaitSync' \in [Member -> Nat \cup {NoResult}]
             /\ call' \in [Member -> Calls]
  <2>1. members' = members \ {m} /\ joinOrder' \in Seq(Member)
    BY <1>7, Removed DEF DropMember
  <2>2. state' \in States /\ leader' \in Member \cup {NoMember} /\ joinTimer' \in {"off", "armed"}
    BY <1>7 DEF DropMember, maybeRebalance
  <2> QED
    BY <1>7, <2>1, <2>2 DEF DropMember
<1>8. ASSUME NEW m \in Member, Leave(m) PROVE TypeOK'
  <2>1. m \in members /\ DropMember(m)
    BY <1>8 DEF Leave
  <2>2. clientGen' \in [Member -> Nat] /\ got' \in [Member -> Nat \cup {NoResult}]
    BY <1>8 DEF Leave, Forget
  <2> QED
    BY <1>7, <1>8, <2>1, <2>2 DEF Leave
<1>9. ASSUME NEW m \in Member, expireMember(m) PROVE TypeOK'
  <2>1. CASE m \in members
    BY <1>7, <1>9, <2>1 DEF expireMember
  <2>2. CASE m \notin members
    BY <1>9, <2>2 DEF expireMember, memberVars
  <2> QED
    BY <2>1, <2>2
<1>10. CASE JoinTimerFires
  BY <1>10 DEF JoinTimerFires, groupVars, memberVars, clientVars
<1>11. CASE completeJoin
  <2>1. CASE joinOrder = <<>>
    BY <1>11, <2>1 DEF completeJoin, groupVars, memberVars, clientVars
  <2>2. CASE joinOrder # <<>>
    <3>1. Head(joinOrder) \in Member /\ Range(joinOrder) \subseteq Member
      BY <2>2 DEF Range
    <3>2. generation + 1 \in Nat /\ looseTimers' \in Nat
      BY <1>11 DEF completeJoin
    <3> QED
      BY <1>11, <2>2, <3>1, <3>2 DEF completeJoin, touch, leaderMembers, memberVars
  <2> QED
    BY <2>1, <2>2
<1>12. ASSUME NEW m \in Member, SessionFires(m) PROVE TypeOK'
  BY <1>12 DEF SessionFires, groupVars, memberVars, clientVars
<1>13. CASE UNCHANGED vars
  BY <1>13 DEF vars, groupVars, timerVars, memberVars, clientVars
<1> QED
  BY <1>1, <1>2, <1>3, <1>4, <1>5, <1>6, <1>8, <1>9, <1>10, <1>11, <1>12, <1>13
  DEF Next, Timers, Request, Sync
-----------------------------------------------------------------------------
(* The invariants, one by one                                              *)

\* Join's append of a new id
LEMMA AppendFacts ==
    ASSUME NEW S, NEW s \in Seq(S), NEW e \in S, e \notin Range(s),
           \A i, j \in DOMAIN s : s[i] = s[j] => i = j
    PROVE  /\ Range(Append(s, e)) = Range(s) \cup {e}
           /\ \A i, j \in DOMAIN Append(s, e) : Append(s, e)[i] = Append(s, e)[j] => i = j
<1> DEFINE t == Append(s, e)
<1>1. DOMAIN t = 1..(Len(s) + 1) /\ DOMAIN s = 1..Len(s) /\ Len(s) \in Nat
      /\ t[Len(s) + 1] = e /\ \A i \in 1..Len(s) : t[i] = s[i]
  OBVIOUS
<1>2. \A i \in 1..Len(s) : s[i] # e
  BY <1>1 DEF Range
<1> HIDE DEF t
<1>3. Range(t) = Range(s) \cup {e}
  <2>1. \A i \in 1..(Len(s) + 1) : i \in 1..Len(s) \/ i = Len(s) + 1
    BY <1>1
  <2>2. \A i \in 1..Len(s) : i \in 1..(Len(s) + 1)
    BY <1>1
  <2>3. Len(s) + 1 \in 1..(Len(s) + 1)
    BY <1>1
  <2> QED
    BY <1>1, <2>1, <2>2, <2>3 DEF Range
<1>4. \A i, j \in DOMAIN t : t[i] = t[j] => i = j
  BY <1>1, <1>2
<1> QED
  BY <1>3, <1>4 DEF t

\* Members and JoinOrder stay one thing: Join appends an id only if it is new,
\* removeMember cuts it out of both.
LEMMA MatchStep ==
    ASSUME TypeOK, MembersMatchJoinOrder, [Next]_vars
    PROVE  MembersMatchJoinOrder'
<1> USE DEF TypeOK, MembersMatchJoinOrder
<1>1. ASSUME NEW m \in Member, Join(m) PROVE MembersMatchJoinOrder'
  <2>1. CASE m \in members
    BY <1>1, <2>1 DEF Join
  <2>2. CASE m \notin members
    <3>1. joinOrder' = Append(joinOrder, m) /\ members' = members \cup {m}
          /\ state' = "PreparingRebalance"
      BY <1>1, <2>2 DEF Join
    <3>2. joinOrder \in Seq(Member) /\ m \in Member /\ m \notin Range(joinOrder)
          /\ \A i, j \in DOMAIN joinOrder : joinOrder[i] = joinOrder[j] => i = j
      BY <2>2
    <3>3. Range(joinOrder') = Range(joinOrder) \cup {m}
          /\ \A i, j \in DOMAIN joinOrder' : joinOrder'[i] = joinOrder'[j] => i = j
      BY ONLY <3>1, <3>2, AppendFacts
    <3> QED
      BY <3>1, <3>3
  <2> QED
    BY <2>1, <2>2
<1>2. ASSUME NEW m \in members, DropMember(m) PROVE MembersMatchJoinOrder'
  <2>1. /\ members' = members \ {m} /\ members' = Range(joinOrder')
        /\ \A i, j \in DOMAIN joinOrder' : joinOrder'[i] = joinOrder'[j] => i = j
    BY <1>2, Removed DEF DropMember
  <2>2. (state' = "Empty") <=> (members = {m})
    BY <1>2 DEF DropMember, maybeRebalance
  <2> QED
    BY <2>1, <2>2
<1>3. ASSUME NEW m \in Member, Leave(m) \/ expireMember(m) PROVE MembersMatchJoinOrder'
  <2>1. CASE m \in members
    BY <1>2, <1>3, <2>1 DEF Leave, expireMember
  <2>2. CASE m \notin members
    BY <1>3, <2>2 DEF Leave, expireMember
  <2> QED
    BY <2>1, <2>2
<1>4. CASE completeJoin
  <2>1. CASE joinOrder = <<>>
    BY <1>4, <2>1 DEF completeJoin, groupVars
  <2>2. CASE joinOrder # <<>>
    <3>1. 1 \in DOMAIN joinOrder
      BY <2>2
    <3>2. Range(joinOrder) # {}
      BY ONLY <3>1, Zenon DEF Range
    <3> QED
      BY <1>4, <2>2, <3>2 DEF completeJoin
  <2> QED
    BY <2>1, <2>2
<1>5. ASSUME NEW m \in Member, Sync(m) \/ Heartbeat(m) \/ HeartbeatRefused(m) \/ SessionFires(m)
      PROVE  MembersMatchJoinOrder'
  <2>1. CASE SyncLeader(m)
    BY <2>1 DEF SyncLeader, SyncAccepted
  <2>2. CASE ~SyncLeader(m)
    <3>1. UNCHANGED <<state, members, joinOrder>>
      BY <1>5, <2>2 DEF Sync, SyncRefused, SyncStable, SyncWait, Heartbeat, HeartbeatRefused,
                        SessionFires, groupVars
    <3> QED
      BY <3>1
  <2> QED
    BY <2>1, <2>2
<1>6. CASE JoinTimerFires \/ UNCHANGED vars
  BY <1>6 DEF JoinTimerFires, vars, groupVars
<1> QED
  BY <1>1, <1>3, <1>4, <1>5, <1>6 DEF Next, Timers, Request

\* The longest-standing member leads: a new id goes to the end of JoinOrder, and
\* who leaves from its front takes the lead along.
LEMMA LeaderStep ==
    ASSUME TypeOK, MembersMatchJoinOrder, LeaderIsFirst, [Next]_vars
    PROVE  LeaderIsFirst'
<1> USE DEF LeaderIsFirst
<1>1. ASSUME NEW m \in Member, Join(m) PROVE LeaderIsFirst'
  <2>1. joinOrder \in Seq(Member)
    BY DEF TypeOK
  <2>2. joinOrder # <<>> => joinOrder' # <<>> /\ Head(joinOrder') = Head(joinOrder)
    BY <1>1, <2>1 DEF Join
  <2> QED
    BY <1>1, <2>2 DEF Join
<1>2. ASSUME NEW m \in members, DropMember(m) PROVE LeaderIsFirst'
  <2>1. joinOrder # <<>> /\ Head(joinOrder) # m
           => joinOrder' # <<>> /\ Head(joinOrder') = Head(joinOrder)
    BY <1>2, Removed DEF DropMember
  <2>2. leader' # NoMember => leader' = leader /\ leader # m
    BY <1>2 DEF DropMember, maybeRebalance
  <2>3. state' \notin {"CompletingRebalance", "Stable"}
    BY <1>2 DEF DropMember, maybeRebalance
  <2> QED
    BY <2>1, <2>2, <2>3
<1>3. ASSUME NEW m \in Member, Leave(m) \/ expireMember(m) PROVE LeaderIsFirst'
  <2>1. CASE m \in members
    BY <1>2, <1>3, <2>1 DEF Leave, expireMember
  <2>2. CASE m \notin members
    BY <1>3, <2>2 DEF Leave, expireMember
  <2> QED
    BY <2>1, <2>2
<1>4. CASE completeJoin
  <2>1. CASE joinOrder = <<>>
    BY <1>4, <2>1 DEF completeJoin, groupVars
  <2>2. CASE joinOrder # <<>>
    <3>1. Head(joinOrder) \in Member
      BY <2>2 DEF TypeOK
    <3> QED
      BY <1>4, <2>2, <3>1, MemberAssumption DEF completeJoin
  <2> QED
    BY <2>1, <2>2
<1>5. ASSUME NEW m \in Member, Sync(m) \/ Heartbeat(m) \/ HeartbeatRefused(m) \/ SessionFires(m)
      PROVE  LeaderIsFirst'
  <2>1. CASE SyncLeader(m)
    BY <2>1, MemberAssumption DEF SyncLeader
  <2>2. CASE ~SyncLeader(m)
    <3>1. UNCHANGED <<state, leader, joinOrder>>
      BY <1>5, <2>2 DEF Sync, SyncRefused, SyncStable, SyncWait, Heartbeat, HeartbeatRefused,
                        SessionFires, groupVars
    <3> QED
      BY <3>1
  <2> QED
    BY <2>1, <2>2
<1>6. CASE JoinTimerFires \/ UNCHANGED vars
  BY <1>6 DEF JoinTimerFires, vars, groupVars
<1> QED
  BY <1>1, <1>3, <1>4, <1>5, <1>6 DEF Next, Timers, Request

\* A rebalance keeps its timer.  The completeJoin that uses up a callback ends
\* the rebalance, or finds nobody, and then the group is Empty.
LEMMA TimerStep ==
    ASSUME TypeOK, MembersMatchJoinOrder, RebalanceHasTimer, [Next]_vars
    PROVE  RebalanceHasTimer'
<1> USE DEF RebalanceHasTimer
<1>0. looseTimers \in Nat /\ joinTimer \in {"off", "armed"}
  BY DEF TypeOK
<1>1. ASSUME NEW m \in Member, Join(m) PROVE RebalanceHasTimer'
  BY <1>0, <1>1 DEF Join, OpenJoinWindow
<1>2. ASSUME NEW m \in members, DropMember(m), UNCHANGED looseTimers
      PROVE  RebalanceHasTimer'
  BY <1>0, <1>2 DEF DropMember, maybeRebalance
<1>3. ASSUME NEW m \in Member, Leave(m) \/ expireMember(m) PROVE RebalanceHasTimer'
  <2>1. CASE m \in members
    BY <1>2, <1>3, <2>1 DEF Leave, expireMember
  <2>2. CASE m \notin members
    BY <1>3, <2>2 DEF Leave, expireMember
  <2> QED
    BY <2>1, <2>2
<1>4. CASE completeJoin
  <2>1. CASE joinOrder = <<>>
    <3>1. members = {}
      BY <2>1 DEF MembersMatchJoinOrder, Range
    <3> QED
      BY <1>4, <2>1, <3>1 DEF completeJoin, groupVars, MembersMatchJoinOrder
  <2>2. CASE joinOrder # <<>>
    BY <1>4, <2>2 DEF completeJoin
  <2> QED
    BY <2>1, <2>2
<1>5. ASSUME NEW m \in Member, Sync(m) \/ Heartbeat(m) \/ HeartbeatRefused(m) \/ SessionFires(m)
      PROVE  RebalanceHasTimer'
  <2>1. UNCHANGED <<joinTimer, looseTimers>>
    BY <1>5 DEF Sync, SyncRefused, SyncLeader, SyncStable, SyncWait, Heartbeat,
                HeartbeatRefused, SessionFires, timerVars
  <2>2. state' = "Stable" \/ UNCHANGED state
    BY <1>5 DEF Sync, SyncRefused, SyncLeader, SyncStable, SyncWait, Heartbeat,
                HeartbeatRefused, SessionFires, groupVars
  <2> QED
    BY <2>1, <2>2
<1>6. CASE JoinTimerFires
  BY <1>0, <1>6 DEF JoinTimerFires, groupVars
<1>7. CASE UNCHANGED vars
  BY <1>7 DEF vars, groupVars, timerVars
<1> QED
  BY <1>1, <1>3, <1>4, <1>5, <1>6, <1>7 DEF Next, Timers, Request

\* Every member is on the clock: a timer that fires leaves its eviction behind,
\* and whoever has none puts the group back into PreparingRebalance.
LEMMA SessionStep ==
    ASSUME TypeOK, MembersMatchJoinOrder, SessionsAreTimed, [Next]_vars
    PROVE  SessionsAreTimed'
<1> USE DEF SessionsAreTimed
<1>0. members \subseteq Member /\ session \in [Member -> {"off", "armed"}]
  BY DEF TypeOK
<1>1. ASSUME NEW m \in Member, Join(m) PROVE SessionsAreTimed'
  BY <1>1 DEF Join
<1>2. ASSUME NEW m \in members, DropMember(m) PROVE SessionsAreTimed'
  BY <1>2 DEF DropMember, maybeRebalance
<1>3. ASSUME NEW m \in Member, Leave(m) \/ expireMember(m) PROVE SessionsAreTimed'
  <2>1. CASE m \in members
    BY <1>2, <1>3, <2>1 DEF Leave, expireMember
  <2>2. CASE m \notin members
    BY <1>3, <2>2 DEF Leave, expireMember
  <2> QED
    BY <2>1, <2>2
<1>4. CASE completeJoin
  <2>1. CASE joinOrder = <<>>
    BY <1>4, <2>1 DEF completeJoin, groupVars
  <2>2. CASE joinOrder # <<>>
    <3>1. members' = Range(joinOrder) /\ session' = touch(Range(joinOrder))
      BY <1>4, <2>2 DEF completeJoin, MembersMatchJoinOrder
    <3> QED
      BY <1>0, <1>4, <2>2, <3>1 DEF completeJoin, touch
  <2> QED
    BY <2>1, <2>2
<1>5. ASSUME NEW m \in Member, SyncLeader(m) PROVE SessionsAreTimed'
  BY <1>0, <1>5 DEF SyncLeader, touch
<1>6. ASSUME NEW m \in Member, SyncStable(m) \/ SyncWait(m) \/ Heartbeat(m)
      PROVE  SessionsAreTimed'
  <2>1. session' = touch({m}) /\ UNCHANGED <<state, members, expiring>>
    BY <1>6 DEF SyncStable, SyncWait, Heartbeat, groupVars
  <2> QED
    BY <1>0, <2>1 DEF touch
<1>7. ASSUME NEW m \in Member, SessionFires(m) PROVE SessionsAreTimed'
  BY <1>0, <1>7 DEF SessionFires, groupVars
<1>8. ASSUME NEW m \in Member, SyncRefused(m) \/ HeartbeatRefused(m) PROVE SessionsAreTimed'
  BY <1>8 DEF SyncRefused, HeartbeatRefused, groupVars, timerVars
<1>9. CASE JoinTimerFires \/ UNCHANGED vars
  BY <1>9 DEF JoinTimerFires, vars, groupVars, timerVars
<1> QED
  BY <1>1, <1>3, <1>4, <1>5, <1>6, <1>7, <1>8, <1>9 DEF Next, Timers, Request, Sync

\* The roster covers the generation: only completeJoin starts one, and it hands
\* the leader the members that it answers, and more.
LEMMA RosterStep ==
    ASSUME TypeOK, GenerationIsCovered, [Next]_vars
    PROVE  GenerationIsCovered'
<1> USE DEF GenerationIsCovered
<1>0. generation \in Nat /\ clientGen \in [Member -> Nat] /\ joinOrder \in Seq(Member)
  BY DEF TypeOK
<1>1. ASSUME NEW m \in Member, UNCHANGED <<generation, roster>>,
             UNCHANGED clientGen \/ clientGen' = [clientGen EXCEPT ![m] = 0]
      PROVE  GenerationIsCovered'
  BY <1>0, <1>1
<1>2. ASSUME NEW m \in Member, Request(m) PROVE GenerationIsCovered'
  <2>1. UNCHANGED <<generation, roster>>
    BY <1>2 DEF Request, Join, Sync, SyncRefused, SyncLeader, SyncStable, SyncWait,
                Heartbeat, HeartbeatRefused, Leave, groupVars, clientVars
  <2>2. UNCHANGED clientGen \/ clientGen' = [clientGen EXCEPT ![m] = 0]
    BY <1>2 DEF Request, Join, Sync, SyncRefused, SyncLeader, SyncStable, SyncWait,
                Heartbeat, HeartbeatRefused, Leave, Forget, clientVars
  <2> QED
    BY <1>1, <2>1, <2>2
<1>3. CASE completeJoin
  <2>1. CASE joinOrder = <<>>
    BY <1>3, <2>1 DEF completeJoin, groupVars, clientVars
  <2>2. CASE joinOrder # <<>>
    <3>1. /\ generation' = generation + 1 /\ roster' = Range(joinOrder)
          /\ \A m \in Member : \/ clientGen'[m] = clientGen[m]
                               \/ clientGen'[m] = generation + 1 /\ m \in Range(joinOrder)
      BY <1>0, <1>3, <2>2 DEF completeJoin, leaderMembers
    <3> QED
      BY <1>0, <3>1
  <2> QED
    BY <2>1, <2>2
<1>4. CASE JoinTimerFires \/ UNCHANGED vars \/ \E m \in Member : SessionFires(m) \/ expireMember(m)
  <2>1. UNCHANGED <<generation, roster, clientGen>>
    BY <1>4 DEF JoinTimerFires, SessionFires, expireMember, vars, groupVars, clientVars
  <2> QED
    BY <2>1
<1> QED
  BY <1>2, <1>3, <1>4 DEF Next, Timers

\* A Stable group is assigned: the leader's Sync assigns the roster, and it runs
\* in the generation the roster covers.
LEMMA StableStep ==
    ASSUME TypeOK, GenerationIsCovered, StableIsAssigned, [Next]_vars
    PROVE  StableIsAssigned'
<1> USE DEF StableIsAssigned
<1>0. /\ generation \in Nat /\ clientGen \in [Member -> Nat]
      /\ members \subseteq Member /\ assignment \in [Member -> Nat]
  BY DEF TypeOK
<1>1. ASSUME NEW m \in Member, Join(m) PROVE StableIsAssigned'
  BY <1>1 DEF Join
<1>2. ASSUME NEW m \in members, DropMember(m) PROVE StableIsAssigned'
  BY <1>2 DEF DropMember, maybeRebalance
<1>3. ASSUME NEW m \in Member, Leave(m) \/ expireMember(m) PROVE StableIsAssigned'
  <2>1. CASE m \in members
    BY <1>2, <1>3, <2>1 DEF Leave, expireMember
  <2>2. CASE m \notin members
    BY <1>3, <2>2 DEF Leave, expireMember, memberVars
  <2> QED
    BY <2>1, <2>2
<1>4. CASE completeJoin
  BY <1>4 DEF completeJoin, groupVars, memberVars, clientVars
<1>5. ASSUME NEW m \in Member, SyncLeader(m) PROVE StableIsAssigned'
  <2>1. generation > 0
    BY <1>0, <1>5 DEF SyncLeader, SyncAccepted, SyncRequest
  <2>2. \A n \in members : clientGen[n] = generation => Assigned(n) = generation
    BY <1>0, <2>1 DEF GenerationIsCovered, Assigned
  <2>3. /\ UNCHANGED <<generation, members, clientGen>>
        /\ \A n \in Member : assignment'[n] = Assigned(n)
    BY <1>5 DEF SyncLeader
  <2> QED
    BY <1>0, <2>2, <2>3
<1>6. ASSUME NEW m \in Member, SyncRefused(m) \/ HeartbeatRefused(m) PROVE StableIsAssigned'
  <2>1. Forget(m) /\ UNCHANGED <<state, generation, members, assignment>>
    BY <1>6 DEF SyncRefused, HeartbeatRefused, groupVars, memberVars
  <2>2. CASE generation = 0
    <3>1. SyncRequest(m) \/ clientGen[m] > 0
      BY <1>6 DEF SyncRefused, HeartbeatRefused
    <3> QED
      BY <1>0, <2>2, <3>1 DEF GenerationIsCovered, SyncRequest
  <2>3. CASE generation # 0
    BY <1>0, <2>1, <2>3 DEF Forget
  <2> QED
    BY <2>2, <2>3
<1>7. ASSUME NEW m \in Member, SyncStable(m) \/ SyncWait(m) \/ Heartbeat(m) \/ SessionFires(m)
      PROVE  StableIsAssigned'
  <2>1. UNCHANGED <<state, generation, members, assignment, clientGen>>
    BY <1>7 DEF SyncStable, SyncWait, Heartbeat, SessionFires, groupVars, memberVars, clientVars
  <2> QED
    BY <2>1
<1>8. CASE JoinTimerFires \/ UNCHANGED vars
  BY <1>8 DEF JoinTimerFires, vars, groupVars, memberVars, clientVars
<1> QED
  BY <1>1, <1>3, <1>4, <1>5, <1>6, <1>7, <1>8 DEF Next, Timers, Request, Sync
-----------------------------------------------------------------------------
(* Theorems                                                                *)

\* The invariants together, which is how they are inductive
Coordinated ==
    /\ TypeOK
    /\ MembersMatchJoinOrder
    /\ LeaderIsFirst
    /\ RebalanceHasTimer
    /\ SessionsAreTimed
    /\ GenerationIsCovered
    /\ StableIsAssigned

\* A coordinator starts with an empty group that keeps all of them.
LEMMA InitCoordinated == Init => Coordinated
<1> SUFFICES ASSUME Init PROVE Coordinated
  OBVIOUS
<1> USE DEF Init
<1>1. TypeOK
  BY JoinsAssumption DEF TypeOK, States, Calls, NoResult
<1>2. MembersMatchJoinOrder
  BY DEF MembersMatchJoinOrder, Range
<1>3. LeaderIsFirst /\ RebalanceHasTimer /\ SessionsAreTimed /\ StableIsAssigned
  BY DEF LeaderIsFirst, RebalanceHasTimer, SessionsAreTimed, StableIsAssigned
<1>4. GenerationIsCovered
  BY DEF GenerationIsCovered
<1> QED
  BY <1>1, <1>2, <1>3, <1>4 DEF Coordinated

\* Every method and timer callback keeps all of them.
LEMMA StepCoordinated == Coordinated /\ [Next]_vars => Coordinated'
  BY TypeStep, MatchStep, LeaderStep, TimerStep, SessionStep, RosterStep, StableStep
  DEF Coordinated

\* The coordinator keeps all its invariants, for any clients and any number of
\* joins.
THEOREM CoordinatedAlways == Spec => []Coordinated
  BY InitCoordinated, StepCoordinated, PTL DEF Spec

\* Members and JoinOrder agree, so completeJoin never meets a missing member
\* (coordinator.go:276-283), and a group is Empty when it has no member.
THEOREM MembersMatch == Spec => []MembersMatchJoinOrder
  BY CoordinatedAlways, PTL DEF Coordinated

\* The longest-standing member leads, and a group past its join window has a
\* leader (coordinator.go:270, 364-366, 377-394).
THEOREM LeaderFirst == Spec => []LeaderIsFirst
  BY CoordinatedAlways, PTL DEF Coordinated

\* A rebalance always has a completeJoin coming (coordinator.go:143-148,
\* 384-393), which is what the safety side of its progress consists in.
THEOREM RebalanceTimed == Spec => []RebalanceHasTimer
  BY CoordinatedAlways, PTL DEF Coordinated

\* No member of a settled group is without a session timer or an eviction under
\* way (coordinator.go:179-181, 278, 320-336).
THEOREM SessionsTimed == Spec => []SessionsAreTimed
  BY CoordinatedAlways, PTL DEF Coordinated

\* In a Stable group the clients of the generation hold that generation's
\* assignment (coordinator.go:172-180), since its roster covers them.
THEOREM StableAssigned == Spec => [](GenerationIsCovered /\ StableIsAssigned)
  BY CoordinatedAlways, PTL DEF Coordinated

\* A crash of a client is no step of the coordinator: all of it holds, too, when
\* any clients crash at any moment.
THEOREM CoordinatedThroughCrashes == CrashSpec => []Coordinated
<1>1. CrashInit => Init
  BY DEF CrashInit
<1>2. [CrashNext]_crashVars => [Next]_vars
  BY DEF CrashNext, Crash, Next, crashVars
<1> QED
  BY <1>1, <1>2, InitCoordinated, StepCoordinated, PTL DEF CrashSpec
=============================================================================
