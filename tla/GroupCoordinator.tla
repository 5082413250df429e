-------------------------- MODULE GroupCoordinator --------------------------
(***************************************************************************)
(* The consumer-group coordinator (internal/group/coordinator.go) for one  *)
(* group, with the clients that call it.                                   *)
(*                                                                         *)
(* Every method and timer callback holds c.mu throughout, so each is one   *)
(* action.  A call that blocks on a channel is parked: it is answered by   *)
(* the action that sends on that channel.                                  *)
(*                                                                         *)
(* Timers.  time.AfterFunc runs its callback in a goroutine that first     *)
(* waits for c.mu: from the moment it fires, Stop and Reset no longer hold *)
(* it back.  joinTimer is the timer group.joinTimer points to; looseTimers *)
(* counts the completeJoin callbacks nothing can stop any more: fired      *)
(* ones, and timers whose pointer Join has overwritten.  expiring has the  *)
(* members whose session timer fired and whose expireMember has not run.   *)
(* Time itself is left out: an armed timer may fire at any moment.         *)
(*                                                                         *)
(* Data.  An assignment is known by the generation whose leader computed   *)
(* it; 0 is the nil assignment of a new member.                            *)
(***************************************************************************)
EXTENDS Integers, SequencesExt

CONSTANTS
    Member,       \* member ids, one per client
    NoMember,     \* LeaderID = ""
    MaxJoins      \* bound on the number of Join requests

ASSUME MemberAssumption == NoMember \notin Member
ASSUME JoinsAssumption  == MaxJoins \in Nat

VARIABLES
    state, generation, leader, members, joinOrder,    \* Group
    joinTimer, looseTimers,
    session, expiring,
    assignment,   \* [Member -> Nat]
    awaitSync,    \* [Member -> the result buffered in the channel, or NoResult]
    roster,       \* the members named to the leader of this generation
    call,         \* [Member -> the call the client is blocked in]
    clientGen,    \* [Member -> generation the client has joined, 0 if none]
    got,          \* [Member -> the assignment Sync returned for it, or NoResult]
    joins         \* Join requests so far

groupVars  == <<state, generation, leader, members, joinOrder>>
timerVars  == <<joinTimer, looseTimers, session, expiring>>
memberVars == <<assignment, awaitSync>>
clientVars == <<roster, call, clientGen, got, joins>>
vars       == <<groupVars, timerVars, memberVars, clientVars>>

NoResult == -1
States   == {"Empty", "PreparingRebalance", "CompletingRebalance", "Stable"}

\* "lostJoin", "lostSync": the client waits for a result on a channel that the
\* coordinator has dropped.
Calls == {"none", "join", "sync", "lostJoin", "lostSync"}

TypeOK ==
    /\ state \in States
    /\ generation \in Nat
    /\ leader \in Member \cup {NoMember}
    /\ members \in SUBSET Member
    /\ joinOrder \in Seq(Member)
    /\ joinTimer \in {"off", "armed"}
    /\ looseTimers \in Nat
    /\ session \in [Member -> {"off", "armed"}]
    /\ expiring \in SUBSET Member
    /\ assignment \in [Member -> Nat]
    /\ awaitSync \in [Member -> Nat \cup {NoResult}]
    /\ roster \in SUBSET Member
    /\ call \in [Member -> Calls]
    /\ clientGen \in [Member -> Nat]
    /\ got \in [Member -> Nat \cup {NoResult}]
    /\ joins \in 0..MaxJoins
-----------------------------------------------------------------------------
Init ==
    /\ state = "Empty" /\ generation = 0 /\ leader = NoMember
    /\ members = {} /\ joinOrder = <<>>
    /\ joinTimer = "off" /\ looseTimers = 0
    /\ session = [m \in Member |-> "off"] /\ expiring = {}
    /\ assignment = [m \in Member |-> 0]
    /\ awaitSync = [m \in Member |-> NoResult]
    /\ roster = {}
    /\ call = [m \in Member |-> "none"]
    /\ clientGen = [m \in Member |-> 0]
    /\ got = [m \in Member |-> NoResult]
    /\ joins = 0

\* A faulty touch that resets running timers and creates none
TouchRunning(S) == session

\* touch: the session timer of every member of S is (re)armed
touch(S) == [m \in Member |-> IF m \in S THEN "armed" ELSE session[m]]

\* The client gives up its generation and what it was assigned in it.
Forget(m) ==
    /\ clientGen' = [clientGen EXCEPT ![m] = 0]
    /\ got' = [got EXCEPT ![m] = NoResult]

\* A faulty Join that leaves a group with a rebalance under way untimed
JoinKeepsTimer(m) ==
    /\ IF state = "Empty"
       THEN joinTimer' = "armed" /\ UNCHANGED looseTimers
       ELSE UNCHANGED <<joinTimer, looseTimers>>

\* Join, the window: outside PreparingRebalance a new join timer is started and
\* the pointer to the old one overwritten; an armed one is not stopped.
OpenJoinWindow(m) ==
    IF state # "PreparingRebalance"
    THEN /\ joinTimer' = "armed"
         /\ looseTimers' = looseTimers + (IF joinTimer = "armed" THEN 1 ELSE 0)
    ELSE UNCHANGED <<joinTimer, looseTimers>>

\* Join: a client joins, rejoins, or retries with its id while an earlier call
\* of its own is unanswered.  Fresh channels: what was parked on the old ones
\* is given up with them.
Join(m) ==
    /\ joins < MaxJoins
    /\ joins' = joins + 1
    /\ members' = members \cup {m}
    /\ joinOrder' = IF m \in members THEN joinOrder ELSE Append(joinOrder, m)
    /\ assignment' = IF m \in members THEN assignment ELSE [assignment EXCEPT ![m] = 0]
    /\ awaitSync' = [awaitSync EXCEPT ![m] = NoResult]
    /\ session' = [session EXCEPT ![m] = "off"]
    /\ OpenJoinWindow(m)
    /\ state' = "PreparingRebalance"
    /\ call' = [call EXCEPT ![m] = "join"]
    /\ Forget(m)
    /\ UNCHANGED <<generation, leader, expiring, roster>>

\* The timer fires; its callback now waits for the lock.
JoinTimerFires ==
    /\ joinTimer = "armed"
    /\ joinTimer' = "off"
    /\ looseTimers' = looseTimers + 1
    /\ UNCHANGED <<groupVars, session, expiring, memberVars, clientVars>>

\* A faulty member list that leaves the leader to itself
OtherMembers == Range(Tail(joinOrder))

\* The members whose metadata the leader is given to assign partitions
leaderMembers == Range(joinOrder)

\* completeJoin, whatever state the group is in by then
completeJoin ==
    /\ looseTimers > 0
    /\ looseTimers' = looseTimers - 1
    /\ IF joinOrder = <<>>
       THEN UNCHANGED <<groupVars, session, clientVars>>
       ELSE /\ leader' = Head(joinOrder)
            /\ generation' = generation + 1
            /\ state' = "CompletingRebalance"
            /\ session' = touch(Range(joinOrder))
            /\ roster' = leaderMembers
            /\ LET answered == {m \in Range(joinOrder) : call[m] = "join"}
               IN  /\ call' = [m \in Member |-> IF m \in answered THEN "none" ELSE call[m]]
                   /\ clientGen' = [m \in Member |->
                          IF m \in answered THEN generation + 1 ELSE clientGen[m]]
            /\ UNCHANGED <<members, joinOrder, got, joins>>
    /\ UNCHANGED <<joinTimer, expiring, memberVars>>
-----------------------------------------------------------------------------
(* Sync                                                                    *)

\* The client's half of a Sync: it has a generation, no call under way, and no
\* assignment for that generation yet.
SyncRequest(m) ==
    /\ call[m] = "none" /\ clientGen[m] > 0 /\ got[m] = NoResult

\* UnknownMemberID or IllegalGeneration: the client has to join again.
SyncRefused(m) ==
    /\ SyncRequest(m)
    /\ m \notin members \/ clientGen[m] # generation
    /\ Forget(m)
    /\ UNCHANGED <<groupVars, timerVars, memberVars, roster, call, joins>>

SyncAccepted(m) ==
    SyncRequest(m) /\ m \in members /\ clientGen[m] = generation

\* A faulty leader's Sync that stores the assignments of parked members only
AssignedIfParked(n) ==
    IF n \in roster \cap members /\ call[n] = "sync" THEN generation ELSE assignment[n]

\* Member n's assignment once the leader's Sync has stored what it brings
Assigned(n) == IF n \in roster \cap members THEN generation ELSE assignment[n]

\* The leader's Sync, in whatever state the group is: store the assignment of
\* every member it was told of, go to Stable, restart every session timer, and
\* send each other member its assignment: to the parked Sync, else into the
\* channel if that has room.
SyncLeader(m) ==
    LET assigned == [n \in Member |-> Assigned(n)]
        woken == {n \in members \ {m} : call[n] = "sync"}
        buffered == {n \in members \ {m} : call[n] # "sync" /\ awaitSync[n] = NoResult}
    IN  /\ SyncAccepted(m)
        /\ leader = m
        /\ assignment' = assigned
        /\ state' = "Stable"
        /\ session' = touch(members)
        /\ awaitSync' = [n \in Member |-> IF n \in buffered THEN assigned[n] ELSE awaitSync[n]]
        /\ call' = [n \in Member |-> IF n \in woken THEN "none" ELSE call[n]]
        /\ got' = [n \in Member |-> IF n \in woken \cup {m} THEN assigned[n] ELSE got[n]]
        /\ UNCHANGED <<generation, leader, members, joinOrder, joinTimer, looseTimers,
                       expiring, roster, clientGen, joins>>

\* Another member's Sync in a stable group is answered at once.
SyncStable(m) ==
    /\ SyncAccepted(m)
    /\ leader # m
    /\ state = "Stable"
    /\ session' = touch({m})
    /\ got' = [got EXCEPT ![m] = assignment[m]]
    /\ UNCHANGED <<groupVars, joinTimer, looseTimers, expiring, memberVars,
                   roster, call, clientGen, joins>>

\* Otherwise it receives from its channel: what is buffered there, or it parks.
SyncWait(m) ==
    /\ SyncAccepted(m)
    /\ leader # m
    /\ state # "Stable"
    /\ session' = touch({m})
    /\ IF awaitSync[m] # NoResult
       THEN /\ got' = [got EXCEPT ![m] = awaitSync[m]]
            /\ awaitSync' = [awaitSync EXCEPT ![m] = NoResult]
            /\ UNCHANGED call
       ELSE /\ call' = [call EXCEPT ![m] = "sync"]
            /\ UNCHANGED <<got, awaitSync>>
    /\ UNCHANGED <<groupVars, joinTimer, looseTimers, expiring, assignment,
                   roster, clientGen, joins>>
-----------------------------------------------------------------------------
\* Heartbeat.  In PreparingRebalance the client is told to rejoin and nothing
\* changes; for an unknown member or generation it forgets its generation.
HeartbeatRefused(m) ==
    /\ call[m] = "none" /\ clientGen[m] > 0
    /\ m \notin members \/ (state # "PreparingRebalance" /\ clientGen[m] # generation)
    /\ Forget(m)
    /\ UNCHANGED <<groupVars, timerVars, memberVars, roster, call, joins>>

Heartbeat(m) ==
    /\ call[m] = "none" /\ clientGen[m] > 0
    /\ m \in members /\ state # "PreparingRebalance" /\ clientGen[m] = generation
    /\ session' = touch({m})
    /\ UNCHANGED <<groupVars, joinTimer, looseTimers, expiring, memberVars, clientVars>>

\* A faulty removeMember that forgets JoinOrder
RemoveFromMap(m) ==
    /\ members' = members \ {m}
    /\ UNCHANGED joinOrder

\* A faulty removeMember that blanks the id in JoinOrder
BlankInOrder(m) ==
    /\ members' = members \ {m}
    /\ joinOrder' = [i \in DOMAIN joinOrder |->
                       IF joinOrder[i] = m THEN NoMember ELSE joinOrder[i]]

\* removeMember, as Leave and expireMember call it
removeMember(m) ==
    /\ members' = members \ {m}
    /\ joinOrder' = IF \E i \in DOMAIN joinOrder : joinOrder[i] = m
                    THEN RemoveAt(joinOrder, CHOOSE i \in DOMAIN joinOrder : joinOrder[i] = m)
                    ELSE joinOrder

\* A faulty maybeRebalance that takes a rebalance for granted
NoRebalance(m) ==
    /\ state' = IF members = {m} THEN "Empty" ELSE state
    /\ leader' = IF leader = m THEN NoMember ELSE leader
    /\ UNCHANGED joinTimer

\* maybeRebalance after the removal of m: an empty group is reset, though its
\* join timer keeps running; a settled one reopens the join window.
maybeRebalance(m) ==
    /\ leader' = IF leader = m \/ members = {m} THEN NoMember ELSE leader
    /\ CASE members = {m} ->
              state' = "Empty" /\ UNCHANGED joinTimer
         [] members # {m} /\ state \in {"Stable", "CompletingRebalance"} ->
              state' = "PreparingRebalance" /\ joinTimer' = "armed"
         [] OTHER -> UNCHANGED <<state, joinTimer>>

\* The member's struct and its channels are gone; a call parked on one of them
\* is never answered.
DropMember(m) ==
    /\ removeMember(m)
    /\ session' = [session EXCEPT ![m] = "off"]
    /\ maybeRebalance(m)
    /\ awaitSync' = [awaitSync EXCEPT ![m] = NoResult]
    /\ assignment' = [assignment EXCEPT ![m] = 0]
    /\ call' = [call EXCEPT ![m] = IF @ = "join" THEN "lostJoin"
                                   ELSE IF @ = "sync" THEN "lostSync" ELSE @]

Leave(m) ==
    /\ m \in members
    /\ call[m] = "none"
    /\ DropMember(m)
    /\ Forget(m)
    /\ UNCHANGED <<generation, looseTimers, expiring, roster, joins>>

\* The session timer fires; its callback now waits for the lock.
SessionFires(m) ==
    /\ session[m] = "armed"
    /\ session' = [session EXCEPT ![m] = "off"]
    /\ expiring' = expiring \cup {m}
    /\ UNCHANGED <<groupVars, joinTimer, looseTimers, memberVars, clientVars>>

\* expireMember: by id, so it also hits a member that joined again meanwhile
expireMember(m) ==
    /\ m \in expiring
    /\ expiring' = expiring \ {m}
    /\ IF m \in members
       THEN DropMember(m)
       ELSE UNCHANGED <<state, leader, members, joinOrder, joinTimer, session,
                        memberVars, call>>
    /\ UNCHANGED <<generation, looseTimers, roster, clientGen, got, joins>>
-----------------------------------------------------------------------------
Sync(m) == SyncRefused(m) \/ SyncLeader(m) \/ SyncStable(m) \/ SyncWait(m)

\* What a client asks for
Request(m) ==
    \/ Join(m)
    \/ Sync(m)
    \/ Heartbeat(m)
    \/ HeartbeatRefused(m)
    \/ Leave(m)

\* What the coordinator's timers do
Timers ==
    \/ JoinTimerFires
    \/ completeJoin
    \/ \E m \in Member : SessionFires(m)
    \/ \E m \in Member : expireMember(m)

Next == Timers \/ \E m \in Member : Request(m)

Spec == Init /\ [][Next]_vars
-----------------------------------------------------------------------------
(* Properties                                                              *)

\* Members and JoinOrder are two records of one thing: completeJoin looks up
\* every id of JoinOrder in Members and would panic on a missing one
\* (coordinator.go:276-283).  A group is Empty exactly when it has no member.
MembersMatchJoinOrder ==
    /\ members = Range(joinOrder)
    /\ \A i, j \in DOMAIN joinOrder : joinOrder[i] = joinOrder[j] => i = j
    /\ (state = "Empty") <=> (members = {})

\* Whoever leads is the longest-standing member, and a group past its join
\* window has a leader, so there is always one client whose Sync can take it
\* to Stable (coordinator.go:270, 364-366, 377-394).
LeaderIsFirst ==
    /\ leader # NoMember => joinOrder # <<>> /\ leader = Head(joinOrder)
    /\ state \in {"CompletingRebalance", "Stable"} => leader # NoMember

\* A group that waits for joins has a completeJoin coming: no rebalance is
\* stuck (coordinator.go:143-148, 384-393).
RebalanceHasTimer ==
    state = "PreparingRebalance" => joinTimer = "armed" \/ looseTimers > 0

\* Past the join window every member is on the clock: its session timer runs or
\* its eviction is on the way, so a dead client cannot keep its partitions
\* (coordinator.go:179-181, 278, 320-336).
SessionsAreTimed ==
    state \in {"CompletingRebalance", "Stable"} =>
        \A m \in members : session[m] = "armed" \/ m \in expiring

\* A client that sits in the group's generation was in the roster its leader
\* was given, so that leader's assignment covers it (coordinator.go:275-303).
GenerationIsCovered ==
    \A m \in Member : clientGen[m] > 0 =>
        /\ clientGen[m] <= generation
        /\ clientGen[m] = generation => m \in roster

\* In a Stable group every client of the current generation has been assigned
\* by that generation's leader (coordinator.go:172-180).
StableIsAssigned ==
    state = "Stable" =>
        \A m \in members : clientGen[m] = generation => assignment[m] = generation
=============================================================================
