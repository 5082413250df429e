-------------------------- MODULE GroupAssignment ---------------------------
(***************************************************************************)
(* What the members of a group end up with: the coordinator (with crashing *)
(* clients) moves the blobs that a generation's leader computed with one   *)
(* of the assignors from the members the coordinator named to it.          *)
(*                                                                         *)
(* The coordinator never looks into a blob, so the tag of GroupCoordinator *)
(* (the generation whose leader computed it) and that generation's roster  *)
(* say what is in it.                                                      *)
(***************************************************************************)
EXTENDS GroupCrashes, Assignor

CONSTANTS
    PartitionCount,   \* [topics -> Nat], from the metadata the leader has
    Subscriptions,    \* what the clients may subscribe to: functions of Member
    Inputs            \* further inputs of the assignors: [subs, counts]

ASSUME AssignmentAssumption ==
    /\ Member \subseteq Nat
    /\ \A subs \in Subscriptions : DOMAIN subs = Member

VARIABLE rosters      \* history: the rosters of the generations whose
                      \* assignments are still stored

assignmentVars == <<crashVars, rosters>>

AssignmentInit == CrashInit /\ rosters = <<>>

\* Each generation's roster, until no assignment of it is left
KeepRosters ==
    rosters' = [g \in 1..generation' |->
                   IF g = generation' THEN roster'
                   ELSE IF \E m \in Member : assignment'[m] = g THEN rosters[g] ELSE {}]

AssignmentNext == CrashNext /\ KeepRosters

AssignmentSpec == AssignmentInit /\ [][AssignmentNext]_assignmentVars /\ TimerFairness
-----------------------------------------------------------------------------
Strategies == {"range", "roundrobin"}

\* A faulty buildAssignments with the subscriptions of all clients it knows of
BlobsOfAll(strategy, subs, named) ==
    LET assigned == IF strategy = "range" THEN RangeAssignor(subs, PartitionCount)
                    ELSE RoundRobin(subs, PartitionCount)
    IN  [m \in named |-> EncodeAssignment(assigned[m])]

\* buildAssignments at the leader, for the members named to it
Blobs(strategy, subs, named) ==
    LET asked == [m \in named |-> subs[m]]
        assigned == IF strategy = "range" THEN RangeAssignor(asked, PartitionCount)
                    ELSE RoundRobin(asked, PartitionCount)
    IN  [m \in named |-> EncodeAssignment(assigned[m])]

\* The partitions GroupInfos lists for a member
Owned(strategy, subs, m) ==
    IF assignment[m] = 0 THEN {}
    ELSE AssignedPartitions(Blobs(strategy, subs, rosters[assignment[m]])[m])

Uniform(subs) == \A m, n \in Member : subs[m] = subs[n]

\* On every input both assignors deal every partition to exactly one member,
\* as evenly as can be, and the blob carries what they computed
\* (assignor.go:18-68, codec.go:12-62): no member and more members than
\* partitions included.  The state has no part in it, so it is enough to
\* evaluate it before the first Join.
AssignorsAreEven ==
    joins = 0 =>
        \A i \in Inputs :
            /\ RangeIsEven(i.subs, i.counts)
            /\ DOMAIN i.subs # {} => RoundRobinIsEven(i.subs, i.counts)
            /\ BlobIsExact(RangeAssignor(i.subs, i.counts))
            /\ BlobIsExact(RoundRobin(i.subs, i.counts))

\* "SyncGroup assigns partitions with no overlap and no gaps" (PROGRESS.md:57):
\* in a Stable group with no join window to come, every partition of a topic
\* that a member subscribes to belongs to exactly one member, who subscribes to
\* it; round robin "assumes uniform subscriptions" (assignor.go:60-61).
NoOverlapNoGaps ==
    state = "Stable" /\ joinTimer = "off" /\ looseTimers = 0 =>
        \A strategy \in Strategies, subs \in Subscriptions :
            strategy = "range" \/ Uniform(subs) =>
                \A topic \in DOMAIN PartitionCount :
                    (\E m \in members : topic \in subs[m]) =>
                        \A p \in 0..(PartitionCount[topic] - 1) :
                            \E o \in members :
                                /\ topic \in subs[o]
                                /\ {m \in members : <<topic, p>> \in Owned(strategy, subs, m)}
                                       = {o}
=============================================================================
