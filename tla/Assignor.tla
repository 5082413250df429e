------------------------------ MODULE Assignor ------------------------------
(***************************************************************************)
(* The partition assignors and the assignment blob (internal/assignor).    *)
(* Member ids and topic names are numbers, in the order of their strings.  *)
(*                                                                         *)
(* subs is a function from the member ids to the topics they subscribe to, *)
(* counts one from the topic names to their partition counts.  What a      *)
(* member is assigned is a sequence of TopicPartitions; a member the code  *)
(* leaves out of its map has the empty one, as reading the map gives.      *)
(***************************************************************************)
EXTENDS Integers, SequencesExt, FiniteSetsExt

Sorted(S) == SetToSortSeq(S, LAMBDA x, y : x < y)

sortedTopics(counts) == Sorted(DOMAIN counts)

subscribedMembers(subs, topic) == Sorted({m \in DOMAIN subs : topic \in subs[m]})

\* contiguousPartitions: start, ..., end - 1
contiguousPartitions(start, end) == [i \in 1..(end - start) |-> start + i - 1]

\* A faulty Range that gives the remainder away member by member at the end
ShareOffByOne(count, members) ==
    [i \in 1..Len(members) |->
        (count \div Len(members)) + (IF i <= (count % Len(members)) + 1 THEN 1 ELSE 0)]

\* Range: how many partitions the i-th subscribed member takes
share(count, members) ==
    [i \in 1..Len(members) |->
        (count \div Len(members)) + (IF i <= count % Len(members) THEN 1 ELSE 0)]

\* Range on one topic: the partitions of member m, dealt out along a cursor
RangeOfTopic(subs, counts, topic, m) ==
    LET members == subscribedMembers(subs, topic)
        taken == share(counts[topic], members)
        cursor[i \in 0..Len(members)] == IF i = 0 THEN 0 ELSE cursor[i - 1] + taken[i]
        i == CHOOSE j \in DOMAIN members : members[j] = m
    IN  IF topic \in subs[m] THEN contiguousPartitions(cursor[i - 1], cursor[i]) ELSE <<>>

\* The topics of which a member has partitions, in order
Collect(topics, partitions) ==
    SelectSeq([i \in DOMAIN topics |-> [topic |-> topics[i], partitions |-> partitions[i]]],
              LAMBDA a : a.partitions # <<>>)

RangeAssignor(subs, counts) ==
    LET topics == sortedTopics(counts)
    IN  [m \in DOMAIN subs |->
            Collect(topics, [i \in DOMAIN topics |-> RangeOfTopic(subs, counts, topics[i], m)])]

\* RoundRobin: all partitions in one list, dealt to all members in turn
RoundRobin(subs, counts) ==
    LET topics == sortedTopics(counts)
        members == Sorted(DOMAIN subs)
        first[i \in 1..(Len(topics) + 1)] ==
            IF i = 1 THEN 0 ELSE first[i - 1] + counts[topics[i - 1]]
        Dealt(m, i) == SelectSeq(contiguousPartitions(0, counts[topics[i]]),
                           LAMBDA p : members[((first[i] + p) % Len(members)) + 1] = m)
    IN  [m \in DOMAIN subs |-> Collect(topics, [i \in DOMAIN topics |-> Dealt(m, i)])]
-----------------------------------------------------------------------------
(* The blob, a sequence of the numbers written                             *)

\* EncodeAssignment: version, topics with their partitions, null user data
EncodeAssignment(assignments) ==
    <<0, Len(assignments)>>
    \o FlattenSeq([i \in DOMAIN assignments |->
           <<assignments[i].topic, Len(assignments[i].partitions)>>
           \o assignments[i].partitions])
    \o <<-1>>

\* DecodeAssignment: at[i] is where the reader stands after i topics.
DecodeAssignment(blob) ==
    IF blob = <<>> THEN <<>>
    ELSE LET at[i \in 0..blob[2]] ==
                 IF i = 0 THEN 3 ELSE at[i - 1] + 2 + blob[at[i - 1] + 1]
         IN  [i \in 1..blob[2] |->
                 [topic |-> blob[at[i - 1]],
                  partitions |-> SubSeq(blob, at[i - 1] + 2, at[i] - 1)]]

\* GroupInfos: the partitions listed for a member with this blob
AssignedPartitions(blob) ==
    UNION {{a.topic} \X Range(a.partitions) : a \in Range(DecodeAssignment(blob))}
-----------------------------------------------------------------------------
(* What an assignor owes, on one input                                     *)

PartitionsOf(assigned, m) ==
    UNION {{a.topic} \X Range(a.partitions) : a \in Range(assigned[m])}

\* Every partition of the topics in S has exactly one owner, none other has any.
Deals(assigned, counts, S) ==
    LET owed == UNION {{topic} \X (0..(counts[topic] - 1)) : topic \in S}
    IN  /\ UNION {PartitionsOf(assigned, m) : m \in DOMAIN assigned} = owed
        /\ \A m, n \in DOMAIN assigned :
              m # n => PartitionsOf(assigned, m) \cap PartitionsOf(assigned, n) = {}

\* The sizes differ by one at most, and lower member ids have the larger ones.
Even(size, S) == \A m, n \in S : m < n => size[m] - size[n] \in {0, 1}

\* Range: each topic by itself, evenly, among its subscribers
RangeIsEven(subs, counts) ==
    LET assigned == RangeAssignor(subs, counts)
        wanted == {topic \in DOMAIN counts : \E m \in DOMAIN subs : topic \in subs[m]}
        size(topic) == [m \in DOMAIN subs |->
                           Cardinality({tp \in PartitionsOf(assigned, m) : tp[1] = topic})]
    IN  /\ Deals(assigned, counts, wanted)
        /\ \A topic \in wanted :
              /\ Even(size(topic), {m \in DOMAIN subs : topic \in subs[m]})
              /\ \A m \in DOMAIN subs : topic \notin subs[m] => size(topic)[m] = 0

\* RoundRobin: all partitions together, evenly, among all members
RoundRobinIsEven(subs, counts) ==
    LET assigned == RoundRobin(subs, counts)
    IN  /\ Deals(assigned, counts, DOMAIN counts)
        /\ Even([m \in DOMAIN subs |-> Cardinality(PartitionsOf(assigned, m))], DOMAIN subs)

\* The blob gives back what was put in, empty lists included.
BlobIsExact(assigned) ==
    \A m \in DOMAIN assigned : DecodeAssignment(EncodeAssignment(assigned[m])) = assigned[m]
=============================================================================
