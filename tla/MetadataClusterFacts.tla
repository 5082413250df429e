------------------------ MODULE MetadataClusterFacts ------------------------
(***************************************************************************)
(* The invariants behind the theorems of MetadataClusterProofs, and what   *)
(* they rest on: prefixes of sequences, minima and maxima, and the types   *)
(* of the records that brokers write.                                      *)
(***************************************************************************)
EXTENDS MetadataCluster, FiniteSetTheorems, WellFoundedInduction, TLAPS

Thread == [at : Steps, todo : Seq(Record)]
Busy   == {"append"} \cup Applying

\* The types the proofs need; a thread that works has a record.
Types ==
    /\ up \in SUBSET Brokers
    /\ alive \in [Brokers -> SUBSET Brokers]
    /\ log \in [Brokers -> Seq(Record)]
    /\ topics \in [Brokers -> [Topics -> TopicState \cup {NoTopic}]]
    /\ thread \in [Brokers -> [Threads -> Thread]]
    /\ request \in [Brokers -> [controller : Brokers \cup {NoLeader}, offset : Nat]]
    /\ \A b \in Brokers, x \in Threads :
          thread[b][x].at \in Busy => thread[b][x].todo # <<>>

\* What a follower thread fetched and has not appended yet
Pending(f) ==
    IF f.at = "append" THEN f.todo
    ELSE IF f.at \in Applying THEN Tail(f.todo) ELSE <<>>

\* s is a prefix of t, element by element
Before(s, t) == Len(s) <= Len(t) /\ \A i \in 1..Len(s) : s[i] = t[i]

\* A fetch under way asks for the end of the log, if b decides nothing; and a
\* log with what is still to be appended to it is a prefix of the only
\* writer's.  While nobody has decided, every broker may become that writer.
Flow ==
    /\ writers \subseteq Brokers
    /\ \A b \in Brokers : thread[b]["follower"].at = "sent" =>
          /\ request[b].controller \in Brokers
          /\ b \notin writers => request[b].offset = Len(log[b])
    /\ \A w \in Brokers : writers \subseteq {w} =>
          \A b \in Brokers \ {w} : Before(log[b] \o Pending(thread[b]["follower"]), log[w])

\* What is in a registry, or about to enter it, is in the log.
Logged ==
    /\ \A b \in Brokers, x \in Threads :
          thread[b][x].at = "apply" => Current(b, x) \in Range(log[b])
    /\ \A b \in Brokers, t \in Topics : topics[b][t] # NoTopic =>
          [topic |-> t, partitions |-> topics[b][t]] \in Range(log[b])
-----------------------------------------------------------------------------
(* Sequences, minima and maxima                                            *)

\* A log is before t if it is so with what is still to be appended to it.
LEMMA BeforeHead ==
    ASSUME NEW S, NEW s \in Seq(S), NEW p \in Seq(S), NEW t \in Seq(S),
           Before(s \o p, t)
    PROVE  Before(s, t)
<1>1. Len(s \o p) = Len(s) + Len(p) /\ \A i \in 1..Len(s) : (s \o p)[i] = s[i]
  OBVIOUS
<1>2. 1..Len(s) \subseteq 1..Len(s \o p)
  BY <1>1
<1> QED
  BY <1>1, <1>2 DEF Before

\* The writer's log grows.
LEMMA BeforeAppend ==
    ASSUME NEW S, NEW s \in Seq(S), NEW t \in Seq(S), NEW e \in S, Before(s, t)
    PROVE  Before(s, Append(t, e))
  BY DEF Before

\* Appending the next fetched record moves it, and loses or repeats nothing.
LEMMA AppendHead ==
    ASSUME NEW S, NEW s \in Seq(S), NEW p \in Seq(S), p # <<>>
    PROVE  Append(s, Head(p)) \o Tail(p) = s \o p
  OBVIOUS

\* A fetch from a prefix of t, by the owner of a prefix of t
LEMMA BeforeFetched ==
    ASSUME NEW S, NEW s \in Seq(S), NEW u \in Seq(S), NEW t \in Seq(S),
           Before(s, t), Before(u, t)
    PROVE  Before(s \o SubSeq(u, Len(s) + 1, Len(u)), t)
<1> DEFINE p == SubSeq(u, Len(s) + 1, Len(u))
<1>1. p \in Seq(S) /\ \A i \in 1..Len(p) : p[i] = u[Len(s) + i]
  OBVIOUS
<1>2. Len(p) = IF Len(s) + 1 <= Len(u) THEN Len(u) - Len(s) ELSE 0
  OBVIOUS
<1> HIDE DEF p
<1>3. Len(s \o p) = Len(s) + Len(p)
      /\ \A i \in 1..Len(s \o p) :
            (s \o p)[i] = IF i <= Len(s) THEN s[i] ELSE p[i - Len(s)]
  BY <1>1
<1>4. Len(s \o p) <= Len(t)
  BY <1>2, <1>3 DEF Before
<1>5. ASSUME NEW i \in 1..Len(s \o p) PROVE (s \o p)[i] = t[i]
  <2>1. CASE i <= Len(s)
    BY <2>1, <1>3 DEF Before
  <2>2. CASE i > Len(s)
    BY <2>2, <1>1, <1>2, <1>3 DEF Before
  <2> QED
    BY <2>1, <2>2, <1>3
<1> QED
  BY <1>4, <1>5 DEF Before, p

\* Before is the library's IsPrefix.
LEMMA BeforeIsPrefix ==
    ASSUME NEW S, NEW s \in Seq(S), NEW t \in Seq(S), Before(s, t)
    PROVE  IsPrefix(s, t)
  BY DEF Before, IsPrefix

\* Min of the library, a CHOOSE, picks the least of some naturals.
LEMMA MinNat ==
    ASSUME NEW S \in SUBSET Nat, S # {}
    PROVE  Min(S) \in S /\ \A y \in S : Min(S) <= y
<1> DEFINE R == {ss \in Nat \X Nat : ss[1] < ss[2]}
<1>1. IsWellFoundedOn(R, Nat)
  BY NatLessThanWellFounded DEF OpToRel
<1>2. \A x, y \in Nat : <<y, x>> \notin R => x <= y
  OBVIOUS
<1> HIDE DEF R
<1>3. PICK x \in S : \A y \in S : <<y, x>> \notin R
  BY <1>1, WFMin
<1>4. \A y \in S : x <= y
  BY <1>2, <1>3
<1> QED
  BY <1>4 DEF Min

\* Max picks one of a bounded set: the last record of a topic is a record.
LEMMA MaxNat ==
    ASSUME NEW n \in Nat, NEW S \in SUBSET (1..n), S # {}
    PROVE  Max(S) \in S
<1> DEFINE T == {k \in Nat : n - k \in S}
<1>1. \A y \in S : y \in Nat /\ n - y \in Nat /\ n - (n - y) = y
  OBVIOUS
<1>2. T \in SUBSET Nat /\ T # {}
  BY <1>1
<1>3. Min(T) \in T /\ \A y \in T : Min(T) <= y
  <2> HIDE DEF T
  <2> QED BY <1>2, MinNat
<1>4. \A y \in S : Min(T) <= n - y
  BY <1>1, <1>3
<1>5. n - Min(T) \in S /\ \A y \in S : n - Min(T) >= y
  BY <1>1, <1>3, <1>4
<1> QED
  BY <1>5 DEF Max
-----------------------------------------------------------------------------
(* Records                                                                 *)

\* The sizes that ClusterAssumption lists in a set
LEMMA NType == N \in Nat \ {0} /\ ReplicationFactor \in Nat \ {0} /\ NumPartitions \in Nat \ {0}
  BY ClusterAssumption

\* AssignReplicas gives every partition brokers, the leader among its ISR.
LEMMA CreatedType == Created \in TopicState
<1>1. ASSUME NEW p \in Partitions
      PROVE  (p % N) + 1 \in Brokers /\ AssignReplicas(p) \subseteq Brokers
             /\ (p % N) + 1 \in AssignReplicas(p)
  <2>1. p \in Nat /\ p + 0 = p
    BY NType DEF Partitions
  <2>2. \A k \in Nat : k % N \in 0..(N - 1)
    BY NType
  <2>3. 0 \in 0..(ReplicationFactor - 1)
    BY NType
  <2>4. \A r \in 0..(ReplicationFactor - 1) : p + r \in Nat
    BY <2>1, NType
  <2>5. \A j \in 0..(N - 1) : j + 1 \in 1..N
    BY NType
  <2> QED
    BY <2>1, <2>2, <2>3, <2>4, <2>5 DEF Brokers, AssignReplicas
<1> QED
  BY <1>1 DEF Created, TopicState

\* A failover keeps the shape of a topic: the new leader is in the new ISR.
LEMMA ReassignedType ==
    ASSUME NEW s \in TopicState, NEW dead, NEW live
    PROVE  Reassigned(s, dead, live) \in TopicState
<1>1. ASSUME NEW p \in Partitions
      PROVE  /\ Reassigned(s, dead, live)[p] \in [leader : Brokers, isr : SUBSET Brokers]
             /\ Reassigned(s, dead, live)[p].leader \in Reassigned(s, dead, live)[p].isr
             /\ Reassigned(s, dead, live)[p].isr \subseteq AssignReplicas(p)
  <2> DEFINE rest == LiveISR(s[p].isr, dead, live)
  <2>1. /\ s[p] \in [leader : Brokers, isr : SUBSET Brokers]
        /\ s[p].leader \in s[p].isr
        /\ s[p].isr \subseteq AssignReplicas(p)
    BY DEF TopicState
  <2>2. rest \subseteq s[p].isr /\ rest \in SUBSET Nat
    BY <2>1, NType DEF LiveISR, Brokers
  <2>3. rest # {} => Min(rest) \in rest
    <3> HIDE DEF rest
    <3> QED BY <2>2, MinNat
  <2>4. Reassigned(s, dead, live)[p] =
           IF s[p].leader = dead /\ rest # {}
           THEN [leader |-> Min(rest), isr |-> rest] ELSE s[p]
    BY DEF Reassigned
  <2> HIDE DEF rest
  <2>5. CASE s[p].leader = dead /\ rest # {}
    <3>1. Reassigned(s, dead, live)[p] = [leader |-> Min(rest), isr |-> rest]
      BY <2>4, <2>5
    <3>2. Min(rest) \in rest /\ rest \subseteq Brokers
          /\ rest \subseteq AssignReplicas(p)
      BY <2>1, <2>2, <2>3, <2>5
    <3> QED
      BY <3>1, <3>2
  <2>6. CASE ~(s[p].leader = dead /\ rest # {})
    BY <2>1, <2>4, <2>6
  <2> QED
    BY <2>5, <2>6
<1>2. Reassigned(s, dead, live) =
         [p \in Partitions |-> Reassigned(s, dead, live)[p]]
  BY DEF Reassigned
<1> QED
  BY <1>1, <1>2 DEF TopicState

\* A replay yields a registry of logged records.
LEMMA ReplayTypes ==
    ASSUME NEW s \in Seq(Record)
    PROVE  /\ ReplayTopics(s) \in [Topics -> TopicState \cup {NoTopic}]
           /\ \A t \in Topics : ReplayTopics(s)[t] # NoTopic =>
                 [topic |-> t, partitions |-> ReplayTopics(s)[t]] \in Range(s)
<1>1. ASSUME NEW t \in Topics, RecordsOf(s, t) # {}
      PROVE  \E i \in DOMAIN s : s[i].topic = t
                /\ ReplayTopics(s)[t] = s[i].partitions
  <2>1. Len(s) \in Nat /\ RecordsOf(s, t) \in SUBSET (1..Len(s))
    BY DEF RecordsOf
  <2>2. Max(RecordsOf(s, t)) \in RecordsOf(s, t)
    BY <1>1, <2>1, MaxNat
  <2> QED
    BY <1>1, <2>2 DEF RecordsOf, ReplayTopics
<1>2. ASSUME NEW t \in Topics, RecordsOf(s, t) = {}
      PROVE  ReplayTopics(s)[t] = NoTopic
  BY <1>2 DEF ReplayTopics
<1>3. ASSUME NEW i \in DOMAIN s
      PROVE  /\ s[i].partitions \in TopicState \cup {NoTopic}
             /\ s[i] = [topic |-> s[i].topic, partitions |-> s[i].partitions]
             /\ s[i] \in Range(s)
  <2>1. s[i] \in Record
    OBVIOUS
  <2> QED
    BY <2>1 DEF Record, Range
<1>4. ReplayTopics(s) = [t \in Topics |-> ReplayTopics(s)[t]]
  BY DEF ReplayTopics
<1>5. \A t \in Topics : ReplayTopics(s)[t] \in TopicState \cup {NoTopic}
  BY <1>1, <1>2, <1>3
<1>6. \A t \in Topics : ReplayTopics(s)[t] # NoTopic =>
         [topic |-> t, partitions |-> ReplayTopics(s)[t]] \in Range(s)
  BY <1>1, <1>2, <1>3
<1> QED
  BY <1>4, <1>5, <1>6

\* A finite set of records as a list, in some order
LEMMA SetToSeqType ==
    ASSUME NEW S \in SUBSET Record, IsFiniteSet(S)
    PROVE  SetToSeq(S) \in Seq(Record)
<1>1. Cardinality(S) \in Nat /\ ExistsBijection(1..Cardinality(S), S)
  BY FS_CardinalityType
<1>2. \E f \in [1..Cardinality(S) -> S] : IsInjective(f)
  BY <1>1, Zenon DEF ExistsBijection, Bijection, Injection, IsInjective
<1>3. SetToSeq(S) \in [1..Cardinality(S) -> S]
  BY <1>2 DEF SetToSeq
<1> QED
  BY <1>1, <1>3

\* The orders in which OnPeerDown may take the topics are lists of them.
LEMMA SetToSeqsType ==
    ASSUME NEW S \in SUBSET Record, IsFiniteSet(S), S # {}, NEW s \in SetToSeqs(S)
    PROVE  s \in Seq(Record) /\ s # <<>>
<1>1. Cardinality(S) \in Nat /\ Cardinality(S) # 0
  BY FS_CardinalityType, FS_EmptySet
<1>2. s \in [1..Cardinality(S) -> S]
  BY DEF SetToSeqs
<1> QED
  BY <1>1, <1>2

\* One record for each of some topics
LEMMA PerTopic ==
    ASSUME NEW K \in SUBSET Topics, NEW f \in [K -> TopicState]
    PROVE  LET S == {[topic |-> t, partitions |-> f[t]] : t \in K}
           IN  S \in SUBSET Record /\ IsFiniteSet(S)
<1> DEFINE S == {[topic |-> t, partitions |-> f[t]] : t \in K}
           g == [t \in K |-> [topic |-> t, partitions |-> f[t]]]
<1>1. S \in SUBSET Record
  BY DEF Record
<1>2. IsFiniteSet(K)
  BY ClusterAssumption, FS_Subset
<1>3. g \in Surjection(K, S)
  BY DEF Surjection
<1>4. IsFiniteSet(S)
  <2> HIDE DEF S, g
  <2> QED BY <1>2, <1>3, FS_Surjection
<1> QED
  BY <1>1, <1>4
=============================================================================
