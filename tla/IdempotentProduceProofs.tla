----------------------- MODULE IdempotentProduceProofs ----------------------
(***************************************************************************)
(* IdempotentProduce for any producers, batch sizes, width of a sequence   *)
(* number and number of restarts: a broker process appends no batch twice, *)
(* and what it acknowledges is in the log.                                 *)
(*                                                                         *)
(* The argument counts records without wrapping around.  A producer sends  *)
(* fewer than 2 * Half of them (CycleAssumption), so a sequence number     *)
(* stands for one place in its stream.  The broker has reached the end of  *)
(* some request of each id, and appends what starts right there.           *)
(***************************************************************************)
EXTENDS IdempotentProduce, FiniteSetTheorems, TLAPS

\* The place of a sequence number in the stream of records, and where a
\* request begins and ends
Place(s) == IF s >= 0 THEN s ELSE s + 2 * Half
First(r) == Place(r.baseSeq)
Past(r)  == First(r) + r.recordCount

\* How far the broker is with an id
Reached(pid) == IF seqs[pid].known THEN Place(seqs[pid].lastSequence) + 1 ELSE 0

InLog(b)  == \E i \in DOMAIN log : log[i] = b
Copies(b) == {i \in DOMAIN log : log[i] = b}

\* Every id of this broker process went to another producer.
Ids == nextPID <= Cardinality({p \in Producer : session[p].pid > 0})

\* A producer goes through its batches one by one.
Client(p) ==
    /\ session[p].n <= MaxBatches[p] + 1
    /\ session[p].n = 1 => session[p].seq = 0
    /\ \E c \in Counts \cup {0} :
          Place(session[p].seq) <= (session[p].n - 1) * c /\ session[p].count <= c
    /\ \A m \in 1..(session[p].n - 1) :
          <<p, m>> \in acked /\ \E r \in sent : r.batch = <<p, m>>

\* A request is its producer's current one, or ends where a later one begins.
Fits(r) ==
    LET s == session[r.batch[1]]
    IN  /\ r.pid = s.pid
        /\ r.batch[2] = s.n => r.recordCount = s.count /\ r.baseSeq = s.seq
        /\ r.batch[2] # s.n => r.batch[2] < s.n /\ Past(r) <= Place(s.seq)
        /\ r.batch[2] = s.n - 1 => Past(r) = Place(s.seq)

\* What producers have sent: one request per batch, one after the other
Produced ==
    /\ \A p \in Producer : Client(p)
    /\ \A r \in sent : Fits(r)
    /\ \A q, r \in sent : q.batch[1] = r.batch[1] =>
          /\ q.batch[2] = r.batch[2] => q = r
          /\ q.batch[2] < r.batch[2] => Past(q) <= First(r)

\* What the broker has of it: it has reached the end of a request, and what is
\* past that was not appended by this process.
Broker ==
    /\ \A b \in Batch : InLog(b) => \E r \in sent : r.batch = b
    /\ \A w \in waiting : InLog(w.batch)
    /\ \A pid \in Pids : seqs[pid].known =>
          \E r \in sent : /\ r.pid = pid /\ Past(r) = Reached(pid)
                          /\ r.recordCount = seqs[pid].lastRecordCount
    /\ \A b \in Batch : Cardinality(Copies(b)) <= restarts + 1
    /\ \A r \in sent : Past(r) > Reached(r.pid) => Cardinality(Copies(r.batch)) <= restarts
    /\ restarts = 0 =>
          \A i, j \in DOMAIN log :
              i < j /\ log[i][1] = log[j][1] => log[i][2] < log[j][2]

\* Unless restarts have confused batches, all that it has reached is in the
\* log, and all that is acknowledged.
Honest ==
    Unconfused =>
        /\ \A r \in sent : Past(r) <= Reached(r.pid) => InLog(r.batch)
        /\ \A b \in acked : InLog(b)
-----------------------------------------------------------------------------
(* Sequence numbers and their places                                       *)

\* A multiple of 2 * Half is a small one if the number is small.
LEMMA ModSmall ==
    ASSUME NEW m \in Nat \ {0}, NEW x \in Int, -m <= x, x < 2 * m
    PROVE  x % m = IF x < 0 THEN x + m ELSE IF x < m THEN x ELSE x - m
<1> DEFINE k == x \div m
<1>1. k \in Int /\ x = k * m + (x % m) /\ x % m \in 0..(m - 1)
  OBVIOUS
<1> HIDE DEF k
<1>2. k >= 2 => k * m >= 2 * m
  BY <1>1
<1>3. k <= -2 => k * m <= -2 * m
  BY <1>1
<1>4. k \in {-1, 0, 1}
  BY <1>1, <1>2, <1>3
<1> QED
  BY <1>1, <1>4

\* Wrap on the numbers that a sequence number and a record count add up to
LEMMA WrapSmall ==
    ASSUME NEW x \in Int, -(3 * Half) <= x, x < 3 * Half
    PROVE  /\ Wrap(x) = IF x < -Half THEN x + 2 * Half
                        ELSE IF x < Half THEN x ELSE x - 2 * Half
           /\ Wrap(x) \in Sequence
<1> DEFINE m == 2 * Half
           y == x + Half
<1>1. Half \in Nat \ {0} /\ m \in Nat \ {0} /\ y \in Int
  BY ProduceAssumption
<1>2. -m <= y /\ y < 2 * m
  BY <1>1
<1> HIDE DEF m, y
<1>3. y % m = IF y < 0 THEN y + m ELSE IF y < m THEN y ELSE y - m
  BY <1>1, <1>2, ModSmall
<1>4. Wrap(x) = IF x < -Half THEN x + 2 * Half
                ELSE IF x < Half THEN x ELSE x - 2 * Half
  BY <1>1, <1>3 DEF Wrap, m, y
<1> QED
  BY <1>1, <1>4 DEF Sequence

\* A sequence number has its place, and no other has the same.
LEMMA PlaceOfSequence ==
    /\ Half \in Nat \ {0}
    /\ \A s \in Sequence : s \in Int /\ Place(s) \in 0..(2 * Half - 1)
    /\ \A s, t \in Sequence : Place(s) = Place(t) => s = t
    /\ 0 \in Sequence /\ Place(0) = 0
  BY ProduceAssumption DEF Sequence, Place

\* session.seq after a batch of c records, and lastSequence after it
LEMMA Advance ==
    ASSUME NEW s \in Sequence, NEW c \in Nat, Place(s) + c < 2 * Half
    PROVE  /\ Wrap(s + c) \in Sequence /\ Place(Wrap(s + c)) = Place(s) + c
           /\ c > 0 => /\ Wrap(s + c - 1) \in Sequence
                       /\ Place(Wrap(s + c - 1)) + 1 = Place(s) + c
<1> USE ProduceAssumption DEF Sequence, Place
<1>1. s \in Int /\ s + c \in Int /\ -(3 * Half) <= s + c /\ s + c < 3 * Half
  OBVIOUS
<1>2. c > 0 => s + c - 1 \in Int /\ -(3 * Half) <= s + c - 1 /\ s + c - 1 < 3 * Half
  OBVIOUS
<1>3. Wrap(s + c) \in Sequence /\ Place(Wrap(s + c)) = Place(s) + c
  BY <1>1, WrapSmall
<1>4. c > 0 => /\ Wrap(s + c - 1) \in Sequence
               /\ Place(Wrap(s + c - 1)) + 1 = Place(s) + c
  BY <1>1, <1>2, WrapSmall
<1> QED
  BY <1>3, <1>4

\* lastBaseSeq and the next base sequence, from an entry that ends at a place
\* reached by c records
LEMMA Around ==
    ASSUME NEW s \in Sequence, NEW c \in Nat \ {0}, c <= Place(s) + 1,
           Place(s) + 1 < 2 * Half
    PROVE  /\ Wrap(s - c + 1) \in Sequence /\ Place(Wrap(s - c + 1)) = Place(s) + 1 - c
           /\ Wrap(s + 1) \in Sequence /\ Place(Wrap(s + 1)) = Place(s) + 1
<1> USE ProduceAssumption DEF Sequence, Place
<1>1. s \in Int /\ s - c + 1 \in Int /\ -(3 * Half) <= s - c + 1 /\ s - c + 1 < 3 * Half
  OBVIOUS
<1>2. s + 1 \in Int /\ -(3 * Half) <= s + 1 /\ s + 1 < 3 * Half
  OBVIOUS
<1>3. Wrap(s - c + 1) \in Sequence /\ Place(Wrap(s - c + 1)) = Place(s) + 1 - c
  BY <1>1, WrapSmall
<1>4. Wrap(s + 1) \in Sequence /\ Place(Wrap(s + 1)) = Place(s) + 1
  BY <1>2, WrapSmall
<1> QED
  BY <1>3, <1>4
-----------------------------------------------------------------------------
(* Batches and requests                                                    *)

\* Record counts are numbers.
LEMMA CountsType == \A c \in Counts \cup {0} : c \in Nat
  BY ProduceAssumption

\* A batch is a producer and a number within the producer's bound.
LEMMA BatchParts ==
    /\ \A b \in Batch : /\ b[1] \in Producer /\ b[2] \in Nat \ {0}
                         /\ b[2] <= MaxBatches[b[1]] /\ b = <<b[1], b[2]>>
    /\ \A p \in Producer, n \in Nat \ {0} : n <= MaxBatches[p] => <<p, n>> \in Batch
<1>1. MaxBatches \in [Producer -> Nat]
  BY ProduceAssumption
<1>2. ASSUME NEW b \in Batch
      PROVE  /\ b[1] \in Producer /\ b[2] \in Nat \ {0}
             /\ b[2] <= MaxBatches[b[1]] /\ b = <<b[1], b[2]>>
  <2>1. PICK p \in Producer : b \in {p} \X (1..MaxBatches[p])
    BY DEF Batch
  <2> QED
    BY <1>1, <2>1
<1>3. ASSUME NEW p \in Producer, NEW n \in Nat \ {0}, n <= MaxBatches[p]
      PROVE  <<p, n>> \in Batch
  <2>1. <<p, n>> \in {p} \X (1..MaxBatches[p])
    BY <1>1, <1>3
  <2> QED
    BY <2>1 DEF Batch
<1> QED
  BY <1>2, <1>3

\* The parts of a request that was sent
LEMMA RequestParts ==
    ASSUME TypeOK, NEW r \in sent
    PROVE  /\ r \in Request /\ r.batch \in Batch /\ r.pid \in Pids
           /\ r.batch[1] \in Producer /\ r.batch[2] \in Nat \ {0}
           /\ r.batch[2] <= MaxBatches[r.batch[1]] /\ r.batch = <<r.batch[1], r.batch[2]>>
           /\ r.baseSeq \in Sequence /\ r.recordCount \in Counts
           /\ r.recordCount \in Nat \ {0} /\ First(r) \in 0..(2 * Half - 1)
           /\ Past(r) \in Nat \ {0} /\ First(r) < Past(r)
<1>1. /\ r \in Request /\ r.batch \in Batch /\ r.pid \in Pids /\ r.baseSeq \in Sequence
      /\ r.recordCount \in Counts
  BY DEF TypeOK, Request
<1>2. r.recordCount \in Nat \ {0}
  BY <1>1, ProduceAssumption
<1>3. First(r) \in 0..(2 * Half - 1) /\ Half \in Nat
  BY <1>1, PlaceOfSequence DEF First
<1>4. Past(r) \in Nat \ {0} /\ First(r) < Past(r)
  BY <1>2, <1>3 DEF Past
<1> QED
  BY <1>1, <1>2, <1>3, <1>4, BatchParts

\* The parts of a session
LEMMA SessionParts ==
    ASSUME TypeOK, NEW p \in Producer
    PROVE  /\ session[p] \in Session /\ session[p].pid \in Nat
           /\ session[p].pid \in Pids \cup {0} /\ session[p].n \in Nat \ {0}
           /\ session[p].seq \in Sequence /\ session[p].count \in Counts \cup {0}
           /\ session[p].count \in Nat
           /\ Place(session[p].seq) \in 0..(2 * Half - 1) /\ MaxBatches[p] \in Nat
<1>1. session[p] \in Session
  BY DEF TypeOK
<1>2. /\ session[p].pid \in Pids \cup {0} /\ session[p].n \in Nat \ {0}
      /\ session[p].seq \in Sequence /\ session[p].count \in Counts \cup {0}
  BY <1>1 DEF Session
<1>3. session[p].pid \in Nat
  BY <1>2 DEF Pids
<1>4. session[p].count \in Nat /\ MaxBatches[p] \in Nat
  <2>1. MaxBatches \in [Producer -> Nat]
    BY ProduceAssumption
  <2> QED
    BY <1>2, <2>1, CountsType
<1>5. Place(session[p].seq) \in 0..(2 * Half - 1)
  BY <1>2, PlaceOfSequence
<1> QED
  BY <1>1, <1>2, <1>3, <1>4, <1>5

\* A producer's current batch ends before the numbers come up again.
LEMMA CurrentEnds ==
    ASSUME TypeOK, Produced, NEW p \in Producer, session[p].n <= MaxBatches[p]
    PROVE  Place(session[p].seq) + session[p].count < 2 * Half
<1> DEFINE n == session[p].n
           x == Place(session[p].seq)
           k == session[p].count
           m == MaxBatches[p]
<1>1. n \in Nat \ {0} /\ x \in Nat /\ k \in Nat /\ m \in Nat /\ n <= m
  BY SessionParts
<1>2. PICK c \in Counts \cup {0} : x <= (n - 1) * c /\ k <= c
  BY DEF Produced, Client
<1>3. c \in Nat /\ Half \in Nat \ {0} /\ (c = 0 \/ m * c < 2 * Half)
  BY <1>2, CountsType, ProduceAssumption, CycleAssumption
<1> HIDE DEF n, x, k, m
<1>4. (n - 1) * c + c = n * c /\ n * c <= m * c /\ n * c \in Nat /\ m * c \in Nat
  BY <1>1, <1>3
<1>5. (n - 1) * c \in Nat
  BY <1>1, <1>3
<1>6. x + k <= n * c
  BY <1>1, <1>2, <1>3, <1>4, <1>5
<1>7. c = 0 => n * c = 0
  BY <1>1
<1>8. x + k < 2 * Half
  BY <1>1, <1>3, <1>4, <1>6, <1>7
<1> QED
  BY <1>8 DEF x, k

\* Every request ends before that.
LEMMA PastBound ==
    ASSUME TypeOK, Produced, NEW r \in sent
    PROVE  Past(r) < 2 * Half
<1> DEFINE s == session[r.batch[1]]
<1>1. /\ r.batch[1] \in Producer /\ r.batch[2] <= MaxBatches[r.batch[1]]
      /\ Past(r) \in Nat
  BY RequestParts
<1>2. Place(s.seq) \in 0..(2 * Half - 1) /\ Half \in Nat
  BY <1>1, SessionParts, ProduceAssumption
<1>3. CASE r.batch[2] = s.n
  <2>1. r.recordCount = s.count /\ r.baseSeq = s.seq
    BY <1>3 DEF Produced, Fits
  <2>2. Place(s.seq) + s.count < 2 * Half
    BY <1>1, <1>3, CurrentEnds
  <2> QED
    BY <2>1, <2>2 DEF Past, First
<1>4. CASE r.batch[2] # s.n
  <2>1. Past(r) <= Place(s.seq)
    BY <1>4 DEF Produced, Fits
  <2> QED
    BY <1>1, <1>2, <2>1
<1> QED
  BY <1>3, <1>4

\* What checkSequenceLocked tells apart: it appends what begins where the broker
\* is, and takes for a duplicate what begins with the last batch or, except for
\* wrapped numbers, anywhere before.
LEMMA Checked ==
    ASSUME TypeOK, Produced, Broker, NEW r \in sent
    PROVE  /\ Reached(r.pid) \in Nat
           /\ checkSequenceLocked(r) = "Append" => First(r) = Reached(r.pid)
           /\ checkSequenceLocked(r) = "Duplicate" =>
                 /\ seqs[r.pid].known
                 /\ \/ First(r) = Reached(r.pid) - seqs[r.pid].lastRecordCount
                    \/ First(r) < Reached(r.pid)
                    \/ First(r) > Reached(r.pid) /\ r.baseSeq < 0
<1> DEFINE s == seqs[r.pid]
           last == s.lastSequence
           c == s.lastRecordCount
           back == Wrap(last - c + 1)
           on == Wrap(last + 1)
<1>1. r.pid \in Pids /\ r.baseSeq \in Sequence
  BY RequestParts
<1>2. s \in SeqState /\ s.known \in BOOLEAN /\ last \in Sequence
  BY <1>1 DEF TypeOK, SeqState
<1>3. CASE ~s.known
  <2>1. Reached(r.pid) = 0
    BY <1>3 DEF Reached
  <2>2. checkSequenceLocked(r) = IF r.baseSeq = 0 THEN "Append" ELSE "OutOfOrder"
    BY <1>3 DEF checkSequenceLocked
  <2> QED
    BY <2>1, <2>2, PlaceOfSequence DEF First
<1>4. CASE s.known
  <2>1. PICK l \in sent : l.pid = r.pid /\ Past(l) = Reached(r.pid) /\ l.recordCount = c
    BY <1>1, <1>4 DEF Broker
  <2>2. /\ c \in Nat \ {0} /\ Past(l) < 2 * Half /\ Past(l) = First(l) + c
        /\ First(l) \in Nat
    BY <2>1, RequestParts, PastBound DEF Past
  <2>3. Reached(r.pid) = Place(last) + 1
    BY <1>4 DEF Reached
  <2>4. Place(last) \in Nat /\ c <= Place(last) + 1 /\ Place(last) + 1 < 2 * Half
    <3>1. Place(last) \in Nat /\ Half \in Nat
      BY <1>2, PlaceOfSequence
    <3>2. Place(last) + 1 = First(l) + c /\ First(l) + c < 2 * Half
      BY <2>1, <2>2, <2>3
    <3> HIDE DEF last, c
    <3> QED
      BY <2>2, <3>1, <3>2
  <2>5. /\ back \in Sequence /\ Place(back) = Place(last) + 1 - c
        /\ on \in Sequence /\ Place(on) = Place(last) + 1
    BY <1>2, <2>2, <2>4, Around
  <2>6. checkSequenceLocked(r) =
           IF r.baseSeq = back THEN "Duplicate"
           ELSE IF r.baseSeq = on THEN "Append"
           ELSE IF r.baseSeq <= last THEN "Duplicate" ELSE "OutOfOrder"
    BY <1>4 DEF checkSequenceLocked
  <2>k. seqs[r.pid].known /\ seqs[r.pid].lastRecordCount = c
    BY <1>4
  <2> HIDE DEF back, on, last, c, s
  <2>7. r.baseSeq # on => First(r) # Place(last) + 1
    BY <1>1, <2>5, PlaceOfSequence DEF First
  <2>8. r.baseSeq <= last => Place(r.baseSeq) <= Place(last) \/ r.baseSeq < 0
    BY <1>1, <1>2, ProduceAssumption DEF Place, Sequence
  <2>9. First(r) \in Int /\ Place(r.baseSeq) = First(r)
    BY <1>1, PlaceOfSequence DEF First
  <2>10. CASE r.baseSeq = back
    BY <2>3, <2>4, <2>5, <2>6, <2>9, <2>10, <2>2, <2>k
  <2>11. CASE r.baseSeq # back /\ r.baseSeq = on
    BY <2>3, <2>4, <2>5, <2>6, <2>9, <2>11
  <2>12. CASE r.baseSeq # back /\ r.baseSeq # on
    BY <2>3, <2>4, <2>6, <2>7, <2>8, <2>9, <2>12, <2>k
  <2> QED
    BY <2>10, <2>11, <2>12
<1> QED
  BY <1>2, <1>3, <1>4
-----------------------------------------------------------------------------
(* The producers                                                           *)

\* An acknowledgement of its current batch brings a producer to the next one;
\* any other changes nothing.
LEMMA Acknowledged ==
    ASSUME TypeOK, Produced, NEW r \in sent, Acknowledge(r.batch), sent' = sent
    PROVE  /\ session' \in [Producer -> Session] /\ acked' \in SUBSET Batch
           /\ \A p \in Producer : session'[p].pid = session[p].pid
           /\ Produced'
<1> DEFINE a == r.batch[1]
           s == session[a]
           n == s.n
           seq == Wrap(s.seq + s.count)
<1>1. /\ r.batch \in Batch /\ a \in Producer /\ r.batch[2] \in Nat \ {0}
      /\ r.batch[2] <= MaxBatches[a] /\ r.batch = <<a, r.batch[2]>>
  BY RequestParts
<1>2. acked' = acked \cup {r.batch} /\ acked' \in SUBSET Batch
  BY <1>1 DEF Acknowledge, TypeOK
<1>3. CASE r.batch[2] # n
  <2>1. session' = session
    BY <1>3 DEF Acknowledge
  <2>2. session' \in [Producer -> Session]
    BY <2>1 DEF TypeOK
  <2>3. \A p \in Producer : Client(p) => Client(p)'
    BY <1>2, <2>1 DEF Client
  <2>4. \A q \in sent : Fits(q) => Fits(q)'
    BY <2>1 DEF Fits, Past, First
  <2>5. Produced'
    BY <2>3, <2>4 DEF Produced, Past, First
  <2> QED
    BY <1>2, <2>1, <2>2, <2>5
<1>4. CASE r.batch[2] = n
  <2>1. /\ s \in Session /\ s.n \in Nat \ {0} /\ s.seq \in Sequence /\ s.count \in Nat
        /\ s.pid \in Pids \cup {0} /\ Place(s.seq) \in Nat /\ MaxBatches[a] \in Nat
    BY <1>1, SessionParts
  <2>2. Place(s.seq) + s.count < 2 * Half
    BY <1>1, <1>4, CurrentEnds
  <2>3. seq \in Sequence /\ Place(seq) = Place(s.seq) + s.count
    BY <2>1, <2>2, Advance
  <2>4. session' = [session EXCEPT ![a].n = @ + 1, ![a].count = 0,
                                   ![a].seq = Wrap(@ + s.count)]
    BY <1>4 DEF Acknowledge
  <2>5. /\ session'[a].pid = s.pid /\ session'[a].n = n + 1 /\ session'[a].seq = seq
        /\ session'[a].count = 0
    BY <1>1, <2>1, <2>4 DEF TypeOK, Session
  <2>6. /\ session' \in [Producer -> Session]
        /\ \A p \in Producer \ {a} : session'[p] = session[p]
    <3> DEFINE t == [s EXCEPT !.n = n + 1, !.count = 0, !.seq = seq]
    <3>1. session'[a] \in Session
      <4>1. session'[a] = t
        BY <1>1, <2>1, <2>4 DEF TypeOK, Session
      <4>2. n + 1 \in Nat \ {0} /\ seq \in Sequence
        BY <2>1, <2>3
      <4> HIDE DEF n, s, seq
      <4>3. t \in Session
        BY <2>1, <4>2 DEF Session
      <4> QED
        BY <4>1, <4>3
    <3>2. /\ DOMAIN session' = Producer /\ session' = [p \in Producer |-> session'[p]]
          /\ \A p \in Producer \ {a} : session'[p] = session[p]
      BY <1>1, <2>4 DEF TypeOK
    <3> QED
      BY <3>1, <3>2 DEF TypeOK
  <2> HIDE DEF seq
  <2>7. ASSUME NEW p \in Producer PROVE Client(p)'
    <3>1. Client(p)
      BY DEF Produced
    <3>2. CASE p # a
      BY <1>2, <2>6, <3>1, <3>2 DEF Client
    <3>3. CASE p = a
      <4>1. session'[p].n <= MaxBatches[p] + 1 /\ session'[p].n # 1
        <5>1. session'[p].n = n + 1 /\ n \in Nat \ {0} /\ MaxBatches[p] \in Nat
              /\ n <= MaxBatches[p]
          BY <1>1, <1>4, <2>1, <2>5, <3>3
        <5> HIDE DEF n
        <5> QED
          BY <5>1
      <4>2. PICK c \in Counts \cup {0} : Place(s.seq) <= (n - 1) * c /\ s.count <= c
        BY <3>1, <3>3 DEF Client
      <4>3. c \in Nat
        BY CountsType
      <4>4. Place(seq) <= (n + 1 - 1) * c /\ 0 <= c
        <5>1. n \in Nat \ {0}
          BY <2>1
        <5> HIDE DEF n, s
        <5>2. (n - 1) * c + c = (n + 1 - 1) * c /\ (n - 1) * c \in Nat
          BY <4>3, <5>1
        <5> QED
          BY <2>1, <2>3, <4>2, <4>3, <5>2
      <4>5. ASSUME NEW m \in 1..(session'[p].n - 1)
            PROVE  <<p, m>> \in acked' /\ \E q \in sent' : q.batch = <<p, m>>
        <5>1. m \in 1..n
          <6>1. session'[p].n = n + 1 /\ n \in Nat
            BY <2>1, <2>5, <3>3
          <6> HIDE DEF n
          <6> QED
            BY <4>5, <6>1
        <5>2. CASE m = n
          BY <1>1, <1>2, <1>4, <3>3, <5>2
        <5>3. CASE m # n
          <6>1. m \in 1..(session[p].n - 1)
            BY <2>1, <3>3, <5>1, <5>3
          <6> QED
            BY <1>2, <3>1, <6>1 DEF Client
        <5> QED
          BY <5>2, <5>3
      <4>6. Place(session'[p].seq) <= (session'[p].n - 1) * c /\ session'[p].count <= c
        <5>1. session'[p].n = n + 1 /\ session'[p].seq = seq /\ session'[p].count = 0
          BY <2>5, <3>3
        <5>2. Place(session'[p].seq) = Place(seq)
          BY <5>1
        <5>3. n \in Nat /\ Place(seq) \in Nat
          BY <2>1, <2>3
        <5> HIDE DEF n
        <5>4. session'[p].n - 1 = n + 1 - 1
          BY <5>1, <5>3
        <5> QED
          BY <4>3, <4>4, <5>1, <5>2, <5>3, <5>4
      <4> QED
        BY <4>1, <4>2, <4>5, <4>6 DEF Client
    <3> QED
      BY <3>2, <3>3
  <2>8. ASSUME NEW q \in sent PROVE Fits(q)'
    <3>1. Fits(q) /\ q.batch[1] \in Producer /\ q.batch[2] \in Nat /\ Past(q) \in Nat
      BY RequestParts DEF Produced
    <3>2. CASE q.batch[1] # a
      BY <2>6, <3>1, <3>2 DEF Fits, Past, First
    <3>3. CASE q.batch[1] = a
      <4>1. q.batch[2] <= n /\ q.pid = s.pid
        BY <2>1, <3>1, <3>3 DEF Fits
      <4>2. q.batch[2] = n => Past(q) = Place(s.seq) + s.count
        BY <3>1, <3>3 DEF Fits, Past, First
      <4>3. q.batch[2] # n => Past(q) <= Place(s.seq)
        BY <3>1, <3>3 DEF Fits
      <4>4. Past(q) <= Place(seq) /\ (q.batch[2] = n => Past(q) = Place(seq))
        BY <2>1, <2>3, <3>1, <4>2, <4>3
      <4>5. q.batch[2] # n + 1 /\ q.batch[2] < n + 1 /\ n + 1 - 1 = n
        BY <2>1, <3>1, <4>1
      <4>t. n \in Nat /\ Place(seq) \in Nat
        BY <2>1, <2>3
      <4> DEFINE t == session'[q.batch[1]]
      <4>6. t.pid = s.pid /\ t.n = n + 1 /\ t.seq = seq
        BY <2>5, <3>3
      <4> HIDE DEF t, s, n
      <4>7. q.pid = t.pid /\ q.batch[2] # t.n /\ q.batch[2] < t.n
        BY <4>1, <4>5, <4>6
      <4>8. Past(q) <= Place(t.seq) /\ (q.batch[2] = t.n - 1 => Past(q) = Place(t.seq))
        <5>1. Place(t.seq) = Place(seq)
          BY <4>6
        <5> QED
          BY <3>1, <4>t, <4>4, <4>5, <4>6, <5>1
      <4> QED
        BY <4>7, <4>8 DEF Fits, Past, First, t
    <3> QED
      BY <3>2, <3>3
  <2>9. Produced'
    BY <2>7, <2>8 DEF Produced, Past, First
  <2> QED
    BY <1>2, <2>5, <2>6, <2>9
<1> QED
  BY <1>3, <1>4

\* What a step leaves alone stays as it is.
LEMMA ProducedKept ==
    ASSUME Produced, UNCHANGED <<session, sent, acked>>
    PROVE  Produced'
<1>1. /\ \A p \in Producer : Client(p) => Client(p)'
      /\ \A r \in sent : Fits(r) => Fits(r)'
  BY DEF Client, Fits, Past, First
<1> QED
  BY <1>1 DEF Produced, Past, First

\* A producer sends its next batch from where its last one ends.
LEMMA ProducedSend ==
    ASSUME TypeOK, Produced, NEW a \in Producer, NEW k \in Counts, Send(a, k)
    PROVE  /\ session' \in [Producer -> Session]
           /\ \A p \in Producer : session'[p].pid = session[p].pid
           /\ \E q \in Request :
                 /\ sent' = sent \cup {q}
                 /\ q.pid = session[a].pid /\ q.batch = <<a, session[a].n>>
                 /\ q.baseSeq = session[a].seq
                 /\ \A r \in sent : r.batch # q.batch
                 /\ \A r \in sent : r.batch[1] = a => Past(r) <= First(q)
           /\ Produced'
<1> DEFINE s == session[a]
           q == [batch |-> <<a, s.n>>, pid |-> s.pid, baseSeq |-> s.seq, recordCount |-> k]
<1>1. /\ s \in Session /\ s.n \in Nat \ {0} /\ s.seq \in Sequence /\ s.count \in Nat
      /\ s.pid \in Pids \cup {0} /\ Place(s.seq) \in Nat /\ MaxBatches[a] \in Nat
  BY SessionParts
<1>2. /\ s.pid > 0 /\ s.count = 0 /\ s.n <= MaxBatches[a] /\ k \in Nat \ {0}
      /\ s.pid \in Pids
  BY <1>1, ProduceAssumption DEF Send
<1>3. session' = [session EXCEPT ![a].count = k] /\ sent' = sent \cup {q} /\ acked' = acked
  BY DEF Send
<1>4. /\ session'[a].pid = s.pid /\ session'[a].n = s.n /\ session'[a].seq = s.seq
      /\ session'[a].count = k
  BY <1>1, <1>3 DEF TypeOK, Session
<1>5. /\ session' \in [Producer -> Session]
      /\ \A p \in Producer \ {a} : session'[p] = session[p]
  <2> DEFINE t == [s EXCEPT !.count = k]
  <2>1. session'[a] = t
    BY <1>1, <1>3 DEF TypeOK, Session
  <2>2. t \in Session
    <3> HIDE DEF s
    <3> QED BY <1>1 DEF Session
  <2>3. /\ DOMAIN session' = Producer /\ session' = [p \in Producer |-> session'[p]]
        /\ \A p \in Producer \ {a} : session'[p] = session[p]
    BY <1>3 DEF TypeOK
  <2> QED
    BY <2>1, <2>2, <2>3 DEF TypeOK
<1>6. q \in Request /\ First(q) = Place(s.seq) /\ q.batch[1] = a /\ q.batch[2] = s.n
  BY <1>1, <1>2, BatchParts DEF Request, First
<1>7. ASSUME NEW r \in sent, r.batch[1] = a
      PROVE  r.batch[2] # s.n /\ r.batch[2] < s.n /\ Past(r) <= First(q)
  <2>1. Fits(r) /\ r.recordCount \in Nat \ {0} /\ r.batch[2] \in Nat
    BY RequestParts DEF Produced
  <2>2. r.batch[2] # s.n
    BY <1>2, <1>7, <2>1 DEF Fits
  <2> QED
    BY <1>6, <1>7, <2>1, <2>2 DEF Fits
<1>8. \A r \in sent : r.batch # q.batch
  BY <1>6, <1>7
<1> HIDE DEF q
<1>9. ASSUME NEW p \in Producer PROVE Client(p)'
  <2>1. Client(p)
    BY DEF Produced
  <2>2. CASE p # a
    BY <1>3, <1>5, <2>1, <2>2 DEF Client
  <2>3. CASE p = a
    <3>1. PICK c \in Counts \cup {0} : Place(s.seq) <= (s.n - 1) * c
      BY <2>1, <2>3 DEF Client
    <3> DEFINE d == IF k <= c THEN c ELSE k
    <3>2. c \in Nat /\ d \in Nat /\ d \in Counts \cup {0} /\ k <= d /\ c <= d
      BY <1>2, <3>1, CountsType
    <3>3. (s.n - 1) * c <= (s.n - 1) * d /\ (s.n - 1) * c \in Nat /\ (s.n - 1) * d \in Nat
      <4> DEFINE m == s.n - 1
      <4>1. m \in Nat
        BY <1>1
      <4> HIDE DEF m, d
      <4>2. m * c <= m * d /\ m * c \in Nat /\ m * d \in Nat
        BY <3>2, <4>1
      <4> QED
        BY <4>2 DEF m
    <3> HIDE DEF d
    <3>4. Place(s.seq) <= (s.n - 1) * d
      BY <1>1, <3>1, <3>3
    <3>5. Place(session'[p].seq) <= (session'[p].n - 1) * d /\ session'[p].count <= d
      BY <1>4, <2>3, <3>2, <3>4
    <3>6. /\ session'[p].n <= MaxBatches[p] + 1 /\ (session'[p].n = 1 => session'[p].seq = 0)
          /\ \A m \in 1..(session'[p].n - 1) :
                <<p, m>> \in acked' /\ \E r \in sent' : r.batch = <<p, m>>
      BY <1>3, <1>4, <2>1, <2>3 DEF Client
    <3> QED
      BY <3>2, <3>5, <3>6 DEF Client
  <2> QED
    BY <2>2, <2>3
<1>10. ASSUME NEW r \in sent' PROVE Fits(r)'
  <2>1. CASE r = q
    <3>1. /\ q.pid = s.pid /\ q.recordCount = k /\ q.baseSeq = s.seq
          /\ s.n # s.n - 1
      BY <1>1 DEF q
    <3> QED
      BY <1>4, <1>6, <2>1, <3>1 DEF Fits
  <2>2. CASE r # q
    <3>1. r \in sent /\ Fits(r) /\ r.batch[1] \in Producer
      BY <1>3, <2>2, RequestParts DEF Produced
    <3>2. CASE r.batch[1] # a
      BY <1>5, <3>1, <3>2 DEF Fits, Past, First
    <3>3. CASE r.batch[1] = a
      BY <1>4, <1>7, <3>1, <3>3 DEF Fits, Past, First
    <3> QED
      BY <3>2, <3>3
  <2> QED
    BY <2>1, <2>2
<1>11. ASSUME NEW r \in sent', NEW t \in sent', t.batch[1] = r.batch[1]
       PROVE  /\ t.batch[2] = r.batch[2] => t = r
              /\ t.batch[2] < r.batch[2] => Past(t) <= First(r)
  <2>1. CASE r = q /\ t = q
    BY <1>1, <1>6, <2>1
  <2>2. CASE r = q /\ t # q
    BY <1>3, <1>6, <1>7, <1>11, <2>2
  <2>3. CASE r # q /\ t = q
    <3>1. r \in sent /\ r.batch[1] = a
      BY <1>3, <1>6, <1>11, <2>3
    <3>2. r.batch[2] # s.n /\ r.batch[2] < s.n /\ r.batch[2] \in Nat
      BY <1>7, <3>1, RequestParts
    <3> QED
      BY <1>1, <1>6, <2>3, <3>2
  <2>4. CASE r # q /\ t # q
    BY <1>3, <1>11, <2>4 DEF Produced
  <2> QED
    BY <2>1, <2>2, <2>3, <2>4
<1>12. Produced'
  BY <1>9, <1>10, <1>11 DEF Produced, Past, First
<1>13. /\ q \in Request /\ q.pid = session[a].pid /\ q.batch = <<a, session[a].n>>
       /\ q.baseSeq = session[a].seq
  BY <1>6 DEF q
<1> QED
  BY <1>3, <1>4, <1>5, <1>7, <1>8, <1>12, <1>13

\* The other steps of a session: a first id.  A producer without one has not
\* sent anything yet.
LEMMA ProducedInit ==
    ASSUME TypeOK, Ids, Produced, NEW a \in Producer, InitProducerID(a)
    PROVE  /\ session' \in [Producer -> Session] /\ Ids' /\ Produced'
           /\ nextPID' \in 0..Cardinality(Producer)
           /\ \A p \in Producer : session[p].pid > 0 => session'[p].pid = session[p].pid
<1> DEFINE s == session[a]
           Has == {p \in Producer : session[p].pid > 0}
<1>1. s \in Session /\ s.pid = 0 /\ nextPID \in Nat /\ nextPID' = nextPID + 1
  BY SessionParts DEF InitProducerID, TypeOK
<1>2. session' = [session EXCEPT ![a].pid = nextPID'] /\ sent' = sent /\ acked' = acked
  BY DEF InitProducerID
<1>3. /\ IsFiniteSet(Has) /\ IsFiniteSet(Has \cup {a})
      /\ Cardinality(Has \cup {a}) = Cardinality(Has) + 1
      /\ Cardinality(Has \cup {a}) <= Cardinality(Producer)
      /\ Cardinality(Has) \in Nat /\ Cardinality(Producer) \in Nat
  <2>1. IsFiniteSet(Producer) /\ Has \subseteq Producer /\ a \notin Has
        /\ Has \cup {a} \subseteq Producer
    BY <1>1, ProduceAssumption
  <2> HIDE DEF Has
  <2>2. IsFiniteSet(Has) /\ IsFiniteSet(Has \cup {a})
        /\ Cardinality(Has \cup {a}) <= Cardinality(Producer)
    BY <2>1, FS_Subset
  <2>3. Cardinality(Has \cup {a}) = Cardinality(Has) + 1
    BY <2>1, <2>2, FS_AddElement
  <2> QED
    BY <2>1, <2>2, <2>3, FS_CardinalityType
<1>4. nextPID' <= Cardinality(Has \cup {a}) /\ nextPID' \in Pids
      /\ nextPID' \in 0..Cardinality(Producer)
  <2>1. nextPID <= Cardinality(Has)
    BY DEF Ids
  <2> HIDE DEF Has
  <2> QED
    BY <1>1, <1>3, <2>1 DEF Pids
<1>5. /\ session'[a].pid = nextPID' /\ session'[a].n = s.n /\ session'[a].seq = s.seq
      /\ session'[a].count = s.count
  BY <1>1, <1>2 DEF TypeOK, Session
<1>6. /\ session' \in [Producer -> Session]
      /\ \A p \in Producer \ {a} : session'[p] = session[p]
  <2> DEFINE t == [s EXCEPT !.pid = nextPID']
  <2>1. session'[a] = t
    BY <1>1, <1>2 DEF TypeOK, Session
  <2>2. t \in Session
    <3> HIDE DEF s
    <3> QED BY <1>1, <1>4 DEF Session
  <2>3. /\ DOMAIN session' = Producer /\ session' = [p \in Producer |-> session'[p]]
        /\ \A p \in Producer \ {a} : session'[p] = session[p]
    BY <1>2 DEF TypeOK
  <2> QED
    BY <2>1, <2>2, <2>3 DEF TypeOK
<1>7. Ids'
  <2>1. {p \in Producer : session'[p].pid > 0} = Has \cup {a}
    BY <1>1, <1>5, <1>6
  <2> QED
    BY <1>4, <2>1 DEF Ids
<1>8. ASSUME NEW p \in Producer PROVE Client(p)'
  <2>1. Client(p) /\ session'[p].n = session[p].n /\ session'[p].seq = session[p].seq
        /\ session'[p].count = session[p].count
    BY <1>5, <1>6 DEF Produced
  <2> QED
    BY <1>2, <2>1 DEF Client
<1>9. ASSUME NEW r \in sent PROVE Fits(r)'
  <2>1. Fits(r) /\ r.batch[1] \in Producer /\ r.pid \in Pids
    BY RequestParts DEF Produced
  <2>2. r.batch[1] # a
    BY <1>1, <2>1 DEF Fits, Pids
  <2> QED
    BY <1>6, <2>1, <2>2 DEF Fits, Past, First
<1>10. Produced'
  BY <1>2, <1>8, <1>9 DEF Produced, Past, First
<1> QED
  BY <1>1, <1>4, <1>6, <1>7, <1>10

\* Whoever waits for replication has sent its request.
LEMMA WaiterSent ==
    ASSUME TypeOK, Broker, NEW w \in waiting
    PROVE  \E r \in sent : r.batch = w.batch
<1>1. w.batch \in Batch /\ InLog(w.batch)
  BY DEF TypeOK, Waiter, Broker
<1> QED
  BY <1>1 DEF Broker

\* Every step keeps the producers' streams.
LEMMA ProducedStep ==
    ASSUME TypeOK, Ids, Produced, Broker, Next
    PROVE  /\ Produced' /\ session' \in [Producer -> Session] /\ acked' \in SUBSET Batch
           /\ \A p \in Producer : session[p].pid > 0 => session'[p].pid = session[p].pid
           /\ sent \subseteq sent' /\ sent' \in SUBSET Request
<1>0. session \in [Producer -> Session] /\ acked \in SUBSET Batch /\ sent \in SUBSET Request
  BY DEF TypeOK
<1>1. ASSUME NEW a \in Producer, InitProducerID(a)
      PROVE  /\ Produced' /\ session' \in [Producer -> Session] /\ acked' = acked
             /\ \A p \in Producer : session[p].pid > 0 => session'[p].pid = session[p].pid
             /\ sent' = sent
  BY <1>1, ProducedInit DEF InitProducerID
<1>2. ASSUME NEW a \in Producer, NEW k \in Counts, Send(a, k)
      PROVE  /\ Produced' /\ session' \in [Producer -> Session] /\ acked' = acked
             /\ \A p \in Producer : session'[p].pid = session[p].pid
             /\ sent \subseteq sent' /\ sent' \in SUBSET Request
  <2>1. acked' = acked
    BY <1>2 DEF Send
  <2> QED
    BY <1>0, <1>2, <2>1, ProducedSend
<1>3. CASE UNCHANGED <<session, sent, acked>>
  BY <1>0, <1>3, ProducedKept
<1>4. ASSUME NEW r \in sent, ProduceDuplicate(r)
      PROVE  /\ Produced' /\ session' \in [Producer -> Session] /\ acked' \in SUBSET Batch
             /\ \A p \in Producer : session'[p].pid = session[p].pid
             /\ sent' = sent
  BY <1>4, Acknowledged DEF ProduceDuplicate
<1>5. ASSUME NEW w \in waiting, WaitDone(w)
      PROVE  /\ Produced' /\ session' \in [Producer -> Session] /\ acked' \in SUBSET Batch
             /\ \A p \in Producer : session'[p].pid = session[p].pid
             /\ sent' = sent
  <2>1. PICK r \in sent : r.batch = w.batch
    BY WaiterSent
  <2>2. Acknowledge(r.batch) /\ sent' = sent
    BY <1>5, <2>1 DEF WaitDone
  <2> QED
    BY <2>2, Acknowledged
<1>6. ASSUME \/ \E r \in sent : ProduceAppend(r)
             \/ \E w \in waiting : WaitTimedOut(w)
             \/ Replicate
             \/ Restart
      PROVE  UNCHANGED <<session, sent, acked>>
  BY <1>6 DEF ProduceAppend, WaitTimedOut, Replicate, Restart
<1> QED
  BY <1>0, <1>1, <1>2, <1>3, <1>4, <1>5, <1>6 DEF Next
-----------------------------------------------------------------------------
(* The broker                                                              *)

\* What one more batch makes of the log
LEMMA LogGrows ==
    ASSUME NEW S, NEW l \in Seq(S), NEW e \in S
    PROVE  /\ Append(l, e) \in Seq(S) /\ Len(Append(l, e)) = Len(l) + 1
           /\ DOMAIN l = 1..Len(l) /\ DOMAIN Append(l, e) = 1..(Len(l) + 1)
           /\ \A i \in 1..Len(l) : Append(l, e)[i] = l[i]
           /\ Append(l, e)[Len(l) + 1] = e
           /\ Len(l) \in Nat
  OBVIOUS

\* A batch that is not in the log has no copies there.
LEMMA NoCopies ==
    ASSUME NEW b, ~InLog(b)
    PROVE  Cardinality(Copies(b)) = 0
<1>1. Copies(b) = {}
  BY DEF Copies, InLog
<1> QED
  BY <1>1, FS_EmptySet

\* The copies in a log can be counted.
LEMMA CopiesFinite ==
    ASSUME TypeOK, NEW b
    PROVE  IsFiniteSet(Copies(b)) /\ Cardinality(Copies(b)) \in Nat
           /\ (InLog(b) => Cardinality(Copies(b)) > 0)
<1>1. log \in Seq(Batch) /\ Len(log) \in Nat /\ DOMAIN log = 1..Len(log)
  BY DEF TypeOK
<1>2. IsFiniteSet(1..Len(log))
  BY <1>1, FS_Interval
<1>3. Copies(b) \subseteq 1..Len(log)
  BY <1>1 DEF Copies
<1>4. IsFiniteSet(Copies(b))
  BY <1>2, <1>3, FS_Subset
<1>5. Cardinality(Copies(b)) \in Nat
  BY <1>4, FS_CardinalityType
<1>6. InLog(b) => Copies(b) # {}
  BY DEF InLog, Copies
<1>7. Cardinality(Copies(b)) = 0 <=> Copies(b) = {}
  BY <1>4, FS_EmptySet
<1> QED
  BY <1>4, <1>5, <1>6, <1>7

\* ProduceAppend appends a request that begins where the broker is, and brings
\* the broker to its end.
LEMMA Appended ==
    ASSUME TypeOK, Produced, Broker, NEW r \in sent, ProduceAppend(r)
    PROVE  /\ log' \in Seq(Batch) /\ Len(log') = Len(log) + 1
           /\ log'[Len(log) + 1] = r.batch
           /\ \A i \in 1..Len(log) : log'[i] = log[i]
           /\ \A b : InLog(b)' <=> InLog(b) \/ b = r.batch
           /\ \A b \in Batch : b # r.batch => Copies(b)' = Copies(b)
           /\ Cardinality(Copies(r.batch)') = Cardinality(Copies(r.batch)) + 1
           /\ seqs' \in [Pids -> SeqState]
           /\ First(r) = Reached(r.pid)
           /\ Reached(r.pid)' = Past(r)
           /\ seqs'[r.pid].lastRecordCount = r.recordCount
           /\ \A pid \in Pids \ {r.pid} : seqs'[pid] = seqs[pid] /\ Reached(pid)' = Reached(pid)
<1>1. /\ r.batch \in Batch /\ r.pid \in Pids /\ r.baseSeq \in Sequence
      /\ r.recordCount \in Counts /\ r.recordCount \in Nat \ {0}
  BY RequestParts
<1>2. log \in Seq(Batch) /\ log' = Append(log, r.batch)
  BY DEF ProduceAppend, TypeOK
<1>3. /\ log' \in Seq(Batch) /\ Len(log') = Len(log) + 1
      /\ DOMAIN log = 1..Len(log) /\ DOMAIN log' = 1..(Len(log) + 1)
      /\ \A i \in 1..Len(log) : log'[i] = log[i]
      /\ log'[Len(log) + 1] = r.batch
      /\ Len(log) \in Nat
  BY ONLY <1>1, <1>2, LogGrows
<1>4. 1..(Len(log) + 1) = 1..Len(log) \cup {Len(log) + 1} /\ Len(log) + 1 \notin 1..Len(log)
  BY <1>3
<1>5. \A b : InLog(b)' <=> InLog(b) \/ b = r.batch
  BY <1>3, <1>4 DEF InLog
<1>6. \A b \in Batch : b # r.batch => Copies(b)' = Copies(b)
  BY <1>3, <1>4 DEF Copies
<1>7. Cardinality(Copies(r.batch)') = Cardinality(Copies(r.batch)) + 1
  <2>1. Copies(r.batch)' = Copies(r.batch) \cup {Len(log) + 1}
    BY <1>3, <1>4 DEF Copies
  <2>2. Len(log) + 1 \notin Copies(r.batch) /\ IsFiniteSet(Copies(r.batch))
    BY <1>3, <1>4, CopiesFinite DEF Copies
  <2> QED
    BY <2>1, <2>2, FS_AddElement
<1>8. First(r) = Reached(r.pid)
  BY Checked DEF ProduceAppend
<1> DEFINE c == committedLocked(r, Len(log))
<1>9. /\ Wrap(r.baseSeq + r.recordCount - 1) \in Sequence
      /\ Place(Wrap(r.baseSeq + r.recordCount - 1)) + 1 = Past(r)
  <2>1. Place(r.baseSeq) + r.recordCount < 2 * Half
    BY PastBound DEF Past, First
  <2> QED
    BY <1>1, <2>1, Advance DEF Past, First
<1>10. /\ c \in SeqState /\ c.known = TRUE /\ c.lastRecordCount = r.recordCount
       /\ c.lastSequence = Wrap(r.baseSeq + r.recordCount - 1)
  BY <1>1, <1>3, <1>9 DEF committedLocked, SeqState
<1>11. seqs' = [seqs EXCEPT ![r.pid] = c] /\ seqs \in [Pids -> SeqState]
  BY DEF ProduceAppend, TypeOK
<1> HIDE DEF c
<1>12. /\ seqs' \in [Pids -> SeqState] /\ seqs'[r.pid] = c
       /\ \A pid \in Pids \ {r.pid} : seqs'[pid] = seqs[pid]
  BY <1>1, <1>10, <1>11
<1>13. Reached(r.pid)' = Past(r)
  BY <1>9, <1>10, <1>12 DEF Reached
<1>14. \A pid \in Pids \ {r.pid} : Reached(pid)' = Reached(pid)
  BY <1>12 DEF Reached
<1> QED
  BY <1>3, <1>5, <1>6, <1>7, <1>8, <1>10, <1>12, <1>13, <1>14

\* No action leaves the types, and each id went to another producer.
LEMMA TypeStep ==
    ASSUME TypeOK, Ids, Produced, Broker, Next
    PROVE  TypeOK' /\ Ids'
<1>1. /\ session' \in [Producer -> Session] /\ acked' \in SUBSET Batch
      /\ sent' \in SUBSET Request
      /\ \A p \in Producer : session[p].pid > 0 => session'[p].pid = session[p].pid
  BY ProducedStep
<1>2. /\ nextPID \in 0..Cardinality(Producer) /\ seqs \in [Pids -> SeqState]
      /\ log \in Seq(Batch) /\ highWatermark \in 0..Len(log) /\ waiting \in SUBSET Waiter
      /\ restarts \in 0..Restarts /\ Len(log) \in Nat /\ Restarts \in Nat
      /\ Cardinality(Producer) \in Nat
  BY ProduceAssumption, FS_CardinalityType DEF TypeOK
<1>3. ASSUME nextPID' = nextPID \/ nextPID' = 0, ~\E a \in Producer : InitProducerID(a)
      PROVE  nextPID' \in 0..Cardinality(Producer) /\ Ids'
  <2> DEFINE Has == {p \in Producer : session[p].pid > 0}
             New == {p \in Producer : session'[p].pid > 0}
  <2>1. Has \subseteq New /\ IsFiniteSet(New)
    <3>1. IsFiniteSet(Producer) /\ New \subseteq Producer
      BY ProduceAssumption
    <3>2. IsFiniteSet(New)
      BY <3>1, FS_Subset
    <3> QED
      BY <1>1, <3>2
  <2>2. /\ Cardinality(Has) <= Cardinality(New) /\ Cardinality(Has) \in Nat
        /\ Cardinality(New) \in Nat
    <3> HIDE DEF Has, New
    <3> QED
      BY <2>1, FS_Subset, FS_CardinalityType
  <2>3. nextPID <= Cardinality(Has)
    BY DEF Ids
  <2>4. nextPID' <= Cardinality(New)
    <3> HIDE DEF Has, New
    <3> QED
      BY <1>2, <1>3, <2>2, <2>3
  <2> QED
    BY <1>2, <1>3, <2>4 DEF Ids
<1>4. ASSUME NEW a \in Producer, InitProducerID(a)
      PROVE  TypeOK' /\ Ids'
  <2>1. nextPID' \in 0..Cardinality(Producer) /\ Ids'
    BY <1>4, ProducedInit
  <2>2. UNCHANGED <<seqs, waiting, log, highWatermark, restarts>>
    BY <1>4 DEF InitProducerID
  <2> QED
    BY <1>1, <1>2, <2>1, <2>2 DEF TypeOK
<1>5. ASSUME ~\E a \in Producer : InitProducerID(a),
             seqs' \in [Pids -> SeqState], log' \in Seq(Batch),
             highWatermark' \in 0..Len(log'), waiting' \in SUBSET Waiter,
             restarts' \in 0..Restarts, nextPID' = nextPID \/ nextPID' = 0
      PROVE  TypeOK' /\ Ids'
  BY <1>1, <1>3, <1>5 DEF TypeOK
<1>6. ASSUME NEW r \in sent, ProduceAppend(r)
      PROVE  /\ seqs' \in [Pids -> SeqState] /\ log' \in Seq(Batch)
             /\ highWatermark' \in 0..Len(log') /\ waiting' \in SUBSET Waiter
             /\ restarts' \in 0..Restarts /\ nextPID' = nextPID
  <2>1. seqs' \in [Pids -> SeqState] /\ log' \in Seq(Batch) /\ Len(log') = Len(log) + 1
    BY <1>6, Appended
  <2>2. highWatermark' = highWatermark /\ restarts' = restarts /\ nextPID' = nextPID
        /\ waiting' = waiting \cup {[batch |-> r.batch, baseOffset |-> Len(log)]}
    BY <1>6 DEF ProduceAppend
  <2>3. r.batch \in Batch
    BY RequestParts
  <2>4. waiting' \in SUBSET Waiter
    BY <1>2, <2>2, <2>3 DEF Waiter
  <2>5. highWatermark' \in 0..Len(log')
    BY <1>2, <2>1, <2>2
  <2> QED
    BY <1>2, <2>1, <2>2, <2>4, <2>5
<1>7. ASSUME \/ \E a \in Producer, k \in Counts : Send(a, k)
             \/ \E r \in sent : ProduceDuplicate(r)
             \/ \E w \in waiting : WaitDone(w)
             \/ \E w \in waiting : WaitTimedOut(w)
             \/ Replicate
             \/ Restart
      PROVE  /\ log' = log /\ waiting' \subseteq waiting
             /\ seqs' = seqs \/ seqs' = [pid \in Pids |-> Unknown]
             /\ highWatermark' \in 0..Len(log) /\ restarts' \in 0..Restarts
             /\ nextPID' = nextPID \/ nextPID' = 0
  BY <1>2, <1>7 DEF Send, ProduceDuplicate, WaitDone, WaitTimedOut, Replicate, Restart,
                    brokerVars
<1>8. [pid \in Pids |-> Unknown] \in [Pids -> SeqState]
  <2>1. Unknown \in SeqState
    BY PlaceOfSequence DEF Unknown, SeqState
  <2> QED
    BY <2>1
<1>9. CASE \E a \in Producer : InitProducerID(a)
  BY <1>4, <1>9
<1>10. CASE ~\E a \in Producer : InitProducerID(a)
  <2>1. CASE \E r \in sent : ProduceAppend(r)
    BY <1>5, <1>6, <1>10, <2>1
  <2>2. CASE ~\E r \in sent : ProduceAppend(r)
    <3>1. /\ log' = log /\ waiting' \subseteq waiting
          /\ seqs' = seqs \/ seqs' = [pid \in Pids |-> Unknown]
          /\ highWatermark' \in 0..Len(log) /\ restarts' \in 0..Restarts
          /\ nextPID' = nextPID \/ nextPID' = 0
      BY <1>7, <1>10, <2>2 DEF Next
    <3>2. waiting' \in SUBSET Waiter /\ seqs' \in [Pids -> SeqState]
      BY <1>2, <1>8, <3>1
    <3> QED
      BY <1>2, <1>5, <1>10, <3>1, <3>2
  <2> QED
    BY <2>1, <2>2
<1> QED
  BY <1>9, <1>10

\* Steps that neither append nor send nor forget keep the broker's part.
LEMMA BrokerKept ==
    ASSUME Broker, UNCHANGED <<log, seqs, sent, restarts>>, waiting' \subseteq waiting
    PROVE  Broker'
  BY DEF Broker, InLog, Copies, Reached, Past, First

\* Sending a batch: it is not in the log yet.
LEMMA BrokerSend ==
    ASSUME TypeOK, Produced, Broker, NEW a \in Producer, NEW k \in Counts, Send(a, k)
    PROVE  Broker'
<1>1. PICK q \in Request : /\ sent' = sent \cup {q}
                           /\ \A r \in sent : r.batch # q.batch
  BY ProducedSend
<1>2. UNCHANGED <<log, seqs, waiting, restarts>>
  BY DEF Send, brokerVars
<1>3. q.batch \in Batch /\ ~InLog(q.batch)
  BY <1>1 DEF Broker, Request
<1>4. Cardinality(Copies(q.batch)) <= restarts
  BY <1>3, NoCopies DEF TypeOK
<1>5. ASSUME NEW r \in sent', Past(r)' > Reached(r.pid)'
      PROVE  Cardinality(Copies(r.batch)') <= restarts'
  <2>1. Past(r) > Reached(r.pid) /\ Copies(r.batch)' = Copies(r.batch)
    BY <1>2, <1>5 DEF Reached, Past, First, Copies
  <2> QED
    BY <1>1, <1>2, <1>4, <2>1 DEF Broker
<1>6. \A pid \in Pids : seqs'[pid].known =>
          \E r \in sent' : /\ r.pid = pid /\ Past(r)' = Reached(pid)'
                           /\ r.recordCount = seqs'[pid].lastRecordCount
  BY <1>1, <1>2 DEF Broker, Reached, Past, First
<1>7. /\ \A b \in Batch : InLog(b)' => \E r \in sent' : r.batch = b
      /\ \A w \in waiting' : InLog(w.batch)'
      /\ \A b \in Batch : Cardinality(Copies(b)') <= restarts' + 1
      /\ restarts' = 0 => \A i, j \in DOMAIN log' :
              i < j /\ log'[i][1] = log'[j][1] => log'[i][2] < log'[j][2]
  BY <1>1, <1>2 DEF Broker, InLog, Copies
<1> QED
  BY <1>5, <1>6, <1>7 DEF Broker

\* A restart allows every batch another copy.
LEMMA BrokerRestart ==
    ASSUME TypeOK, Broker, Restart
    PROVE  Broker'
<1>1. /\ UNCHANGED <<log, sent>> /\ waiting' = {} /\ restarts' = restarts + 1
      /\ restarts \in Nat /\ \A pid \in Pids : ~seqs'[pid].known
  BY ProduceAssumption DEF Restart, TypeOK, Unknown
<1>2. ASSUME NEW b \in Batch
      PROVE  /\ Cardinality(Copies(b)') <= restarts'
             /\ Cardinality(Copies(b)') <= restarts' + 1
  <2>1. Copies(b)' = Copies(b) /\ Cardinality(Copies(b)) <= restarts + 1
    BY <1>1 DEF Broker, Copies
  <2> QED
    BY <1>1, <2>1, CopiesFinite
<1>3. \A r \in sent : r.batch \in Batch
  BY RequestParts
<1>4. /\ \A b \in Batch : InLog(b)' => \E r \in sent' : r.batch = b
      /\ \A w \in waiting' : InLog(w.batch)'
  BY <1>1 DEF Broker, InLog
<1>5. restarts' # 0
  BY <1>1
<1> QED
  BY <1>1, <1>2, <1>3, <1>4, <1>5 DEF Broker

\* An append: the request was past what the broker had reached, so this process
\* had not appended it, and it comes after all of its producer's that it had.
LEMMA BrokerAppend ==
    ASSUME TypeOK, Produced, Broker, NEW r \in sent, ProduceAppend(r)
    PROVE  Broker'
<1>1. /\ log' \in Seq(Batch) /\ Len(log') = Len(log) + 1 /\ log'[Len(log) + 1] = r.batch
      /\ \A i \in 1..Len(log) : log'[i] = log[i]
      /\ \A b : InLog(b)' <=> InLog(b) \/ b = r.batch
      /\ \A b \in Batch : b # r.batch => Copies(b)' = Copies(b)
      /\ Cardinality(Copies(r.batch)') = Cardinality(Copies(r.batch)) + 1
      /\ First(r) = Reached(r.pid) /\ Reached(r.pid)' = Past(r)
      /\ seqs'[r.pid].lastRecordCount = r.recordCount
      /\ \A pid \in Pids \ {r.pid} : seqs'[pid] = seqs[pid] /\ Reached(pid)' = Reached(pid)
  BY Appended
<1>2. /\ sent' = sent /\ restarts' = restarts /\ restarts \in Nat
      /\ waiting' = waiting \cup {[batch |-> r.batch, baseOffset |-> Len(log)]}
  BY ProduceAssumption DEF ProduceAppend, TypeOK
<1>3. /\ r.batch \in Batch /\ r.pid \in Pids /\ First(r) \in Nat /\ Past(r) \in Nat
      /\ First(r) < Past(r)
  BY RequestParts
<1>4. Cardinality(Copies(r.batch)) <= restarts /\ Cardinality(Copies(r.batch)) \in Nat
  BY <1>1, <1>3, CopiesFinite DEF Broker
<1>5. \A b \in Batch : InLog(b)' => \E q \in sent' : q.batch = b
  BY <1>1, <1>2 DEF Broker
<1>6. \A w \in waiting' : InLog(w.batch)'
  BY <1>1, <1>2 DEF Broker
<1>7. ASSUME NEW pid \in Pids, seqs'[pid].known
      PROVE  \E q \in sent' : /\ q.pid = pid /\ Past(q)' = Reached(pid)'
                              /\ q.recordCount = seqs'[pid].lastRecordCount
  <2>1. CASE pid = r.pid
    BY <1>1, <1>2, <2>1 DEF Past, First
  <2>2. CASE pid # r.pid
    <3>1. PICK q \in sent : /\ q.pid = pid /\ Past(q) = Reached(pid)
                            /\ q.recordCount = seqs[pid].lastRecordCount
      BY <1>1, <1>7, <2>2 DEF Broker
    <3> QED
      BY <1>1, <1>2, <2>2, <3>1 DEF Past, First
  <2> QED
    BY <2>1, <2>2
<1>8. ASSUME NEW b \in Batch PROVE Cardinality(Copies(b)') <= restarts' + 1
  BY <1>1, <1>2, <1>4 DEF Broker
<1>9. ASSUME NEW q \in sent, Past(q) > Reached(q.pid)'
      PROVE  Cardinality(Copies(q.batch)') <= restarts'
  <2>1. /\ q.batch \in Batch /\ q.pid \in Pids /\ Past(q) \in Nat
        /\ q.batch[1] \in Producer
        /\ q.batch = <<q.batch[1], q.batch[2]>> /\ r.batch = <<r.batch[1], r.batch[2]>>
    BY RequestParts
  <2>2. CASE q.batch = r.batch
    <3>1. q = r
      BY <2>2 DEF Produced
    <3> QED
      BY <1>1, <1>3, <1>9, <3>1
  <2>3. CASE q.batch # r.batch
    <3>1. Past(q) > Reached(q.pid)
      <4>1. CASE q.pid = r.pid
        BY <1>1, <1>3, <1>9, <2>1, <4>1
      <4>2. CASE q.pid # r.pid
        BY <1>1, <1>9, <2>1, <4>2
      <4> QED
        BY <4>1, <4>2
    <3>2. Cardinality(Copies(q.batch)) <= restarts
      BY <3>1 DEF Broker
    <3> QED
      BY <1>1, <1>2, <2>1, <2>3, <3>2
  <2> QED
    BY <2>2, <2>3
<1>10. ASSUME restarts' = 0, NEW i \in DOMAIN log', NEW j \in DOMAIN log', i < j,
              log'[i][1] = log'[j][1]
       PROVE  log'[i][2] < log'[j][2]
  <2>1. /\ log \in Seq(Batch) /\ Len(log) \in Nat /\ DOMAIN log = 1..Len(log)
        /\ DOMAIN log' = 1..(Len(log) + 1)
    BY <1>1 DEF TypeOK
  <2>2. i \in 1..Len(log) /\ log'[i] = log[i] /\ log[i] \in Batch /\ j \in 1..(Len(log) + 1)
    BY <1>1, <1>10, <2>1
  <2>3. CASE j \in 1..Len(log)
    BY <1>1, <1>2, <1>10, <2>1, <2>2, <2>3 DEF Broker
  <2>4. CASE j = Len(log) + 1
    <3>1. InLog(log[i])
      BY <2>1, <2>2 DEF InLog
    <3>2. PICK q \in sent : q.batch = log[i]
      BY <2>2, <3>1 DEF Broker
    <3>3. /\ q.batch[1] = r.batch[1] /\ q.pid \in Pids /\ q.batch[2] \in Nat
          /\ r.batch[2] \in Nat /\ Past(q) \in Nat /\ First(q) \in Nat /\ First(q) < Past(q)
      BY <1>1, <1>10, <2>2, <2>4, <3>2, RequestParts
    <3>4. q.pid = r.pid
      BY <3>3 DEF Produced, Fits
    <3>5. Past(q) <= First(r)
      <4>1. ~(Cardinality(Copies(q.batch)) <= restarts)
        BY <1>2, <1>10, <3>1, <3>2, CopiesFinite
      <4>2. ~(Past(q) > Reached(q.pid))
        BY <4>1 DEF Broker
      <4> QED
        BY <1>1, <1>3, <3>3, <3>4, <4>2
    <3>6. q.batch[2] # r.batch[2]
      <4>1. q.batch[2] = r.batch[2] => q = r
        BY <3>3 DEF Produced
      <4> QED
        BY <1>3, <3>5, <4>1
    <3>7. ~(r.batch[2] < q.batch[2])
      <4>1. r.batch[2] < q.batch[2] => Past(r) <= First(q)
        BY <3>3 DEF Produced
      <4> QED
        BY <1>3, <3>3, <3>5, <4>1
    <3>8. q.batch[2] < r.batch[2]
      BY <3>3, <3>6, <3>7
    <3> QED
      BY <1>1, <2>2, <2>4, <3>2, <3>8
  <2> QED
    BY <2>1, <2>2, <2>3, <2>4
<1>11. \A q \in sent' : Past(q)' > Reached(q.pid)' =>
                           Cardinality(Copies(q.batch)') <= restarts'
  BY <1>2, <1>9 DEF Past, First
<1> QED
  BY <1>5, <1>6, <1>7, <1>8, <1>10, <1>11 DEF Broker

\* Every step keeps the broker's part.
LEMMA BrokerStep ==
    ASSUME TypeOK, Produced, Broker, Next
    PROVE  Broker'
<1>1. ASSUME \/ \E a \in Producer : InitProducerID(a)
             \/ \E r \in sent : ProduceDuplicate(r)
             \/ \E w \in waiting : WaitDone(w)
             \/ \E w \in waiting : WaitTimedOut(w)
             \/ Replicate
      PROVE  UNCHANGED <<log, seqs, sent, restarts>> /\ waiting' \subseteq waiting
  BY <1>1 DEF InitProducerID, ProduceDuplicate, WaitDone, WaitTimedOut, Replicate, brokerVars
<1> QED
  BY <1>1, BrokerKept, BrokerSend, BrokerAppend, BrokerRestart DEF Next
-----------------------------------------------------------------------------
(* Acknowledgements                                                        *)

\* What restarts have confused stays so.
LEMMA UnconfusedBefore ==
    ASSUME TypeOK, Ids, Produced, Broker, Next, Unconfused'
    PROVE  Unconfused
<1>1. /\ \A p \in Producer : session[p].pid > 0 => session'[p].pid = session[p].pid
      /\ sent \subseteq sent'
  BY ProducedStep
<1>2. restarts' = restarts \/ (restarts' = restarts + 1 /\ restarts \in Nat)
  BY DEF Next, InitProducerID, Send, ProduceAppend, ProduceDuplicate, WaitDone, WaitTimedOut,
         Replicate, Restart, TypeOK
<1>3. ASSUME NEW a \in Producer, NEW b \in Producer, a # b, session[a].pid > 0
      PROVE  session[a].pid # session[b].pid
  BY <1>1, <1>3 DEF Unconfused
<1>4. restarts = 0 \/ \A r \in sent : r.baseSeq >= 0
  BY <1>1, <1>2 DEF Unconfused
<1> QED
  BY <1>3, <1>4 DEF Unconfused

\* Then an id has one producer.
LEMMA OneProducer ==
    ASSUME TypeOK, Produced, Unconfused, NEW q \in sent, NEW r \in sent, q.pid = r.pid
    PROVE  q.batch[1] = r.batch[1]
<1>1. /\ q.batch[1] \in Producer /\ r.batch[1] \in Producer /\ q.pid \in Nat /\ q.pid > 0
  BY RequestParts DEF Pids
<1>2. q.pid = session[q.batch[1]].pid /\ r.pid = session[r.batch[1]].pid
  BY DEF Produced, Fits
<1> QED
  BY <1>1, <1>2 DEF Unconfused

\* An append adds its own request to what the broker has reached, and nothing
\* between.
LEMMA HonestAppend ==
    ASSUME TypeOK, Produced, Broker, Honest, Unconfused, NEW r \in sent, ProduceAppend(r)
    PROVE  /\ \A q \in sent' : Past(q)' <= Reached(q.pid)' => InLog(q.batch)'
           /\ \A b \in acked' : InLog(b)'
<1>1. /\ \A b : InLog(b)' <=> InLog(b) \/ b = r.batch
      /\ First(r) = Reached(r.pid) /\ Reached(r.pid)' = Past(r)
      /\ \A pid \in Pids \ {r.pid} : Reached(pid)' = Reached(pid)
  BY Appended
<1>2. sent' = sent /\ acked' = acked
  BY DEF ProduceAppend
<1>3. ASSUME NEW q \in sent, Past(q) <= Reached(q.pid)' PROVE InLog(q.batch)'
  <2>1. /\ q.pid \in Pids /\ q.batch[2] \in Nat /\ r.batch[2] \in Nat
        /\ Past(q) \in Nat /\ First(q) \in Nat /\ First(q) < Past(q)
        /\ Past(r) \in Nat /\ First(r) \in Nat /\ First(r) < Past(r)
    BY RequestParts
  <2>2. CASE q.pid # r.pid
    BY <1>1, <1>3, <2>1, <2>2 DEF Honest
  <2>3. CASE q.pid = r.pid
    <3>1. q.batch[1] = r.batch[1]
      BY <2>3, OneProducer
    <3>2. q.batch[2] = r.batch[2] => q = r
      BY <3>1 DEF Produced
    <3>3. q.batch[2] < r.batch[2] => Past(q) <= First(r)
      BY <3>1 DEF Produced
    <3>4. r.batch[2] < q.batch[2] => Past(r) <= First(q)
      BY <3>1 DEF Produced
    <3>5. q = r \/ Past(q) <= First(r)
      BY <1>1, <1>3, <2>1, <2>3, <3>2, <3>3, <3>4
    <3>6. CASE q = r
      BY <1>1, <3>6
    <3>7. CASE Past(q) <= First(r)
      BY <1>1, <2>3, <3>7 DEF Honest
    <3> QED
      BY <3>5, <3>6, <3>7
  <2> QED
    BY <2>2, <2>3
<1>4. \A b \in acked' : InLog(b)'
  BY <1>1, <1>2 DEF Honest
<1> QED
  BY <1>2, <1>3, <1>4 DEF Past, First

\* A request that is taken for a duplicate is in the log.
LEMMA DuplicateIsLogged ==
    ASSUME TypeOK, Produced, Broker, Honest, Unconfused, NEW r \in sent,
           checkSequenceLocked(r) = "Duplicate"
    PROVE  InLog(r.batch)
<1> DEFINE s == session[r.batch[1]]
<1>1. /\ Reached(r.pid) \in Nat /\ seqs[r.pid].known
      /\ \/ First(r) = Reached(r.pid) - seqs[r.pid].lastRecordCount
         \/ First(r) < Reached(r.pid)
         \/ First(r) > Reached(r.pid) /\ r.baseSeq < 0
  BY Checked
<1>2. /\ r.pid \in Pids /\ r.batch[1] \in Producer /\ r.batch[2] \in Nat \ {0}
      /\ r.batch = <<r.batch[1], r.batch[2]>> /\ r.baseSeq \in Sequence
      /\ Past(r) \in Nat /\ First(r) \in Nat /\ First(r) < Past(r)
  BY RequestParts
<1>3. PICK l \in sent : /\ l.pid = r.pid /\ Past(l) = Reached(r.pid)
                        /\ l.recordCount = seqs[r.pid].lastRecordCount
  BY <1>1, <1>2 DEF Broker
<1>4. /\ l.batch[2] \in Nat /\ Past(l) = First(l) + l.recordCount
      /\ l.recordCount \in Nat \ {0} /\ First(l) \in Nat
  BY RequestParts DEF Past
<1>5. l.batch[1] = r.batch[1]
  BY <1>3, OneProducer
<1>6. /\ r.batch[2] = l.batch[2] => r = l
      /\ r.batch[2] < l.batch[2] => Past(r) <= First(l)
      /\ l.batch[2] < r.batch[2] => Past(l) <= First(r)
  BY <1>5 DEF Produced
<1>7. CASE First(r) < Reached(r.pid)
  <2>1. Past(r) <= Reached(r.pid)
    BY <1>1, <1>2, <1>3, <1>4, <1>6, <1>7
  <2> QED
    BY <2>1 DEF Honest
<1>8. CASE First(r) > Reached(r.pid) /\ r.baseSeq < 0
  <2>1. restarts = 0
    BY <1>8, <1>2 DEF Unconfused, Sequence
  <2>2. s.n \in Nat \ {0} /\ Fits(r) /\ Client(r.batch[1])
    BY <1>2, SessionParts DEF Produced
  <2>3. CASE r.batch[2] # s.n
    <3>1. r.batch[2] \in 1..(s.n - 1)
      BY <1>2, <2>2, <2>3 DEF Fits
    <3>2. r.batch \in acked
      BY <1>2, <2>2, <3>1 DEF Client
    <3> QED
      BY <3>2 DEF Honest
  <2>4. CASE r.batch[2] = s.n
    <3>1. r.baseSeq = s.seq
      BY <2>2, <2>4 DEF Fits
    <3>2. s.n # 1
      <4>1. s.n = 1 => s.seq = 0
        BY <2>2 DEF Client
      <4> QED
        BY <1>8, <3>1, <4>1
    <3> DEFINE m == s.n - 1
    <3>3. m \in 1..(s.n - 1) /\ m # s.n
      BY <2>2, <3>2
    <3>4. <<r.batch[1], m>> \in acked /\ \E q \in sent : q.batch = <<r.batch[1], m>>
      BY <2>2, <3>3 DEF Client
    <3>5. PICK q \in sent : q.batch = <<r.batch[1], m>>
      BY <3>4
    <3>6. Fits(q) /\ q.batch[1] = r.batch[1] /\ q.batch[2] = s.n - 1 /\ InLog(q.batch)
      BY <3>4, <3>5 DEF Produced, Honest
    <3>7. Past(q) = First(r) /\ q.pid = r.pid
      BY <2>2, <3>1, <3>6 DEF Fits, First
    <3>8. ~(Cardinality(Copies(q.batch)) <= restarts)
      BY <2>1, <3>6, CopiesFinite
    <3>9. ~(Past(q) > Reached(q.pid))
      BY <3>8 DEF Broker
    <3> QED
      BY <1>8, <3>7, <3>9
  <2> QED
    BY <2>3, <2>4
<1>9. CASE First(r) = Reached(r.pid) - seqs[r.pid].lastRecordCount
  <2>1. seqs[r.pid].lastRecordCount \in Nat \ {0}
    BY <1>3, <1>4
  <2>2. First(r) < Reached(r.pid)
    BY <1>1, <1>9, <2>1
  <2> QED
    BY <1>7, <2>2
<1> QED
  BY <1>1, <1>7, <1>8, <1>9

\* A new request lies past what the broker has reached of its producer.
LEMMA HonestSend ==
    ASSUME TypeOK, Produced, Broker, Honest, Unconfused,
           NEW a \in Producer, NEW k \in Counts, Send(a, k)
    PROVE  /\ \A q \in sent' : Past(q)' <= Reached(q.pid)' => InLog(q.batch)'
           /\ \A b \in acked' : InLog(b)'
<1>1. PICK q \in Request :
         /\ sent' = sent \cup {q} /\ q.pid = session[a].pid
         /\ \A r \in sent : r.batch[1] = a => Past(r) <= First(q)
  BY ProducedSend
<1>2. UNCHANGED <<log, seqs, acked>> /\ session[a].pid > 0
  BY DEF Send, brokerVars
<1>3. /\ q.pid \in Pids /\ First(q) \in Nat /\ Past(q) \in Nat /\ First(q) < Past(q)
  <2>1. q.pid \in Pids /\ q.baseSeq \in Sequence /\ q.recordCount \in Nat \ {0}
    BY ProduceAssumption DEF Request
  <2>2. First(q) \in Nat
    BY <2>1, PlaceOfSequence DEF First
  <2> QED
    BY <2>1, <2>2 DEF Past
<1>4. ~(Past(q) <= Reached(q.pid))
  <2>1. CASE ~seqs[q.pid].known
    BY <1>3, <2>1 DEF Reached
  <2>2. CASE seqs[q.pid].known
    <3>1. PICK l \in sent : l.pid = q.pid /\ Past(l) = Reached(q.pid)
      BY <1>3, <2>2 DEF Broker
    <3>2. /\ l.batch[1] \in Producer /\ l.pid = session[l.batch[1]].pid
          /\ Past(l) \in Nat
      BY RequestParts DEF Produced, Fits
    <3>3. l.batch[1] = a
      BY <1>1, <1>2, <3>1, <3>2 DEF Unconfused
    <3> QED
      BY <1>1, <1>3, <3>1, <3>2, <3>3
  <2> QED
    BY <2>1, <2>2
<1>5. ASSUME NEW r \in sent', Past(r)' <= Reached(r.pid)' PROVE InLog(r.batch)'
  <2>1. Past(r) <= Reached(r.pid)
    BY <1>2, <1>5 DEF Past, First, Reached
  <2>2. r \in sent
    BY <1>1, <1>4, <2>1
  <2> QED
    BY <1>2, <2>1, <2>2 DEF Honest, InLog
<1>6. \A b \in acked' : InLog(b)'
  BY <1>2 DEF Honest, InLog
<1> QED
  BY <1>5, <1>6

\* Every step keeps acknowledgements honest.
LEMMA HonestStep ==
    ASSUME TypeOK, Ids, Produced, Broker, Honest, Next
    PROVE  Honest'
<1> SUFFICES ASSUME Unconfused'
             PROVE  /\ \A q \in sent' : Past(q)' <= Reached(q.pid)' => InLog(q.batch)'
                    /\ \A b \in acked' : InLog(b)'
  BY DEF Honest
<1>1. Unconfused
  BY UnconfusedBefore
<1>2. ASSUME UNCHANGED <<log, seqs, sent>>, \A b \in acked' : b \in acked \/ InLog(b)
      PROVE  /\ \A q \in sent' : Past(q)' <= Reached(q.pid)' => InLog(q.batch)'
             /\ \A b \in acked' : InLog(b)'
  BY <1>1, <1>2 DEF Honest, InLog, Past, First, Reached
<1>3. ASSUME \/ \E a \in Producer : InitProducerID(a)
             \/ \E w \in waiting : WaitTimedOut(w)
             \/ Replicate
      PROVE  UNCHANGED <<log, seqs, sent, acked>>
  BY <1>3 DEF InitProducerID, WaitTimedOut, Replicate, brokerVars
<1>4. ASSUME NEW r \in sent, ProduceDuplicate(r)
      PROVE  UNCHANGED <<log, seqs, sent>> /\ \A b \in acked' : b \in acked \/ InLog(b)
  <2>1. InLog(r.batch)
    BY <1>1, <1>4, DuplicateIsLogged DEF ProduceDuplicate
  <2> QED
    BY <1>4, <2>1 DEF ProduceDuplicate, Acknowledge, brokerVars
<1>5. ASSUME NEW w \in waiting, WaitDone(w)
      PROVE  UNCHANGED <<log, seqs, sent>> /\ \A b \in acked' : b \in acked \/ InLog(b)
  BY <1>5 DEF Broker, WaitDone, Acknowledge
<1>6. ASSUME Restart
      PROVE  /\ \A q \in sent' : Past(q)' <= Reached(q.pid)' => InLog(q.batch)'
             /\ \A b \in acked' : InLog(b)'
  <2>1. UNCHANGED <<log, sent, acked>> /\ seqs' = [pid \in Pids |-> Unknown]
    BY <1>6 DEF Restart
  <2>2. ASSUME NEW q \in sent PROVE ~(Past(q)' <= Reached(q.pid)')
    <3>1. q.pid \in Pids /\ Past(q) \in Nat \ {0}
      BY RequestParts
    <3>2. Reached(q.pid)' = 0
      BY <2>1, <3>1 DEF Reached, Unknown
    <3>3. Past(q)' = Past(q)
      BY DEF Past, First
    <3> QED
      BY <3>1, <3>2, <3>3
  <2> QED
    BY <1>1, <2>1, <2>2 DEF Honest, InLog
<1> QED
  BY <1>1, <1>2, <1>3, <1>4, <1>5, <1>6, HonestAppend, HonestSend DEF Next
-----------------------------------------------------------------------------
(* Theorems                                                                *)

\* Nothing is sent, known or logged at first.
LEMMA InitHolds ==
    Init => TypeOK /\ Ids /\ Produced /\ Broker /\ Honest
<1> SUFFICES ASSUME Init PROVE TypeOK /\ Ids /\ Produced /\ Broker /\ Honest
  OBVIOUS
<1> DEFINE first == [pid |-> 0, n |-> 1, seq |-> 0, count |-> 0]
<1>1. /\ IsFiniteSet(Producer) /\ Cardinality(Producer) \in Nat /\ Restarts \in Nat
      /\ MaxBatches \in [Producer -> Nat]
  BY ProduceAssumption, FS_CardinalityType
<1>2. /\ nextPID = 0 /\ log = <<>> /\ highWatermark = 0 /\ sent = {} /\ waiting = {}
      /\ acked = {} /\ restarts = 0
      /\ seqs = [pid \in Pids |-> Unknown] /\ session = [p \in Producer |-> first]
  BY DEF Init
<1>3. Unknown \in SeqState /\ first \in Session
  BY PlaceOfSequence DEF Unknown, SeqState, Session
<1>4. TypeOK
  <2>1. log \in Seq(Batch) /\ highWatermark \in 0..Len(log)
    BY <1>2
  <2>2. seqs \in [Pids -> SeqState] /\ session \in [Producer -> Session]
    BY <1>2, <1>3
  <2> QED
    BY <1>1, <1>2, <2>1, <2>2 DEF TypeOK
<1>5. Ids
  <2>1. {p \in Producer : session[p].pid > 0} = {}
    BY <1>2
  <2>2. Cardinality({p \in Producer : session[p].pid > 0}) = 0
    BY <2>1, FS_EmptySet
  <2> QED
    BY <1>2, <2>2 DEF Ids
<1>6. ASSUME NEW p \in Producer PROVE Client(p)
  <2>1. session[p].n = 1 /\ session[p].seq = 0 /\ session[p].count = 0
        /\ MaxBatches[p] \in Nat
    BY <1>1, <1>2
  <2>2. Place(session[p].seq) = 0
    BY <2>1, PlaceOfSequence
  <2>3. 0 \in Counts \cup {0} /\ Place(session[p].seq) <= (session[p].n - 1) * 0
        /\ session[p].count <= 0
    BY <2>1, <2>2
  <2>4. 1..(session[p].n - 1) = {}
    BY <2>1
  <2>5. \E c \in Counts \cup {0} :
          Place(session[p].seq) <= (session[p].n - 1) * c /\ session[p].count <= c
    BY <2>3
  <2> QED
    BY <2>1, <2>4, <2>5 DEF Client
<1>7. Produced
  BY <1>2, <1>6 DEF Produced
<1>8. Broker
  <2>1. DOMAIN log = {}
    BY <1>2
  <2>2. \A b : ~InLog(b) /\ Cardinality(Copies(b)) = 0
    BY <2>1, NoCopies DEF InLog
  <2> QED
    BY <1>2, <2>1, <2>2 DEF Broker, Unknown
<1>9. Honest
  BY <1>2 DEF Honest
<1> QED
  BY <1>4, <1>5, <1>7, <1>8, <1>9

\* The inductive invariant: what was sent, what the broker has of it, and that
\* it acknowledges nothing else.
THEOREM ProduceInvariant ==
    Spec => [](TypeOK /\ Ids /\ Produced /\ Broker /\ Honest)
<1> DEFINE IInv == TypeOK /\ Ids /\ Produced /\ Broker /\ Honest
<1>1. IInv /\ [Next]_vars => IInv'
  <2> SUFFICES ASSUME IInv, [Next]_vars PROVE IInv'
    OBVIOUS
  <2>1. CASE Next
    BY <2>1, TypeStep, ProducedStep, BrokerStep, HonestStep
  <2>2. CASE UNCHANGED vars
    <3>1. UNCHANGED <<nextPID, seqs, waiting, log, highWatermark, session, sent, acked, restarts>>
      BY <2>2 DEF vars, brokerVars
    <3>2. TypeOK' /\ Ids'
      BY <3>1 DEF TypeOK, Ids
    <3>3. Produced' /\ Broker'
      BY <3>1, ProducedKept, BrokerKept
    <3>4. Honest'
      BY <3>1 DEF Honest, Unconfused, Past, First, Reached, InLog
    <3> QED
      BY <3>2, <3>3, <3>4
  <2> QED
    BY <2>1, <2>2
<1> QED
  BY <1>1, InitHolds, PTL DEF Spec

\* "a resent batch lands exactly once" (README.md:27), for any producers, batch
\* sizes, widths of a sequence number and restarts: never twice by one broker
\* process, and in the order sent as long as it runs.
THEOREM BatchesLandOnce == Spec => []LandsOnce
<1>1. Broker => LandsOnce
  BY DEF Broker, LandsOnce, Copies
<1> QED
  BY <1>1, ProduceInvariant, PTL

\* No batch is acknowledged, as new or as a duplicate, that is not in the log,
\* unless a restart has confused it with another (manager.go:80-103).
THEOREM AcksAreTrue == Spec => []AckedIsLogged
<1>1. Honest => AckedIsLogged
  BY DEF Honest, AckedIsLogged, InLog
<1> QED
  BY <1>1, ProduceInvariant, PTL
=============================================================================
