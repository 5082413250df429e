----------------------------- MODULE RecordBatch ----------------------------
(***************************************************************************)
(* Record batches and the varints in them (internal/protocol               *)
(* recordbatch.go, types.go), and those who walk over a concatenation of   *)
(* batches: consumers (DecodeRecordBatches) and replica fetchers           *)
(* (splitBatches).                                                         *)
(*                                                                         *)
(* A batch is a sequence: the header with one element per field, then the  *)
(* bytes of its records.  Lengths count elements.  The checksum of a       *)
(* sequence is the sequence.  Timestamps and fields that nothing reads are *)
(* left out.  A key is <<>> when it is null and <<bytes>> otherwise.       *)
(***************************************************************************)
EXTENDS Integers, SequencesExt, FiniteSetsExt

CONSTANTS VarintBits, GroupBits   \* 32 and 7 in the code

ASSUME VarintAssumption == {VarintBits, GroupBits} \subseteq Nat \ {0, 1}

\* A reader's result: the value and where to go on; next = 0 is an error.
Failed == [value |-> 0, next |-> 0]

\* readByte and io.ReadFull of n bytes
Skip(s, at, n) == IF at = 0 \/ at + n - 1 > Len(s) THEN 0 ELSE at + n
-----------------------------------------------------------------------------
(* Varints                                                                 *)

maxVarintBytes == (VarintBits + GroupBits - 1) \div GroupBits

\* Groups of bits, the lowest first; all but the last one are marked.
WriteUnsignedVarint(v) ==
    LET n == Min({m \in 1..maxVarintBytes : v < 2^(GroupBits * m)})
    IN  [i \in 1..n |-> ((v \div 2^(GroupBits * (i - 1))) % 2^GroupBits)
                        + (IF i < n THEN 2^GroupBits ELSE 0)]

\* A faulty WriteVarint that leaves out the complement of negative numbers
WriteVarintDoubled(v) == WriteUnsignedVarint(IF v < 0 THEN -(2 * v) ELSE 2 * v)

\* zigzag: (v << 1) ^ (v >> 31)
WriteVarint(v) == WriteUnsignedVarint(IF v < 0 THEN -(2 * v) - 1 ELSE 2 * v)

ReadUnsignedVarint(s, at) ==
    LET ends == {n \in 1..maxVarintBytes :
                    Skip(s, at, n) # 0 /\ s[at + n - 1] < 2^GroupBits}
        Group(i) == (s[at + i - 1] % 2^GroupBits) * 2^(GroupBits * (i - 1))
    IN  IF ends = {} THEN Failed
        ELSE [value |-> MapThenSumSet(Group, 1..Min(ends)) % 2^VarintBits,
              next |-> at + Min(ends)]

ReadVarint(s, at) ==
    [ReadUnsignedVarint(s, at) EXCEPT
        !.value = IF @ % 2 = 0 THEN @ \div 2 ELSE -(@ \div 2) - 1]
-----------------------------------------------------------------------------
(* Records                                                                 *)

\* A faulty encodeRecord that writes a null key as an empty one
EncodeNullAsEmpty(r, offsetDelta) ==
    LET key == IF r.key = <<>> THEN <<>> ELSE r.key[1]
        body == <<0>> \o WriteVarint(0) \o WriteVarint(offsetDelta)
                \o WriteVarint(Len(key)) \o key
                \o WriteVarint(Len(r.value)) \o r.value \o WriteVarint(0)
    IN  WriteVarint(Len(body)) \o body

\* encodeRecord: attributes, timestamp delta, offset delta, key, value, no headers
encodeRecord(r, offsetDelta) ==
    LET key == IF r.key = <<>> THEN WriteVarint(-1)
               ELSE WriteVarint(Len(r.key[1])) \o r.key[1]
        body == <<0>> \o WriteVarint(0) \o WriteVarint(offsetDelta) \o key
                \o WriteVarint(Len(r.value)) \o r.value \o WriteVarint(0)
    IN  WriteVarint(Len(body)) \o body

readVarintBytes(s, at) ==
    LET n == ReadVarint(s, at)
        next == Skip(s, n.next, n.value)
    IN  IF n.next # 0 /\ n.value < 0 THEN [value |-> <<>>, next |-> n.next]
        ELSE [value |-> <<SubSeq(s, n.next, next - 1)>>, next |-> next]

\* decodeRecord: the record length is read and not looked at.
decodeRecord(s, at, baseOffset) ==
    LET varint == [i \in 0..(Len(s) + 1) |-> ReadVarint(s, i)]
        bytes == [i \in 0..(Len(s) + 1) |-> readVarintBytes(s, i)]
        tsDelta == varint[Skip(s, varint[at].next, 1)]
        offsetDelta == varint[tsDelta.next]
        key == bytes[offsetDelta.next]
        val == bytes[key.next]
    IN  [value |-> [offset |-> baseOffset + offsetDelta.value, key |-> key.value,
                    value |-> val.value],
         next |-> varint[val.next].next]
-----------------------------------------------------------------------------
(* Batches: base offset, batch length, magic, checksum, producer id, base  *)
(* sequence and record count                                               *)

prefixLen            == 2     \* 12 bytes: up to the batch length
recordBatchHeaderLen == 7     \* 61 bytes

BuildRecordBatch(records) ==
    LET body == FlattenSeq([i \in DOMAIN records |-> encodeRecord(records[i], i - 1)])
        checked == <<-1, -1, Len(records)>> \o body
    IN  <<0, 2 + Len(checked), 2, checked>> \o checked

\* producePartition, Produce: the log's offset goes into the base offset.
Stamp(batch, offset) == [batch EXCEPT ![1] = offset]

validRecordBatch(batch) ==
    /\ Len(batch) >= recordBatchHeaderLen
    /\ batch[3] = 2
    /\ batch[4] = SubSeq(batch, 5, Len(batch))

joinRecordPayloads(batches) == FlattenSeq(batches)

\* The batches of raw, up to the first that is shorter than min or not all
\* there: at[i] is where the i-th one ends.
Walk(raw, min) ==
    LET most == Len(raw) \div prefixLen
        after == [start \in 0..Len(raw) |->
                    LET left == Len(raw) - start
                        total == prefixLen + raw[start + 2]
                    IN  IF left < prefixLen THEN start
                        ELSE IF total < min \/ total > left THEN start
                        ELSE start + total]
        at[i \in 0..most] == IF i = 0 THEN 0 ELSE after[at[i - 1]]
        found == {i \in 1..most : at[i] > at[i - 1]}
    IN  [i \in 1..Cardinality(found) |-> SubSeq(raw, at[i - 1] + 1, at[i])]

splitBatches(raw) == Walk(raw, prefixLen)

\* decodeOneBatch: records[i].next is where the i-th record ends.
decodeOneBatch(batch) ==
    LET records[i \in 0..batch[7]] ==
            IF i = 0 THEN [value |-> 0, next |-> recordBatchHeaderLen + 1]
            ELSE decodeRecord(batch, records[i - 1].next, batch[1])
    IN  IF batch[3] # 2 \/ \E i \in 1..batch[7] : records[i].next = 0
        THEN [ok |-> FALSE, records |-> <<>>]
        ELSE [ok |-> TRUE, records |-> [i \in 1..batch[7] |-> records[i].value]]

DecodeRecordBatches(raw) ==
    LET batches == Walk(raw, recordBatchHeaderLen)
        decoded == [batch \in Range(batches) |-> decodeOneBatch(batch)]
    IN  IF \E batch \in Range(batches) : ~decoded[batch].ok
        THEN [ok |-> FALSE, records |-> <<>>]
        ELSE [ok |-> TRUE,
              records |-> FlattenSeq([i \in DOMAIN batches |-> decoded[batches[i]].records])]
=============================================================================
