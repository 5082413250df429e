------------------------------ MODULE ReadBack ------------------------------
(***************************************************************************)
(* What a produced batch reads back as: the batches of IdempotentProduce   *)
(* in the encoding of RecordBatch.  A consumer and a replica fetcher get   *)
(* the stored batches one behind the other (joinRecordPayloads).           *)
(*                                                                         *)
(* The log gives a batch one offset, whatever its record count, and        *)
(* decodeRecord counts offsets per record: with more than one record the   *)
(* offsets of consecutive batches overlap.  The clients of the repository  *)
(* send one record per batch.                                              *)
(***************************************************************************)
EXTENDS IdempotentProduce, RecordBatch

CONSTANT Streams   \* sequences of batches; a batch is a sequence of records

\* The stored batches of each stream: validated, then stamped with their offset
StoredBatches ==
    [stream \in Streams |->
        [i \in DOMAIN stream |-> Stamp(BuildRecordBatch(stream[i]), i - 1)]]

\* The records of the first k batches
RecordsOfFirst(stream, k) ==
    FlattenSeq([i \in 1..k |-> [j \in DOMAIN stream[i] |->
        [offset |-> (i - 1) + (j - 1), key |-> stream[i][j].key,
         value |-> <<stream[i][j].value>>]]])

\* Nothing was sent yet.  The state has no part in the properties below.
Fresh == sent = {} /\ restarts = 0

\* Every value of a varint reads back as itself, to the last byte written, and
\* none of its proper prefixes as anything (types.go:62-78, 190-218): the
\* largest and the smallest number included.
VarintsAreExact ==
    Fresh => \A v \in -(2^(VarintBits - 1))..(2^(VarintBits - 1) - 1) :
        LET s == WriteVarint(v)
        IN  /\ ReadVarint(s, 1) = [value |-> v, next |-> Len(s) + 1]
            /\ \A n \in 0..(Len(s) - 1) : ReadVarint(SubSeq(s, 1, n), 1).next = 0

\* "receive all ..., correct order, correct content" (PROGRESS.md:41-42):
\* wherever an answer is cut off, a consumer decodes the records of the whole
\* batches, null keys and empty values included, and a replica fetcher splits
\* off exactly those batches.  Stamping the offset leaves a batch valid
\* (produce.go:109-113, fetcher.go:122-133, recordbatch.go:67-107).
BatchesReadBack ==
    Fresh => \A stream \in Streams :
        LET batches == StoredBatches[stream]
            raw == joinRecordPayloads(batches)
            end == [i \in 0..Len(batches) |-> Len(FlattenSeq(SubSeq(batches, 1, i)))]
        IN  /\ \A i \in DOMAIN batches : validRecordBatch(batches[i])
            /\ \A got \in Prefixes(raw) :
                  LET k == Max({i \in 0..Len(batches) : end[i] <= Len(got)})
                  IN  /\ splitBatches(got) = SubSeq(batches, 1, k)
                      /\ DecodeRecordBatches(got)
                            = [ok |-> TRUE, records |-> RecordsOfFirst(stream, k)]
=============================================================================
