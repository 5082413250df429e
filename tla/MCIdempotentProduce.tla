------------------------ MODULE MCIdempotentProduce -------------------------
(***************************************************************************)
(* One or two producers and sequence numbers of three bits, which wrap     *)
(* around from 3 to -4.  Varints have eight bits in groups of three, the   *)
(* last of which is not full, as with 32 bits in groups of seven.  Streams *)
(* have up to two batches of up to two records.                            *)
(***************************************************************************)
EXTENDS ReadBack

CONSTANTS p, q

One == {p}
Two == {p, q}
TwoBatches == [a \in One |-> 2]
ThreeAndOne == [a \in Two |-> IF a = p THEN 3 ELSE 1]

MCRecords == {[key |-> <<>>, value |-> <<1, 8>>], [key |-> <<<<>>>>, value |-> <<>>],
              [key |-> <<<<9>>>>, value |-> <<1, 8>>], [key |-> <<>>, value |-> <<>>]}
MCStreams ==
    {<<>>} \cup [1..1 -> UNION {[1..n -> MCRecords] : n \in 0..2}]
           \cup [1..2 -> UNION {[1..n -> MCRecords] : n \in 0..1}]
=============================================================================
