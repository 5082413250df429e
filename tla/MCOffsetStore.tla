--------------------------- MODULE MCOffsetStore ----------------------------
(***************************************************************************)
(* Two commits for one partition, whose entries are short, and one for a   *)
(* second partition whose entry is larger than a segment.                  *)
(***************************************************************************)
EXTENDS OffsetStore

MCKey     == {<<"group", "topic", 0>>, <<"group", "topic", 1>>}
MCPayload == {<<"group", "topic", 0, 0, 0>>, <<"group", "topic", 0, 1, 0>>,
              <<"group", "topic", 1, 0, 0>>}
MCBytes   == [p \in MCPayload |-> IF p[3] = 0 THEN 1 ELSE 7]
=============================================================================
