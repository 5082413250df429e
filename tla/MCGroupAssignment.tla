-------------------------- MODULE MCGroupAssignment -------------------------
(***************************************************************************)
(* Two clients, each of which may crash at any moment, and two topics.     *)
(***************************************************************************)
EXTENDS GroupAssignment

MCCounts == <<3, 1>>
MCSubscriptions == [Member -> {{1, 2}, {1}}]

\* Up to three members, two topics of up to four partitions
MCInputs == UNION {[subs : [S -> SUBSET {1, 2}], counts : [{1, 2} -> 0..4]] :
                      S \in SUBSET (1..3)}
=============================================================================
