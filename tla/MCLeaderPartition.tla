-------------------------- MODULE MCLeaderPartition -------------------------
(***************************************************************************)
(* A leader with two followers; each run picks how many produce calls and  *)
(* handlers it needs.                                                      *)
(***************************************************************************)
EXTENDS LeaderPartition, TLC

CONSTANTS l, f1, f2, w1, w2, h1, h2, h3

OneFollower   == {f1}
TwoFollowers  == {f1, f2}
OneReplica    == {l, f1}
TwoReplicas   == {l, f1, f2}
OneCaller     == {w1}
TwoCallers    == {w1, w2}
TwoHandlers   == {h1, h2}
ThreeHandlers == {h1, h2, h3}

\* Handlers are interchangeable, and so are the two produce calls and the two
\* followers.
Symmetric ==
    Permutations(ThreeHandlers) \cup Permutations(TwoCallers)
        \cup Permutations(TwoFollowers)
=============================================================================
