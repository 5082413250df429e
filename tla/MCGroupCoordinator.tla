------------------------- MODULE MCGroupCoordinator -------------------------
(***************************************************************************)
(* One group, a few clients that join, retry, sync, heartbeat and leave.   *)
(***************************************************************************)
EXTENDS GroupCoordinator

CONSTANTS a, b, c

TwoMembers   == {a, b}
ThreeMembers == {a, b, c}

Symmetric == Permutations(ThreeMembers)
=============================================================================
