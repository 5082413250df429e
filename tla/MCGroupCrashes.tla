--------------------------- MODULE MCGroupCrashes ---------------------------
(***************************************************************************)
(* Two clients, each of which may crash at any moment.                     *)
(***************************************************************************)
EXTENDS GroupCrashes

CONSTANTS a, b

TwoMembers == {a, b}
=============================================================================
