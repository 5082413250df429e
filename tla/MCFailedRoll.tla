---------------------------- MODULE MCFailedRoll ----------------------------
(***************************************************************************)
(* A segment takes two or three short or long entries, the second or third *)
(* of which is indexed.                                                    *)
(***************************************************************************)
EXTENDS FailedRoll

CONSTANTS short, long

MCPayload == {short, long}
MCBytes   == short :> 1 @@ long :> 2
=============================================================================
