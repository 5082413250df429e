----------------------------- MODULE FailedRoll -----------------------------
(***************************************************************************)
(* The segmented log when the index file of a new segment cannot be opened *)
(* (createSegment, internal/storage/log.go:199-210, called from            *)
(* AppendWithOffset): the append fails, and the log file that was created  *)
(* a moment before is closed but stays in the directory.                   *)
(***************************************************************************)
EXTENDS SegmentedLog

RollFailsAtIndex ==
    /\ step = "roll" /\ ~failed
    /\ bases' = bases \cup {nextOffset}
    /\ step' = "idle"
    /\ UNCHANGED <<files, phase, segments, nextOffset, payload, failed>>

FaultNext == Next \/ RollFailsAtIndex

FaultSpec == Init /\ [][FaultNext]_vars
=============================================================================
