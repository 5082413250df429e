--------------------------- MODULE AppendOnlyLog ----------------------------
(***************************************************************************)
(* What a partition log promises: records get consecutive offsets from 0   *)
(* in the order they are appended, and stay as they are.                   *)
(***************************************************************************)
EXTENDS Integers, Sequences

CONSTANT Payload

VARIABLE log      \* the records, log[i] at offset i - 1

Init == log = <<>>

AppendRecord(p) ==
    log' = Append(log, [offset |-> Len(log), payload |-> p])

Next == \E p \in Payload : AppendRecord(p)

Spec == Init /\ [][Next]_log
=============================================================================
