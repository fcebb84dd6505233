------------------------------ MODULE RecordLog ------------------------------
(***************************************************************************)
(* What an evidence file promises: a log of whole records that grows at    *)
(* its end, that a failure shortens at its end at most down to what was    *)
(* reported durable, and that gives way to an empty one when it is put     *)
(* aside.                                                                  *)
(***************************************************************************)
EXTENDS Integers, Sequences

CONSTANT Records

VARIABLES
    log,    \* the records
    kept    \* how many of them are reported durable

vars == <<log, kept>>

Init == log = <<>> /\ kept = 0

Extend == \E r \in Records : log' = Append(log, r) /\ kept' = kept

Promise == log' = log /\ kept' \in kept .. Len(log)

Lose == \E n \in kept .. Len(log) : log' = SubSeq(log, 1, n) /\ kept' = kept

Renew == log' = <<>> /\ kept' = 0

Next == Promise \/ Extend \/ Lose \/ Renew

Spec == Init /\ [][Next]_vars
==============================================================================
