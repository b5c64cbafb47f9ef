---------------------------- MODULE MCTimeValue -----------------------------
(***************************************************************************)
(* A small instance of TimeValue for TLC: a second of four microseconds.   *)
(***************************************************************************)
EXTENDS TimeValue

AnyStart == 0..7
=============================================================================
