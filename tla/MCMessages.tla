----------------------------- MODULE MCMessages -----------------------------
(***************************************************************************)
(* A small instance of Messages for TLC.                                   *)
(***************************************************************************)
EXTENDS Messages, TLC

CONSTANTS d1, d2, d3, b1, b2, b3, k1, k2, k3, k4, x, y, p1, p2, q1, q2

Interchangeable == Permutations(Buffers) \union Permutations(Counters) \union Permutations(Contents)
=============================================================================
