-------------------------- MODULE MCTokenRotation --------------------------
(* A small instance of TokenRotation for TLC. *)
EXTENDS TokenRotation, TLC

CONSTANTS c1, c2, a1, b1, b2

SameCallers == Permutations(Callers) \cup Permutations(Browsers)
=============================================================================
