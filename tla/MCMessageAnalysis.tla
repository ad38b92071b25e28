------------------------- MODULE MCMessageAnalysis -------------------------
(* Small instances of MessageAnalysis for TLC. *)
EXTENDS MessageAnalysis, TLC

CONSTANTS w1, w2, t1, t2

SameWorkersAndSlots == Permutations(Workers) \cup Permutations(Tasks)
=============================================================================
