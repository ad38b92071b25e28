---------------------------- MODULE MCLegalPlan ----------------------------
(* Small instances of LegalPlan for TLC: a chain of two steps, and one of   *)
(* four, the most a plan may have, with the third listed before the second. *)
EXTENDS LegalPlan, TLC

CONSTANTS w1, s1, s2, s3, s4

ShortChain == (s1 :> {}) @@ (s2 :> {s1})
LongChain == (s1 :> {}) @@ (s2 :> {s1}) @@ (s3 :> {s2}) @@ (s4 :> {s3})
InOrder == (s1 :> 1) @@ (s2 :> 2)
OutOfOrder == (s1 :> 1) @@ (s2 :> 3) @@ (s3 :> 2) @@ (s4 :> 4)
=============================================================================
