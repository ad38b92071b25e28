------------------------ MODULE MCReviewedCommunication ------------------------
(* Instances of ReviewedCommunication for TLC. *)
EXTENDS ReviewedCommunication, TLC

CONSTANTS w1, e1, e2, e3, e4, c1, c2, p1, p2, m1, x1, x2

\* One matter; every package belongs to it.
MCMatterOf == [p \in Packages |-> m1]

\* Row ids and texts are interchangeable, and no property of these runs is about
\* fairness.
IdSymmetry ==
    Permutations(Events) \cup Permutations(Comms)
        \cup Permutations(Packages) \cup Permutations(Contents)
=============================================================================
