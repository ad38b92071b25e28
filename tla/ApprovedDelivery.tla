--------------------------- MODULE ApprovedDelivery ---------------------------
(***************************************************************************)
(* What the review gate promises (README.md, rule 4; DECISIONS.md,         *)
(* ADR-004): a person approves the content of a package once, and nothing  *)
(* but that content leaves the system in the name of the package, however  *)
(* often it is posted.                                                     *)
(***************************************************************************)
CONSTANTS
    Packages,   \* review packages
    Contents,   \* message texts
    NoContent   \* the approved content of a package nobody approved

VARIABLES
    approved,   \* approved[p]: the content a person approved for p
    delivered   \* <<p, x>>: the content x was delivered for the package p

Init ==
    /\ approved = [p \in Packages |-> NoContent]
    /\ delivered = {}

Approve(p, x) ==
    /\ approved[p] = NoContent
    /\ approved' = [approved EXCEPT ![p] = x]
    /\ UNCHANGED delivered

Deliver(p) ==
    /\ approved[p] # NoContent
    /\ delivered' = delivered \cup {<<p, approved[p]>>}
    /\ UNCHANGED approved

Next ==
    \/ \E p \in Packages, x \in Contents : Approve(p, x)
    \/ \E p \in Packages : Deliver(p)

Spec == Init /\ [][Next]_<<approved, delivered>>
=============================================================================
