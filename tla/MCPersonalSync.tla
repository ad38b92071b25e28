--------------------------- MODULE MCPersonalSync ---------------------------
(* A small instance of PersonalSync for TLC. *)
EXTENDS PersonalSync, TLC

CONSTANTS y1, y2, m1, r1

\* A message and a reply in its thread.
MCRootOf == [m \in Messages |-> m1]
=============================================================================
