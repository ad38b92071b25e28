---------------------------- MODULE MCMatterWork ----------------------------
(* Small instances of MatterWork for TLC: two users of one open matter, who *)
(* work off the inbox, or the items of the matter.                         *)
EXTENDS MatterWork, TLC

CONSTANTS u1, u2, c1, c2, m1, m2, i1, i2, i3, d1, p1, p2

VARIABLE focus \* the commands that the users send

Inbox == {"none", "create", "confirm", "resolve", "propose", "review", "add"}
Board == {"none", "add", "act", "prioritize", "depend", "undepend", "deadline"}

MCWorkInit == WorkInit /\ \/ focus = Inbox /\ There(candidate) \in {{c1}, Candidates}
                          \/ focus = Board /\ There(candidate) = {}

MCWorkNext == WorkNext /\ UNCHANGED focus /\ \A u \in Users : asked'[u].op \in focus

MCWorkSpec == MCWorkInit /\ [][MCWorkNext]_<<workVars, focus>>

SameUsers == Permutations(Users)
=============================================================================
