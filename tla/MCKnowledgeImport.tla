------------------------- MODULE MCKnowledgeImport -------------------------
(* A small instance of KnowledgeImport for TLC: a law and a policy of the   *)
(* company, of which a search may serve one.                                *)
EXTENDS KnowledgeImport, TLC

CONSTANTS n1, n2, law, policy, a, b, c, shared, other

Directories == [p \in Paths |-> CASE p = law -> "law" [] p = policy -> "policy"]

Sorted == [p \in Paths |-> CASE p = law -> 1 [] p = policy -> 2]

\* Two files of one text, and one of another.
Extracted == (a :> shared) @@ (b :> shared) @@ (c :> other)

OneEach == [t \in Wordings |-> 1]

SameIds == Permutations(Importers) \cup Permutations({a, b})
=============================================================================
