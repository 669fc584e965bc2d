----------------------------- MODULE MCObjLists -----------------------------
(* Model values, symmetry and the total of items for checking ObjLists. *)
EXTENDS ObjLists, TLC

LOCAL INSTANCE FiniteSetsExt

Symmetry == Permutations(Name) \cup Permutations(Item)

\* Where the run goes on from: two lists of two items each or of three in all, or
\* one list of any length.
Held(n) == Len(lists[n])
FewItems ==
  \/ \A n \in DOMAIN lists : Held(n) <= 2
  \/ MapThenSumSet(Held, DOMAIN lists) <= 3
  \/ Cardinality(DOMAIN lists) = 1
=============================================================================
