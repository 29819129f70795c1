-------------------------- MODULE MCDatabaseTools --------------------------
(***************************************************************************)
(* Two documents whose chunks are made under old and new releases, two      *)
(* people with the index tool, and the migrations up and down.              *)
(***************************************************************************)
EXTENDS HnswIndex, TLC

CONSTANTS d1, d2, o1, o2

MCDocs == {d1, d2}
MCOperators == {o1, o2}

\* The later chunk is the nearer one, or they are equally near.
MCDistances == {[id \in 1..2 |-> 3 - id], [id \in 1..2 |-> 1]}

MCSymmetry == Permutations(MCOperators) \cup Permutations(MCDocs)
=============================================================================
