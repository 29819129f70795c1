-------------------------- MODULE MCHybridRetrieval --------------------------
(* Small instances of HybridRetrieval: two documents with two versions each. *)
EXTENDS HybridRetrieval

CONSTANTS d1, d2, r1

\* Any order of the chunk ids will do; every ranking is tried against it.
MCId == [c \in Chunk |-> 2 * c[2] + (IF c[1] = d1 THEN 0 ELSE 1)]

\* The vectors rank everything; the words may match any chunks but the first.
MCSimilarities == {q \in SetToSeqs(Chunk) : q[1] = <<d1, 1>>}

\* No vector is zero.
MCMeasured == [q \in MCSimilarities |-> Cardinality(Chunk)]

\* Without filters, and with one that lets a single document through.
MCFilters == {Docs, {d1}}

MCRelevances == SetToAllKPermutations(Chunk \ {<<d1, 1>>})
=============================================================================
