-------------------------- MODULE MCChunkVersions --------------------------
(* Small instances of ChunkVersions: contents of different sizes. *)
EXTENDS ChunkVersions

CONSTANTS c1, c2, w1, w2, s1, s2

\* With batches of 2, one content ends in a short batch; the other fills its only
\* batch and takes an empty one to end.
MCChunkCount == [c \in Contents |-> IF c = c1 THEN 3 ELSE 2]
=============================================================================
