---------------------------- MODULE ActiveIndex ----------------------------
(***************************************************************************)
(* What document processing promises to everything that searches: the      *)
(* searchable index of a document is one whole version at a time, and it   *)
(* is only ever replaced, in one step, by a whole newer version.           *)
(* Processing requests, retries, leases and crashes are invisible here.    *)
(***************************************************************************)
EXTENDS Naturals

CONSTANTS
  Contents,     \* chunk sets
  ChunkCount,   \* number of chunks of each
  NoContent     \* nothing has been published

VARIABLES
  number,       \* version number of the searchable index, 0 for none
  content,      \* its chunk set
  covered       \* the chunks of it that are embedded

vars == <<number, content, covered>>

Init == number = 0 /\ content = NoContent /\ covered = {}

Publish(c) ==
  /\ number' \in Nat
  /\ number' > number
  /\ content' = c
  /\ covered' = 0 .. ChunkCount[c] - 1

Next == \E c \in Contents : Publish(c)

Spec == Init /\ [][Next]_vars
=============================================================================
