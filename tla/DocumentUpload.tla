--------------------------- MODULE DocumentUpload ---------------------------
(***************************************************************************)
(* Uploading a document: its bytes go to blob storage, its metadata to the *)
(* database, and a failure between the two is compensated by deleting the  *)
(* bytes.  Each upload has a document id and an object key of its own.     *)
(*                                                                         *)
(* A stream is modelled by its length in chunks; a stored object and a     *)
(* temporary file by how many chunks they hold.                            *)
(***************************************************************************)
EXTENDS Integers

CONSTANTS
  Uploads,      \* POST .../documents requests
  MaxSize       \* MAX_DOCUMENT_SIZE_BYTES, in chunks

ASSUME SizeAssumption == MaxSize \in Nat \ {0}

VARIABLES
  up,           \* progress of each request
  declared,     \* UploadFile.size, the size in the metadata
  length,       \* chunks the stream really yields
  temporary,    \* the temporary file of the request
  blob,         \* the object under the document's key
  row           \* whether the documents row is committed

vars == <<up, declared, length, temporary, blob, row>>

Absent == -1

Outcomes == {"created", "rejected", "failed", "dirty", "gone"}

Sizes == 1 .. MaxSize

\* No file ever holds more than a document may.
TypeOK ==
  /\ up \in [Uploads -> {"idle", "writing", "stored", "cleanup"}
                          \union Outcomes]
  /\ declared \in [Uploads -> Sizes]
  /\ length \in [Uploads -> Sizes \union {MaxSize + 1}]
  /\ temporary \in [Uploads -> {Absent} \union 0 .. MaxSize]
  /\ blob \in [Uploads -> {Absent} \union Sizes]
  /\ row \in [Uploads -> BOOLEAN]

-----------------------------------------------------------------------------

\* Document.create refuses other sizes; the API passes UploadFile.size.
Init ==
  /\ up = [u \in Uploads |-> "idle"]
  /\ declared \in [Uploads -> Sizes]
  /\ length \in [Uploads -> Sizes \union {MaxSize + 1}]
  /\ temporary = [u \in Uploads |-> Absent]
  /\ blob = [u \in Uploads |-> Absent]
  /\ row = [u \in Uploads |-> FALSE]

End(u, outcome) == up' = [up EXCEPT ![u] = outcome]

\* _remove_if_exists: an OSError of the unlink is swallowed.
RemoveTemporary(u) ==
  temporary' \in {temporary, [temporary EXCEPT ![u] = Absent]}

\* put opens a temporary file next to the destination.
Open(u) ==
  /\ up[u] = "idle"
  /\ temporary' = [temporary EXCEPT ![u] = 0]
  /\ up' = [up EXCEPT ![u] = "writing"]
  /\ UNCHANGED <<declared, length, blob, row>>

Write(u) ==
  /\ up[u] = "writing"
  /\ temporary[u] < length[u]
  /\ temporary[u] < MaxSize
  /\ temporary' = [temporary EXCEPT ![u] = @ + 1]
  /\ UNCHANGED <<up, declared, length, blob, row>>

\* validated_chunks raises on the chunk that exceeds the maximum.
WriteTooLarge(u) ==
  /\ up[u] = "writing"
  /\ temporary[u] = MaxSize
  /\ length[u] > MaxSize
  /\ RemoveTemporary(u)
  /\ up' = [up EXCEPT ![u] = "cleanup"]
  /\ UNCHANGED <<declared, length, blob, row>>

\* An OSError of any step of put.
WriteFails(u) ==
  /\ up[u] = "writing"
  /\ RemoveTemporary(u)
  /\ End(u, "failed")
  /\ UNCHANGED <<declared, length, blob, row>>

\* The stream is exhausted: os.replace publishes the whole file at once.
Replace(u) ==
  /\ up[u] = "writing"
  /\ temporary[u] = length[u]
  /\ blob' = [blob EXCEPT ![u] = temporary[u]]
  /\ temporary' = [temporary EXCEPT ![u] = Absent]
  /\ up' = [up EXCEPT ![u] = "stored"]
  /\ UNCHANGED <<declared, length, row>>

\* Cancelled during put: the temporary file is unlinked, but a replace already
\* handed to its thread runs on and may still win.
CancelPut(u) ==
  /\ up[u] = "writing"
  /\ RemoveTemporary(u)
  /\ \/ UNCHANGED blob
     \/ temporary[u] = length[u] /\ blob' = [blob EXCEPT ![u] = temporary[u]]
  /\ End(u, "gone")
  /\ UNCHANGED <<declared, length, row>>

SizeMatchesUnchecked(u) == TRUE

SizeMatches(u) == blob[u] = declared[u]

Mismatch(u) ==
  /\ up[u] = "stored"
  /\ ~SizeMatches(u)
  /\ up' = [up EXCEPT ![u] = "cleanup"]
  /\ UNCHANGED <<declared, length, temporary, blob, row>>

\* The metadata row is committed and the client is told.
Register(u) ==
  /\ up[u] = "stored"
  /\ SizeMatches(u)
  /\ row' = [row EXCEPT ![u] = TRUE]
  /\ End(u, "created")
  /\ UNCHANGED <<declared, length, temporary, blob>>

RegisterFailsUncompensated(u) ==
  /\ up[u] = "stored"
  /\ SizeMatches(u)
  /\ row' = row
  /\ End(u, "failed")
  /\ UNCHANGED <<declared, length, temporary, blob>>

\* The transaction reports an error; it may have been committed nevertheless.
RegisterFails(u) ==
  /\ up[u] = "stored"
  /\ SizeMatches(u)
  /\ row' \in {row, [row EXCEPT ![u] = TRUE]}
  /\ up' = [up EXCEPT ![u] = "cleanup"]
  /\ UNCHANGED <<declared, length, temporary, blob>>

\* Cancelled while the row is added: CancelledError is not compensated.
CancelRegister(u) ==
  /\ up[u] = "stored"
  /\ SizeMatches(u)
  /\ row' \in {row, [row EXCEPT ![u] = TRUE]}
  /\ End(u, "gone")
  /\ UNCHANGED <<declared, length, temporary, blob>>

\* _cleanup_or_raise, after which the original error is reported ...
Cleanup(u) ==
  /\ up[u] = "cleanup"
  /\ blob' = [blob EXCEPT ![u] = Absent]
  /\ End(u, "rejected")
  /\ UNCHANGED <<declared, length, temporary, row>>

\* ... or DocumentUploadCleanupError.
CleanupFails(u) ==
  /\ up[u] = "cleanup"
  /\ End(u, "dirty")
  /\ UNCHANGED <<declared, length, temporary, blob, row>>

\* The process dies; nothing is recovered afterwards.
Crash(u) ==
  /\ up[u] \in {"writing", "stored", "cleanup"}
  /\ End(u, "gone")
  /\ UNCHANGED <<declared, length, temporary, blob, row>>

Next ==
  \E u \in Uploads :
    \/ Open(u) \/ Write(u) \/ WriteTooLarge(u) \/ WriteFails(u)
    \/ Replace(u) \/ CancelPut(u) \/ Mismatch(u)
    \/ Register(u) \/ RegisterFails(u) \/ CancelRegister(u)
    \/ Cleanup(u) \/ CleanupFails(u) \/ Crash(u)

Spec == Init /\ [][Next]_vars

-----------------------------------------------------------------------------

\* A registered document never holds other bytes than its metadata says: they
\* are all there or the object is missing, so the size test of ingestion
\* (ingestion_service.py:89) cannot fail for an object this code wrote.
NeverTruncated ==
  \A u \in Uploads : row[u] => blob[u] \in {Absent, declared[u]}

\* What the client was told is true: after 201 the document is registered and
\* all its bytes can be read; after an error that was compensated, or that
\* struck while writing, no object of the upload is left in storage.
AnswerIsTrue ==
  \A u \in Uploads :
    /\ up[u] = "created" => row[u] /\ blob[u] = declared[u]
    /\ up[u] \in {"rejected", "failed"} => blob[u] = Absent
=============================================================================
