------------------------ MODULE ChunkVersionsProofs ------------------------
(***************************************************************************)
(* Proofs about ChunkVersions for every set of requests, contents, spaces  *)
(* and every bound.                                                        *)
(***************************************************************************)
EXTENDS ChunkVersions, FiniteSetTheorems, SequenceTheorems, TLAPS

(***************************************************************************)
(* Rows.                                                                   *)
(***************************************************************************)

\* Releasing a row keeps its type, its content and the database's CHECK.
LEMMA ReleasedRow ==
  ASSUME NEW row \in Row, NEW st \in {"ready", "failed"}
  PROVE  /\ Released(row, st) \in Row
         /\ Released(row, st).content = row.content
         /\ Released(row, st).status = st
         /\ Released(row, st).attempt = NoAttempt
         /\ Released(row, st).lease = "none"
         /\ RowConsistent(Released(row, st))
  BY DEF Row, Released, NoAttempt, RowConsistent

\* Marking expired attempts failed (the first part of replace_for_document).
LEMMA RecoveredRows ==
  ASSUME TypeOK
  PROVE  /\ Recovered \in Seq(Row)
         /\ Len(Recovered) = Len(versions)
         /\ DOMAIN Recovered = 1 .. Len(versions)
         /\ \A v \in 1 .. Len(versions) :
              /\ Recovered[v].content = versions[v].content
              /\ Recovered[v].status =
                   IF versions[v].status = "processing" THEN "failed"
                                                        ELSE versions[v].status
              /\ Recovered[v].attempt = NoAttempt
              /\ RowConsistent(Recovered[v])
<1>1. DOMAIN versions = 1 .. Len(versions) /\ Len(versions) \in Nat
  BY LenProperties DEF TypeOK
<1>2. ASSUME NEW v \in 1 .. Len(versions)
      PROVE  /\ Recovered[v] \in Row
             /\ Recovered[v].content = versions[v].content
             /\ Recovered[v].status =
                  IF versions[v].status = "processing" THEN "failed"
                                                       ELSE versions[v].status
             /\ Recovered[v].attempt = NoAttempt
             /\ RowConsistent(Recovered[v])
  <2>1. versions[v] \in Row /\ RowConsistent(versions[v])
    BY <1>1, ElementOfSeq DEF TypeOK
  <2>2. CASE versions[v].status = "processing"
    <3>1. Recovered[v] = Released(versions[v], "failed")
      BY <1>1, <2>2 DEF Recovered, InProgress
    <3> QED BY <2>1, <2>2, <3>1, ReleasedRow
  <2>3. CASE versions[v].status # "processing"
    <3>1. Recovered[v] = versions[v]
      BY <1>1, <2>3 DEF Recovered, InProgress
    <3> QED BY <2>1, <2>3, <3>1 DEF RowConsistent, NoAttempt
  <2> QED BY <2>2, <2>3
<1>3. Recovered \in [1 .. Len(versions) -> Row]
  BY <1>1, <1>2 DEF Recovered
<1>4. Recovered \in Seq(Row) /\ Len(Recovered) = Len(versions)
  BY <1>1, <1>3, SeqDef
<1> QED BY <1>1, <1>2, <1>3, <1>4

\* Taking a failed row up again, and a new row.
LEMMA RetriedRow ==
  ASSUME NEW row \in Row, NEW a \in Nat \ {NoAttempt}
  PROVE  /\ Retried(row, a) \in Row
         /\ Retried(row, a).content = row.content
         /\ Retried(row, a).status = "processing"
         /\ Retried(row, a).attempt = a
         /\ Retried(row, a).lease = "live"
         /\ RowConsistent(Retried(row, a))
  BY DEF Row, Retried, NoAttempt, RowConsistent

\* So is a new row.
LEMMA StagedRow ==
  ASSUME NEW c \in Contents, NEW a \in Nat \ {NoAttempt}
  PROVE  /\ Staged(c, a) \in Row
         /\ Staged(c, a).content = c
         /\ Staged(c, a).status = "processing"
         /\ Staged(c, a).attempt = a
         /\ Staged(c, a).lease = "live"
         /\ RowConsistent(Staged(c, a))
  BY DEF Row, Staged, NoAttempt, RowConsistent

\* What replacing one row of a sequence of rows does.
LEMMA UpdateRow ==
  ASSUME NEW q \in Seq(Row), NEW v \in 1 .. Len(q), NEW row \in Row
  PROVE  /\ [q EXCEPT ![v] = row] \in Seq(Row)
         /\ Len([q EXCEPT ![v] = row]) = Len(q)
         /\ DOMAIN [q EXCEPT ![v] = row] = 1 .. Len(q)
         /\ \A u \in 1 .. Len(q) :
              [q EXCEPT ![v] = row][u] = IF u = v THEN row ELSE q[u]
  BY ExceptSeq, LenProperties

\* What appending a row does.
LEMMA AppendRow ==
  ASSUME NEW q \in Seq(Row), NEW row \in Row
  PROVE  /\ Append(q, row) \in Seq(Row)
         /\ Len(Append(q, row)) = Len(q) + 1
         /\ DOMAIN Append(q, row) = 1 .. Len(q) + 1
         /\ \A u \in 1 .. Len(q) + 1 :
              Append(q, row)[u] = IF u = Len(q) + 1 THEN row ELSE q[u]
<1>1. /\ Append(q, row) \in Seq(Row)
      /\ Len(Append(q, row)) = Len(q) + 1
      /\ \A u \in 1 .. Len(q) : Append(q, row)[u] = q[u]
      /\ Append(q, row)[Len(q) + 1] = row
  BY AppendProperties
<1>2. Len(q) \in Nat
  BY LenProperties
<1>3. DOMAIN Append(q, row) = 1 .. Len(q) + 1
  BY <1>1, LenProperties
<1> QED BY <1>1, <1>2, <1>3

-----------------------------------------------------------------------------
(***************************************************************************)
(* What each operation that writes rows does to them.                      *)
(***************************************************************************)

\* The rows of the state, seen through 1 .. Len(versions).
LEMMA VersionRows ==
  ASSUME TypeOK
  PROVE  /\ DOMAIN versions = 1 .. Len(versions)
         /\ Len(versions) \in Nat
         /\ \A v \in 1 .. Len(versions) : /\ versions[v] \in Row
                                         /\ RowConsistent(versions[v])
  BY LenProperties, ElementOfSeq DEF TypeOK

\* Staging again what is active only recovers an expired attempt.
LEMMA ReuseRows ==
  ASSUME TypeOK, NEW w \in Workers, NEW c \in Contents, NEW s \in Spaces,
         StageReuse(w, c, s)
  PROVE  /\ versions' \in Seq(Row)
         /\ Len(versions') = Len(versions)
         /\ DOMAIN versions' = 1 .. Len(versions)
         /\ \A v \in 1 .. Len(versions) :
              /\ RowConsistent(versions'[v])
              /\ versions'[v].content = versions[v].content
              /\ versions'[v].status # "processing"
              /\ versions'[v].status = "ready" <=> versions[v].status = "ready"
              /\ versions'[v].attempt = NoAttempt
<1>1. versions' = Recovered
  BY DEF StageReuse
<1>2. \A v \in 1 .. Len(versions) : versions[v] \in Row
  BY VersionRows
<1> QED BY <1>1, <1>2, RecoveredRows DEF Row

\* Reclaiming hands the newest, failed version to the new attempt.
LEMMA ReclaimRows ==
  ASSUME TypeOK, NEW w \in Workers, NEW c \in Contents, NEW s \in Spaces,
         StageReclaim(w, c, s)
  PROVE  /\ versions' \in Seq(Row)
         /\ Len(versions') = Len(versions)
         /\ DOMAIN versions' = 1 .. Len(versions)
         /\ Len(versions) \in 1 .. Len(versions)
         /\ versions[Len(versions)].status \in {"processing", "failed"}
         /\ versions[Len(versions)].content = c
         /\ versions'[Len(versions)].status = "processing"
         /\ versions'[Len(versions)].attempt = attempts + 1
         /\ \A v \in 1 .. Len(versions) :
              /\ RowConsistent(versions'[v])
              /\ versions'[v].content = versions[v].content
              /\ v # Len(versions) =>
                   /\ versions'[v].status # "processing"
                   /\ versions'[v].status = "ready" <=> versions[v].status = "ready"
                   /\ versions'[v].attempt = NoAttempt
<1> DEFINE n == Len(versions)
           new == Retried(Recovered[n], attempts + 1)
<1>1. n \in 1 .. n /\ n \in Nat
  <2>1. versions # << >> /\ versions \in Seq(Row)
    BY DEF StageReclaim, Reclaimable, TypeOK
  <2> QED BY <2>1, EmptySeq, LenProperties
<1>2. /\ Recovered \in Seq(Row) /\ Len(Recovered) = n
      /\ Recovered[n] \in Row
      /\ \A v \in 1 .. n : versions[v] \in Row
  BY <1>1, RecoveredRows, ElementOfSeq, VersionRows
<1>3. attempts + 1 \in Nat \ {NoAttempt}
  BY DEF TypeOK, NoAttempt
<1>4. /\ new \in Row /\ RowConsistent(new)
      /\ new.content = Recovered[n].content
      /\ new.status = "processing" /\ new.attempt = attempts + 1
  BY <1>2, <1>3, RetriedRow
<1>5. versions' = [Recovered EXCEPT ![n] = new]
  BY DEF StageReclaim
<1>6. /\ versions' \in Seq(Row) /\ Len(versions') = n
      /\ DOMAIN versions' = 1 .. n
      /\ \A v \in 1 .. n : versions'[v] = IF v = n THEN new ELSE Recovered[v]
  <2> HIDE DEF new
  <2> QED BY <1>1, <1>2, <1>4, <1>5, UpdateRow
<1>7. Recovered[n].status = "failed" /\ versions[n].content = c
  BY DEF StageReclaim, Reclaimable
<1>8. versions[n].status \in {"processing", "failed"}
  BY <1>1, <1>2, <1>7, RecoveredRows DEF Row
<1> HIDE DEF new
<1> QED BY <1>1, <1>2, <1>4, <1>6, <1>7, <1>8, RecoveredRows DEF Row

\* A new version is appended; the earlier ones are only recovered.
LEMMA NewRows ==
  ASSUME TypeOK, NEW w \in Workers, NEW c \in Contents, NEW s \in Spaces,
         StageNew(w, c, s)
  PROVE  /\ versions' \in Seq(Row)
         /\ Len(versions') = Len(versions) + 1
         /\ DOMAIN versions' = 1 .. Len(versions) + 1
         /\ versions'[Len(versions) + 1].status = "processing"
         /\ versions'[Len(versions) + 1].content = c
         /\ versions'[Len(versions) + 1].attempt = attempts + 1
         /\ RowConsistent(versions'[Len(versions) + 1])
         /\ \A v \in 1 .. Len(versions) :
              /\ RowConsistent(versions'[v])
              /\ versions'[v].content = versions[v].content
              /\ versions'[v].status # "processing"
              /\ versions'[v].status = "ready" <=> versions[v].status = "ready"
              /\ versions'[v].attempt = NoAttempt
<1> DEFINE n == Len(versions)
           new == Staged(c, attempts + 1)
<1>1. /\ Recovered \in Seq(Row) /\ Len(Recovered) = n /\ n \in Nat
      /\ \A v \in 1 .. n : versions[v] \in Row
  BY RecoveredRows, VersionRows
<1>2. /\ new \in Row /\ RowConsistent(new) /\ new.content = c
      /\ new.status = "processing" /\ new.attempt = attempts + 1
  BY StagedRow DEF TypeOK, NoAttempt
<1>3. versions' = Append(Recovered, new)
  BY DEF StageNew
<1>4. /\ versions' \in Seq(Row) /\ Len(versions') = n + 1
      /\ DOMAIN versions' = 1 .. n + 1
      /\ \A v \in 1 .. n + 1 : versions'[v] = IF v = n + 1 THEN new ELSE Recovered[v]
  <2> HIDE DEF new
  <2> QED BY <1>1, <1>2, <1>3, AppendRow
<1>5. versions'[n + 1] = new /\ \A v \in 1 .. n : versions'[v] = Recovered[v]
  <2> HIDE DEF new
  <2> QED BY <1>1, <1>4
<1> HIDE DEF new
<1> QED BY <1>1, <1>2, <1>4, <1>5, RecoveredRows DEF Row

\* Rewriting one row in place: renewal, promotion, failure, expiry.
LEMMA RewriteRows ==
  ASSUME TypeOK, NEW x \in 1 .. Len(versions), NEW row \in Row,
         RowConsistent(row), row.content = versions[x].content,
         versions' = [versions EXCEPT ![x] = row]
  PROVE  /\ versions' \in Seq(Row)
         /\ Len(versions') = Len(versions)
         /\ DOMAIN versions' = 1 .. Len(versions)
         /\ versions'[x] = row
         /\ \A v \in 1 .. Len(versions) :
              /\ RowConsistent(versions'[v])
              /\ versions'[v].content = versions[v].content
              /\ v # x => versions'[v] = versions[v]
<1>1. versions \in Seq(Row) /\ \A v \in 1 .. Len(versions) : RowConsistent(versions[v])
  BY VersionRows DEF TypeOK
<1> QED BY <1>1, UpdateRow

\* The rows are well formed, none is lost and none changes its content.
RowsKept ==
  /\ versions' \in Seq(Row)
  /\ DOMAIN versions' = 1 .. Len(versions')
  /\ Len(versions') \in Nat
  /\ Len(versions) <= Len(versions')
  /\ \A v \in 1 .. Len(versions') : RowConsistent(versions'[v])
  /\ \A v \in 1 .. Len(versions) : versions'[v].content = versions[v].content

\* Row x goes from `processing' to status st under attempt a; the others stay.
OneRowMoves(x, st, a) ==
  /\ x \in 1 .. Len(versions)
  /\ Len(versions') = Len(versions)
  /\ versions[x].status = "processing"
  /\ versions'[x].status = st
  /\ versions'[x].attempt = a
  /\ \A v \in 1 .. Len(versions) : v # x => versions'[v] = versions[v]

\* renew_version moves one row.
LEMMA RenewRows ==
  ASSUME TypeOK, NEW w \in Workers, Renew(w)
  PROVE  /\ RowsKept
         /\ OneRowMoves(wk[w].version, "processing", wk[w].attempt)
<1> DEFINE x == wk[w].version
           row == [versions[x] EXCEPT !.lease = "live"]
<1>1. /\ x \in 1 .. Len(versions) /\ versions[x] \in Row /\ RowConsistent(versions[x])
      /\ versions[x].status = "processing" /\ versions[x].attempt = wk[w].attempt
  BY VersionRows DEF Renew, Owns
<1>2. /\ row \in Row /\ RowConsistent(row) /\ row.content = versions[x].content
      /\ row.status = "processing" /\ row.attempt = wk[w].attempt
  BY <1>1 DEF Row, RowConsistent
<1>3. versions' = [versions EXCEPT ![x] = row]
  BY DEF Renew
<1> HIDE DEF x, row
<1>4. /\ versions' \in Seq(Row)
      /\ Len(versions') = Len(versions)
      /\ DOMAIN versions' = 1 .. Len(versions)
      /\ versions'[x] = row
      /\ \A v \in 1 .. Len(versions) :
           /\ RowConsistent(versions'[v])
           /\ versions'[v].content = versions[v].content
           /\ v # x => versions'[v] = versions[v]
  BY <1>1, <1>2, <1>3, RewriteRows
<1>5. RowsKept
  BY <1>4, VersionRows DEF RowsKept
<1> QED BY <1>1, <1>2, <1>4, <1>5 DEF OneRowMoves, x

\* promote_version and fail_version move one row, the caller's.
LEMMA ReleaseRows ==
  ASSUME TypeOK, NEW w \in Workers, NEW st \in {"ready", "failed"}, Owns(w),
         versions' = [versions EXCEPT ![wk[w].version] = Released(@, st)]
  PROVE  /\ RowsKept
         /\ OneRowMoves(wk[w].version, st, NoAttempt)
<1> DEFINE x == wk[w].version
           row == Released(versions[x], st)
<1>1. /\ x \in 1 .. Len(versions) /\ versions[x] \in Row
      /\ versions[x].status = "processing"
  BY VersionRows DEF Owns
<1>2. /\ row \in Row /\ RowConsistent(row) /\ row.content = versions[x].content
      /\ row.status = st /\ row.attempt = NoAttempt
  BY <1>1, ReleasedRow
<1>3. versions' = [versions EXCEPT ![x] = row]
  OBVIOUS
<1> HIDE DEF x, row
<1>4. /\ versions' \in Seq(Row)
      /\ Len(versions') = Len(versions)
      /\ DOMAIN versions' = 1 .. Len(versions)
      /\ versions'[x] = row
      /\ \A v \in 1 .. Len(versions) :
           /\ RowConsistent(versions'[v])
           /\ versions'[v].content = versions[v].content
           /\ v # x => versions'[v] = versions[v]
  BY <1>1, <1>2, <1>3, RewriteRows
<1>5. RowsKept
  BY <1>4, VersionRows DEF RowsKept
<1> QED BY <1>1, <1>2, <1>4, <1>5 DEF OneRowMoves, x

\* The lease of the version in progress running out moves one row.
LEMMA ExpireRows ==
  ASSUME TypeOK, LeaseExpires
  PROVE  /\ RowsKept
         /\ \E x \in InProgress : OneRowMoves(x, "processing", versions[x].attempt)
<1>1. PICK x \in InProgress : versions' = [versions EXCEPT ![x].lease = "expired"]
  BY DEF LeaseExpires
<1> DEFINE row == [versions[x] EXCEPT !.lease = "expired"]
<1>2. /\ x \in 1 .. Len(versions) /\ versions[x] \in Row /\ RowConsistent(versions[x])
      /\ versions[x].status = "processing"
  BY VersionRows DEF InProgress
<1>3. /\ row \in Row /\ RowConsistent(row) /\ row.content = versions[x].content
      /\ row.status = "processing" /\ row.attempt = versions[x].attempt
  BY <1>2 DEF Row, RowConsistent
<1>4. versions' = [versions EXCEPT ![x] = row]
  BY <1>1
<1> HIDE DEF row
<1>5. /\ versions' \in Seq(Row)
      /\ Len(versions') = Len(versions)
      /\ DOMAIN versions' = 1 .. Len(versions)
      /\ versions'[x] = row
      /\ \A v \in 1 .. Len(versions) :
           /\ RowConsistent(versions'[v])
           /\ versions'[v].content = versions[v].content
           /\ v # x => versions'[v] = versions[v]
  BY <1>2, <1>3, <1>4, RewriteRows
<1>6. RowsKept
  BY <1>5, VersionRows DEF RowsKept
<1> QED BY <1>2, <1>3, <1>5, <1>6 DEF OneRowMoves

-----------------------------------------------------------------------------
(***************************************************************************)
(* Requests and batches.                                                   *)
(***************************************************************************)

\* Every value a request takes is well formed.
LEMMA RequestValues ==
  ASSUME TypeOK, NEW w \in Workers
  PROVE  /\ Idle \in Request
         /\ Raised(w) \in Request
         /\ Finished(w) \in Request
         /\ \A n \in Nat : NextBatch(w, n) \in Request
         /\ \A c \in Contents, s \in Spaces, v \in Nat, a \in Nat :
              Begin(c, s, v, a) \in Request
<1>1. wk[w] \in Request
  BY DEF TypeOK
<1>2. Idle \in Request
  BY DEF Idle, Request, NoAttempt
<1>3. \A pc \in {"promote", "failing"} : [wk[w] EXCEPT !.pc = pc] \in Request
  BY <1>1 DEF Request
<1>4. \A c \in Contents, s \in Spaces, v \in Nat, a \in Nat :
        Begin(c, s, v, a) \in Request
  BY DEF Begin, BatchStart, Request
<1>5. \A n \in Nat : NextBatch(w, n) \in Request
  BY <1>1 DEF NextBatch, Begin, BatchStart, Request
<1> QED BY <1>2, <1>3, <1>4, <1>5 DEF Raised, Finished

\* How many numbers an interval has, with the bounds as the model writes them.
LEMMA IntervalSize ==
  ASSUME NEW a \in Nat, NEW b \in Nat
  PROVE  /\ IsFiniteSet(a .. b - 1)
         /\ Cardinality(a .. b - 1) = IF a > b - 1 THEN 0 ELSE b - a
<1>1. a \in Int /\ b - 1 \in Int
  OBVIOUS
<1>2. /\ IsFiniteSet(a .. b - 1)
      /\ Cardinality(a .. b - 1) = IF a > b - 1 THEN 0 ELSE (b - 1) - a + 1
  BY <1>1, FS_Interval
<1>3. (b - 1) - a + 1 = b - a
  OBVIOUS
<1> QED BY <1>2, <1>3

\* A content has finitely many chunks, numbered from 0.
LEMMA ChunksFinite ==
  ASSUME NEW c \in Contents
  PROVE  /\ Chunks(c) \subseteq Nat
         /\ IsFiniteSet(Chunks(c))
         /\ Cardinality(Chunks(c)) = ChunkCount[c]
         /\ ChunkCount[c] \in Nat \ {0}
<1>1. ChunkCount[c] \in Nat \ {0}
  BY ContentAssumption
<1>2. /\ IsFiniteSet(0 .. ChunkCount[c] - 1)
      /\ Cardinality(0 .. ChunkCount[c] - 1) = ChunkCount[c]
  <2>1. ~(0 > ChunkCount[c] - 1) /\ ChunkCount[c] - 0 = ChunkCount[c]
    BY <1>1
  <2> QED BY <1>1, <2>1, IntervalSize
<1> QED BY <1>1, <1>2 DEF Chunks

\* The promotion check, a count, says that every chunk is embedded.
LEMMA CountIsEvery ==
  ASSUME NEW c \in Contents, NEW T, T \subseteq Chunks(c)
  PROVE  Cardinality(T) = ChunkCount[c] <=> T = Chunks(c)
<1>1. IsFiniteSet(Chunks(c)) /\ Cardinality(Chunks(c)) = ChunkCount[c]
  BY ChunksFinite
<1>2. T \in SUBSET Chunks(c)
  OBVIOUS
<1>3. Cardinality(Chunks(c)) = Cardinality(T) => Chunks(c) = T
  BY <1>1, <1>2, FS_Subset
<1> QED BY <1>1, <1>3

\* The same, for a version of the current state.
LEMMA FullyEmbeddedIsEvery ==
  ASSUME NEW v, NEW s, versions[v].content \in Contents
  PROVE  FullyEmbedded(v, s) <=>
           \A i \in Chunks(versions[v].content) : <<v, i, s>> \in embedded
<1>1. Covered(v, s) \subseteq Chunks(versions[v].content)
  BY DEF Covered
<1>2. FullyEmbedded(v, s) <=> Covered(v, s) = Chunks(versions[v].content)
  BY <1>1, CountIsEvery DEF FullyEmbedded
<1> QED BY <1>2 DEF Covered

\* A page is finite, no longer than the batch size, and a short page is the
\* last one: no chunk lies behind it.
LEMMA BatchIsPage ==
  ASSUME TypeOK, NEW w \in Workers, wk[w].version \in DOMAIN versions
  PROVE  /\ Cardinality(Batch(w)) \in Nat
         /\ Cardinality(Batch(w)) <= BatchSize
         /\ Cardinality(Batch(w)) < BatchSize =>
              \A i \in Chunks(versions[wk[w].version].content) :
                i < wk[w].offset + BatchSize
<1> DEFINE o == wk[w].offset
           n == ChunkCount[versions[wk[w].version].content]
<1>1. o \in Nat /\ BatchSize \in Nat \ {0}
  BY BoundAssumption DEF TypeOK, Request
<1>2. versions[wk[w].version].content \in Contents
  BY VersionRows DEF Row
<1>3. n \in Nat \ {0}
  BY <1>2, ChunksFinite
<1>4. CASE o + BatchSize <= n
  <2> DEFINE m == o + BatchSize
  <2>2. m \in Nat /\ ~(o > m - 1) /\ m - o = BatchSize
    BY <1>1
  <2>3. Batch(w) = o .. m - 1
    BY <1>1, <1>3, <1>4 DEF Batch, Chunks
  <2> HIDE DEF m, o
  <2>4. Cardinality(Batch(w)) = BatchSize
    BY <1>1, <2>2, <2>3, IntervalSize
  <2> QED BY <1>1, <2>4
<1>5. CASE o + BatchSize > n
  <2>1. Batch(w) = o .. n - 1
    BY <1>1, <1>3, <1>5 DEF Batch, Chunks
  <2>2. Cardinality(Batch(w)) = IF o > n - 1 THEN 0 ELSE n - o
    BY <1>1, <1>3, <2>1, IntervalSize
  <2>3. \A i \in Chunks(versions[wk[w].version].content) : i < o + BatchSize
    BY <1>1, <1>3, <1>5 DEF Chunks
  <2> QED BY <1>1, <1>3, <1>5, <2>2, <2>3
<1> QED BY <1>1, <1>3, <1>4, <1>5

-----------------------------------------------------------------------------
(***************************************************************************)
(* Type correctness.                                                       *)
(***************************************************************************)

\* No step loses a row or changes what it contains.
LEMMA RowsStep ==
  ASSUME TypeOK, [Next]_vars
  PROVE  RowsKept
<1>1. ASSUME versions' = versions PROVE RowsKept
  BY <1>1, VersionRows DEF TypeOK, RowsKept
<1>2. ASSUME NEW w \in Workers, Stage(w) PROVE RowsKept
  <2>1. PICK c \in Contents, s \in Spaces :
          StageReuse(w, c, s) \/ StageReclaim(w, c, s) \/ StageNew(w, c, s)
    BY <1>2 DEF Stage
  <2>2. CASE StageReuse(w, c, s)
    BY <2>2, ReuseRows, VersionRows DEF RowsKept
  <2>3. CASE StageReclaim(w, c, s)
    <3>1. /\ versions' \in Seq(Row)
          /\ Len(versions') = Len(versions)
          /\ DOMAIN versions' = 1 .. Len(versions)
          /\ \A v \in 1 .. Len(versions) :
               /\ RowConsistent(versions'[v])
               /\ versions'[v].content = versions[v].content
      BY <2>3, ReclaimRows
    <3> QED BY <3>1, VersionRows DEF RowsKept
  <2>4. CASE StageNew(w, c, s)
    BY <2>4, NewRows, VersionRows DEF RowsKept
  <2> QED BY <2>1, <2>2, <2>3, <2>4
<1>3. ASSUME NEW w \in Workers, Renew(w) PROVE RowsKept
  BY <1>3, RenewRows
<1>4. ASSUME NEW w \in Workers, Promote(w) PROVE RowsKept
  <2>1. Owns(w) /\ versions' = [versions EXCEPT ![wk[w].version] = Released(@, "ready")]
    BY <1>4 DEF Promote
  <2> QED BY <2>1, ReleaseRows
<1>5. ASSUME NEW w \in Workers, FailVersion(w) PROVE RowsKept
  <2>1. CASE Owns(w)
    <3>1. versions' = [versions EXCEPT ![wk[w].version] = Released(@, "failed")]
      BY <1>5, <2>1 DEF FailVersion
    <3> QED BY <2>1, <3>1, ReleaseRows
  <2>2. CASE ~Owns(w)
    BY <1>1, <1>5, <2>2 DEF FailVersion
  <2> QED BY <2>1, <2>2
<1>6. ASSUME NEW w \in Workers,
             RenewRejected(w) \/ EmbedBatch(w) \/ PromoteRejected(w)
               \/ CallFails(w) \/ Vanish(w)
      PROVE  RowsKept
  BY <1>1, <1>6 DEF RenewRejected, EmbedBatch, PromoteRejected, CallFails, Vanish
<1>7. CASE LeaseExpires
  BY <1>7, ExpireRows
<1>8. CASE UNCHANGED vars
  BY <1>1, <1>8 DEF vars
<1> QED BY <1>2, <1>3, <1>4, <1>5, <1>6, <1>7, <1>8 DEF Next, Proceed

\* Every step keeps the types.
LEMMA TypeStep ==
  ASSUME TypeOK, RequestsWellFormed, [Next]_vars
  PROVE  TypeOK'
<1>1. RowsKept
  BY RowsStep
<1>2. /\ versions' \in Seq(Row)
      /\ \A v \in DOMAIN versions' : RowConsistent(versions'[v])
      /\ Len(versions) \in Nat /\ Len(versions') \in Nat
      /\ Len(versions) <= Len(versions')
  BY <1>1, VersionRows DEF RowsKept
<1> DEFINE Typed == /\ active' \in 0 .. Len(versions')
                    /\ attempts' \in Nat
                    /\ servedSpace' \in Spaces \union {NoSpace}
                    /\ embedded' \subseteq (Nat \X Nat \X Spaces)
                    /\ wk' \in [Workers -> Request]
<1>3. Typed
  <2>1. ASSUME NEW w \in Workers, Stage(w) PROVE Typed
    <3>1. PICK c \in Contents, s \in Spaces :
            StageReuse(w, c, s) \/ StageReclaim(w, c, s) \/ StageNew(w, c, s)
      BY <2>1 DEF Stage
    <3>2. active' = active /\ embedded' = embedded /\ servedSpace' = servedSpace
      BY <2>1, <3>1 DEF Stage, StageReuse, StageReclaim, StageNew
    <3>3. attempts' \in Nat
      BY <3>1 DEF StageReuse, StageReclaim, StageNew, TypeOK
    <3>4. \E v \in Nat, a \in Nat : wk' = [wk EXCEPT ![w] = Begin(c, s, v, a)]
      <4>1. active \in Nat /\ Len(versions) \in Nat /\ Len(versions) + 1 \in Nat
              /\ attempts + 1 \in Nat /\ NoAttempt \in Nat
        BY <1>2 DEF TypeOK, NoAttempt
      <4> QED BY <3>1, <4>1 DEF StageReuse, StageReclaim, StageNew
    <3>5. wk' \in [Workers -> Request]
      BY <3>4, RequestValues DEF TypeOK
    <3> QED BY <1>2, <3>2, <3>3, <3>5 DEF TypeOK
  <2>2. ASSUME NEW w \in Workers, Renew(w) PROVE Typed
    <3>1. wk[w] \in Request
      BY DEF TypeOK
    <3>2. [wk[w] EXCEPT !.pc = "embed"] \in Request
      BY <3>1 DEF Request
    <3> QED BY <1>2, <2>2, <3>2 DEF Renew, TypeOK
  <2>3. ASSUME NEW w \in Workers, EmbedBatch(w) PROVE Typed
    <3>1. wk[w].version \in DOMAIN versions /\ wk[w].space \in Spaces
      BY <2>3 DEF EmbedBatch, RequestsWellFormed
    <3>2. wk[w].version \in Nat /\ versions[wk[w].version].content \in Contents
      BY <3>1, VersionRows DEF Row
    <3>3. Batch(w) \subseteq Nat
      BY <3>2, ChunksFinite DEF Batch
    <3>4. embedded' \subseteq (Nat \X Nat \X Spaces)
      BY <2>3, <3>1, <3>2, <3>3 DEF EmbedBatch, TypeOK
    <3>5. wk' \in [Workers -> Request]
      <4>1. Cardinality(Batch(w)) \in Nat
        BY <3>1, BatchIsPage
      <4> QED BY <2>3, <4>1, RequestValues DEF EmbedBatch, TypeOK
    <3> QED BY <1>2, <2>3, <3>4, <3>5 DEF EmbedBatch, TypeOK
  <2>4. ASSUME NEW w \in Workers, Promote(w) PROVE Typed
    <3>1. wk[w].version \in 1 .. Len(versions) /\ wk[w].space \in Spaces
      BY <2>4, VersionRows DEF Promote, Owns, RequestsWellFormed
    <3>2. wk' \in [Workers -> Request]
      BY <2>4, RequestValues DEF Promote, TypeOK
    <3> QED BY <1>2, <2>4, <3>1, <3>2 DEF Promote, TypeOK
  <2>5. ASSUME NEW w \in Workers,
               RenewRejected(w) \/ PromoteRejected(w) \/ CallFails(w)
                 \/ FailVersion(w) \/ Vanish(w)
        PROVE  Typed
    <3>1. wk' \in [Workers -> Request]
      BY <2>5, RequestValues
      DEF RenewRejected, PromoteRejected, CallFails, FailVersion, Vanish, TypeOK
    <3> QED BY <1>2, <2>5, <3>1
        DEF RenewRejected, PromoteRejected, CallFails, FailVersion, Vanish, TypeOK
  <2>6. CASE LeaseExpires
    BY <1>2, <2>6 DEF LeaseExpires, TypeOK
  <2>7. CASE UNCHANGED vars
    BY <1>2, <2>7 DEF vars, TypeOK
  <2> HIDE DEF Typed
  <2> QED BY <2>1, <2>2, <2>3, <2>4, <2>5, <2>6, <2>7 DEF Next, Proceed
<1> QED BY <1>2, <1>3 DEF TypeOK

-----------------------------------------------------------------------------
(***************************************************************************)
(* Requests: one predicate per request for the parts of IndInv about them. *)
(***************************************************************************)

Good(w) ==
  /\ wk[w].pc = "idle" => wk[w] = Idle
  /\ wk[w].pc # "idle" =>
       /\ wk[w].version \in DOMAIN versions
       /\ wk[w].space \in Spaces
       /\ versions[wk[w].version].content = wk[w].content
       /\ \A i \in Chunks(versions[wk[w].version].content) :
            i < wk[w].offset \/ wk[w].pc = "promote"
              => <<wk[w].version, i, wk[w].space>> \in embedded
  /\ wk[w].pc \in {"renew", "promote", "failing"} => wk[w].attempt # NoAttempt
  /\ wk[w].attempt <= attempts

\* The per-request part of the invariant is its conjuncts, request by request.
LEMMA GoodRequests ==
  (\A w \in Workers : Good(w)) <=>
    /\ RequestsWellFormed
    /\ AttemptHoldsItsContent
    /\ PrefixEmbedded
    /\ \A w \in Workers : wk[w].attempt <= attempts
  BY DEF Good, RequestsWellFormed, AttemptHoldsItsContent, PrefixEmbedded

\* Embeddings are never deleted and attempt identifiers only grow.
LEMMA GrowStep ==
  ASSUME TypeOK, [Next]_vars
  PROVE  embedded \subseteq embedded' /\ attempts <= attempts' /\ attempts' \in Nat
<1>1. attempts \in Nat
  BY DEF TypeOK
<1>2. ASSUME NEW w \in Workers, Stage(w)
      PROVE  embedded' = embedded /\ attempts' \in {attempts, attempts + 1}
  BY <1>2 DEF Stage, StageReuse, StageReclaim, StageNew
<1>3. ASSUME NEW w \in Workers, EmbedBatch(w)
      PROVE  embedded \subseteq embedded' /\ attempts' = attempts
  BY <1>3 DEF EmbedBatch
<1>4. ASSUME NEW w \in Workers,
             Renew(w) \/ RenewRejected(w) \/ Promote(w) \/ PromoteRejected(w)
               \/ CallFails(w) \/ FailVersion(w) \/ Vanish(w)
      PROVE  embedded' = embedded /\ attempts' = attempts
  BY <1>4 DEF Renew, RenewRejected, Promote, PromoteRejected, CallFails,
              FailVersion, Vanish
<1>5. CASE LeaseExpires \/ UNCHANGED vars
  BY <1>1, <1>5 DEF LeaseExpires, vars
<1> QED BY <1>1, <1>2, <1>3, <1>4, <1>5 DEF Next, Proceed

\* What other requests do never harms a request.
LEMMA GoodStays ==
  ASSUME TypeOK, [Next]_vars, NEW u \in Workers, Good(u), wk'[u] = wk[u]
  PROVE  Good(u)'
<1>1. /\ DOMAIN versions = 1 .. Len(versions)
      /\ DOMAIN versions' = 1 .. Len(versions')
      /\ Len(versions) \in Nat /\ Len(versions') \in Nat
      /\ Len(versions) <= Len(versions')
      /\ \A v \in 1 .. Len(versions) : versions'[v].content = versions[v].content
  BY RowsStep, VersionRows DEF RowsKept
<1>2. embedded \subseteq embedded' /\ attempts <= attempts'
      /\ attempts \in Nat /\ attempts' \in Nat /\ wk[u].attempt \in Nat
  BY GrowStep DEF TypeOK, Request
<1>3. wk[u].attempt <= attempts'
  BY <1>2 DEF Good
<1>4. ASSUME wk[u].pc # "idle"
      PROVE  /\ wk[u].version \in DOMAIN versions'
             /\ versions'[wk[u].version].content = versions[wk[u].version].content
  BY <1>1, <1>4 DEF Good
<1> QED BY <1>2, <1>3, <1>4 DEF Good, Chunks

\* A request that returns to rest, raises or goes on stays good.
LEMMA GoodIdle ==
  ASSUME TypeOK, [Next]_vars, NEW w \in Workers, wk'[w] = Idle
  PROVE  Good(w)'
<1>1. 0 <= attempts' /\ Idle.pc = "idle" /\ Idle.attempt = 0
  BY GrowStep DEF Idle, NoAttempt
<1> QED BY <1>1 DEF Good

\* A request whose call raised holds what it held.
LEMMA GoodRaised ==
  ASSUME TypeOK, [Next]_vars, NEW w \in Workers, Good(w), wk[w].pc # "idle",
         wk'[w] = Raised(w)
  PROVE  Good(w)'
<1>1. CASE wk[w].attempt = NoAttempt
  BY <1>1, GoodIdle DEF Raised
<1>2. CASE wk[w].attempt # NoAttempt
  <2>1. /\ wk'[w].pc = "failing"
        /\ wk'[w].version = wk[w].version /\ wk'[w].content = wk[w].content
        /\ wk'[w].space = wk[w].space /\ wk'[w].attempt = wk[w].attempt
        /\ wk'[w].offset = wk[w].offset
    BY <1>2 DEF Raised, TypeOK, Request
  <2>2. /\ wk[w].version \in DOMAIN versions'
        /\ versions'[wk[w].version].content = versions[wk[w].version].content
    BY RowsStep, VersionRows DEF RowsKept, Good
  <2>3. embedded \subseteq embedded' /\ wk[w].attempt <= attempts'
    BY GrowStep DEF TypeOK, Request, Good
  <2> QED BY <1>2, <2>1, <2>2, <2>3 DEF Good, Chunks
<1> QED BY <1>1, <1>2

\* Staging hands out an existing version that holds the requested content.
LEMMA GoodBegin ==
  ASSUME TypeOK, [Next]_vars, NEW w \in Workers, NEW c \in Contents,
         NEW s \in Spaces, NEW v \in Nat, NEW a \in Nat,
         wk'[w] = Begin(c, s, v, a),
         v \in 1 .. Len(versions'), versions'[v].content = c, a <= attempts'
  PROVE  Good(w)'
<1>1. DOMAIN versions' = 1 .. Len(versions')
  BY RowsStep DEF RowsKept
<1>2. \A i \in Chunks(c) : ~(i < 0)
  BY ChunksFinite
<1>3. /\ wk'[w].pc \in {"embed", "renew"}
      /\ wk'[w].pc = "renew" => a # NoAttempt
      /\ wk'[w].content = c /\ wk'[w].space = s /\ wk'[w].version = v
      /\ wk'[w].attempt = a /\ wk'[w].offset = 0
  BY DEF Begin, BatchStart
<1>4. Chunks(versions[v].content)' = Chunks(c)
  BY DEF Chunks
<1> QED BY <1>1, <1>2, <1>3, <1>4 DEF Good

\* A request that has just staged is good, whichever way it staged.
LEMMA GoodStage ==
  ASSUME TypeOK, [Next]_vars, NEW w \in Workers, Stage(w)
  PROVE  Good(w)'
<1>1. PICK c \in Contents, s \in Spaces :
        StageReuse(w, c, s) \/ StageReclaim(w, c, s) \/ StageNew(w, c, s)
  BY DEF Stage
<1>2. /\ Len(versions) \in Nat /\ attempts \in Nat /\ active \in 0 .. Len(versions)
      /\ w \in DOMAIN wk
  BY VersionRows DEF TypeOK
<1>3. CASE StageReuse(w, c, s)
  <2>1. wk'[w] = Begin(c, s, active, NoAttempt)
    BY <1>2, <1>3 DEF StageReuse
  <2>2. active \in 1 .. Len(versions) /\ versions[active].content = c
    BY <1>2, <1>3 DEF StageReuse, ActiveMatches
  <2>3. active \in 1 .. Len(versions') /\ versions'[active].content = c
    BY <1>3, <2>2, ReuseRows
  <2>4. NoAttempt \in Nat /\ NoAttempt <= attempts' /\ active \in Nat
    BY <1>2, GrowStep DEF NoAttempt
  <2> QED BY <2>1, <2>3, <2>4, GoodBegin
<1>4. CASE StageReclaim(w, c, s)
  <2>1. wk'[w] = Begin(c, s, Len(versions), attempts + 1) /\ attempts' = attempts + 1
    BY <1>2, <1>4 DEF StageReclaim
  <2>2. Len(versions) \in 1 .. Len(versions') /\ versions'[Len(versions)].content = c
    BY <1>4, ReclaimRows
  <2>3. attempts + 1 \in Nat /\ attempts + 1 <= attempts'
    BY <1>2, <2>1
  <2> QED BY <1>2, <2>1, <2>2, <2>3, GoodBegin
<1>5. CASE StageNew(w, c, s)
  <2>1. wk'[w] = Begin(c, s, Len(versions) + 1, attempts + 1) /\ attempts' = attempts + 1
    BY <1>2, <1>5 DEF StageNew
  <2>2. Len(versions) + 1 \in 1 .. Len(versions')
          /\ versions'[Len(versions) + 1].content = c
    BY <1>2, <1>5, NewRows
  <2>3. attempts + 1 \in Nat /\ attempts + 1 <= attempts' /\ Len(versions) + 1 \in Nat
    BY <1>2, <2>1
  <2> QED BY <2>1, <2>2, <2>3, GoodBegin
<1> QED BY <1>1, <1>3, <1>4, <1>5

\* The batch loop: what lies before the new offset, or everything when the page
\* was short, is embedded.
LEMMA GoodEmbed ==
  ASSUME TypeOK, [Next]_vars, NEW w \in Workers, Good(w), EmbedBatch(w)
  PROVE  Good(w)'
<1> DEFINE v == wk[w].version
           n == Cardinality(Batch(w))
<1>1. /\ w \in DOMAIN wk /\ wk[w] \in Request /\ wk[w].pc = "embed"
      /\ v \in DOMAIN versions /\ wk[w].space \in Spaces
      /\ versions' = versions /\ attempts' = attempts
  BY DEF EmbedBatch, Good, TypeOK
<1>2. /\ n \in Nat /\ n <= BatchSize
      /\ n < BatchSize => \A i \in Chunks(versions[v].content) :
                             i < wk[w].offset + BatchSize
  BY <1>1, BatchIsPage
<1>3. wk[w].offset \in Nat /\ BatchSize \in Nat /\ Chunks(versions[v].content) \subseteq Nat
  BY <1>1, BoundAssumption, VersionRows, ChunksFinite DEF Request, Row
<1>4. \A i \in Chunks(versions[v].content) :
        i < wk[w].offset + BatchSize => <<v, i, wk[w].space>> \in embedded'
  <2>1. ASSUME NEW i \in Chunks(versions[v].content), i < wk[w].offset + BatchSize
        PROVE  <<v, i, wk[w].space>> \in embedded'
    <3>1. CASE i < wk[w].offset
      BY <1>1, <3>1 DEF Good, EmbedBatch
    <3>2. CASE ~(i < wk[w].offset)
      <4>1. i \in Batch(w)
        BY <1>3, <2>1, <3>2 DEF Batch
      <4> QED BY <4>1 DEF EmbedBatch
    <3> QED BY <3>1, <3>2
  <2> QED BY <2>1
<1>5. CASE wk'[w] = Raised(w)
  BY <1>1, <1>5, GoodRaised
<1>6. CASE n < BatchSize /\ wk'[w] = Finished(w)
  <2>1. CASE wk[w].attempt = NoAttempt
    BY <1>6, <2>1, GoodIdle DEF Finished
  <2>2. CASE wk[w].attempt # NoAttempt
    <3>1. /\ wk'[w].pc = "promote"
          /\ wk'[w].version = v /\ wk'[w].content = wk[w].content
          /\ wk'[w].space = wk[w].space /\ wk'[w].attempt = wk[w].attempt
      BY <1>1, <1>6, <2>2 DEF Finished, Request
    <3>2. \A i \in Chunks(versions[v].content) : <<v, i, wk[w].space>> \in embedded'
      BY <1>2, <1>4, <1>6
    <3> QED BY <1>1, <2>2, <3>1, <3>2 DEF Good, Chunks
  <2> QED BY <2>1, <2>2
<1>7. CASE wk'[w] = NextBatch(w, n)
  <2>1. /\ wk'[w].pc \in {"renew", "embed"}
        /\ wk'[w].pc = "renew" => wk[w].attempt # NoAttempt
        /\ wk'[w].version = v /\ wk'[w].content = wk[w].content
        /\ wk'[w].space = wk[w].space /\ wk'[w].attempt = wk[w].attempt
        /\ wk'[w].offset = wk[w].offset + n
    BY <1>7 DEF NextBatch, Begin, BatchStart
  <2>2. \A i \in Chunks(versions[v].content) :
          i < wk'[w].offset => <<v, i, wk[w].space>> \in embedded'
    <3> HIDE DEF n
    <3>1. \A i \in Nat : i < wk[w].offset + n => i < wk[w].offset + BatchSize
      BY <1>2, <1>3
    <3> QED BY <1>3, <1>4, <2>1, <3>1
  <2> QED BY <1>1, <2>1, <2>2 DEF Good, Chunks
<1> QED BY <1>1, <1>5, <1>6, <1>7 DEF EmbedBatch, Final

\* Every step keeps every request good.
LEMMA GoodStep ==
  ASSUME TypeOK, [Next]_vars, \A w \in Workers : Good(w)
  PROVE  \A w \in Workers : Good(w)'
<1>1. ASSUME NEW w \in Workers, NEW u \in Workers, u # w,
             Stage(w) \/ Proceed(w) \/ CallFails(w) \/ Vanish(w)
      PROVE  Good(u)'
  <2>1. wk'[u] = wk[u]
    BY <1>1 DEF Stage, StageReuse, StageReclaim, StageNew, Proceed, Renew,
                RenewRejected, EmbedBatch, Promote, PromoteRejected, CallFails,
                FailVersion, Vanish, TypeOK
  <2> QED BY <2>1, GoodStays
<1>2. ASSUME NEW w \in Workers, Renew(w) PROVE Good(w)'
  <2>1. /\ wk[w] \in Request /\ wk[w].pc = "renew"
        /\ wk'[w] = [wk[w] EXCEPT !.pc = "embed"] /\ attempts' = attempts
        /\ embedded' = embedded
    BY <1>2 DEF Renew, TypeOK
  <2>2. /\ wk'[w].pc = "embed"
        /\ wk'[w].version = wk[w].version /\ wk'[w].content = wk[w].content
        /\ wk'[w].space = wk[w].space /\ wk'[w].attempt = wk[w].attempt
        /\ wk'[w].offset = wk[w].offset
    BY <2>1 DEF Request
  <2>3. /\ wk[w].version \in DOMAIN versions'
        /\ versions'[wk[w].version].content = versions[wk[w].version].content
    BY <2>1, RowsStep, VersionRows DEF RowsKept, Good
  <2> QED BY <2>1, <2>2, <2>3 DEF Good, Chunks
<1>3. ASSUME NEW w \in Workers, Promote(w) PROVE Good(w)'
  <2>1. wk[w].pc # "idle" /\ (wk'[w] = Idle \/ wk'[w] = Raised(w))
    BY <1>3 DEF Promote, TypeOK
  <2> QED BY <2>1, GoodIdle, GoodRaised
<1>4. ASSUME NEW w \in Workers, RenewRejected(w) \/ PromoteRejected(w) \/ CallFails(w)
      PROVE  Good(w)'
  <2>1. wk[w].pc # "idle" /\ wk'[w] = Raised(w)
    BY <1>4 DEF RenewRejected, PromoteRejected, CallFails, TypeOK
  <2> QED BY <2>1, GoodRaised
<1>5. ASSUME NEW w \in Workers, FailVersion(w) \/ Vanish(w) PROVE Good(w)'
  <2>1. wk'[w] = Idle
    BY <1>5 DEF FailVersion, Vanish, TypeOK
  <2> QED BY <2>1, GoodIdle
<1>6. ASSUME NEW w \in Workers, Stage(w) \/ Proceed(w) \/ CallFails(w) \/ Vanish(w)
      PROVE  Good(w)'
  BY <1>2, <1>3, <1>4, <1>5, <1>6, GoodStage, GoodEmbed DEF Proceed
<1>7. CASE LeaseExpires \/ UNCHANGED vars
  <2>1. wk' = wk
    BY <1>7 DEF LeaseExpires, vars
  <2> QED BY <2>1, GoodStays
<1> QED BY <1>1, <1>6, <1>7 DEF Next

-----------------------------------------------------------------------------
(***************************************************************************)
(* Rows: the parts of IndInv about versions and the active version.        *)
(***************************************************************************)

RowInv ==
  /\ active # 0 => versions[active].status = "ready"
  /\ \A v \in 1 .. Len(versions) :
       /\ versions[v].attempt <= attempts
       /\ versions[v].status = "processing" => v = Len(versions)
       /\ versions[v].status = "ready" => v <= active

\* The per-row part of the invariant says what its two conjuncts say.
LEMMA RowInvIsInv ==
  ASSUME TypeOK
  PROVE  RowInv <=> /\ \A v \in DOMAIN versions : versions[v].attempt <= attempts
                    /\ InProgress \subseteq {Len(versions)}
                    /\ ActiveIsNewestReady
  BY VersionRows DEF RowInv, InProgress, ActiveIsNewestReady

\* A row that stops or goes on being processed, without an activation.
LEMMA RowInvOneRow ==
  ASSUME TypeOK, RowInv, NEW x, NEW st \in {"processing", "failed"}, NEW a \in Nat,
         a <= attempts, OneRowMoves(x, st, a), active' = active, attempts' = attempts
  PROVE  RowInv'
  BY VersionRows DEF OneRowMoves, RowInv, TypeOK

\* Staging keeps the newest version the only one in progress.
LEMMA RowInvStage ==
  ASSUME TypeOK, RowInv, NEW w \in Workers, Stage(w)
  PROVE  RowInv'
<1>1. PICK c \in Contents, s \in Spaces :
        StageReuse(w, c, s) \/ StageReclaim(w, c, s) \/ StageNew(w, c, s)
  BY DEF Stage
<1>2. /\ Len(versions) \in Nat /\ attempts \in Nat /\ active \in 0 .. Len(versions)
      /\ \A v \in 1 .. Len(versions) : versions[v] \in Row
  BY VersionRows DEF TypeOK
<1>3. CASE StageReuse(w, c, s)
  <2>1. active' = active /\ attempts' = attempts
    BY <1>3 DEF StageReuse
  <2> QED BY <1>2, <1>3, <2>1, ReuseRows DEF RowInv, NoAttempt
<1>4. CASE StageReclaim(w, c, s)
  <2>1. active' = active /\ attempts' = attempts + 1
    BY <1>4 DEF StageReclaim
  <2>2. active # Len(versions)
    BY <1>2, <1>4, ReclaimRows DEF RowInv
  <2>3. active # 0 => versions'[active].status = "ready"
    BY <1>2, <1>4, <2>2, ReclaimRows DEF RowInv
  <2>4. ASSUME NEW v \in 1 .. Len(versions)
        PROVE  /\ versions'[v].attempt <= attempts'
               /\ versions'[v].status = "processing" => v = Len(versions)
               /\ versions'[v].status = "ready" => v <= active
    BY <1>2, <1>4, <2>1, ReclaimRows DEF RowInv, NoAttempt
  <2> QED BY <1>4, <2>1, <2>3, <2>4, ReclaimRows DEF RowInv
<1>5. CASE StageNew(w, c, s)
  <2>1. active' = active /\ attempts' = attempts + 1
    BY <1>5 DEF StageNew
  <2>2. active # 0 => versions'[active].status = "ready"
    BY <1>2, <1>5, NewRows DEF RowInv
  <2>3. ASSUME NEW v \in 1 .. Len(versions) + 1
        PROVE  /\ versions'[v].attempt <= attempts'
               /\ versions'[v].status = "processing" => v = Len(versions) + 1
               /\ versions'[v].status = "ready" => v <= active
    <3>1. CASE v = Len(versions) + 1
      BY <1>2, <1>5, <2>1, <3>1, NewRows
    <3>2. CASE v \in 1 .. Len(versions)
      BY <1>2, <1>5, <2>1, <3>2, NewRows DEF RowInv, NoAttempt
    <3> QED BY <1>2, <3>1, <3>2
  <2> QED BY <1>5, <2>1, <2>2, <2>3, NewRows DEF RowInv
<1> QED BY <1>1, <1>3, <1>4, <1>5

\* Every step keeps the rows' part of the invariant.
LEMMA RowInvStep ==
  ASSUME TypeOK, RowInv, \A w \in Workers : Good(w), [Next]_vars
  PROVE  RowInv'
<1>1. attempts \in Nat /\ 0 <= attempts /\ Len(versions) \in Nat
  BY VersionRows DEF TypeOK
<1>2. ASSUME versions' = versions, active' = active, attempts' = attempts
      PROVE  RowInv'
  BY <1>2 DEF RowInv
<1>3. ASSUME NEW w \in Workers, Renew(w) PROVE RowInv'
  <2>1. wk[w].attempt \in Nat /\ wk[w].attempt <= attempts
    BY DEF Good, TypeOK, Request
  <2>2. active' = active /\ attempts' = attempts
    BY <1>3 DEF Renew
  <2> QED BY <1>3, <2>1, <2>2, RenewRows, RowInvOneRow
<1>4. ASSUME NEW w \in Workers, Promote(w) PROVE RowInv'
  <2>1. Owns(w) /\ versions' = [versions EXCEPT ![wk[w].version] = Released(@, "ready")]
          /\ active' = wk[w].version /\ attempts' = attempts
    BY <1>4 DEF Promote
  <2>2. OneRowMoves(wk[w].version, "ready", NoAttempt)
    BY <2>1, ReleaseRows
  <2>3. wk[w].version = Len(versions)
    BY <2>2 DEF OneRowMoves, RowInv
  <2> QED BY <1>1, <2>1, <2>2, <2>3 DEF OneRowMoves, RowInv, NoAttempt
<1>5. ASSUME NEW w \in Workers, FailVersion(w) PROVE RowInv'
  <2>1. active' = active /\ attempts' = attempts
    BY <1>5 DEF FailVersion
  <2>2. CASE Owns(w)
    <3>1. versions' = [versions EXCEPT ![wk[w].version] = Released(@, "failed")]
      BY <1>5, <2>2 DEF FailVersion
    <3>2. OneRowMoves(wk[w].version, "failed", 0)
      BY <2>2, <3>1, ReleaseRows DEF NoAttempt
    <3> QED BY <1>1, <2>1, <3>2, RowInvOneRow
  <2>3. CASE ~Owns(w)
    BY <1>2, <1>5, <2>1, <2>3 DEF FailVersion
  <2> QED BY <2>2, <2>3
<1>6. ASSUME NEW w \in Workers,
             RenewRejected(w) \/ EmbedBatch(w) \/ PromoteRejected(w)
               \/ CallFails(w) \/ Vanish(w)
      PROVE  RowInv'
  BY <1>2, <1>6 DEF RenewRejected, EmbedBatch, PromoteRejected, CallFails, Vanish
<1>7. CASE LeaseExpires
  <2>1. PICK x \in InProgress : OneRowMoves(x, "processing", versions[x].attempt)
    BY <1>7, ExpireRows
  <2>2. versions[x].attempt \in Nat /\ versions[x].attempt <= attempts
    BY <2>1, VersionRows DEF OneRowMoves, RowInv, Row
  <2>3. active' = active /\ attempts' = attempts
    BY <1>7 DEF LeaseExpires
  <2> QED BY <2>1, <2>2, <2>3, RowInvOneRow
<1>8. CASE UNCHANGED vars
  BY <1>2, <1>8 DEF vars
<1> QED BY <1>3, <1>4, <1>5, <1>6, <1>7, <1>8, RowInvStage DEF Next, Proceed

-----------------------------------------------------------------------------
(***************************************************************************)
(* The inductive invariant.                                                *)
(***************************************************************************)

UniqueAttempts ==
  \A w1, w2 \in Workers :
    wk[w1].attempt # NoAttempt /\ wk[w1].attempt = wk[w2].attempt => w1 = w2

\* Only staging gives a request an attempt, and always a fresh one.
LEMMA UniqueStep ==
  ASSUME TypeOK, \A w \in Workers : Good(w), UniqueAttempts, [Next]_vars
  PROVE  UniqueAttempts'
<1>1. ASSUME NEW w \in Workers, Stage(w) \/ Proceed(w) \/ CallFails(w) \/ Vanish(w)
      PROVE  /\ \A u \in Workers : u # w => wk'[u] = wk[u]
             /\ wk'[w].attempt \in {NoAttempt, wk[w].attempt, attempts + 1}
  <2>1. w \in DOMAIN wk /\ wk[w] \in Request
    BY DEF TypeOK
  <2>2. Idle.attempt = NoAttempt
    BY DEF Idle
  <2>3. /\ Raised(w).attempt \in {NoAttempt, wk[w].attempt}
        /\ Finished(w).attempt \in {NoAttempt, wk[w].attempt}
        /\ \A n : NextBatch(w, n).attempt = wk[w].attempt
        /\ [wk[w] EXCEPT !.pc = "embed"].attempt = wk[w].attempt
    BY <2>1, <2>2 DEF Raised, Finished, NextBatch, Begin, Request
  <2>4. \A c, s, v, a : Begin(c, s, v, a).attempt = a
    BY DEF Begin
  <2>5. CASE Stage(w)
    <3>1. PICK c \in Contents, s \in Spaces :
            StageReuse(w, c, s) \/ StageReclaim(w, c, s) \/ StageNew(w, c, s)
      BY <2>5 DEF Stage
    <3> QED BY <2>1, <2>4, <3>1 DEF StageReuse, StageReclaim, StageNew, TypeOK
  <2>6. CASE EmbedBatch(w)
    BY <2>1, <2>3, <2>6 DEF EmbedBatch, TypeOK
  <2>7. CASE Renew(w) \/ RenewRejected(w) \/ Promote(w) \/ PromoteRejected(w)
               \/ FailVersion(w) \/ CallFails(w) \/ Vanish(w)
    BY <2>1, <2>2, <2>3, <2>7
    DEF Renew, RenewRejected, Promote, PromoteRejected, FailVersion, CallFails,
        Vanish, TypeOK
  <2> QED BY <1>1, <2>5, <2>6, <2>7 DEF Proceed
<1>2. \A w \in Workers : wk[w].attempt <= attempts /\ wk[w].attempt \in Nat
  BY DEF Good, TypeOK, Request
<1>3. ASSUME NEW w \in Workers, Stage(w) \/ Proceed(w) \/ CallFails(w) \/ Vanish(w)
      PROVE  UniqueAttempts'
  <2>1. attempts \in Nat
    BY DEF TypeOK
  <2> QED BY <1>1, <1>2, <1>3, <2>1 DEF UniqueAttempts
<1>4. CASE LeaseExpires \/ UNCHANGED vars
  BY <1>4 DEF LeaseExpires, vars, UniqueAttempts
<1> QED BY <1>3, <1>4 DEF Next

\* The active version stays embedded: it keeps its content and its vectors, and
\* a promotion has just counted those of the version it activates.
LEMMA ServedStep ==
  ASSUME TypeOK, ActiveFullyEmbedded, [Next]_vars
  PROVE  ActiveFullyEmbedded'
<1>1. /\ DOMAIN versions = 1 .. Len(versions) /\ Len(versions) \in Nat
      /\ \A v \in 1 .. Len(versions) :
           versions[v].content \in Contents /\ versions'[v].content = versions[v].content
  BY VersionRows, RowsStep DEF RowsKept, Row
<1>2. ASSUME NEW v \in 1 .. Len(versions), NEW s, FullyEmbedded(v, s)
      PROVE  FullyEmbedded(v, s)'
  <2>1. \A i \in Chunks(versions[v].content) : <<v, i, s>> \in embedded'
    BY <1>1, <1>2, FullyEmbeddedIsEvery, GrowStep
  <2>2. Covered(v, s)' = Chunks(versions[v].content)
    BY <1>1, <2>1 DEF Covered, Chunks
  <2>3. Cardinality(Covered(v, s)') = ChunkCount[versions[v].content]
    BY <1>1, <2>2, ChunksFinite
  <2> QED BY <1>1, <2>3 DEF FullyEmbedded
<1>3. active \in 0 .. Len(versions)
  BY DEF TypeOK
<1>4. CASE active' = active /\ servedSpace' = servedSpace
  BY <1>1, <1>2, <1>3, <1>4 DEF ActiveFullyEmbedded
<1>5. ASSUME NEW w \in Workers, Promote(w) PROVE ActiveFullyEmbedded'
  <2>1. /\ wk[w].version \in 1 .. Len(versions)
        /\ FullyEmbedded(wk[w].version, wk[w].space)
        /\ active' = wk[w].version /\ servedSpace' = wk[w].space
    BY <1>1, <1>5 DEF Promote, Owns
  <2> QED BY <1>2, <2>1 DEF ActiveFullyEmbedded
<1>6. ASSUME ~\E w \in Workers : Promote(w)
      PROVE  active' = active /\ servedSpace' = servedSpace
  BY <1>6 DEF Next, Proceed, vars, Stage, StageReuse, StageReclaim, StageNew, Renew,
     RenewRejected, EmbedBatch, PromoteRejected, CallFails, FailVersion, Vanish,
     LeaseExpires
<1> QED BY <1>4, <1>5, <1>6

\* The invariant, part by part.
LEMMA IndInvParts ==
  IndInv <=> /\ TypeOK
             /\ \A w \in Workers : Good(w)
             /\ RowInv
             /\ UniqueAttempts
             /\ ActiveFullyEmbedded
<1>1. ASSUME TypeOK PROVE IndInv <=> /\ \A w \in Workers : Good(w)
                                     /\ RowInv
                                     /\ UniqueAttempts
                                     /\ ActiveFullyEmbedded
  BY <1>1, GoodRequests, RowInvIsInv
  DEF IndInv, AttemptsDrawn, SingleWriter, UniqueAttempts
<1> QED BY <1>1 DEF IndInv

\* The invariant holds of a document that was never processed.
LEMMA InitIndInv == Init => IndInv
<1> SUFFICES ASSUME Init PROVE IndInv
  OBVIOUS
<1>1. versions = << >> /\ Len(versions) = 0 /\ versions \in Seq(Row)
        /\ DOMAIN versions = {}
  BY EmptySeq DEF Init
<1>2. Idle \in Request /\ Idle.pc = "idle" /\ Idle.attempt = 0
  BY DEF Idle, Request, NoAttempt
<1>3. TypeOK
  BY <1>1, <1>2 DEF Init, TypeOK
<1>4. \A w \in Workers : wk[w] = Idle
  BY DEF Init
<1> QED BY <1>1, <1>2, <1>3, <1>4
    DEF Init, IndInv, RequestsWellFormed, AttemptsDrawn, SingleWriter, InProgress,
        ActiveIsNewestReady, AttemptHoldsItsContent, PrefixEmbedded,
        ActiveFullyEmbedded, NoAttempt

\* The invariant is inductive.
LEMMA NextIndInv == IndInv /\ [Next]_vars => IndInv'
<1> SUFFICES ASSUME IndInv, [Next]_vars PROVE IndInv'
  OBVIOUS
<1>1. /\ TypeOK /\ RequestsWellFormed /\ \A w \in Workers : Good(w)
      /\ RowInv /\ UniqueAttempts /\ ActiveFullyEmbedded
  BY IndInvParts DEF IndInv
<1>2. TypeOK'
  BY <1>1, TypeStep
<1>3. \A w \in Workers : Good(w)'
  BY <1>1, GoodStep
<1>4. RowInv'
  BY <1>1, RowInvStep
<1>5. UniqueAttempts'
  BY <1>1, UniqueStep
<1>6. ActiveFullyEmbedded'
  BY <1>1, ServedStep
<1>7. (RequestsWellFormed /\ AttemptHoldsItsContent /\ PrefixEmbedded)'
        /\ \A w \in Workers : (wk[w].attempt <= attempts)'
  BY <1>3 DEF Good, RequestsWellFormed, AttemptHoldsItsContent, PrefixEmbedded
<1>8. DOMAIN versions' = 1 .. Len(versions')
  BY <1>1, RowsStep DEF RowsKept
<1>9. (AttemptsDrawn /\ SingleWriter /\ ActiveIsNewestReady)'
  BY <1>4, <1>5, <1>7, <1>8
  DEF RowInv, UniqueAttempts, AttemptsDrawn, SingleWriter, InProgress, ActiveIsNewestReady
<1> QED BY <1>2, <1>6, <1>7, <1>9 DEF IndInv

-----------------------------------------------------------------------------
(***************************************************************************)
(* Theorems of the specification.                                          *)
(***************************************************************************)

\* The strengthened invariant holds for ever: for any number of concurrent
\* requests, crashes, retries, lease expiries and lost acknowledgements.
THEOREM Invariance == Spec => []IndInv
  BY InitIndInv, NextIndInv, PTL DEF Spec

\* Rows and requests are always well formed, and the CHECK that ties an attempt
\* and a lease to `processing` always holds.
THEOREM TypeCorrect == Spec => []TypeOK
<1>1. IndInv => TypeOK
  BY DEF IndInv
<1> QED BY <1>1, Invariance, PTL

\* At most one version is processed, by at most one request per attempt.
THEOREM SingleWriterAlways == Spec => []SingleWriter
<1>1. IndInv => SingleWriter
  BY DEF IndInv
<1> QED BY <1>1, Invariance, PTL

\* The searchable version is always the newest completed one.
THEOREM NewestReadyServed == Spec => []ActiveIsNewestReady
<1>1. IndInv => ActiveIsNewestReady
  BY DEF IndInv
<1> QED BY <1>1, Invariance, PTL

\* The searchable version is always completely embedded in the space in which
\* it was promoted.
THEOREM ServedIndexComplete == Spec => []ActiveFullyEmbedded
<1>1. IndInv => ActiveFullyEmbedded
  BY DEF IndInv
<1> QED BY <1>1, Invariance, PTL

\* A request always works on rows that hold the chunks it computed.
THEOREM AttemptContentHeld == Spec => []AttemptHoldsItsContent
<1>1. IndInv => AttemptHoldsItsContent
  BY DEF IndInv
<1> QED BY <1>1, Invariance, PTL

\* Coverage never refuses a promotion: only the fence does.
THEOREM PromotionCovered == Spec => []PromotionIsCovered
<1>1. IndInv => PromotionIsCovered
  <2> SUFFICES ASSUME IndInv, NEW w \in Workers, wk[w].pc = "promote"
               PROVE  FullyEmbedded(wk[w].version, wk[w].space)
    BY DEF PromotionIsCovered
  <2>1. TypeOK /\ Good(w)
    BY IndInvParts
  <2>2. versions[wk[w].version].content \in Contents
    BY <2>1, VersionRows DEF Good, Row
  <2>3. \A i \in Chunks(versions[wk[w].version].content) :
          <<wk[w].version, i, wk[w].space>> \in embedded
    BY <2>1 DEF Good
  <2> QED BY <2>2, <2>3, FullyEmbeddedIsEvery
<1> QED BY <1>1, Invariance, PTL

-----------------------------------------------------------------------------
(***************************************************************************)
(* What a step may never do.                                               *)
(***************************************************************************)

\* Only a promotion activates, and it activates a version newer than the active.
LEMMA ActivationStep ==
  ASSUME IndInv, [Next]_vars
  PROVE  \/ active' = active /\ servedSpace' = servedSpace
         \/ active' \in 1 .. Len(versions) /\ active' > active
<1>1. TypeOK /\ RowInv /\ Len(versions) \in Nat /\ active \in 0 .. Len(versions)
  BY IndInvParts, VersionRows DEF TypeOK
<1>2. ASSUME NEW w \in Workers, Promote(w)
      PROVE  active' \in 1 .. Len(versions) /\ active' > active
  <2>1. /\ active' = wk[w].version /\ wk[w].version \in 1 .. Len(versions)
        /\ versions[wk[w].version].status = "processing"
    BY <1>1, <1>2, VersionRows DEF Promote, Owns
  <2> QED BY <1>1, <2>1 DEF RowInv
<1>3. ASSUME ~\E w \in Workers : Promote(w)
      PROVE  active' = active /\ servedSpace' = servedSpace
  BY <1>3 DEF Next, Proceed, vars, Stage, StageReuse, StageReclaim, StageNew, Renew,
     RenewRejected, EmbedBatch, PromoteRejected, CallFails, FailVersion, Vanish,
     LeaseExpires
<1> QED BY <1>2, <1>3

\* No behaviour ever brings an older version back.
THEOREM ActiveAdvances == Spec => ActiveOnlyAdvances
<1>1. IndInv /\ [Next]_vars => [active' >= active]_vars
  <2> SUFFICES ASSUME IndInv, [Next]_vars PROVE active' >= active
    OBVIOUS
  <2>1. Len(versions) \in Nat /\ active \in 0 .. Len(versions)
    BY IndInvParts, VersionRows DEF TypeOK
  <2> QED BY <2>1, ActivationStep
<1> QED BY <1>1, Invariance, PTL DEF Spec, ActiveOnlyAdvances

\* A superseded attempt is inert: the fence of renew, promote and fail covers
\* every step its request can still take.
THEOREM StaleInert == Spec => StaleAttemptIsInert
<1> DEFINE A == \A w \in Workers :
                  wk[w].attempt # NoAttempt /\ wk'[w] # wk[w]
                    => \/ versions[wk[w].version].attempt = wk[w].attempt
                       \/ UNCHANGED <<versions, active>>
<1>1. IndInv /\ [Next]_vars => [A]_vars
  <2> SUFFICES ASSUME IndInv, [Next]_vars, NEW w \in Workers,
                      wk[w].attempt # NoAttempt, wk'[w] # wk[w],
                      versions[wk[w].version].attempt # wk[w].attempt
               PROVE  UNCHANGED <<versions, active>>
    OBVIOUS
  <2>1. TypeOK /\ Good(w) /\ ~Owns(w)
    BY IndInvParts DEF Owns
  <2>2. wk[w].pc # "idle"
    BY <2>1 DEF Good, Idle
  <2>3. ASSUME NEW u \in Workers, u # w,
               Stage(u) \/ Proceed(u) \/ CallFails(u) \/ Vanish(u)
        PROVE  FALSE
    BY <2>1, <2>3 DEF Stage, StageReuse, StageReclaim, StageNew, Proceed, Renew,
       RenewRejected, EmbedBatch, Promote, PromoteRejected, CallFails,
       FailVersion, Vanish, TypeOK
  <2>4. CASE Stage(w)
    BY <2>2, <2>4 DEF Stage
  <2>5. CASE Renew(w) \/ Promote(w) \/ FailVersion(w)
    BY <2>1, <2>5 DEF Renew, Promote, FailVersion
  <2>6. CASE RenewRejected(w) \/ EmbedBatch(w) \/ PromoteRejected(w)
                \/ CallFails(w) \/ Vanish(w)
    BY <2>6 DEF RenewRejected, EmbedBatch, PromoteRejected, CallFails, Vanish
  <2>7. CASE LeaseExpires \/ UNCHANGED vars
    BY <2>7 DEF LeaseExpires, vars
  <2> QED BY <2>3, <2>4, <2>5, <2>6, <2>7 DEF Next, Proceed
<1> QED BY <1>1, Invariance, PTL DEF Spec, StaleAttemptIsInert

\* While its lease runs, an attempt loses its version only by its own hand.
THEOREM LiveLeaseHolds == Spec => LiveLeaseExclusive
<1> DEFINE A == \A v \in InProgress :
                  versions[v].lease = "live" /\ versions'[v].attempt # versions[v].attempt
                    => \E w \in Workers : /\ wk[w].attempt = versions[v].attempt
                                         /\ wk[w].version = v
                                         /\ wk[w].pc \in {"promote", "failing"}
<1>1. IndInv /\ [Next]_vars => [A]_vars
  <2> SUFFICES ASSUME IndInv, [Next]_vars, NEW v \in InProgress,
                      versions[v].lease = "live",
                      versions'[v].attempt # versions[v].attempt
               PROVE  \E w \in Workers : /\ wk[w].attempt = versions[v].attempt
                                        /\ wk[w].version = v
                                        /\ wk[w].pc \in {"promote", "failing"}
    OBVIOUS
  <2> DEFINE Owner == \E w \in Workers : /\ wk[w].attempt = versions[v].attempt
                                        /\ wk[w].version = v
                                        /\ wk[w].pc \in {"promote", "failing"}
  <2>1. TypeOK /\ v \in 1 .. Len(versions)
    BY IndInvParts, VersionRows DEF InProgress
  <2>2. ASSUME NEW w \in Workers, Stage(w) PROVE FALSE
    BY <2>2 DEF Stage, CanStage
  <2>3. ASSUME NEW w \in Workers, Renew(w) PROVE FALSE
    <3>1. OneRowMoves(wk[w].version, "processing", wk[w].attempt)
      BY <2>1, <2>3, RenewRows
    <3>2. versions[wk[w].version].attempt = wk[w].attempt
      BY <2>3 DEF Renew, Owns
    <3> QED BY <2>1, <3>1, <3>2 DEF OneRowMoves
  <2>4. ASSUME NEW w \in Workers, Promote(w) PROVE Owner
    <3>1. Owns(w) /\ wk[w].pc = "promote"
            /\ versions' = [versions EXCEPT ![wk[w].version] = Released(@, "ready")]
      BY <2>4 DEF Promote
    <3>2. OneRowMoves(wk[w].version, "ready", NoAttempt)
      BY <2>1, <3>1, ReleaseRows
    <3>3. wk[w].version = v
      BY <2>1, <3>2 DEF OneRowMoves
    <3> QED BY <3>1, <3>3 DEF Owns
  <2>5. ASSUME NEW w \in Workers, FailVersion(w) PROVE Owner
    <3>1. wk[w].pc = "failing"
      BY <2>5 DEF FailVersion
    <3>2. Owns(w) /\ versions' = [versions EXCEPT ![wk[w].version] = Released(@, "failed")]
      BY <2>5 DEF FailVersion
    <3>3. OneRowMoves(wk[w].version, "failed", NoAttempt)
      BY <2>1, <3>2, ReleaseRows
    <3>4. wk[w].version = v
      BY <2>1, <3>3 DEF OneRowMoves
    <3> QED BY <3>1, <3>2, <3>4 DEF Owns
  <2>6. ASSUME NEW w \in Workers,
               RenewRejected(w) \/ EmbedBatch(w) \/ PromoteRejected(w)
                 \/ CallFails(w) \/ Vanish(w)
        PROVE  FALSE
    BY <2>6 DEF RenewRejected, EmbedBatch, PromoteRejected, CallFails, Vanish
  <2>7. ASSUME LeaseExpires PROVE FALSE
    <3>1. PICK x \in InProgress : OneRowMoves(x, "processing", versions[x].attempt)
      BY <2>1, <2>7, ExpireRows
    <3> QED BY <2>1, <3>1 DEF OneRowMoves
  <2>8. ASSUME UNCHANGED vars PROVE FALSE
    BY <2>8 DEF vars
  <2> HIDE DEF Owner
  <2>9. Owner
    BY <2>2, <2>3, <2>4, <2>5, <2>6, <2>7, <2>8 DEF Next, Proceed
  <2> QED BY <2>9 DEF Owner
<1> QED BY <1>1, Invariance, PTL DEF Spec, LiveLeaseExclusive

-----------------------------------------------------------------------------
(***************************************************************************)
(* Refinement: a step of processing is a publication or invisible.         *)
(***************************************************************************)

\* In the invariant the covered chunks of the active version are all of them.
LEMMA CoveredIsAll ==
  ASSUME IndInv, active # 0
  PROVE  /\ versions[active].content \in Contents
         /\ Covered(active, servedSpace) = Chunks(versions[active].content)
<1>1. active \in 1 .. Len(versions)
  BY IndInvParts, VersionRows DEF TypeOK
<1>2. versions[active].content \in Contents
  BY <1>1, IndInvParts, VersionRows DEF Row
<1>3. Covered(active, servedSpace) \subseteq Chunks(versions[active].content)
  BY DEF Covered
<1>4. FullyEmbedded(active, servedSpace)
  BY DEF IndInv, ActiveFullyEmbedded
<1> QED BY <1>2, <1>3, <1>4, CountIsEvery DEF FullyEmbedded

\* The same after the step: the invariant holds there too.
LEMMA CoveredIsAllNext ==
  ASSUME IndInv', active' # 0, versions'[active'].content \in Contents
  PROVE  Covered(active, servedSpace)' = Chunks(versions'[active'].content)
<1>1. Covered(active, servedSpace)' \subseteq Chunks(versions'[active'].content)
  BY DEF Covered, Chunks
<1>2. Cardinality(Covered(active, servedSpace)') = ChunkCount[versions'[active'].content]
  BY DEF IndInv, ActiveFullyEmbedded, FullyEmbedded
<1> QED BY <1>1, <1>2, CountIsEvery

\* Document processing implements ActiveIndex.
THEOREM Refinement == Spec => ImplementsActiveIndex
<1>1. Init => Index!Init
  BY DEF Init, Index!Init
<1>2. ASSUME IndInv, IndInv', [Next]_vars PROVE [Index!Next]_(Index!vars)
  <2>1. /\ Len(versions) \in Nat /\ active \in 0 .. Len(versions)
        /\ \A v \in 1 .. Len(versions) : versions[v].content \in Contents
        /\ \A v \in 1 .. Len(versions) : versions'[v].content = versions[v].content
    BY <1>2, IndInvParts, VersionRows, RowsStep DEF TypeOK, Row, RowsKept
  <2>2. CASE active' = active /\ servedSpace' = servedSpace
    <3>1. CASE active = 0
      BY <2>2, <3>1 DEF Index!vars
    <3>2. CASE active # 0
      <4>1. active \in 1 .. Len(versions)
        BY <2>1, <3>2
      <4>2. versions'[active'].content = versions[active].content
              /\ versions[active].content \in Contents
        BY <2>1, <2>2, <4>1
      <4>3. Covered(active, servedSpace)' = Covered(active, servedSpace)
        BY <1>2, <2>2, <3>2, <4>2, CoveredIsAll, CoveredIsAllNext
      <4> QED BY <2>2, <3>2, <4>2, <4>3 DEF Index!vars
    <3> QED BY <3>1, <3>2
  <2>3. CASE active' \in 1 .. Len(versions) /\ active' > active
    <3> DEFINE c == versions'[active'].content
    <3>1. c \in Contents /\ active' # 0 /\ active' \in Nat
      BY <2>1, <2>3
    <3>2. Covered(active, servedSpace)' = 0 .. ChunkCount[c] - 1
      BY <1>2, <3>1, CoveredIsAllNext DEF Chunks
    <3>3. Index!Publish(c)
      BY <2>3, <3>1, <3>2 DEF Index!Publish
    <3> QED BY <3>1, <3>3 DEF Index!Next
  <2> QED BY <1>2, <2>2, <2>3, ActivationStep
<1> QED BY <1>1, <1>2, Invariance, PTL DEF Spec, ImplementsActiveIndex, Index!Spec

=============================================================================
