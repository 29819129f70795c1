--------------------------- MODULE ChunkVersions ---------------------------
(***************************************************************************)
(* The staged, immutable chunk versions of ONE document and the processing *)
(* requests that create, embed and activate them.                          *)
(*                                                                         *)
(* Every repository operation is one database transaction under the        *)
(* document's row lock (SELECT ... FOR UPDATE), hence one action.  Between *)
(* two operations a request may stall for ever, raise, or vanish without a *)
(* cleanup (process death, or a cancelled request: CancelledError is not   *)
(* an Exception).  Requests on different documents touch disjoint rows.    *)
(*                                                                         *)
(* A rejected staging (409, a live lease held by someone else) changes no  *)
(* state, so it is the negation of CanStage and not an action.             *)
(***************************************************************************)
EXTENDS Naturals, Sequences, FiniteSets

CONSTANTS
  Workers,      \* in-flight POST .../process requests
  Contents,     \* chunk sets a request can compute (they differ by options)
  Spaces,       \* embedding spaces: (provider, model, dimensions)
  ChunkCount,   \* number of chunks of each content
  BatchSize,    \* chunks per embedding batch
  MaxVersions,  \* bound on the version rows of the document
  MaxAttempts,  \* bound on the attempt identifiers drawn (uuid4)
  NoContent,    \* the content of an idle request
  NoSpace       \* the space of an idle request

ASSUME ContentAssumption ==
  ChunkCount \in [Contents -> Nat \ {0}] /\ NoContent \notin Contents
ASSUME SpaceAssumption == NoSpace \notin Spaces
ASSUME BoundAssumption ==
  /\ BatchSize \in Nat \ {0}
  /\ MaxVersions \in Nat
  /\ MaxAttempts \in Nat

VARIABLES
  versions,     \* document_chunk_versions rows; versions[v] is version v
  active,       \* documents.active_chunk_version, 0 when never activated
  embedded,     \* chunk_embeddings rows: <<version, chunk index, space>>
  attempts,     \* attempt identifiers drawn so far; the next is attempts + 1
  wk,           \* what each request holds between two awaits
  servedSpace   \* history: the space verified by the last promotion

vars == <<versions, active, embedded, attempts, wk, servedSpace>>

NoAttempt == 0

Row == [content : Contents,
        status  : {"processing", "ready", "failed"},
        attempt : Nat,
        lease   : {"live", "expired", "none"},
        attempt_count : Nat]

Request == [pc      : {"idle", "renew", "embed", "promote", "failing"},
            content : Contents \union {NoContent},
            space   : Spaces \union {NoSpace},
            version : Nat,
            attempt : Nat,
            offset  : Nat]

Idle == [pc |-> "idle", content |-> NoContent, space |-> NoSpace,
         version |-> 0, attempt |-> NoAttempt, offset |-> 0]

\* ck_chunk_versions_attempt_lease: an owner and a lease exactly while processing.
RowConsistent(row) ==
  IF row.status = "processing" THEN row.attempt # NoAttempt /\ row.lease # "none"
                               ELSE row.attempt = NoAttempt /\ row.lease = "none"

\* Every row and request is well formed and the database's CHECKs hold.
TypeOK ==
  /\ versions \in Seq(Row)
  /\ \A v \in DOMAIN versions : RowConsistent(versions[v])
  /\ active \in 0 .. Len(versions)
  /\ embedded \subseteq (Nat \X Nat \X Spaces)
  /\ attempts \in Nat
  /\ wk \in [Workers -> Request]
  /\ servedSpace \in Spaces \union {NoSpace}

-----------------------------------------------------------------------------

Chunks(c) == 0 .. ChunkCount[c] - 1

Covered(v, s) == {i \in Chunks(versions[v].content) : <<v, i, s>> \in embedded}

InProgress == {v \in DOMAIN versions : versions[v].status = "processing"}

Released(row, status) ==
  [row EXCEPT !.status = status, !.attempt = NoAttempt, !.lease = "none"]

\* A failed version taken up again under a new attempt.
Retried(row, attempt) ==
  [content |-> row.content, status |-> "processing", attempt |-> attempt,
   lease |-> "live", attempt_count |-> row.attempt_count + 1]

\* A new version row.
Staged(c, attempt) ==
  [content |-> c, status |-> "processing", attempt |-> attempt,
   lease |-> "live", attempt_count |-> 1]

\* The rows after an expired attempt, if any, has been marked failed.
Recovered ==
  [v \in DOMAIN versions |->
     IF v \in InProgress THEN Released(versions[v], "failed") ELSE versions[v]]

CanStageOverLiveLease == TRUE

CanStageOnlyWhenSettled == InProgress = {}

CanStage == \A v \in InProgress : versions[v].lease = "expired"

ActiveMatches(c) == active # 0 /\ versions[active].content = c

\* Only the newest version may be taken up again.
Reclaimable(c) ==
  /\ versions # << >>
  /\ Recovered[Len(versions)].status = "failed"
  /\ versions[Len(versions)].content = c

OwnsUnchecked(w) == wk[w].version \in DOMAIN versions

OwnsByVersionOnly(w) ==
  /\ wk[w].version \in DOMAIN versions
  /\ versions[wk[w].version].status = "processing"

\* _get_processing_version: the caller's attempt still owns its version.
Owns(w) ==
  /\ wk[w].version \in DOMAIN versions
  /\ versions[wk[w].version].status = "processing"
  /\ versions[wk[w].version].attempt = wk[w].attempt

\* Both counts of promote_version equal the row's chunk_count.
FullyEmbedded(v, s) == Cardinality(Covered(v, s)) = ChunkCount[versions[v].content]

\* before_batch is a renewal only when the request holds an attempt.
BatchStart(attempt) == IF attempt = NoAttempt THEN "embed" ELSE "renew"

Begin(c, s, v, attempt) ==
  [pc |-> BatchStart(attempt), content |-> c, space |-> s,
   version |-> v, attempt |-> attempt, offset |-> 0]

\* A short page is the last one.
Final(n) == n < BatchSize

\* Requests without an attempt have nothing to promote and nothing to fail.
Finished(w) == IF wk[w].attempt = NoAttempt
                 THEN Idle ELSE [wk[w] EXCEPT !.pc = "promote"]
Raised(w)   == IF wk[w].attempt = NoAttempt
                 THEN Idle ELSE [wk[w] EXCEPT !.pc = "failing"]

-----------------------------------------------------------------------------

Init ==
  /\ versions = << >>
  /\ active = 0
  /\ embedded = {}
  /\ attempts = 0
  /\ wk = [w \in Workers |-> Idle]
  /\ servedSpace = NoSpace

\* replace_for_document, when the active version already has these chunks.
StageReuse(w, c, s) ==
  /\ ActiveMatches(c)
  /\ versions' = Recovered
  /\ wk' = [wk EXCEPT ![w] = Begin(c, s, active, NoAttempt)]
  /\ UNCHANGED <<active, attempts>>

\* ... when the newest version failed with these chunks: same rows, new attempt.
StageReclaim(w, c, s) ==
  /\ ~ActiveMatches(c)
  /\ Reclaimable(c)
  /\ attempts < MaxAttempts
  /\ attempts' = attempts + 1
  /\ versions' = [Recovered EXCEPT ![Len(versions)] = Retried(@, attempts + 1)]
  /\ wk' = [wk EXCEPT ![w] = Begin(c, s, Len(versions), attempts + 1)]
  /\ UNCHANGED active

StageNewActivating(w, c, s) ==
  /\ ~ActiveMatches(c)
  /\ ~Reclaimable(c)
  /\ attempts < MaxAttempts
  /\ Len(versions) < MaxVersions
  /\ attempts' = attempts + 1
  /\ versions' = Append(Recovered, Staged(c, attempts + 1))
  /\ wk' = [wk EXCEPT ![w] = Begin(c, s, Len(versions) + 1, attempts + 1)]
  /\ active' = Len(versions) + 1

\* ... otherwise: a new version with its chunk rows.
StageNew(w, c, s) ==
  /\ ~ActiveMatches(c)
  /\ ~Reclaimable(c)
  /\ attempts < MaxAttempts
  /\ Len(versions) < MaxVersions
  /\ attempts' = attempts + 1
  /\ versions' = Append(Recovered, Staged(c, attempts + 1))
  /\ wk' = [wk EXCEPT ![w] = Begin(c, s, Len(versions) + 1, attempts + 1)]
  /\ UNCHANGED active

Stage(w) ==
  /\ wk[w].pc = "idle"
  /\ CanStage
  /\ \E c \in Contents, s \in Spaces :
       StageReuse(w, c, s) \/ StageReclaim(w, c, s) \/ StageNew(w, c, s)
  /\ UNCHANGED <<embedded, servedSpace>>

\* renew_version: the lease runs again, whether or not it had expired.
Renew(w) ==
  /\ wk[w].pc = "renew"
  /\ Owns(w)
  /\ versions' = [versions EXCEPT ![wk[w].version].lease = "live"]
  /\ wk' = [wk EXCEPT ![w].pc = "embed"]
  /\ UNCHANGED <<active, embedded, attempts, servedSpace>>

RenewRejected(w) ==
  /\ wk[w].pc = "renew"
  /\ ~Owns(w)
  /\ wk' = [wk EXCEPT ![w] = Raised(w)]
  /\ UNCHANGED <<versions, active, embedded, attempts, servedSpace>>

\* The page of the version's chunks (they never change) at the offset.
Batch(w) ==
  {i \in Chunks(versions[wk[w].version].content) :
     wk[w].offset <= i /\ i < wk[w].offset + BatchSize}

\* The next turn of the batch loop, n chunks further.
NextBatch(w, n) ==
  [Begin(wk[w].content, wk[w].space, wk[w].version, wk[w].attempt)
     EXCEPT !.offset = wk[w].offset + n]

\* One turn of the batch loop: page the chunks, call the provider, upsert the
\* vectors.  The upsert checks no attempt.
EmbedBatch(w) ==
  /\ wk[w].pc = "embed"
  /\ embedded' =
       embedded \union {<<wk[w].version, i, wk[w].space>> : i \in Batch(w)}
  /\ wk' = [wk EXCEPT ![w] =
              IF Batch(w) = {} /\ wk[w].offset = 0 THEN Raised(w)
              ELSE IF Final(Cardinality(Batch(w))) THEN Finished(w)
              ELSE NextBatch(w, Cardinality(Batch(w)))]
  /\ UNCHANGED <<versions, active, attempts, servedSpace>>

\* promote_version.  The commit may succeed although the caller sees an error.
Promote(w) ==
  /\ wk[w].pc = "promote"
  /\ Owns(w)
  /\ FullyEmbedded(wk[w].version, wk[w].space)
  /\ active' = wk[w].version
  /\ versions' = [versions EXCEPT ![wk[w].version] = Released(@, "ready")]
  /\ servedSpace' = wk[w].space
  /\ \/ wk' = [wk EXCEPT ![w] = Idle]
     \/ wk' = [wk EXCEPT ![w] = Raised(w)]
  /\ UNCHANGED <<embedded, attempts>>

PromoteRejected(w) ==
  /\ wk[w].pc = "promote"
  /\ ~(Owns(w) /\ FullyEmbedded(wk[w].version, wk[w].space))
  /\ wk' = [wk EXCEPT ![w] = Raised(w)]
  /\ UNCHANGED <<versions, active, embedded, attempts, servedSpace>>

\* Any awaited call may raise: provider, database, contract validation.
CallFails(w) ==
  /\ wk[w].pc \in {"renew", "embed", "promote"}
  /\ wk' = [wk EXCEPT ![w] = Raised(w)]
  /\ UNCHANGED <<versions, active, embedded, attempts, servedSpace>>

\* fail_version: marks the row only while the caller still owns it.
FailVersion(w) ==
  /\ wk[w].pc = "failing"
  /\ versions' = IF Owns(w)
                   THEN [versions EXCEPT ![wk[w].version] = Released(@, "failed")]
                   ELSE versions
  /\ wk' = [wk EXCEPT ![w] = Idle]
  /\ UNCHANGED <<active, embedded, attempts, servedSpace>>

\* The request ends with no cleanup: process death, cancellation, the answer of
\* the staging commit lost, or fail_version itself failing.
Vanish(w) ==
  /\ wk[w].pc # "idle"
  /\ wk' = [wk EXCEPT ![w] = Idle]
  /\ UNCHANGED <<versions, active, embedded, attempts, servedSpace>>

\* _PROCESSING_LEASE elapses since the lease was last written.
LeaseExpires ==
  /\ \E v \in InProgress :
       /\ versions[v].lease = "live"
       /\ versions' = [versions EXCEPT ![v].lease = "expired"]
  /\ UNCHANGED <<active, embedded, attempts, wk, servedSpace>>

Proceed(w) == \/ Renew(w) \/ RenewRejected(w)
              \/ EmbedBatch(w)
              \/ Promote(w) \/ PromoteRejected(w)
              \/ FailVersion(w)

Next == \/ \E w \in Workers : Stage(w) \/ Proceed(w) \/ CallFails(w) \/ Vanish(w)
        \/ LeaseExpires

Spec == Init /\ [][Next]_vars

\* Requests that are not interrupted run on, time passes, and clients that got
\* no index ask again.  Nothing makes a call fail or a request vanish.
Fairness == /\ \A w \in Workers : WF_vars(Proceed(w)) /\ WF_vars(Stage(w))
            /\ WF_vars(LeaseExpires)

FairSpec == Spec /\ Fairness

-----------------------------------------------------------------------------

\* At most one version is being processed, it is the newest one, and no two
\* requests hold the same attempt: staging, recovery and the random attempt
\* identifier together make every version single-writer.
SingleWriter ==
  /\ InProgress \subseteq {Len(versions)}
  /\ \A w1, w2 \in Workers :
       wk[w1].attempt # NoAttempt /\ wk[w1].attempt = wk[w2].attempt => w1 = w2

\* What is searchable is the newest version that was ever completed: neither a
\* failed nor an unfinished attempt displaces it, whatever was retried.
ActiveIsNewestReady ==
  /\ active # 0 => versions[active].status = "ready"
  /\ \A v \in DOMAIN versions : versions[v].status = "ready" => v <= active

\* The active version has an embedding for each of its chunks in the space it
\* was promoted with; stale requests, retries and crashes never break that.
ActiveFullyEmbedded == active # 0 => FullyEmbedded(active, servedSpace)

\* An attempt works on the chunks its request computed, also when it took over
\* the rows of an earlier attempt: what it publishes is what was asked for.
AttemptHoldsItsContent ==
  \A w \in Workers :
    wk[w].pc # "idle" => versions[wk[w].version].content = wk[w].content

\* A request that comes to promotion has embedded every chunk of its version
\* in its own space, so only the fence can refuse it.
PromotionIsCovered ==
  \A w \in Workers :
    wk[w].pc = "promote" => FullyEmbedded(wk[w].version, wk[w].space)

\* No request and no row carries an attempt that was not drawn yet.
AttemptsDrawn ==
  /\ \A v \in DOMAIN versions : versions[v].attempt <= attempts
  /\ \A w \in Workers : wk[w].attempt <= attempts

\* An idle request holds nothing; a running one works on an existing version,
\* and only one with an attempt renews, promotes or fails.
RequestsWellFormed ==
  \A w \in Workers :
    /\ wk[w].pc = "idle" => wk[w] = Idle
    /\ wk[w].pc # "idle" => /\ wk[w].version \in DOMAIN versions
                            /\ wk[w].space \in Spaces
    /\ wk[w].pc \in {"renew", "promote", "failing"} => wk[w].attempt # NoAttempt

\* A running request has embedded the chunks before its offset, and all of
\* them once it comes to promotion.
PrefixEmbedded ==
  \A w \in Workers :
    wk[w].pc # "idle" =>
      \A i \in Chunks(versions[wk[w].version].content) :
        i < wk[w].offset \/ wk[w].pc = "promote"
          => <<wk[w].version, i, wk[w].space>> \in embedded

\* The inductive invariant behind the safety properties above.
IndInv ==
  /\ TypeOK
  /\ RequestsWellFormed
  /\ AttemptsDrawn
  /\ SingleWriter
  /\ ActiveIsNewestReady
  /\ AttemptHoldsItsContent
  /\ PrefixEmbedded
  /\ ActiveFullyEmbedded

\* Activation only moves to newer versions: nothing, and no stale request,
\* brings an older version back.
ActiveOnlyAdvances == [][active' >= active]_vars

\* A request whose attempt was superseded changes neither the version rows nor
\* the active version, whatever it still does (docs/architecture.md:107).
StaleAttemptIsInert ==
  [][\A w \in Workers :
       wk[w].attempt # NoAttempt /\ wk'[w] # wk[w]
         => \/ versions[wk[w].version].attempt = wk[w].attempt
            \/ UNCHANGED <<versions, active>>]_vars

\* While its lease runs an attempt loses its version only by its own promotion
\* or failure; other requests cannot take it over.
LiveLeaseExclusive ==
  [][\A v \in InProgress :
       versions[v].lease = "live" /\ versions'[v].attempt # versions[v].attempt
         => \E w \in Workers : /\ wk[w].attempt = versions[v].attempt
                              /\ wk[w].version = v
                              /\ wk[w].pc \in {"promote", "failing"}]_vars

\* A document without an index is never stuck: whatever became of the attempts
\* made so far, crashes included, the next one can be drawn, until a version is
\* active or the bound on attempts is reached.
NeverStuck == <>(active # 0 \/ attempts = MaxAttempts)

\* The searchable index as a reader of the active version sees it.
Index == INSTANCE ActiveIndex WITH
  number  <- active,
  content <- IF active = 0 THEN NoContent ELSE versions[active].content,
  covered <- IF active = 0 THEN {} ELSE Covered(active, servedSpace)

\* Processing implements the abstract index: each step replaces it by a whole
\* newer version or leaves it alone.
ImplementsActiveIndex == Index!Spec

\* "failed attempts never activate partial indexes" (README.md:299): with no
\* request running, the searchable version is embedded in a space completely
\* or not at all.
NoPartialIndexServed ==
  (active # 0 /\ \A w \in Workers : wk[w].pc = "idle")
    => \A s \in Spaces : Covered(active, s) = {} \/ FullyEmbedded(active, s)
=============================================================================
