# Spurel: a verification project

TLA+ models of Spurel's backend (`src/backend/src/spurel`), the TLC runs that
check them on small instances, and TLAPS proofs for every instance of all of the
properties they check but one, the liveness property (two of them under a condition
that section 4 states). Paths below are relative to `src/backend/src/spurel` unless they
start with `docs/`, `src/` or `README.md` (the repository's own documents).

Spurel ingests documents, splits them into chunks, embeds the chunks, answers
vector, keyword and hybrid searches over them, records every search as a trace,
measures retrieval quality on evaluation datasets, and answers questions from the
chunks it finds. It is an asyncio server over PostgreSQL; there are no background
workers and no queues. Every long operation is an HTTP request that holds state
between awaits, and any request can stall, fail, be cancelled or die with the
process. The correctness of the system therefore rests on row locks, on values
that are checked again after an await, and on the order of transactions.

## 1. Inventory

| Component | State it keeps | Operations | Talks to |
|---|---|---|---|
| Document upload (`documents/upload_service.py`, `infrastructure/storage/local.py`) | blob objects, temporary files, `documents` rows | put, validate sizes, register, compensate | file system, database |
| Document processing and chunk versions (`documents/processing.py`, `chunk_pipeline.py`, `chunk_service.py`, `sqlalchemy_chunk_repository.py`, `embeddings/pipeline.py`) | `document_chunk_versions`, `document_chunks`, `chunk_embeddings`, `documents.active_chunk_version` | stage, reuse, reclaim, renew, embed a batch, promote, fail | chunkers, embedding provider, database |
| Chunkers (`infrastructure/chunking`) | none | splitting by characters, tokens, separators, headings, sentences | processing |
| Parsers (`infrastructure/parsing`) | none | text, PDF, OCR | processing |
| Provider adapters (`infrastructure/embeddings`, `infrastructure/generation`) | none | HTTP calls | processing, retrieval, answers |
| Retrieval (`retrieval/`) | none | vector, keyword, hybrid search, reranking | database, providers |
| Retrieval traces (`retrieval/traced.py`, `trace_*.py`, `tracing.py`) | `retrieval_traces`, results | record, list, read, compare | retrieval |
| Schema and migrations (`src/backend/migrations`) | tables, constraints, `alembic_version` | upgrade, downgrade | database |
| HNSW tooling (`retrieval/hnsw.py`) | optional indexes | inspect, build, benchmark | database |
| Retrieval metrics (`retrieval/evaluation.py`) | none | recall, precision, MRR, nDCG | evaluation |
| Evaluation datasets (`evaluation_datasets/`) | datasets, cases, judgments | create, add a case, load, audit | documents |
| Benchmark runs (`execution.py`, `run_service.py`) | `evaluation_runs` | load, search, load again, save | retrieval, datasets |
| Baselines (`baseline_*.py`) | baselines, promotion history | promote, resolve, list | runs |
| Run comparison and quality gate (`run_comparison.py`, `quality_gate.py`) | none | compare, decide | runs, baselines |
| RAG answers and citation review (`rag/`) | none | pack a context, generate, review citations | retrieval, generation |
| Knowledge bases, operator access, HTTP API | rows; none; none | create and read; check a token; translate | all of the above |
| Workspace frontend (`src/frontend`) | component state | page through lists, run searches, show traces | API |

The components meet in the database. `documents.active_chunk_version` is the hub:
processing moves it, searches and judgment checks read it, benchmark runs depend
on it standing still. The behaviours that are hard, and what has to be true in
spite of them:

* **Processing.** Two requests on one document, either of which may be
  arbitrarily slow; a lease that runs out during a provider call; a crash or a
  cancellation that skips the cleanup; a commit whose acknowledgement is lost.
  What is searchable must be one whole version at a time, and it must never go
  back; a superseded request must be harmless; a crash must not block the
  document for ever.
* **Upload.** Bytes and metadata live in two stores without a common
  transaction. A registered document must have the bytes its metadata declares,
  and an error answer must leave nothing behind.
* **Datasets and runs.** READ COMMITTED gives each SELECT its own snapshot.
  Labels must be about the active version when they are stored, and a saved run
  must have been measured on one dataset and one index.
* **Retrieval.** The two branches of a hybrid search read in separate sessions.
  An answer must hold only chunks that were active, in an order both branches
  support, and it must be the one its trace records.
* **Answers.** A second, fallible call to a model reviews what a first one said.
  It must neither lose the answer nor claim more than was reviewed.
* **Schema.** Sixteen revisions, up and down, over rows written by any release in
  between; an index that is built outside of transactions.
* **Baselines.** Concurrent promotions; the resolved baseline and the newest
  entry of the history should agree.
* **Pure parts** (chunking, page provenance, context packing, metrics, gates):
  progress, coverage and limits at boundaries, where one part's output is another's
  input and is checked again.
* **Frontend.** Answers that arrive after the request that asked for them was
  superseded; paging over lists that grow.

`PROJECT.json` lists every component with its status and every hazard with its
line and with the properties that cover it.

## 2. The modules

| Module | Models | Checked |
|---|---|---|
| `ActiveIndex` | what processing promises to everything that searches (abstract) | its `Spec` is the property `ImplementsActiveIndex` |
| `ChunkVersions` | versions, leases, embeddings and requests of one document | 3 invariants, 3 action or refinement properties, 1 liveness property |
| `DocumentUpload` | blob storage, registration, compensation | 2 invariants |
| `Chunking` | one text split by any of the five strategies | 4 invariants, 1 action property |
| `DocumentIngestion` | reading back, parsing, OCR, splitting, page provenance, validation; extends `DocumentUpload` and `Chunking` | 2 invariants |
| `OrmSchema` | the schema that the persistence classes declare | compared with by `HeadIsDeclared` |
| `SchemaMigrations` | all revisions, up and down, over rows of any age | 3 invariants, 1 action property |
| `HnswIndex` | the index tool beside the migrations; extends `SchemaMigrations` | 1 invariant, 1 action property |
| `HybridRetrieval` | searches in every mode, fusion, reranking, traces, activations | 3 invariants |
| `TraceAnalysis` | comparing and measuring stored traces; extends `HybridRetrieval` | 2 invariants |
| `RagAnswer` | answers on a search and their review; extends `HybridRetrieval` | 2 invariants, 1 action property |
| `EvaluationRun` | cases being added, benchmark runs, activations | 3 invariants, 1 action property |
| `QualityGate`, `QualityGateDecision` | comparison of two runs and the verdict, as operators; one decision over any two runs | 3 invariants |
| `BenchmarkGate` | `spurel-benchmark-gate` jobs, promotions by hand, baselines and their history | 3 invariants |
| `ChunkVersionsProofs`, `EvaluationRunProofs`, `ChunkingProofs`, `RagAnswerProofs` | theorems about the module of that name | section 4 |
| `DocumentIngestionProofs` | theorems about `DocumentUpload` and `DocumentIngestion`; extends `ChunkingProofs` | section 4 |
| `DatabaseToolsProofs` | theorems about `HnswIndex` and `SchemaMigrations` | section 4 |
| `HybridRetrievalProofs` | theorems about `HybridRetrieval` and `TraceAnalysis`; `RagAnswerProofs` extends it | section 4 |
| `BenchmarkGateProofs` | theorems about `QualityGateDecision` and `BenchmarkGate` | section 4 |
| `MC…` | small instances | |

Each module also defines, next to the operator it changes, the wrong variants
that `PROJECT.json` names as mutants: a dropped guard, a check by the wrong key,
an off-by-one. They are used by no run; replacing the operator by its variant
makes TLC report the property it is paired with.

### ChunkVersions

One document; requests on different documents touch disjoint rows. Every
repository method is one transaction that locks the document's row, hence one
action:

| Action | Code |
|---|---|
| `Stage` (`StageReuse`, `StageReclaim`, `StageNew`) | `replace_for_document`: recover an expired attempt, then reuse the active version, take a failed newest one over, or add a version |
| `Renew`, `RenewRejected` | `renew_version`, before each batch |
| `EmbedBatch` | one turn of `DocumentEmbeddingPipeline.run`: page, provider, upsert |
| `Promote`, `PromoteRejected` | `promote_version` with its fence and its count of embeddings |
| `CallFails`, `FailVersion` | the `except` path of `process` and `fail_version` |
| `Vanish` | process death, cancellation (`CancelledError` is not an `Exception`), a lost answer of the staging commit, `fail_version` failing |
| `LeaseExpires` | thirty minutes pass without a renewal |

`versions` is the table of versions, `embedded` the table of embeddings, `wk` what
each request holds between awaits. A request may wait for ever between any two
actions, which is how a slow provider call outlives a lease. `Promote` may commit
and still report an error to its caller. A rejected staging (409) changes nothing
and is no action. `servedSpace` is a history variable: the space the last
promotion verified.

Paging the chunks, calling the provider and upserting the vectors are one action
although the code awaits in between: a version's chunks never change once they are
stored, and the upsert checks no attempt and adds rows under the request's own
version, so what other requests do in between is seen by neither. A failure in
between is `CallFails`, before the upsert.

### EvaluationRun

A load of the dataset is one action per SELECT (`CountCases`, `CountJudgments`,
`ReadCases`, `ReadJudgments`, `Audit`); between them cases are committed and
documents are activated. A run loads, searches (`Retrieve`, one action for each
search of each query), loads again and is saved (`Save`, a transaction of its
own). Adding a case follows PostgreSQL's `SELECT … FOR SHARE`: the statement takes
a snapshot (`BeginAdd`), locks documents one by one and evaluates again those that
changed (`LockDocument`), then inserts and commits (`CommitCase`). `Activate` is
`promote_version` of ChunkVersions: it waits for shared locks and only moves
forward, which `ActiveOnlyAdvances`, proved there, justifies.

Abstractions: a rejected add releases its locks at once, while the code holds
them to the end of the statement (fewer interleavings are excluded, none added to
those of a committed case). Metrics are left out; what matters is which index and
which dataset each search saw (`seen`, history).

### DocumentUpload

Sizes are counted in chunks of the stream. `temporary` is the file `put` writes,
`blob` the object under the final key, `row` the committed metadata. Uploads have
fresh ids and keys and do not interact; two of them show that. A failing unlink
is swallowed by `_remove_if_exists`, so `RemoveTemporary` may leave the file.
`CancelPut` lets a rename that was already handed to its thread still happen.

### Chunking

A text is a sequence of kinds of characters, the ones the chunkers tell apart:
parts of words, full stops, other sentence ends, blanks, line breaks, heading
marks, fences, and characters of several tokens. `TokenCount` is the tokenizer:
any function of excerpts, so that merging may make a longer excerpt cheaper. One
action is one turn of a loop: `FixedWindow`, `StructuredWindow` (with
`PreferredEnd`, `NextStart` and `Emitted` for where a window ends, where the next
one begins and what of it is kept) and, for tokens, `TokenWindow`, the probes of
the two binary searches (`ProbeEnd`, `ProbeOverlap`) and what they find. `Begin`
holds the constructor's checks, the refusal of blank text and the estimate of the
number of windows, which the code computes in floating point and the model in
whole numbers (equal up to the sizes the code accepts).

Three things the code does that a reader may not expect, all allowed by the
properties: a chunk may lie wholly inside the one before it (the overlap repeats
a tail, as in `w\nf\nhwwww\nzz` with size 4 and overlap 3); token windows may end
before the previous one did, where longer text has fewer tokens; and a binary
search finds an end that fits, not always the farthest.

### DocumentIngestion

One processing request, from the lookup of the row to the chunk set handed to
staging, while uploads run. `ParseText` picks any text; a PDF is opened, read page
by page with or without OCR (`ReadPage`, `RefusePage`) and closed (`ClosePdf`),
which strips the text and moves the page spans. What pypdf and Tesseract return is
an input. `Annotated` gives a chunk its pages, `ValidChunkSet` is the service's
own validation, whose refusal (`stage = "invalid"`) `SetsAreValid` excludes.
The size test of ingestion (`Readable`) never refuses a registered document, as
`NeverTruncated` says that it has its bytes.

### SchemaMigrations and OrmSchema

A schema is a set of objects (tables, columns, constraints, indexes, references). A
revision is the sequence of `alembic.op` calls it makes; `Execute` is what
PostgreSQL does with one: it refuses an operation on something missing or present
twice, or one after which the rows break a constraint, and then the transaction is
undone and `refused` set. `Execution` is the database before the operations of a
revision and after each of them, as a function of their number. `Effect` carries the
data statements (0011 invents a version for old chunks and discards history on the
way down; 0012 settles statuses; 0010 widens Alembic's own column, without which its
own name does not fit). Chunks are made by old releases (`LegacyProcess`,
`LegacyEmbed`, external) and by the present one. `HeadIsDeclared` compares the
result with `OrmSchema`, which is read off the persistence classes.

The lengths of names are facts about literals: `ObjectNamesFit` (no name a revision
adds exceeds PostgreSQL's 63 bytes) and `RevisionNamesFit` (the names before 0010
fit the 32 characters Alembic makes its column, the later ones fit 64). TLC computes
both in every run; the proofs, to which a string is opaque, take them as
assumptions. That the column is wide when a long name is written is not assumed:
it is part of what is proved.

### HnswIndex

Two people run `status`, `build` and `benchmark` while migrations and processing
go on. A build is three transactions: look, `CREATE INDEX CONCURRENTLY IF NOT
EXISTS`, look again; the middle one may end invalid, or go on after the tool died
(`Lost`, `OrphanEnds`). An invalid index makes every later build and benchmark
fail until a person removes it; that is what the code does, and `BuildReports`
says that it never reports success instead.

A benchmark asks its exact and its approximate query in two transactions, and
only the exact one breaks ties by id. `RetrievalQuery` is the set of results either
may return of the rows it comes to see: all served ones for the exact query, any of
them for the approximate one, whose scan may miss some. `Distances` holds what a
sampled vector's distances to the chunks may be. A recall below 1 is read as a loss
of the index. `LossHasACause` says what else it may be: a version activated between
the queries, which takes a chunk away or puts one in the place of another, or a chunk
equally near in the place of the lost one. That nothing else can cost recall is what
the property adds to the code's "only the access path differs".

### HybridRetrieval

What a query thinks of the chunks is a ranking by vector distance and one by
words, both chosen at the start; a branch's SELECT keeps the active chunks of the
documents its filter lets through (`Candidates`), sorted by `Listed`: the i-th of
a set in an order is the one with i - 1 before it, which is how every sorted list
of this module and of `TraceAnalysis` is defined. A search is in one of three
modes; a hybrid one reads its branches in either order, `Fuse` sums
`1 / (rrf_k + rank)` exactly, in units of `1/Unit`, and breaks ties by chunk id.
The code adds floating point numbers: two sums that are equal as fractions of
different ranks may differ by a rounding error there, and the chunk id then does
not decide; no property depends on the order of such a pair. `Rerank` may put the
pool in any order. One chunk per version suffices, since the properties only tell
versions and identities apart; that two branches never disagree on a chunk's text
(`_get_or_create_candidate`) follows from chunks being immutable and is not
modelled.

`Record` checks the trace as `RetrievalTrace.create` does (`Accepted`) and stores it
before the answer is returned; `RecordFails` covers a refused trace, and an error
before and after the commit. Scores are numbers with one exception: a stored vector
or a query of zeros passes `EmbeddingVector.create`, pgvector's cosine distance for
it is NaN, which sorts last, and a trace holding such a score is refused. `Measured`
gives, for each query, the chunks whose cosine is a number (`Finite`). Keyword and
RRF scores are sums and ranks of finite numbers, and `HttpCrossEncoderReranker`
refuses a score that is not finite before there is a trace.

### TraceAnalysis

Operators only. `Comparison` aligns two traces (`Aligned`, sorted by `ByRanks`)
and counts, `Metrics` holds the numerators and denominators of all ratios, with
`Sums` for the loop that adds up a DCG. `AnalysisAssumption` says of traces stored
earlier, of judgments and of the discount what the code and its tables guarantee:
a trace holds a chunk once and its ranks stay below `NotRanked`, the number that
stands for "not in this trace" (101 in `trace_comparison.py`, where
`retrieval_trace_results` allows ranks up to 100), grades are 0 to 3 and one is
positive. That the traces of the searches themselves are like that is proved
(`TracesWellFormed`). The discount of nDCG is given by
`Discount`, positive and falling; the code's `1/log2(rank + 1)` is one such, and
no property depends on another fact about it.

### RagAnswer

`Ask` takes the matches of a traced hybrid search and packs the context
(`Packed` is one turn of `_build_context`, `Turns` the loop: what was packed after
so many results), `Generate` is the first call,
`Review` the second with its validation, `Respond` the HTTP response. An answer
is the pieces that `_SENTENCES_RE` splits it into; a claim is a piece that is more
than labels. Lengths are counted by the code's own sum, which leaves out the two
characters that join two sections, so the prompt may be up to 38 characters longer
than the budget. A piece that is nothing but labels is no claim, so an unknown
label on a line of its own goes unreported. A claim may cite more than 20 labels,
of which only known ones reach the model; the response schema allows 20
(`schemas.py:47`), and an answer with more ends in an error after both calls were
paid for. `ReviewKeepsAnswer` states this as the one way an answer is lost.

### QualityGate and QualityGateDecision

`Gate` is `evaluate_quality_gate` on what `compare_evaluation_runs` makes of two
runs. A run is the query of each case it evaluated and its aggregates. The code
compares floating point numbers with a tolerance of `1e-12`; the model compares
whole units exactly, and says nothing about differences below the tolerance.
Thresholds of drops are at most 1 like the metrics themselves, and both are in
`0 .. MaxValue`; durations have no upper limit in the code. Configured metrics are
either all unavailable (the runs asked different questions) or only coverage is.

### BenchmarkGate

The baselines of one dataset. A job is a `spurel-benchmark-gate` process, an
operator one `PUT …/baselines`; each step of a job is one request, carried out by
the server whether or not its client still waits:

| Action | Code |
|---|---|
| `StartJob`, `Evaluate`, `Resolve`, `Decide` | the steps of `run_benchmark_gate_cli`; `Evaluate` saves the candidate's run, `Decide` is `Gate` and the exit code |
| `StartOperator` | an operator picks a saved run |
| `ReadRun`, `Commit`, `CommitFails` | `EvaluationBaselineService.promote`: the run is read and `promoted_at` is taken, then one transaction upserts the baseline and appends its snapshot |
| `TimesOut` | the client gives up: exit code 3 |
| `Disconnects` | the connection breaks after the request: an exception nobody catches, exit code 1 |
| `CallFails` | an error answer, nothing done |
| `AddCases`, `Tick` | cases are added to the dataset; time passes |

A command that lost its client goes on until the request under way is done and
sends no other (`GoTo`). A configuration is its fingerprint; SHA-256 and uuids are
assumed not to collide. What a benchmark does is `EvaluationRun`; here it is one
action that may come out with any of the metrics in `Measured`.

## 3. The runs

| Run | Instance | Distinct states | Shows |
|---|---|---|---|
| `chunk_versions` | 2 requests, 2 contents (2 and 3 chunks), 2 spaces, batches of 2, 3 versions, 3 attempts | 318,173 | safety, action and refinement properties of ChunkVersions, that `IndInv` is an invariant, and `NeverStuck` under `FairSpec` |
| `chunk_versions_partial_space` | 1 request, 1 content, 2 spaces | violation | `NoPartialIndexServed` fails |
| `document_ingestion` | 1 upload of up to 2 blocks (3 offered), every text of up to 4 characters and 11 longer ones, 7 PDFs, sizes up to 4 characters or 3 tokens, 5 chunks | 931,232 | no truncated document, no false answer, no text lost, nothing refused late, exact pages |
| `database_tools` | 2 documents with up to 2 chunks in all, 2 distances, 2 operators, 2 commands, 16 revisions | 66,969 | migrations are never refused and end where the classes say; builds report the truth, and lost results have a cause |
| `retrieval_answers` | 1 search, 2 documents with 2 versions, 15 pairs of rankings, 2 filters, `candidate_k` 3, `top_k` 3, 6 answers, 43 replies, with all cosines numbers, or the first one or two | 187,299 | results were active, fairly fused and traced unless a cosine is NaN; contexts, reviews, comparisons and metrics |
| `hybrid_retrieval_mixed` | 1 search, the same documents, 96 pairs of rankings, `top_k` 2 | violation | two versions of one document in one answer |
| `evaluation_run_safety` | 2 runners, 3 cases, 2 documents with 2 versions, limits of 2 cases and 2 judgments, 2 saved runs | 383,543 | saved runs are about one dataset and one index |
| `evaluation_run_audit_limit` | 1 runner, judgment limit 1 | violation | the audit's LIMIT hides a stale judgment |
| `quality_gate` | 3 metrics (one of each kind) with values 0..2, 3 case sets | 1,469,664 | what a pass and a failure mean; improving never fails |
| `benchmark_gate` | 2 CI jobs, 1 operator, 2 configurations, 3 outcomes of a benchmark, 1 case added, clock 0..1 | 948,576 | exit codes, promotions and history agree |
| `benchmark_gate_history` | the same, 1 configuration | violation | the history does not list the baseline in force first |
| `benchmark_gate_exit` | the same | violation | exit code 1 without a regression |

The type invariants and the narrower invariants of a module (`TypeOK`,
`SingleWriter`, `AttemptHoldsItsContent`, `SplitTypeOK`, …) are conjuncts or
consequences of what is checked and are theorems of section 4; they are not listed
in the configurations again.

**Bounds.** ChunkVersions: three versions and attempts allow one completed, one
failed or expired and one current version, the most any guard relates (active,
newest, another); one content fills its only batch and takes an empty one to end, the
other has a full batch and a short one: both ends of the batch loop. The bounds are guards on `StageReclaim` and
`StageNew` only, and the theorems hold for every value of them. EvaluationRun:
two runs read concurrently with each other's savings; three cases allow the
dataset to be below, at and above its limit; `Branches` is 1, as a second search
of the same query is one more `Retrieve` and nothing depends on which query a
search belongs to.

DocumentIngestion: a stream is shorter than, equal to or longer than declared and
than the maximum; uploads have fresh ids and do not interact, so one is enough.
Short texts are tried exhaustively over four kinds; the longer ones bring headings
and fences, initials before a full stop, words longer than a window, and a
tokenizer that merges three characters of a word into one token. Of every limit
there are texts on both sides. The theorems about `Chunking` need none of this.

HybridRetrieval: with four chunks and `candidate_k` 3 a cut drops something;
searches share no state but the traces, which are keyed by search, so one search
and two older traces are enough. The rankings by distance put each version first,
in the middle and last, the ones by words are empty, partial and whole. RagAnswer:
11 characters hold two short chunks but no third; one chunk is longer than a whole
context and one is blank; answers have known, unknown, no and too many labels and
more pieces than a review takes.

SchemaMigrations: two chunks may be one set, two versions of one document with the
same chunk index, the least that a unique index can confuse, or chunks of two
documents, of which one is activated while the other loses its place in a result;
the second chunk is nearer or as near as the first, and `TopK` 1 makes them compete.
Two commands of two operators race a build with a build, a benchmark or a status. QualityGate: a change may be to the better, within
a threshold and beyond it; precision, MRR and nDCG are checked by the code that
checks recall. BenchmarkGate: two promotions of one configuration, of two
configurations, of one run twice and of a run by hand while a job gates against it
all fit into two jobs and an operator; two instants order any two timestamps.

**Deadlock** is not checked (`CHECK_DEADLOCK FALSE`) because every model ends:
bounded identifiers run out, and uploads, documents, added cases and searches are
requests that happen once.

**Symmetry** is used where no operator chooses among the values: for the runners
of `evaluation_run_safety`, the operators and documents of `database_tools` and the
configurations and jobs of `benchmark_gate`. No run with a liveness property uses
it.

**Fairness** (`FairSpec`, in `chunk_versions`): weak fairness of a request's own
steps (an uninterrupted coroutine runs on), of staging (a client that got no index
asks again) and of `LeaseExpires` (time passes). Nothing makes a call fail or a
request vanish, and nothing prevents it. `NeverStuck` says that after each
attempt, however it ended, either an index is active or another attempt is drawn;
it does not say that processing ever succeeds, which the provider decides.
attempts are counted up and an index stays, so one eventuality says it for all of
them, up to the last attempt the bound allows. That the chunkers
terminate needs no fairness: `AlwaysAdvances` bounds the number of their turns.

### What the violations say

Each is a statement of the repository that the code does not keep; the
counterexamples are short and realistic.

1. *Partial index in a new space* (`chunk_versions_partial_space`). Reprocessing
   an unchanged document with another provider or model reuses the active version
   and writes its vectors batch by batch, without lease or promotion. After an
   interruption searches in the new space silently see part of the document.
2. *Audit limit* (`evaluation_run_audit_limit`). The counts, the rows and the
   status rows of a load are separate snapshots, and the status query is cut at
   the limit. A case committed at the right moment hides a stale judgment of the
   run's own cases.
3. *Two versions in one answer* (`hybrid_retrieval_mixed`). An activation between
   the two branches' SELECTs.
4. *History out of order* (`benchmark_gate_history`). `promoted_at` is taken before
   the transaction that waits for the baseline's row: of two promotions the older
   timestamp may commit last, and the history shows the other one first.
5. *Exit code 1 for a broken connection* (`benchmark_gate_exit`). What `urlopen`
   raises while it waits for an answer is not always a `URLError`; a
   `RemoteDisconnected` ends the process with Python's own status 1, which CI reads
   as a regression, even after the candidate was promoted.

Three more were met while modelling and have no run of their own. A load of an
evaluation dataset reads case rows and judgment rows in two statements: a case
committed in between makes `load_cases_for_evaluation` raise a `KeyError`
(`sqlalchemy_repository.py:318`; `rn[r].pc = "crashed"` in `EvaluationRun`), and
one committed after the count is evaluated beyond the limit, until the second load
notices. And `upload` deletes the bytes of a document whose row was committed
although the commit reported an error (`upload_service.py:109`;
`RegisterFails` in `DocumentUpload`). And a search that succeeded fails when its trace
is refused for a cosine that is not a number (`tracing.py:226`), although
`TracedVectorRetrievalService` means to record "successful vector searches without
changing the core retriever" (`traced.py`); `AnswersAreTraced` states it as the only
cause.

## 4. What is proved

`ChunkVersionsProofs` proves, for every number of requests, versions and attempts,
every set of contents and spaces, every chunk count and every batch size allowed
by `ContentAssumption`, `SpaceAssumption` and `BoundAssumption`:

* `Invariance`: `Spec => []IndInv`, and from it `TypeCorrect`,
  `SingleWriterAlways`, `NewestReadyServed`, `ServedIndexComplete`,
  `AttemptContentHeld`, `PromotionCovered`;
* `ActiveAdvances`, `StaleInert`, `LiveLeaseHolds`: the three action properties;
* `Refinement`: `Spec => ImplementsActiveIndex`.

The argument. None of the safety properties is inductive alone. That the active
version is the newest ready one needs that only the newest version can be in
progress (`SingleWriter`), so that a promotion always moves forward. That no two
requests hold one attempt needs that attempts are drawn from a counter no request
or row is ahead of (`AttemptsDrawn`). That a promotion covers its version needs
that a request's offset trails what it embedded (`PrefixEmbedded`), that pages end
where the content ends, and that it still works on the chunks it computed
(`AttemptHoldsItsContent`), also when it took over the rows of another attempt.
`IndInv` is the conjunction; TLC checks it first. The proof goes by action: what
each operation does to the rows is a lemma (`ReuseRows`, `ReclaimRows`, `NewRows`,
`RenewRows`, `ReleaseRows`, `ExpireRows`), what the others do to a request is
`GoodStays`, and the arithmetic of batches is `BatchIsPage` and `CountIsEvery`.
For the refinement, a promotion is `Publish`, every other step a stutter.
Attempt identifiers are modelled as a counter: random UUIDs are assumed distinct.

`BenchmarkGateProofs` proves of `QualityGateDecision`, for every set of metrics and
every bound on their values, that a pass is within all thresholds
(`PassWithinThresholds`), that a failure has a regression to show (`FailRegressed`)
and that the gate is monotone (`Monotone`). The invariant is that the answer is the
gate's (`Decided`); the rest is that thresholds ask for something, so that an
evaluable comparison is one of the same questions (`EvaluableIsComparable`), and
that what is available is known on both sides (`AvailableKnown`).

It also proves the invariants of `BenchmarkGate`, for any number of jobs and
operators, any configurations, thresholds and outcomes. A saved run never changes,
so a verdict stays true once it was reached: `Sound(j)` ties each step of a job, and
its exit code, to the runs it compared, and `Passed(j)` to a gate that let it
through, also after its client has left. `Chosen(o)` says that an operator's run is
saved. That a row of the history and the row of the table carry one id needs that
two rows of one configuration never exist, which the upsert keeps. What "pass" means
is taken from the lemmas about the gate. `HistoryNewestFirst` and
`ExitOneIsARegression` are violated.

`DocumentIngestionProofs` proves the three invariants of `DocumentUpload` for any
number of uploads and sizes. Each step touches one upload (`Step(u)`), so the
invariant is a statement about one: `Honest(u)` says, stage by stage, how much the
temporary file and the object hold and whether the row is there. The cancelled
`put` is the delicate stage: its object may be whole or absent, and its row never
exists.

`EvaluationRunProofs` proves, for any documents, versions, cases, runners and
limits, that saved runs cover the dataset (`RunsCover`) and keep its limits
(`RunsWithin`), and that labels are active when they are stored (`LabelsActive`).
Cases are only ever added: what the first load read is contained in what every
search saw, and that in what the second load reads (`Reading(r)`); a run is saved
only when the two loads are equal, so that everything between them is equal too.
The labels need `Locking(c)`: a row lock a request holds is on a document whose
active version is the one of its label, as an activation has to wait for it.

That a saved run was measured on the index its labels were made for is
`UncutRunsScore`: `[](Uncut => RunsScoreJudgedIndex)`. The argument is a squeeze
(`Scoring`): after the first audit no label is newer than what is active, hence
none newer than what any search sees; after the second none is older; and versions
only advance. It works for every label the audit reads (`RunsScore`, without a
condition). The audit is cut at the limit plus one row, and a load refuses a
dataset above the limit from a count it took earlier: `Uncut` says that cases added
in between take the labels at most one beyond the limit. Where they go further the
property is false, which is what `evaluation_run_audit_limit` shows.

`ChunkingProofs` proves, for all texts, options, limits and every tokenizer
(`TokenCount` is only assumed to return natural numbers), that spans lie in the
text (`SplitTypes`), that no text is lost (`SplitLosesNothing`), that chunks fit
(`SplitFits`), that every turn and probe makes progress (`SplitAdvances`) and that
the estimate of fixed splitting is exact (`SplitEstimateIsExact`). The invariant
has three parts: `Core` says that the chunks so far cover the letters before the
next window and that each fits; `Searching` that a binary search holds, between
`low` and `high`, an end that is known to fit; `Counting` that the windows taken
are the position divided by the step. One lemma per action shows what it keeps;
the arithmetic of the estimate is `CeilingCounts` and `CeilingIsTight`.

Neighbouring chunks share at most the overlap asked for and never a heading, and
those measured in characters end in order: `SplitOverlapIsBounded`,
`[](Gentle => OverlapIsBounded)`. For the strategies that measure characters
`Gentle` is true and the theorem unconditional. For `tokens` it asks that an excerpt
of at most the overlap's tokens does not count more when it is cut at its beginning.
That is needed because a window of blanks becomes no chunk: the next chunk then
shares with an older one the rest of an overlap that was measured when it was
longer, and a tokenizer may count a tail higher than the whole. `OverlapInv` follows
the search for the overlap probe by probe (`Shares` holds of `best` and the end of
the window) and says what a chunk further back may still share (`Behind`).

`DocumentIngestionProofs` also proves the composition: `IngestionInvariance` for
uploading, reading back, parsing, OCR, splitting and validation together, from
which the theorems of both parts hold of it (`IngestionLeavesUploads`,
`IngestionLosesNothing`, `IngestionFits`, `IngestionAdvances`,
`IngestionOverlapIsBounded`), and two that belong to neither alone.
`IngestionSetsAreValid`: the service's own validation refuses no set a chunker
produced; it needs that splitting only begins with a text that is not blank
(`Staging`) and that no chunk is. `IngestionProvenance`: every chunk
names exactly the pages its text is from. Its invariant, `Located`, says of the
pages read so far that each span quotes its page and that no letter is outside of
all spans; closing a PDF moves them by what was stripped.

`HybridRetrievalProofs` proves, for any documents, rankings, filters, modes,
limits, `rrf_k`, numbers of searches and activations meanwhile, that every answer
was active while its search ran (`AnswersServeActive`), that a trace is refused only
for a cosine that is not a number and each answer is the one its trace holds
(`AnswersTraced`), and that fusion never
puts a chunk behind one that both branches rank lower (`FusionRespects`). The
invariant (`SearchesInv`) says of each search by itself that its branches are
rankings of chunks it was served, none twice, within their limits, and that its
results are made of them. Fusion is sorting by scores: `ListedIsSorted` shows, by
counting the members before a member, that `Listed` of a strict total order holds
each member once and in order, and `DominatorScoresHigher` that a chunk no branch
ranks lower scores higher, since shares of the unit fall with the rank
(`ShareByDepth`). `RagServesActive`, `RagTraced` and `RagFusionRespects` carry this
over to searches under answers (`RagSearches`: answers only add steps that leave
the searches alone).

It proves the properties of `TraceAnalysis` as well, for any two traces, any
judgments and any falling discount. `TracesWellFormed` is the invariant they rest
on. `ComparisonsKeepRankings`: `AlignedIs` counts predecessors once more, so that
the first ranking comes out as it was and then the rest of the second in its order;
without a sentinel above all ranks this fails, which is the property's mutant.
`MetricsStaySound`: that nDCG never exceeds one and its ideal is never zero
(`DcgAtMostIdeal`) splits a DCG by grade. A gain `2^g - 1` is one for grade 1 or
better, two more for 2 or better, four more for 3 (`DcgByGrade`), and for each
threshold no ranking has more ranks that reach it than the ideal one
(`IdealReaches`), nor can they count more than the first ranks do (`HitsAtMost`).
That moving the better of two neighbours up raises nDCG when the first of them is
within the cutoff, and never makes the first relevant rank later, is `SwapIsSound`.
`RagComparisonsKeep` and `RagMetricsSound` say the same of the traces of searches
under answers.

`RagAnswerProofs` proves `ReviewIsHonest` and `ReviewKeepsAnswer` for all answers,
replies, chunks and limits. The invariant (`RagInv`) ties the findings to the
answer and to the sources, stage by stage: until a review is over they are what
`Findings` computed, and afterwards what `Finished` made of them with a reply that
`ValidReply` accepted. `OneVerdict` is the step that needs the validation: a valid
reply speaks of each claim once.

`ContextFaithful` is the theorem about the context: it keeps to its budget, quotes
the best results in their order, whole unless the first alone is too long, and
leaves out nothing that would fit next. `Turns` is a function of the number of results packed; what
its loop keeps is proved by `SetInduction`, induction stated as a fact about sets of
numbers with a least element, which needs no operator as a parameter.

`DatabaseToolsProofs` proves of the index tool, for any number of operators,
commands, distances and rows and whatever is migrated beside them, that what the
approximate query lost has one of the three causes (`LossesHaveCauses`) and that a
build reports success only with a valid index (`BuildsReportTruly`). `ToolInv` is
about commands and which steps each may be at; `ProbeInv` about the probes: each
result is one its query may return of the rows it saw (`QueryTakes`). What was lost
was then displaced or not reached (`LossIsExplained`): both results are as large as
the limit and their rows allow, so something else stands in its place, and of two
chunks either query might have preferred, each query's order excludes one, unless
they are equally near. Proving it found a
`CASE` in `Inspect` whose conditions overlapped: TLC takes the first that is true,
TLA+ leaves the choice open. The conditions are apart now.

Of the migrations it proves, for any documents and chunks and after any sequence of
upgrades, downgrades and releases at work, that an active version is one whose row
says ready (`ActiveVersionsReady`) and that no migration between revisions that have
embeddings changes what is served (`MigrationsKeepServed`). The invariant
(`MigrationInv`) says that the rows fit the few objects of the schema they depend on
(`Keys`), that these are the ones of the revision (`KeysAt`), and from the revision
that adds statuses on that active versions are ready. Most operations touch none of
these objects and keep the rows, whatever these are (`Neutral`); 0002 to 0004, 0011
and 0012 are taken operation by operation, up and down. The backfill of 0011 makes
version one of old chunks and serves them as before; its downgrade deletes chunks
that were not served.

No migration is ever refused (`MigrationsNeverRefused`), and at the last revision
the schema is the one the persistence classes declare (`HeadSchemaDeclared`), for any
documents, chunks and versions, after any walk up and down with releases at work in
between. Both follow from `SchemaInv`, which `SchemaInvariance` proves: at revision
`r` the database is `Good(db, r)`. It says three things.

* The schema is exactly `SchemaAt(r)`. This is read backwards from the declared one:
  an object belongs to every revision from the one that created its table or added it
  (`Since`), and the unique key that 0011 replaces to the revisions before that.
  `RevisionsWalk` shows of each of the sixteen that the objects its operations add
  are those of `SchemaAt(r)` not in `SchemaAt(r - 1)`, that the downgrade takes them
  back in an order in which no dropped table is referred to, and that each operation
  finds what it needs.
* The rows satisfy the constraints of the phase the revision is in (`RowsIn`): one
  chunk for each document and index up to 0010, one for each version and index after
  it; chunks refer to versions there are, no two versions of a document have one
  number, none a number above how many there are, and at most one is in progress.
  Inside 0011 both hold at once, and that is why the order of its operations matters:
  the versions are inserted before the foreign key to them exists, and on the way down
  the inactive chunks are gone before the old unique key comes back.
* Alembic's column is 64 wide from 0010 on. On the way down it stays wide.

`GrowStep` and `ShrinkStep` are the two kinds of operations that leave rows alone:
one that adds objects, one that drops them. `Ascent` and `Descent` chain them by
induction over the operations of a revision, for all revisions but 0011
(`ClimbsWell`, `FallsWell`); 0011 has its data statements and is taken operation by
operation (`VersionsClimb`, `VersionsFall`). What the releases do between migrations
keeps the rows in order: a new version is numbered by counting the ones before it
(`StagedIsNew`), and one whose status changes is the same version (`RestatedRows`).

Model-checked only. `NeverStuck`: liveness under fairness is out of the prover's
reach. The properties of the runs that expect a violation are false.

## 5. What is not modelled

* Provider adapters (HTTP calls to external services): in the models a call
  answers, fails or never returns.
* The HTTP layer: translation of requests and errors. The order of its calls is
  part of the models, and a response that fails to validate is (`Respond`).
* Read-only queries: the chunk inspector, version history, pages of traces, runs,
  baselines and datasets. Each is one SELECT over rows whose changes are modelled.
* Knowledge bases (rows are created and read) and operator access (stateless
  checks).
* The report of a run comparison case by case, and `spurel-quality-gate`, whose
  decision is `Gate` and whose requests are a part of `BenchmarkGate`'s.
* The frontend. Two of its hazards are listed in `PROJECT.json`; what they cost is
  a repeated row and a spinner, and nothing is stored.
* What libraries do with content: extraction, recognition, tokenization, full-text
  ranking, vector distance. Their results are inputs, as arbitrary as the
  properties allow.

## 6. Where to go on

The order put first what other parts rely on: the index that searches read, then
what writes and measures it, then the pure parts, then the schema below all of
them. What would add most next:

1. A composition in which `EvaluationRun` and `HybridRetrieval` take `ActiveIndex`
   for processing; today each has an `Activate` that `ImplementsActiveIndex`
   justifies.
2. The comparison of runs case by case, on top of `TraceAnalysis`.
3. The request sequences of the frontend, paging and refreshes.
