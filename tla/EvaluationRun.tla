--------------------------- MODULE EvaluationRun ---------------------------
(***************************************************************************)
(* Benchmark runs over one evaluation dataset while cases are being added  *)
(* to it and documents of the knowledge base are being reprocessed.        *)
(*                                                                         *)
(* Each SELECT sees what is committed when it executes (READ COMMITTED),   *)
(* also inside one session, so a load of the dataset is one action per     *)
(* SELECT.  A judged chunk is <<document, chunk version>>; chunk rows and  *)
(* committed cases never change and are never deleted.                     *)
(***************************************************************************)
EXTENDS Naturals, FiniteSets

CONSTANTS
  Docs,          \* documents of the knowledge base
  Runners,       \* POST .../evaluate/<mode> requests
  CaseIds,       \* POST .../cases requests, each with a fresh case id
  Judged,        \* the chunks each case judges
  Rank,          \* position of a judgment row in ORDER BY case_id, chunk_id
  Branches,      \* searches per query: 2 for hybrid, 1 otherwise
  MaxCases,      \* MAX_DATASET_EVALUATION_CASES
  MaxJudgments,  \* MAX_DATASET_EVALUATION_JUDGMENTS
  MaxVersion,    \* bound on the chunk versions of a document
  MaxRuns        \* bound on the runs saved

Chunk == Docs \X (1 .. MaxVersion)

ASSUME CaseAssumption ==
  /\ Judged \in [CaseIds -> SUBSET Chunk \ {{}}]
  /\ \A c \in CaseIds : IsFiniteSet(Judged[c])
ASSUME RankAssumption ==
  Rank \in [UNION {{c} \X Judged[c] : c \in CaseIds} -> Nat]
ASSUME LimitAssumption ==
  /\ Branches \in {1, 2}
  /\ MaxCases \in Nat
  /\ MaxJudgments \in Nat
  /\ MaxVersion \in Nat \ {0}
  /\ MaxRuns \in Nat

VARIABLES
  active,        \* documents.active_chunk_version
  cases,         \* committed cases, each with all its judgments
  adder,         \* progress of each request that adds a case
  locked,        \* document rows each of them holds FOR SHARE
  rn,            \* what each benchmark request holds between two awaits
  runs           \* persisted runs, with what their searches saw (history)

vars == <<active, cases, adder, locked, rn, runs>>

Idle == [pc |-> "idle", pass |-> 1, first |-> {}, rows |-> {}, labels |-> {},
         reads |-> 0, seen |-> {}]

Steps == {"idle", "count", "judgment_count", "cases", "judgments", "audit",
          "retrieve", "save", "crashed"}

\* What the knowledge base looks like to one search.
View == [active : [Docs -> 0 .. MaxVersion], cases : SUBSET CaseIds]

RunnerState ==
  [pc : Steps, pass : {1, 2}, first : SUBSET CaseIds, rows : SUBSET CaseIds,
   labels : SUBSET CaseIds, reads : Nat, seen : SUBSET View]

\* Rows, requests and persisted runs are well formed.
TypeOK ==
  /\ active \in [Docs -> 0 .. MaxVersion]
  /\ cases \subseteq CaseIds
  /\ adder \in [CaseIds -> {"new", "locking", "done", "rejected"}]
  /\ locked \in [CaseIds -> SUBSET Docs]
  /\ \A c \in CaseIds : adder[c] # "locking" => locked[c] = {}
  /\ rn \in [Runners -> RunnerState]
  /\ runs \subseteq [cases : SUBSET CaseIds, seen : SUBSET View]

-----------------------------------------------------------------------------

Live(chunk) == active[chunk[1]] = chunk[2]

JudgedDocs(c) == {chunk[1] : chunk \in Judged[c]}

\* evaluation_judgments rows of a set of cases.
Judgments(cs) == UNION {{c} \X Judged[c] : c \in cs}

\* The status query with LIMIT max_total_judgments + 1.
AuditRows ==
  {row \in Judgments(cases) :
     Cardinality({q \in Judgments(cases) : Rank[q] < Rank[row]}) <= MaxJudgments}

Usable == \A row \in AuditRows : Live(row[2])

Init ==
  /\ active = [d \in Docs |-> 1]
  /\ cases = {}
  /\ adder = [c \in CaseIds |-> "new"]
  /\ locked = [c \in CaseIds |-> {}]
  /\ rn = [r \in Runners |-> Idle]
  /\ runs = {}

-----------------------------------------------------------------------------

ActivateUnlocked(d) ==
  /\ \E v \in (active[d] + 1) .. MaxVersion : active' = [active EXCEPT ![d] = v]
  /\ UNCHANGED <<cases, adder, locked, rn, runs>>

\* promote_version of a reprocessing request: FOR UPDATE waits for FOR SHARE.
Activate(d) ==
  /\ \A c \in CaseIds : d \notin locked[c]
  /\ \E v \in (active[d] + 1) .. MaxVersion : active' = [active EXCEPT ![d] = v]
  /\ UNCHANGED <<cases, adder, locked, rn, runs>>

Reject(c) ==
  /\ adder' = [adder EXCEPT ![c] = "rejected"]
  /\ locked' = [locked EXCEPT ![c] = {}]

\* The locking SELECT of add_case takes its snapshot.
BeginAdd(c) ==
  /\ adder[c] = "new"
  /\ IF \A chunk \in Judged[c] : Live(chunk)
       THEN adder' = [adder EXCEPT ![c] = "locking"] /\ UNCHANGED locked
       ELSE Reject(c)
  /\ UNCHANGED <<active, cases, rn, runs>>

\* It locks the documents one by one; a row that changed since the snapshot is
\* evaluated again once the lock is granted.
LockDocument(c, d) ==
  /\ adder[c] = "locking"
  /\ d \in JudgedDocs(c) \ locked[c]
  /\ IF \A chunk \in Judged[c] : chunk[1] = d => Live(chunk)
       THEN locked' = [locked EXCEPT ![c] = @ \union {d}] /\ UNCHANGED adder
       ELSE Reject(c)
  /\ UNCHANGED <<active, cases, rn, runs>>

\* Case and judgments are inserted and committed; the locks are released.
CommitCase(c) ==
  /\ adder[c] = "locking"
  /\ locked[c] = JudgedDocs(c)
  /\ cases' = cases \union {c}
  /\ adder' = [adder EXCEPT ![c] = "done"]
  /\ locked' = [locked EXCEPT ![c] = {}]
  /\ UNCHANGED <<active, rn, runs>>

\* The transaction rolls back: database error, cancellation, process death.
AbortAdd(c) ==
  /\ adder[c] = "locking"
  /\ Reject(c)
  /\ UNCHANGED <<active, cases, rn, runs>>

-----------------------------------------------------------------------------

Become(r, state) ==
  /\ rn' = [rn EXCEPT ![r] = state]
  /\ UNCHANGED <<active, cases, adder, locked, runs>>

GoTo(r, step) == Become(r, [rn[r] EXCEPT !.pc = step])

Start(r) ==
  /\ rn[r].pc \in {"idle", "crashed"}
  /\ Cardinality(runs) < MaxRuns
  /\ Become(r, [Idle EXCEPT !.pc = "count"])

\* load_cases_for_evaluation (the dataset row is never deleted): the two
\* counts, each against its limit ...
CountCases(r) ==
  /\ rn[r].pc = "count"
  /\ IF Cardinality(cases) <= MaxCases
       THEN GoTo(r, "judgment_count") ELSE Become(r, Idle)

CountJudgmentsUnlimited(r) == rn[r].pc = "judgment_count" /\ GoTo(r, "cases")

CountJudgments(r) ==
  /\ rn[r].pc = "judgment_count"
  /\ IF Cardinality(Judgments(cases)) <= MaxJudgments
       THEN GoTo(r, "cases") ELSE Become(r, Idle)

\* ... all case rows, then all judgment rows ...
ReadCases(r) ==
  /\ rn[r].pc = "cases"
  /\ Become(r, [rn[r] EXCEPT !.pc = "judgments", !.rows = cases])

ReadJudgments(r) ==
  /\ rn[r].pc = "judgments"
  /\ Become(r, [rn[r] EXCEPT !.pc = "audit", !.labels = cases])

AcceptedNonEmpty(r) == rn[r].rows # {}

\* The caller's tests on a loaded dataset: not empty, and at the end unchanged.
Accepted(r) ==
  IF rn[r].pass = 1 THEN rn[r].rows # {} ELSE rn[r].rows = rn[r].first

\* After the first load the queries run, after the second the run is saved.
Loaded(r) ==
  IF rn[r].pass = 1
    THEN [rn[r] EXCEPT !.pc = "retrieve", !.first = rn[r].rows,
                       !.reads = Branches * Cardinality(rn[r].rows)]
    ELSE [rn[r] EXCEPT !.pc = "save"]

\* ... and the status of the judgments.  A judgment row of a case that is not
\* among the case rows raises KeyError.
Audit(r) ==
  /\ rn[r].pc = "audit"
  /\ Become(r, IF ~Usable THEN Idle
               ELSE IF ~(rn[r].labels \subseteq rn[r].rows)
                 THEN [rn[r] EXCEPT !.pc = "crashed"]
               ELSE IF Accepted(r) THEN Loaded(r) ELSE Idle)

\* One search of one query of the dataset.
Retrieve(r) ==
  /\ rn[r].pc = "retrieve"
  /\ rn[r].reads > 0
  /\ Become(r, [rn[r] EXCEPT !.reads = @ - 1,
                  !.seen = @ \union {[active |-> active, cases |-> cases]}])

RecheckSkipped(r) ==
  /\ rn[r].pc = "retrieve"
  /\ rn[r].reads = 0
  /\ GoTo(r, "save")

\* All queries are done: the dataset is loaded and checked again.
Recheck(r) ==
  /\ rn[r].pc = "retrieve"
  /\ rn[r].reads = 0
  /\ Become(r, [rn[r] EXCEPT !.pc = "count", !.pass = 2])

\* PersistedDatasetEvaluationService: one insert, in a transaction of its own.
Save(r) ==
  /\ rn[r].pc = "save"
  /\ runs' = runs \union {[cases |-> rn[r].first, seen |-> rn[r].seen]}
  /\ rn' = [rn EXCEPT ![r] = Idle]
  /\ UNCHANGED <<active, cases, adder, locked>>

\* A provider or database error, a cancellation or a process death.
RunFails(r) == rn[r].pc \notin {"idle", "crashed"} /\ Become(r, Idle)

Next ==
  \/ \E d \in Docs : Activate(d)
  \/ \E c \in CaseIds : \/ BeginAdd(c) \/ CommitCase(c) \/ AbortAdd(c)
                        \/ \E d \in Docs : LockDocument(c, d)
  \/ \E r \in Runners :
       \/ Start(r) \/ CountCases(r) \/ CountJudgments(r)
       \/ ReadCases(r) \/ ReadJudgments(r) \/ Audit(r)
       \/ Retrieve(r) \/ Recheck(r) \/ Save(r) \/ RunFails(r)

Spec == Init /\ [][Next]_vars

-----------------------------------------------------------------------------

\* A judgment is only ever stored for a chunk of the version that is active
\* when its case commits: the shared row locks hold activations back from the
\* check to the commit (docs/architecture.md:190).
JudgmentsActiveWhenAdded ==
  [][\A c \in cases' \ cases : \A chunk \in Judged[c] : Live(chunk)]_vars

\* Every search behind a saved run was done while all chunks judged by the
\* run's cases were active.  There is no check in between: it takes the audits
\* on both sides and that activation never goes back (ActiveOnlyAdvances).
RunsScoreJudgedIndex ==
  \A run \in runs : \A view \in run.seen : \A c \in run.cases :
    \A chunk \in Judged[c] : view.active[chunk[1]] = chunk[2]

\* A saved run covers the dataset as it was during all of its searches: no
\* case was added, and none is missing.
RunsCoverDataset ==
  \A run \in runs : \A view \in run.seen : view.cases = run.cases

\* A saved run respects both limits, although a single load may not: a case
\* added after the first counts is counted by the second load.
RunsWithinLimits ==
  \A run \in runs : /\ Cardinality(run.cases) <= MaxCases
                    /\ Cardinality(Judgments(run.cases)) <= MaxJudgments
=============================================================================
