------------------------- MODULE EvaluationRunProofs -------------------------
(***************************************************************************)
(* EvaluationRun for any documents, cases, requests and limits.            *)
(***************************************************************************)
EXTENDS EvaluationRun, FiniteSetTheorems, TLAPS

\* What add_case found of a document it has locked is still so.
Locking(c) ==
  adder[c] = "locking" =>
    \A chunk \in Judged[c] : chunk[1] \in locked[c] => Live(chunk)

\* What a request read was committed and still is; the first load came before
\* the searches, and the rows of the second load after them.  Whatever the
\* second load counts has at least the cases of the first.
Reading(r) ==
  /\ rn[r].first \subseteq cases /\ rn[r].rows \subseteq cases
  /\ \A view \in rn[r].seen : rn[r].first \subseteq view.cases /\ view.cases \subseteq cases
  /\ rn[r].pass = 1 /\ rn[r].pc # "retrieve" => rn[r].seen = {}
  /\ rn[r].pass = 2 /\ rn[r].pc \in {"judgments", "audit", "save"} =>
       \A view \in rn[r].seen : view.cases \subseteq rn[r].rows
  /\ rn[r].pass = 2
       /\ rn[r].pc \in {"judgment_count", "cases", "judgments", "audit", "save"} =>
         Cardinality(rn[r].first) <= MaxCases
  /\ rn[r].pass = 2 /\ rn[r].pc \in {"cases", "judgments", "audit", "save"} =>
       Cardinality(Judgments(rn[r].first)) <= MaxJudgments
  /\ rn[r].pc = "save" => rn[r].pass = 2 /\ rn[r].rows = rn[r].first

\* The tables stay finite, so that counting them means something.
Finite == IsFiniteSet(cases) /\ IsFiniteSet(Judgments(cases))

IndInv ==
  /\ TypeOK /\ Finite
  /\ \A c \in CaseIds : Locking(c)
  /\ \A r \in Runners : Reading(r)
  /\ RunsCoverDataset /\ RunsWithinLimits

-----------------------------------------------------------------------------

\* More cases have more judgments.
LEMMA JudgmentsMonotone ==
  ASSUME NEW s, NEW t, s \subseteq t
  PROVE  Judgments(s) \subseteq Judgments(t)
BY DEF Judgments

\* Part of what was counted is within the limit that was applied.
LEMMA PartIsWithin ==
  ASSUME NEW s, NEW t, s \subseteq t, IsFiniteSet(t), NEW n \in Nat, Cardinality(t) <= n
  PROVE  IsFiniteSet(s) /\ Cardinality(s) \in Nat /\ Cardinality(s) <= n
<1>1. IsFiniteSet(s) /\ Cardinality(s) <= Cardinality(t)
  BY FS_Subset
<1>2. Cardinality(s) \in Nat /\ Cardinality(t) \in Nat
  BY <1>1, FS_CardinalityType
<1> QED
  BY <1>1, <1>2

\* Committing a case keeps the tables finite.
LEMMA CaseIsFinite ==
  ASSUME Finite, NEW c \in CaseIds
  PROVE  IsFiniteSet(cases \union {c}) /\ IsFiniteSet(Judgments(cases \union {c}))
<1>1. IsFiniteSet(cases \union {c})
  BY FS_AddElement DEF Finite
<1>2. IsFiniteSet({c} \X Judged[c])
  BY FS_Singleton, FS_Product, CaseAssumption
<1>3. Judgments(cases \union {c}) = Judgments(cases) \union ({c} \X Judged[c])
  BY DEF Judgments
<1>4. IsFiniteSet(Judgments(cases) \union ({c} \X Judged[c]))
  BY <1>2, FS_Union DEF Finite
<1> QED
  BY <1>1, <1>3, <1>4

\* A request that only waits keeps what it knows while cases are added.
LEMMA ReadingStays ==
  ASSUME NEW r \in Runners, Reading(r), rn'[r] = rn[r], cases \subseteq cases'
  PROVE  Reading(r)'
BY DEF Reading, Judgments

-----------------------------------------------------------------------------

\* Steps of documents and of added cases leave requests and runs alone.
LEMMA DatasetStep ==
  ASSUME IndInv, TypeOK', Finite', \A c \in CaseIds : Locking(c)',
         cases \subseteq cases', UNCHANGED <<rn, runs>>
  PROVE  IndInv'
<1>1. \A r \in Runners : Reading(r)'
  BY ReadingStays DEF IndInv
<1>2. RunsCoverDataset' /\ RunsWithinLimits'
  BY DEF IndInv, RunsCoverDataset, RunsWithinLimits, Judgments
<1> QED
  BY <1>1, <1>2 DEF IndInv

LEMMA ActivateKeeps ==
  ASSUME IndInv, NEW d \in Docs, Activate(d)
  PROVE  IndInv'
<1>1. PICK v \in (active[d] + 1) .. MaxVersion : active' = [active EXCEPT ![d] = v]
  BY DEF Activate
<1>2. /\ UNCHANGED <<cases, adder, locked, rn, runs>>
      /\ \A c \in CaseIds : d \notin locked[c]
  BY DEF Activate
<1>3. TypeOK'
  <2>1. v \in 0 .. MaxVersion
    BY LimitAssumption DEF IndInv, TypeOK
  <2> QED
    BY <1>1, <1>2, <2>1 DEF IndInv, TypeOK
<1>4. Finite'
  BY <1>2 DEF IndInv, Finite, Judgments
<1>5. ASSUME NEW c \in CaseIds PROVE Locking(c)'
  <2>1. Locking(c) /\ locked[c] \subseteq Docs
    BY DEF IndInv, TypeOK
  <2>2. \A e \in locked[c] : active'[e] = active[e]
    BY <1>1, <1>2, <2>1 DEF IndInv, TypeOK
  <2> QED
    BY <1>2, <2>1, <2>2 DEF Locking, Live
<1> QED
  BY <1>2, <1>3, <1>4, <1>5, DatasetStep

\* A rejected case holds no lock.
LEMMA RejectKeeps ==
  ASSUME IndInv, NEW c \in CaseIds, Reject(c), UNCHANGED <<active, cases, rn, runs>>
  PROVE  IndInv'
<1>1. /\ adder' = [adder EXCEPT ![c] = "rejected"]
      /\ locked' = [locked EXCEPT ![c] = {}]
  BY DEF Reject
<1>2. TypeOK'
  BY <1>1 DEF IndInv, TypeOK
<1>3. Finite'
  BY DEF IndInv, Finite, Judgments
<1>4. ASSUME NEW e \in CaseIds PROVE Locking(e)'
  <2>1. Locking(e)
    BY DEF IndInv
  <2> QED
    BY <1>1, <2>1 DEF IndInv, TypeOK, Locking, Live
<1> QED
  BY <1>2, <1>3, <1>4, DatasetStep

LEMMA BeginAddKeeps ==
  ASSUME IndInv, NEW c \in CaseIds, BeginAdd(c)
  PROVE  IndInv'
<1>1. adder[c] = "new" /\ UNCHANGED <<active, cases, rn, runs>>
  BY DEF BeginAdd
<1>2. CASE Reject(c)
  BY <1>1, <1>2, RejectKeeps
<1>3. CASE adder' = [adder EXCEPT ![c] = "locking"] /\ UNCHANGED locked
  <2>1. TypeOK'
    BY <1>1, <1>3 DEF IndInv, TypeOK
  <2>2. Finite'
    BY <1>1 DEF IndInv, Finite, Judgments
  <2>3. ASSUME NEW e \in CaseIds PROVE Locking(e)'
    <3>1. Locking(e) /\ locked[c] = {}
      BY <1>1 DEF IndInv, TypeOK
    <3> QED
      BY <1>1, <1>3, <3>1 DEF IndInv, TypeOK, Locking, Live
  <2> QED
    BY <1>1, <2>1, <2>2, <2>3, DatasetStep
<1> QED
  BY <1>2, <1>3 DEF BeginAdd

LEMMA LockDocumentKeeps ==
  ASSUME IndInv, NEW c \in CaseIds, NEW d \in Docs, LockDocument(c, d)
  PROVE  IndInv'
<1>1. adder[c] = "locking" /\ UNCHANGED <<active, cases, rn, runs>>
  BY DEF LockDocument
<1>2. CASE Reject(c)
  BY <1>1, <1>2, RejectKeeps
<1>3. CASE /\ \A chunk \in Judged[c] : chunk[1] = d => Live(chunk)
           /\ locked' = [locked EXCEPT ![c] = @ \union {d}] /\ UNCHANGED adder
  <2>1. TypeOK'
    BY <1>1, <1>3 DEF IndInv, TypeOK
  <2>2. Finite'
    BY <1>1 DEF IndInv, Finite, Judgments
  <2>3. ASSUME NEW e \in CaseIds PROVE Locking(e)'
    <3>1. Locking(e)
      BY DEF IndInv
    <3>2. locked'[e] = IF e = c THEN locked[c] \union {d} ELSE locked[e]
      BY <1>3 DEF IndInv, TypeOK
    <3> QED
      BY <1>1, <1>3, <3>1, <3>2 DEF Locking, Live
  <2> QED
    BY <1>1, <2>1, <2>2, <2>3, DatasetStep
<1> QED
  BY <1>2, <1>3 DEF LockDocument

LEMMA CommitCaseKeeps ==
  ASSUME IndInv, NEW c \in CaseIds, CommitCase(c)
  PROVE  IndInv'
<1>1. /\ adder' = [adder EXCEPT ![c] = "done"] /\ locked' = [locked EXCEPT ![c] = {}]
      /\ cases' = cases \union {c} /\ UNCHANGED <<active, rn, runs>>
  BY DEF CommitCase
<1>2. TypeOK'
  BY <1>1 DEF IndInv, TypeOK
<1>3. Finite'
  <2>1. Finite
    BY DEF IndInv
  <2>2. IsFiniteSet(cases \union {c}) /\ IsFiniteSet(Judgments(cases \union {c}))
    BY <2>1, CaseIsFinite
  <2>3. Judgments(cases)' = Judgments(cases \union {c})
    BY <1>1 DEF Judgments
  <2> QED
    BY <1>1, <2>2, <2>3 DEF Finite
<1>4. ASSUME NEW e \in CaseIds PROVE Locking(e)'
  <2>1. Locking(e)
    BY DEF IndInv
  <2> QED
    BY <1>1, <2>1 DEF IndInv, TypeOK, Locking, Live
<1> QED
  BY <1>1, <1>2, <1>3, <1>4, DatasetStep

-----------------------------------------------------------------------------

\* A step of a request disturbs neither the tables nor other requests.
LEMMA RunnerStep ==
  ASSUME IndInv, NEW r \in Runners, NEW state \in RunnerState,
         Become(r, state), Reading(r)'
  PROVE  IndInv'
<1>1. rn' = [rn EXCEPT ![r] = state] /\ UNCHANGED <<active, cases, adder, locked, runs>>
  BY DEF Become
<1>2. TypeOK'
  BY <1>1 DEF IndInv, TypeOK
<1>3. Finite' /\ RunsCoverDataset' /\ RunsWithinLimits'
  BY <1>1 DEF IndInv, Finite, RunsCoverDataset, RunsWithinLimits, Judgments
<1>4. \A c \in CaseIds : Locking(c)'
  BY <1>1 DEF IndInv, Locking, Live
<1>5. ASSUME NEW q \in Runners PROVE Reading(q)'
  <2>1. CASE q = r
    BY <2>1
  <2>2. CASE q # r
    <3>1. Reading(q) /\ rn'[q] = rn[q]
      BY <1>1, <2>2 DEF IndInv, TypeOK
    <3> QED
      BY <1>1, <3>1, ReadingStays
  <2> QED
    BY <2>1, <2>2
<1> QED
  BY <1>2, <1>3, <1>4, <1>5 DEF IndInv

\* What a request knows of itself in a state that satisfies IndInv.
LEMMA OwnState ==
  ASSUME IndInv, NEW r \in Runners
  PROVE  /\ rn[r] \in RunnerState /\ Reading(r)
         /\ \A state : Become(r, state) => rn'[r] = state /\ cases' = cases
BY DEF IndInv, TypeOK, Become

\* A request that starts anew knows nothing.
LEMMA ForgetKeeps ==
  ASSUME IndInv, NEW r \in Runners, NEW pc \in {"idle", "count"},
         Become(r, [Idle EXCEPT !.pc = pc])
  PROVE  IndInv'
<1> DEFINE state == [Idle EXCEPT !.pc = pc]
<1>1. /\ state \in RunnerState /\ state.pc = pc /\ state.pass = 1
      /\ state.first = {} /\ state.rows = {} /\ state.seen = {}
  BY DEF RunnerState, Idle, Steps
<1>2. rn'[r] = state
  BY OwnState
<1> HIDE DEF state
<1>3. Reading(r)'
  BY <1>1, <1>2 DEF Reading
<1> QED
  BY <1>1, <1>3, RunnerStep DEF state

LEMMA IdleIsIdle == Idle = [Idle EXCEPT !.pc = "idle"]
BY DEF Idle

\* A step to another statement, on which nothing more has been read.
LEMMA GoToKeeps ==
  ASSUME IndInv, NEW r \in Runners, NEW step \in {"judgment_count", "cases"},
         GoTo(r, step),
         rn[r].pc = "count" \/ rn[r].pc = "judgment_count",
         rn[r].pass = 2 => Cardinality(rn[r].first) <= MaxCases,
         rn[r].pass = 2 /\ step = "cases" =>
           Cardinality(Judgments(rn[r].first)) <= MaxJudgments
  PROVE  IndInv'
<1> DEFINE state == [rn[r] EXCEPT !.pc = step]
<1>1. rn[r] \in RunnerState /\ Reading(r) /\ Become(r, state)
  BY OwnState DEF GoTo
<1>2. /\ state \in RunnerState /\ state.pc = step /\ state.pass = rn[r].pass
      /\ state.first = rn[r].first /\ state.rows = rn[r].rows
      /\ state.seen = rn[r].seen
  BY <1>1 DEF RunnerState, Steps
<1>3. rn'[r] = state /\ cases' = cases
  BY <1>1, OwnState
<1> HIDE DEF state
<1>4. Reading(r)'
  BY <1>1, <1>2, <1>3 DEF Reading, Judgments
<1> QED
  BY <1>1, <1>2, <1>4, RunnerStep

LEMMA CountCasesKeeps ==
  ASSUME IndInv, NEW r \in Runners, CountCases(r)
  PROVE  IndInv'
<1>1. CASE Cardinality(cases) <= MaxCases
  <2>1. rn[r].first \subseteq cases /\ IsFiniteSet(cases)
    BY DEF IndInv, Reading, Finite
  <2>2. Cardinality(rn[r].first) <= MaxCases
    BY <1>1, <2>1, PartIsWithin, LimitAssumption
  <2> QED
    BY <1>1, <2>2, GoToKeeps DEF CountCases
<1>2. CASE ~(Cardinality(cases) <= MaxCases)
  BY <1>2, ForgetKeeps, IdleIsIdle DEF CountCases
<1> QED
  BY <1>1, <1>2

LEMMA CountJudgmentsKeeps ==
  ASSUME IndInv, NEW r \in Runners, CountJudgments(r)
  PROVE  IndInv'
<1>1. CASE Cardinality(Judgments(cases)) <= MaxJudgments
  <2>1. rn[r].first \subseteq cases /\ IsFiniteSet(Judgments(cases))
    BY DEF IndInv, Reading, Finite
  <2>2. Judgments(rn[r].first) \subseteq Judgments(cases)
    BY <2>1, JudgmentsMonotone
  <2>3. Cardinality(Judgments(rn[r].first)) <= MaxJudgments
    BY <1>1, <2>1, <2>2, PartIsWithin, LimitAssumption
  <2>4. rn[r].pass = 2 => Cardinality(rn[r].first) <= MaxCases
    BY DEF IndInv, Reading, CountJudgments
  <2> QED
    BY <1>1, <2>3, <2>4, GoToKeeps DEF CountJudgments
<1>2. CASE ~(Cardinality(Judgments(cases)) <= MaxJudgments)
  BY <1>2, ForgetKeeps, IdleIsIdle DEF CountJudgments
<1> QED
  BY <1>1, <1>2

LEMMA ReadCasesKeeps ==
  ASSUME IndInv, NEW r \in Runners, ReadCases(r)
  PROVE  IndInv'
<1> DEFINE state == [rn[r] EXCEPT !.pc = "judgments", !.rows = cases]
<1>1. rn[r] \in RunnerState /\ Reading(r) /\ Become(r, state) /\ rn[r].pc = "cases"
  BY OwnState DEF ReadCases
<1>2. /\ state \in RunnerState /\ state.pc = "judgments" /\ state.pass = rn[r].pass
      /\ state.first = rn[r].first /\ state.rows = cases
      /\ state.seen = rn[r].seen
  BY <1>1 DEF RunnerState, Steps, IndInv, TypeOK
<1>3. rn'[r] = state /\ cases' = cases
  BY <1>1, OwnState
<1> HIDE DEF state
<1>4. Reading(r)'
  BY <1>1, <1>2, <1>3 DEF Reading, Judgments
<1> QED
  BY <1>1, <1>2, <1>4, RunnerStep

LEMMA ReadJudgmentsKeeps ==
  ASSUME IndInv, NEW r \in Runners, ReadJudgments(r)
  PROVE  IndInv'
<1> DEFINE state == [rn[r] EXCEPT !.pc = "audit", !.labels = cases]
<1>1. /\ rn[r] \in RunnerState /\ Reading(r) /\ Become(r, state)
      /\ rn[r].pc = "judgments"
  BY OwnState DEF ReadJudgments
<1>2. /\ state \in RunnerState /\ state.pc = "audit" /\ state.pass = rn[r].pass
      /\ state.first = rn[r].first /\ state.rows = rn[r].rows
      /\ state.seen = rn[r].seen
  BY <1>1 DEF RunnerState, Steps, IndInv, TypeOK
<1>3. rn'[r] = state /\ cases' = cases
  BY <1>1, OwnState
<1> HIDE DEF state
<1>4. Reading(r)'
  BY <1>1, <1>2, <1>3 DEF Reading, Judgments
<1> QED
  BY <1>1, <1>2, <1>4, RunnerStep

LEMMA AuditKeeps ==
  ASSUME IndInv, NEW r \in Runners, Audit(r)
  PROVE  IndInv'
<1>1. rn[r] \in RunnerState /\ Reading(r) /\ rn[r].pc = "audit"
  BY OwnState DEF Audit
<1>2. CASE Become(r, Idle)
  BY <1>2, ForgetKeeps, IdleIsIdle
<1>3. CASE Become(r, [rn[r] EXCEPT !.pc = "crashed"])
  <2> DEFINE state == [rn[r] EXCEPT !.pc = "crashed"]
  <2>1. /\ state \in RunnerState /\ state.pc = "crashed" /\ state.pass = rn[r].pass
        /\ state.first = rn[r].first /\ state.rows = rn[r].rows
        /\ state.seen = rn[r].seen
    BY <1>1 DEF RunnerState, Steps
  <2>2. rn'[r] = state /\ cases' = cases
    BY <1>3, OwnState
  <2> HIDE DEF state
  <2>3. Reading(r)'
    BY <1>1, <2>1, <2>2 DEF Reading, Judgments
  <2> QED
    BY <1>3, <2>1, <2>3, RunnerStep DEF state
<1>4. CASE Become(r, Loaded(r)) /\ Accepted(r)
  <2>1. rn'[r] = Loaded(r) /\ cases' = cases
    BY <1>4, OwnState
  <2>2. CASE rn[r].pass = 1
    <3> DEFINE state == [rn[r] EXCEPT !.pc = "retrieve", !.first = rn[r].rows,
                                      !.reads = Branches * Cardinality(rn[r].rows)]
    <3>1. Cardinality(rn[r].rows) \in Nat
      BY <1>1, FS_Subset, FS_CardinalityType DEF Reading, IndInv, Finite
    <3>2. Branches * Cardinality(rn[r].rows) \in Nat
      BY <3>1, LimitAssumption
    <3>3. Loaded(r) = state
      BY <2>2 DEF Loaded
    <3>4. /\ state \in RunnerState /\ state.pc = "retrieve" /\ state.pass = 1
          /\ state.first = rn[r].rows /\ state.rows = rn[r].rows
          /\ state.seen = rn[r].seen
      BY <1>1, <2>2, <3>2 DEF RunnerState, Steps
    <3> HIDE DEF state
    <3>5. Reading(r)'
      BY <1>1, <2>1, <2>2, <3>3, <3>4 DEF Reading, Judgments
    <3> QED
      BY <1>4, <3>3, <3>4, <3>5, RunnerStep
  <2>3. CASE rn[r].pass # 1
    <3> DEFINE state == [rn[r] EXCEPT !.pc = "save"]
    <3>1. Loaded(r) = state /\ rn[r].pass = 2 /\ rn[r].rows = rn[r].first
      BY <1>1, <1>4, <2>3 DEF Loaded, Accepted, RunnerState
    <3>2. /\ state \in RunnerState /\ state.pc = "save" /\ state.pass = rn[r].pass
          /\ state.first = rn[r].first /\ state.rows = rn[r].rows
          /\ state.seen = rn[r].seen
      BY <1>1 DEF RunnerState, Steps
    <3> HIDE DEF state
    <3>3. Reading(r)'
      BY <1>1, <2>1, <3>1, <3>2 DEF Reading, Judgments
    <3> QED
      BY <1>4, <3>1, <3>2, <3>3, RunnerStep
  <2> QED
    BY <2>2, <2>3
<1> QED
  BY <1>2, <1>3, <1>4 DEF Audit

\* A search sees all cases the run began with, and no case it could miss.
LEMMA RetrieveKeeps ==
  ASSUME IndInv, NEW r \in Runners, Retrieve(r)
  PROVE  IndInv'
<1> DEFINE view  == [active |-> active, cases |-> cases]
           state == [rn[r] EXCEPT !.reads = @ - 1, !.seen = @ \union {view}]
<1>1. /\ rn[r] \in RunnerState /\ Reading(r) /\ Become(r, state)
      /\ rn[r].pc = "retrieve" /\ rn[r].reads > 0
  BY OwnState DEF Retrieve
<1>2. view \in View /\ view.cases = cases
  BY DEF View, IndInv, TypeOK
<1> HIDE DEF view
<1>3. /\ state \in RunnerState /\ state.pc = "retrieve" /\ state.pass = rn[r].pass
      /\ state.first = rn[r].first /\ state.rows = rn[r].rows
      /\ state.seen = rn[r].seen \union {view}
  <2>1. rn[r].reads - 1 \in Nat /\ rn[r].seen \union {view} \subseteq View
    BY <1>1, <1>2 DEF RunnerState
  <2> QED
    BY <1>1, <2>1 DEF RunnerState
<1>4. rn'[r] = state /\ cases' = cases
  BY <1>1, OwnState
<1> HIDE DEF state
<1>5. Reading(r)'
  BY <1>1, <1>2, <1>3, <1>4 DEF Reading, Judgments
<1> QED
  BY <1>1, <1>3, <1>5, RunnerStep

LEMMA RecheckKeeps ==
  ASSUME IndInv, NEW r \in Runners, Recheck(r)
  PROVE  IndInv'
<1> DEFINE state == [rn[r] EXCEPT !.pc = "count", !.pass = 2]
<1>1. /\ rn[r] \in RunnerState /\ Reading(r) /\ Become(r, state)
      /\ rn[r].pc = "retrieve"
  BY OwnState DEF Recheck
<1>2. /\ state \in RunnerState /\ state.pc = "count" /\ state.pass = 2
      /\ state.first = rn[r].first /\ state.rows = rn[r].rows
      /\ state.seen = rn[r].seen
  BY <1>1 DEF RunnerState, Steps
<1>3. rn'[r] = state /\ cases' = cases
  BY <1>1, OwnState
<1> HIDE DEF state
<1>4. Reading(r)'
  BY <1>1, <1>2, <1>3 DEF Reading, Judgments
<1> QED
  BY <1>1, <1>2, <1>4, RunnerStep

\* What is saved saw the cases it is about, no more and no fewer.
LEMMA SaveKeeps ==
  ASSUME IndInv, NEW r \in Runners, Save(r)
  PROVE  IndInv'
<1> DEFINE run == [cases |-> rn[r].first, seen |-> rn[r].seen]
<1>1. rn[r] \in RunnerState /\ Reading(r) /\ rn[r].pc = "save"
  BY OwnState DEF Save
<1>2. /\ runs' = runs \union {run} /\ rn' = [rn EXCEPT ![r] = Idle]
      /\ UNCHANGED <<active, cases, adder, locked>>
  BY DEF Save
<1>3. run \in [cases : SUBSET CaseIds, seen : SUBSET View]
  BY <1>1 DEF RunnerState
<1>4. /\ \A view \in run.seen : view.cases = run.cases
      /\ Cardinality(run.cases) <= MaxCases
      /\ Cardinality(Judgments(run.cases)) <= MaxJudgments
  BY <1>1 DEF Reading
<1> HIDE DEF run
<1>5. Idle \in RunnerState
  BY DEF Idle, RunnerState, Steps
<1>6. TypeOK'
  BY <1>2, <1>3, <1>5 DEF IndInv, TypeOK
<1>7. Finite' /\ \A c \in CaseIds : Locking(c)'
  BY <1>2 DEF IndInv, Finite, Judgments, Locking, Live
<1>8. RunsCoverDataset' /\ RunsWithinLimits'
  BY <1>2, <1>4 DEF IndInv, RunsCoverDataset, RunsWithinLimits, Judgments
<1>9. ASSUME NEW q \in Runners PROVE Reading(q)'
  <2>1. CASE q = r
    <3>1. rn'[q] = Idle
      BY <1>2, <2>1 DEF IndInv, TypeOK
    <3> QED
      BY <3>1 DEF Reading, Idle
  <2>2. CASE q # r
    <3>1. Reading(q) /\ rn'[q] = rn[q]
      BY <1>2, <2>2 DEF IndInv, TypeOK
    <3> QED
      BY <1>2, <3>1, ReadingStays
  <2> QED
    BY <2>1, <2>2
<1> QED
  BY <1>6, <1>7, <1>8, <1>9 DEF IndInv

-----------------------------------------------------------------------------

\* IndInv holds in every reachable state.
THEOREM RunInvariance == Spec => []IndInv
<1>1. Init => IndInv
  <2> SUFFICES ASSUME Init PROVE IndInv
    OBVIOUS
  <2>1. TypeOK
    BY LimitAssumption DEF Init, TypeOK, Idle, RunnerState, Steps
  <2>2. Finite
    <3>1. Judgments({}) = {}
      BY DEF Judgments
    <3> QED
      BY <3>1, FS_EmptySet DEF Init, Finite
  <2>3. \A c \in CaseIds : Locking(c)
    BY DEF Init, Locking
  <2>4. \A r \in Runners : Reading(r)
    BY DEF Init, Reading, Idle
  <2>5. RunsCoverDataset /\ RunsWithinLimits
    BY DEF Init, RunsCoverDataset, RunsWithinLimits
  <2> QED
    BY <2>1, <2>2, <2>3, <2>4, <2>5 DEF IndInv
<1>2. IndInv /\ [Next]_vars => IndInv'
  <2> SUFFICES ASSUME IndInv, [Next]_vars PROVE IndInv'
    OBVIOUS
  <2>1. ASSUME NEW d \in Docs, Activate(d) PROVE IndInv'
    BY <2>1, ActivateKeeps
  <2>2. ASSUME NEW c \in CaseIds, BeginAdd(c) PROVE IndInv'
    BY <2>2, BeginAddKeeps
  <2>3. ASSUME NEW c \in CaseIds, CommitCase(c) PROVE IndInv'
    BY <2>3, CommitCaseKeeps
  <2>4. ASSUME NEW c \in CaseIds, AbortAdd(c) PROVE IndInv'
    BY <2>4, RejectKeeps DEF AbortAdd
  <2>5. ASSUME NEW c \in CaseIds, NEW d \in Docs, LockDocument(c, d) PROVE IndInv'
    BY <2>5, LockDocumentKeeps
  <2>6. ASSUME NEW r \in Runners, Start(r) PROVE IndInv'
    BY <2>6, ForgetKeeps DEF Start
  <2>7. ASSUME NEW r \in Runners, CountCases(r) PROVE IndInv'
    BY <2>7, CountCasesKeeps
  <2>8. ASSUME NEW r \in Runners, CountJudgments(r) PROVE IndInv'
    BY <2>8, CountJudgmentsKeeps
  <2>9. ASSUME NEW r \in Runners, ReadCases(r) PROVE IndInv'
    BY <2>9, ReadCasesKeeps
  <2>10. ASSUME NEW r \in Runners, ReadJudgments(r) PROVE IndInv'
    BY <2>10, ReadJudgmentsKeeps
  <2>11. ASSUME NEW r \in Runners, Audit(r) PROVE IndInv'
    BY <2>11, AuditKeeps
  <2>12. ASSUME NEW r \in Runners, Retrieve(r) PROVE IndInv'
    BY <2>12, RetrieveKeeps
  <2>13. ASSUME NEW r \in Runners, Recheck(r) PROVE IndInv'
    BY <2>13, RecheckKeeps
  <2>14. ASSUME NEW r \in Runners, Save(r) PROVE IndInv'
    BY <2>14, SaveKeeps
  <2>15. ASSUME NEW r \in Runners, RunFails(r) PROVE IndInv'
    BY <2>15, ForgetKeeps, IdleIsIdle DEF RunFails
  <2>16. CASE UNCHANGED vars
    BY <2>16, DatasetStep DEF vars, IndInv, TypeOK, Finite, Judgments, Locking, Live
  <2> QED
    BY <2>1, <2>2, <2>3, <2>4, <2>5, <2>6, <2>7, <2>8, <2>9, <2>10, <2>11,
       <2>12, <2>13, <2>14, <2>15, <2>16 DEF Next
<1> QED
  BY <1>1, <1>2, PTL DEF Spec

\* Rows, requests and runs stay well formed.
THEOREM RunTypes == Spec => []TypeOK
<1>1. IndInv => TypeOK
  BY DEF IndInv
<1> QED
  BY <1>1, RunInvariance, PTL

\* A saved run is about the cases its searches saw.
THEOREM RunsCover == Spec => []RunsCoverDataset
<1>1. IndInv => RunsCoverDataset
  BY DEF IndInv
<1> QED
  BY <1>1, RunInvariance, PTL

\* A saved run is within the limits, although a load may exceed them.
THEOREM RunsWithin == Spec => []RunsWithinLimits
<1>1. IndInv => RunsWithinLimits
  BY DEF IndInv
<1> QED
  BY <1>1, RunInvariance, PTL

\* Labels are about active chunks when they are committed.
THEOREM LabelsActive == Spec => JudgmentsActiveWhenAdded
<1>1. IndInv /\ [Next]_vars =>
        [\A c \in cases' \ cases : \A chunk \in Judged[c] : Live(chunk)]_vars
  <2> SUFFICES ASSUME IndInv, Next, NEW c \in cases' \ cases, NEW chunk \in Judged[c]
               PROVE  Live(chunk)
    OBVIOUS
  <2>1. CommitCase(c) /\ c \in CaseIds
    BY DEF Next, Activate, BeginAdd, CommitCase, AbortAdd, LockDocument, Start,
           CountCases, CountJudgments, ReadCases, ReadJudgments, Audit, Retrieve,
           Recheck, Save, RunFails, GoTo, Become
  <2>2. Locking(c) /\ adder[c] = "locking" /\ locked[c] = JudgedDocs(c)
    BY <2>1 DEF IndInv, CommitCase
  <2>3. chunk[1] \in locked[c]
    BY <2>2 DEF JudgedDocs
  <2> QED
    BY <2>2, <2>3 DEF Locking
<1> QED
  BY <1>1, RunInvariance, PTL DEF Spec, JudgmentsActiveWhenAdded

-----------------------------------------------------------------------------

\* What the audits make certain of, but for rows that the LIMIT cuts off: what
\* was judged is no newer than the searches, and once the run is to be saved no
\* older.  The searches come after the first audit and before the second, and
\* versions only advance.
Scoring(q, versions, rows) ==
  /\ \A view \in q.seen : \A d \in Docs : view.active[d] <= versions[d]
  /\ q.pass = 2 \/ q.pc \in {"retrieve", "save"} =>
       \A row \in Judgments(q.first) \intersect rows :
         /\ row[2][2] <= versions[row[2][1]]
         /\ \A view \in q.seen : row[2][2] <= view.active[row[2][1]]
  /\ q.pc = "save" =>
       \A row \in Judgments(q.first) \intersect rows :
         \A view \in q.seen : view.active[row[2][1]] = row[2][2]

RunScored(run, rows) ==
  \A row \in Judgments(run.cases) \intersect rows :
    \A view \in run.seen : view.active[row[2][1]] = row[2][2]

ScoreInv ==
  /\ \A r \in Runners : Scoring(rn[r], active, AuditRows)
  /\ \A run \in runs : run.cases \subseteq cases /\ RunScored(run, AuditRows)

\* A judgment row names a document and a version of it.
LEMMA RowType ==
  ASSUME NEW s \in SUBSET CaseIds, NEW row \in Judgments(s)
  PROVE  row[2][1] \in Docs /\ row[2][2] \in Nat
<1>1. PICK c \in s : row \in {c} \X Judged[c]
  BY DEF Judgments
<1>2. row[2] \in Chunk
  BY <1>1, CaseAssumption
<1> QED
  BY <1>2 DEF Chunk

\* As cases are added, rows drop out of the audit but none comes back.
LEMMA RowsStay ==
  ASSUME IndInv', cases \subseteq cases'
  PROVE  Judgments(cases) \intersect AuditRows' \subseteq AuditRows
<1> SUFFICES ASSUME NEW row \in Judgments(cases), row \in AuditRows'
             PROVE  row \in AuditRows
  OBVIOUS
<1> DEFINE before == {q \in Judgments(cases) : Rank[q] < Rank[row]}
           now    == {q \in Judgments(cases') : Rank[q] < Rank[row]}
<1>1. before \subseteq now
  BY JudgmentsMonotone
<1>2. IsFiniteSet(now) /\ Cardinality(now) <= MaxJudgments
  <2>1. now \subseteq Judgments(cases') /\ IsFiniteSet(Judgments(cases'))
    BY DEF IndInv, Finite, Judgments
  <2>2. Cardinality(now) <= MaxJudgments
    BY DEF AuditRows, Judgments
  <2> QED
    BY <2>1, <2>2, FS_Subset
<1>3. Cardinality(before) <= MaxJudgments
  <2> HIDE DEF before, now
  <2> QED
    BY <1>1, <1>2, PartIsWithin, LimitAssumption
<1> QED
  BY <1>3 DEF AuditRows

\* Time takes nothing of it back: versions advance, and rows are cut off.
LEMMA ScoringStays ==
  ASSUME IndInv, IndInv', cases \subseteq cases', \A d \in Docs : active[d] <= active'[d],
         NEW q \in RunnerState, q.first \subseteq cases, Scoring(q, active, AuditRows)
  PROVE  Scoring(q, active', AuditRows')
<1>1. \A d \in Docs : active[d] \in Nat /\ active'[d] \in Nat
  BY LimitAssumption DEF IndInv, TypeOK
<1>2. q.first \subseteq CaseIds /\ \A view \in q.seen : \A d \in Docs : view.active[d] \in Nat
  BY LimitAssumption DEF RunnerState, View
<1>3. \A row \in Judgments(q.first) \intersect AuditRows' :
        row \in Judgments(q.first) \intersect AuditRows
  BY RowsStay, JudgmentsMonotone
<1>4. \A row \in Judgments(q.first) : row[2][1] \in Docs /\ row[2][2] \in Nat
  BY <1>2, RowType
<1>5. \A view \in q.seen : \A d \in Docs : view.active[d] <= active'[d]
  BY <1>1, <1>2 DEF Scoring
<1>6. ASSUME q.pass = 2 \/ q.pc \in {"retrieve", "save"},
             NEW row \in Judgments(q.first) \intersect AuditRows'
      PROVE  /\ row[2][2] <= active'[row[2][1]]
             /\ \A view \in q.seen : row[2][2] <= view.active[row[2][1]]
  <2>1. /\ row[2][2] <= active[row[2][1]]
        /\ \A view \in q.seen : row[2][2] <= view.active[row[2][1]]
    BY <1>3, <1>6 DEF Scoring
  <2> QED
    BY <1>1, <1>4, <2>1
<1>7. ASSUME q.pc = "save", NEW row \in Judgments(q.first) \intersect AuditRows'
      PROVE  \A view \in q.seen : view.active[row[2][1]] = row[2][2]
  BY <1>3, <1>7 DEF Scoring
<1> QED
  BY <1>5, <1>6, <1>7 DEF Scoring

\* Steps of documents and of added cases.
LEMMA DatasetKeepsScores ==
  ASSUME IndInv, IndInv', ScoreInv, UNCHANGED <<rn, runs>>,
         cases \subseteq cases', \A d \in Docs : active[d] <= active'[d]
  PROVE  ScoreInv'
<1>1. ASSUME NEW r \in Runners PROVE Scoring(rn'[r], active', AuditRows')
  <2>1. rn[r] \in RunnerState /\ rn[r].first \subseteq cases
    BY OwnState DEF Reading
  <2>2. Scoring(rn[r], active, AuditRows)
    BY DEF ScoreInv
  <2>3. Scoring(rn[r], active', AuditRows')
    BY <2>1, <2>2, ScoringStays
  <2> QED
    BY <2>3
<1>2. ASSUME NEW run \in runs' PROVE run.cases \subseteq cases' /\ RunScored(run, AuditRows')
  <2>1. run.cases \subseteq cases /\ RunScored(run, AuditRows)
    BY DEF ScoreInv
  <2>2. Judgments(run.cases) \intersect AuditRows' \subseteq AuditRows
    BY <2>1, RowsStay, JudgmentsMonotone
  <2> QED
    BY <2>1, <2>2 DEF RunScored
<1> QED
  BY <1>1, <1>2 DEF ScoreInv

\* Steps of a request, which move neither documents nor cases.
LEMMA RunnerKeepsScores ==
  ASSUME IndInv, ScoreInv, NEW r \in Runners, NEW state,
         Become(r, state), Scoring(state, active, AuditRows)
  PROVE  ScoreInv'
<1>1. rn' = [rn EXCEPT ![r] = state] /\ UNCHANGED <<active, cases, adder, locked, runs>>
  BY DEF Become
<1>2. AuditRows' = AuditRows
  BY <1>1 DEF AuditRows, Judgments
<1>3. ASSUME NEW q \in Runners PROVE Scoring(rn'[q], active', AuditRows')
  <2>1. rn'[q] = (IF q = r THEN state ELSE rn[q]) /\ active' = active
    BY <1>1 DEF IndInv, TypeOK
  <2>2. Scoring(rn[q], active, AuditRows)
    BY DEF ScoreInv
  <2> QED
    BY <1>2, <2>1, <2>2
<1> QED
  BY <1>1, <1>2, <1>3 DEF ScoreInv

\* A request that starts anew has searched nothing.
LEMMA ForgettingKeepsScores ==
  ASSUME IndInv, ScoreInv, NEW r \in Runners, NEW pc \in {"idle", "count"},
         Become(r, [Idle EXCEPT !.pc = pc])
  PROVE  ScoreInv'
<1> DEFINE state == [Idle EXCEPT !.pc = pc]
<1>1. state.pc = pc /\ state.pass = 1 /\ state.seen = {}
  BY DEF Idle
<1> HIDE DEF state
<1>2. Scoring(state, active, AuditRows)
  BY <1>1 DEF Scoring
<1> QED
  BY <1>2, RunnerKeepsScores DEF state

\* A step between statements, which reads nothing that is scored.
LEMMA ReadingKeepsScores ==
  ASSUME IndInv, ScoreInv, NEW r \in Runners, NEW state, Become(r, state),
         state.first = rn[r].first, state.seen = rn[r].seen, state.pass = rn[r].pass,
         state.pc \notin {"retrieve", "save"}
  PROVE  ScoreInv'
<1>1. Scoring(rn[r], active, AuditRows)
  BY DEF ScoreInv
<1>2. Scoring(state, active, AuditRows)
  BY <1>1 DEF Scoring
<1> QED
  BY <1>2, RunnerKeepsScores

\* An audit finds what is judged active: before the searches and after them.
LEMMA AuditScores ==
  ASSUME IndInv, ScoreInv, NEW r \in Runners, rn[r].pc = "audit", Usable, Accepted(r),
         Become(r, Loaded(r))
  PROVE  ScoreInv'
<1>1. rn[r] \in RunnerState /\ Reading(r) /\ Scoring(rn[r], active, AuditRows)
  BY OwnState DEF ScoreInv
<1>2. \A row \in AuditRows : row[2][2] = active[row[2][1]]
  BY DEF Usable, Live
<1>3. \A d \in Docs : active[d] \in Nat
  BY LimitAssumption DEF IndInv, TypeOK
<1>4. rn[r].first \subseteq CaseIds /\ rn[r].rows \subseteq CaseIds
  BY <1>1 DEF RunnerState
<1>5. \A view \in rn[r].seen : \A d \in Docs : view.active[d] \in Nat
  BY <1>1, LimitAssumption DEF RunnerState, View
<1>6. CASE rn[r].pass = 1
  <2> DEFINE reads == Branches * Cardinality(rn[r].rows)
             state == [rn[r] EXCEPT !.pc = "retrieve", !.first = rn[r].rows, !.reads = reads]
  <2>1. Loaded(r) = state
    BY <1>6 DEF Loaded
  <2>2. rn[r].seen = {}
    BY <1>1, <1>6 DEF Reading
  <2> HIDE DEF reads
  <2>3. state.pc = "retrieve" /\ state.first = rn[r].rows /\ state.seen = {}
    BY <1>1, <2>2 DEF RunnerState
  <2> HIDE DEF state
  <2>4. ASSUME NEW row \in Judgments(state.first) \intersect AuditRows
        PROVE  row[2][2] <= active[row[2][1]]
    <3>1. row[2][1] \in Docs
      BY <1>4, <2>3, RowType
    <3> QED
      BY <1>2, <1>3, <3>1
  <2>5. Scoring(state, active, AuditRows)
    BY <2>3, <2>4 DEF Scoring
  <2> QED
    BY <2>1, <2>5, RunnerKeepsScores
<1>7. CASE rn[r].pass # 1
  <2> DEFINE state == [rn[r] EXCEPT !.pc = "save"]
  <2>1. Loaded(r) = state /\ rn[r].pass = 2
    BY <1>1, <1>7 DEF Loaded, RunnerState
  <2>2. state.pc = "save" /\ state.first = rn[r].first /\ state.seen = rn[r].seen
    BY <1>1 DEF RunnerState
  <2> HIDE DEF state
  <2>3. ASSUME NEW row \in Judgments(state.first) \intersect AuditRows
        PROVE  /\ row[2][2] <= active[row[2][1]]
               /\ \A view \in state.seen :
                    /\ row[2][2] <= view.active[row[2][1]]
                    /\ view.active[row[2][1]] = row[2][2]
    <3>1. row[2][1] \in Docs /\ row[2][2] \in Nat
      BY <1>4, <2>2, RowType
    <3>2. /\ row[2][2] <= active[row[2][1]]
          /\ \A view \in state.seen : row[2][2] <= view.active[row[2][1]]
      BY <1>1, <2>1, <2>2 DEF Scoring
    <3>3. \A view \in state.seen : view.active[row[2][1]] <= active[row[2][1]]
      BY <1>1, <2>2, <3>1 DEF Scoring
    <3>4. row[2][2] = active[row[2][1]]
      BY <1>2
    <3>5. \A view \in state.seen : view.active[row[2][1]] \in Nat
      BY <1>5, <2>2, <3>1
    <3> QED
      BY <3>1, <3>2, <3>3, <3>4, <3>5
  <2>4. \A view \in state.seen : \A d \in Docs : view.active[d] <= active[d]
    BY <1>1, <2>2 DEF Scoring
  <2>5. Scoring(state, active, AuditRows)
    BY <2>2, <2>3, <2>4 DEF Scoring
  <2> QED
    BY <2>1, <2>5, RunnerKeepsScores
<1> QED
  BY <1>6, <1>7

LEMMA AuditKeepsScores ==
  ASSUME IndInv, ScoreInv, NEW r \in Runners, Audit(r)
  PROVE  ScoreInv'
<1>1. rn[r] \in RunnerState /\ rn[r].pc = "audit"
  BY OwnState DEF Audit
<1>2. CASE Become(r, Idle)
  BY <1>2, ForgettingKeepsScores, IdleIsIdle
<1>3. CASE Become(r, [rn[r] EXCEPT !.pc = "crashed"])
  <2> DEFINE state == [rn[r] EXCEPT !.pc = "crashed"]
  <2>1. /\ state.pc = "crashed" /\ state.pass = rn[r].pass
        /\ state.first = rn[r].first /\ state.seen = rn[r].seen
    BY <1>1 DEF RunnerState
  <2> HIDE DEF state
  <2> QED
    BY <1>3, <2>1, ReadingKeepsScores DEF state
<1>4. CASE Become(r, Loaded(r)) /\ Accepted(r) /\ Usable
  BY <1>1, <1>4, AuditScores
<1> QED
  BY <1>2, <1>3, <1>4 DEF Audit

\* A search sees the versions that are active.
LEMMA RetrieveKeepsScores ==
  ASSUME IndInv, ScoreInv, NEW r \in Runners, Retrieve(r)
  PROVE  ScoreInv'
<1> DEFINE view  == [active |-> active, cases |-> cases]
           state == [rn[r] EXCEPT !.reads = @ - 1, !.seen = @ \union {view}]
<1>1. /\ rn[r] \in RunnerState /\ Become(r, state) /\ rn[r].pc = "retrieve"
      /\ Scoring(rn[r], active, AuditRows)
  BY OwnState DEF Retrieve, ScoreInv
<1>2. view.active = active
  OBVIOUS
<1>3. \A d \in Docs : active[d] \in Nat
  BY LimitAssumption DEF IndInv, TypeOK
<1> HIDE DEF view
<1>4. /\ state.pc = "retrieve" /\ state.first = rn[r].first
      /\ state.seen = rn[r].seen \union {view}
  BY <1>1 DEF RunnerState
<1> HIDE DEF state
<1>5. \A v \in state.seen : \A d \in Docs : v.active[d] <= active[d]
  BY <1>1, <1>2, <1>3, <1>4 DEF Scoring
<1>6. ASSUME NEW row \in Judgments(state.first) \intersect AuditRows
      PROVE  /\ row[2][2] <= active[row[2][1]]
             /\ \A v \in state.seen : row[2][2] <= v.active[row[2][1]]
  BY <1>1, <1>2, <1>4 DEF Scoring
<1>7. Scoring(state, active, AuditRows)
  BY <1>4, <1>5, <1>6 DEF Scoring
<1> QED
  BY <1>1, <1>7, RunnerKeepsScores

LEMMA RecheckKeepsScores ==
  ASSUME IndInv, ScoreInv, NEW r \in Runners, Recheck(r)
  PROVE  ScoreInv'
<1> DEFINE state == [rn[r] EXCEPT !.pc = "count", !.pass = 2]
<1>1. /\ rn[r] \in RunnerState /\ Become(r, state) /\ rn[r].pc = "retrieve"
      /\ Scoring(rn[r], active, AuditRows)
  BY OwnState DEF Recheck, ScoreInv
<1>2. state.pc = "count" /\ state.first = rn[r].first /\ state.seen = rn[r].seen
  BY <1>1 DEF RunnerState
<1> HIDE DEF state
<1>3. Scoring(state, active, AuditRows)
  BY <1>1, <1>2 DEF Scoring
<1> QED
  BY <1>1, <1>3, RunnerKeepsScores

LEMMA SaveKeepsScores ==
  ASSUME IndInv, ScoreInv, NEW r \in Runners, Save(r)
  PROVE  ScoreInv'
<1> DEFINE run == [cases |-> rn[r].first, seen |-> rn[r].seen]
<1>1. /\ Reading(r) /\ rn[r].pc = "save" /\ Scoring(rn[r], active, AuditRows)
  BY OwnState DEF Save, ScoreInv
<1>2. /\ runs' = runs \union {run} /\ rn' = [rn EXCEPT ![r] = Idle]
      /\ UNCHANGED <<active, cases, adder, locked>>
  BY DEF Save
<1>3. AuditRows' = AuditRows
  BY <1>2 DEF AuditRows, Judgments
<1>4. run.cases \subseteq cases /\ RunScored(run, AuditRows)
  BY <1>1 DEF Reading, Scoring, RunScored
<1> HIDE DEF run
<1>5. ASSUME NEW q \in Runners PROVE Scoring(rn'[q], active', AuditRows')
  <2>1. rn'[q] = (IF q = r THEN Idle ELSE rn[q]) /\ active' = active
    BY <1>2 DEF IndInv, TypeOK
  <2>2. Scoring(rn[q], active, AuditRows)
    BY DEF ScoreInv
  <2>3. Scoring(Idle, active, AuditRows)
    BY DEF Scoring, Idle
  <2> QED
    BY <1>3, <2>1, <2>2, <2>3
<1> QED
  BY <1>2, <1>3, <1>4, <1>5 DEF ScoreInv

\* ScoreInv is inductive on top of IndInv.
LEMMA ScoreStep ==
  ASSUME IndInv, IndInv', ScoreInv, [Next]_vars
  PROVE  ScoreInv'
<1>1. \A d \in Docs : active[d] \in Nat
  BY LimitAssumption DEF IndInv, TypeOK
<1>2. ASSUME NEW d \in Docs, Activate(d) PROVE ScoreInv'
  <2>1. PICK v \in (active[d] + 1) .. MaxVersion : active' = [active EXCEPT ![d] = v]
    BY <1>2 DEF Activate
  <2>2. \A e \in Docs : active[e] <= active'[e]
    BY <1>1, <2>1, LimitAssumption DEF IndInv, TypeOK
  <2>3. UNCHANGED <<rn, runs>> /\ cases' = cases
    BY <1>2 DEF Activate
  <2> QED
    BY <2>2, <2>3, DatasetKeepsScores
<1>3. ASSUME NEW c \in CaseIds,
             \/ BeginAdd(c) \/ CommitCase(c) \/ AbortAdd(c)
             \/ \E d \in Docs : LockDocument(c, d)
      PROVE  ScoreInv'
  <2>1. UNCHANGED <<active, rn, runs>> /\ cases \subseteq cases'
    BY <1>3 DEF BeginAdd, CommitCase, AbortAdd, LockDocument
  <2>2. \A d \in Docs : active[d] <= active'[d]
    BY <1>1, <2>1
  <2> QED
    BY <2>1, <2>2, DatasetKeepsScores
<1>4. ASSUME NEW r \in Runners, Start(r) PROVE ScoreInv'
  BY <1>4, ForgettingKeepsScores DEF Start
<1>5. ASSUME NEW r \in Runners, NEW step \in {"judgment_count", "cases"}, GoTo(r, step)
      PROVE  ScoreInv'
  <2> DEFINE state == [rn[r] EXCEPT !.pc = step]
  <2>1. Become(r, state) /\ rn[r] \in RunnerState
    BY <1>5, OwnState DEF GoTo
  <2>2. /\ state.pc = step /\ state.pass = rn[r].pass
        /\ state.first = rn[r].first /\ state.seen = rn[r].seen
    BY <2>1 DEF RunnerState
  <2> HIDE DEF state
  <2> QED
    BY <2>1, <2>2, ReadingKeepsScores
<1>6. ASSUME NEW r \in Runners, CountCases(r) \/ CountJudgments(r) \/ RunFails(r)
      PROVE  ScoreInv'
  BY <1>5, <1>6, ForgettingKeepsScores, IdleIsIdle DEF CountCases, CountJudgments, RunFails
<1>7. ASSUME NEW r \in Runners, ReadCases(r) PROVE ScoreInv'
  <2> DEFINE state == [rn[r] EXCEPT !.pc = "judgments", !.rows = cases]
  <2>1. Become(r, state) /\ rn[r] \in RunnerState
    BY <1>7, OwnState DEF ReadCases
  <2>2. /\ state.pc = "judgments" /\ state.pass = rn[r].pass
        /\ state.first = rn[r].first /\ state.seen = rn[r].seen
    BY <2>1 DEF RunnerState
  <2> HIDE DEF state
  <2> QED
    BY <2>1, <2>2, ReadingKeepsScores
<1>8. ASSUME NEW r \in Runners, ReadJudgments(r) PROVE ScoreInv'
  <2> DEFINE state == [rn[r] EXCEPT !.pc = "audit", !.labels = cases]
  <2>1. Become(r, state) /\ rn[r] \in RunnerState
    BY <1>8, OwnState DEF ReadJudgments
  <2>2. /\ state.pc = "audit" /\ state.pass = rn[r].pass
        /\ state.first = rn[r].first /\ state.seen = rn[r].seen
    BY <2>1 DEF RunnerState
  <2> HIDE DEF state
  <2> QED
    BY <2>1, <2>2, ReadingKeepsScores
<1>9. ASSUME NEW r \in Runners, Audit(r) \/ Retrieve(r) \/ Recheck(r) \/ Save(r)
      PROVE  ScoreInv'
  BY <1>9, AuditKeepsScores, RetrieveKeepsScores, RecheckKeepsScores, SaveKeepsScores
<1>10. CASE UNCHANGED vars
  BY <1>1, <1>10, DatasetKeepsScores DEF vars
<1> QED
  BY <1>2, <1>3, <1>4, <1>6, <1>7, <1>8, <1>9, <1>10 DEF Next

\* What a saved run is scored against was active in each of its searches, for
\* every judgment the audit's LIMIT does not cut off.
THEOREM RunsScore == Spec => []ScoreInv
<1>1. Init => ScoreInv
  <2>1. Scoring(Idle, [d \in Docs |-> 1], AuditRows)
    BY DEF Scoring, Idle
  <2> QED
    BY <2>1 DEF Init, ScoreInv
<1>2. IndInv /\ IndInv' /\ ScoreInv /\ [Next]_vars => ScoreInv'
  BY ScoreStep
<1> QED
  BY <1>1, <1>2, RunInvariance, PTL DEF Spec

\* The LIMIT of the audit cuts off none of the dataset's judgments.
Uncut == Cardinality(Judgments(cases)) <= MaxJudgments + 1

LEMMA UncutIsAudited ==
  ASSUME IndInv, Uncut
  PROVE  Judgments(cases) \subseteq AuditRows
<1> SUFFICES ASSUME NEW row \in Judgments(cases) PROVE row \in AuditRows
  OBVIOUS
<1> DEFINE all  == Judgments(cases)
           before == {q \in all : Rank[q] < Rank[row]}
<1>1. Rank[row] \in Nat
  BY RankAssumption DEF IndInv, TypeOK, Judgments
<1>2. before \subseteq all \ {row}
  BY <1>1
<1>3. IsFiniteSet(all) /\ Cardinality(all) <= MaxJudgments + 1 /\ row \in all
  BY DEF IndInv, Finite, Uncut
<1>4. Cardinality(before) <= MaxJudgments
  <2> HIDE DEF all, before
  <2>1. IsFiniteSet(all \ {row}) /\ Cardinality(all \ {row}) = Cardinality(all) - 1
    BY <1>3, FS_RemoveElement
  <2>2. Cardinality(all) \in Nat
    BY <1>3, FS_CardinalityType
  <2>3. Cardinality(all \ {row}) <= MaxJudgments
    BY <1>3, <2>1, <2>2, LimitAssumption
  <2> QED
    BY <1>2, <2>1, <2>3, PartIsWithin, LimitAssumption
<1> QED
  BY <1>4 DEF AuditRows

\* As long as the judgments, which a check bounds before each load, exceed the
\* bound by at most one, every search behind a saved run was done while all its
\* judged chunks were active.  Beyond that the audit has not read them all: see
\* the run that finds the violation.
THEOREM UncutRunsScore == Spec => [](Uncut => RunsScoreJudgedIndex)
<1>1. ASSUME IndInv, ScoreInv, Uncut PROVE RunsScoreJudgedIndex
  <2> SUFFICES ASSUME NEW run \in runs, NEW view \in run.seen, NEW c \in run.cases,
                      NEW chunk \in Judged[c]
               PROVE  view.active[chunk[1]] = chunk[2]
    BY DEF RunsScoreJudgedIndex
  <2>1. run.cases \subseteq cases /\ RunScored(run, AuditRows)
    BY <1>1 DEF ScoreInv
  <2>2. <<c, chunk>> \in Judgments(run.cases)
    BY DEF Judgments
  <2>3. <<c, chunk>> \in AuditRows
    BY <1>1, <2>1, <2>2, UncutIsAudited, JudgmentsMonotone
  <2> QED
    BY <2>1, <2>2, <2>3 DEF RunScored
<1> QED
  BY <1>1, RunsScore, RunInvariance, PTL
=============================================================================
