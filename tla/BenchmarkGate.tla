--------------------------- MODULE BenchmarkGate ---------------------------
(***************************************************************************)
(* Baselines of one evaluation dataset: CI jobs that benchmark a candidate,*)
(* resolve the baseline, gate the candidate and promote it when it passes  *)
(* (spurel-benchmark-gate), and operators who promote any saved run by     *)
(* hand, all at the same time.                                             *)
(*                                                                         *)
(* Every step of a command is an HTTP request that the server goes on      *)
(* serving when its client has timed out.  Cases are added to the dataset  *)
(* meanwhile, so that two runs need not be comparable.                     *)
(***************************************************************************)
EXTENDS QualityGate

CONSTANTS
  Jobs,          \* spurel-benchmark-gate processes
  Operators,     \* PUT .../baselines requests of the workspace
  Configs,       \* retrieval configurations (their fingerprints)
  Measured,      \* metrics a benchmark may come out with
  Limits,        \* thresholds given to every job
  MaxTime,       \* bound on the clock
  NoRun          \* no run chosen

ASSUME CommandAssumption ==
  /\ Jobs \intersect Operators = {} /\ NoRun \notin Jobs
  /\ Measured \subseteq Value /\ Limits \in Thresholds
  /\ MaxTime \in Nat

VARIABLES
  now,           \* the server's clock
  asked,         \* cases of the dataset and their queries
  runs,          \* evaluation_runs; a job's run has the job's name
  table,         \* evaluation_baselines
  history,       \* evaluation_baseline_promotions
  cmd            \* what each command, or the server for it, is doing

vars == <<now, asked, runs, table, history, cmd>>

Commands == Jobs \union Operators

SavedRun == [config : Configs, asked : Asked, value : Measured]

\* id: the uuid drawn by the promotion that inserted the row.
Baseline == [config : Configs, id : Commands, run : Jobs, at : 0 .. MaxTime]

Steps == {"start", "evaluate", "resolve", "gate", "promote", "commit", "done"}

Exits == {"running", "pass", "fail", "not_evaluable", "error"}

Started(step, promote, baseline, run) ==
  [pc |-> step, exit |-> "running", promote |-> promote, baseline |-> baseline,
   run |-> run, at |-> 0]

Idle == Started("start", FALSE, NoRun, NoRun)

\* Rows and commands are well formed, with one baseline per configuration
\* (uq_evaluation_baselines_dataset_config).
TypeOK ==
  /\ now \in 0 .. MaxTime
  /\ asked \in Asked
  /\ DOMAIN runs \subseteq Jobs /\ \A j \in DOMAIN runs : runs[j] \in SavedRun
  /\ table \subseteq Baseline
  /\ \A b, c \in table : b.config = c.config => b = c
  /\ history \subseteq [row : Baseline, by : Commands]
  /\ cmd \in [Commands -> [pc : Steps, exit : Exits, promote : BOOLEAN,
                           baseline : Jobs \union {NoRun},
                           run : Jobs \union {NoRun}, at : 0 .. MaxTime]]

-----------------------------------------------------------------------------

Init ==
  /\ now = 0
  /\ asked \in Asked
  /\ runs = [j \in {} |-> NoRun]
  /\ table = {}
  /\ history = {}
  /\ cmd = [c \in Commands |-> Idle]

Tick ==
  /\ now < MaxTime
  /\ now' = now + 1
  /\ UNCHANGED <<asked, runs, table, history, cmd>>

\* Cases are only ever added.
AddCases ==
  /\ asked' \in {a \in Asked \ {asked} :
                  /\ DOMAIN asked \subseteq DOMAIN a
                  /\ \A case \in DOMAIN asked : a[case] = asked[case]}
  /\ UNCHANGED <<now, runs, table, history, cmd>>

Become(c, state) ==
  /\ cmd' = [cmd EXCEPT ![c] = state]
  /\ UNCHANGED <<now, asked>>

\* The next request is sent if the client of c is still there.
GoTo(c, step) ==
  [cmd[c] EXCEPT !.pc = IF cmd[c].exit = "running" THEN step ELSE "done"]

Exit(c, code) ==
  [cmd[c] EXCEPT !.pc = "done", !.exit = IF @ = "running" THEN code ELSE @]

-----------------------------------------------------------------------------

\* run_benchmark_gate_cli with its arguments.
StartJob(j) ==
  /\ cmd[j].pc = "start"
  /\ \E promote \in BOOLEAN, explicit \in DOMAIN runs \union {NoRun} :
       Become(j, Started("evaluate", promote, explicit, j))
  /\ UNCHANGED <<runs, table, history>>

\* POST .../evaluate/<mode>: the candidate is measured and saved.
Evaluate(j) ==
  /\ cmd[j].pc = "evaluate"
  /\ \E config \in Configs, value \in Measured :
       runs' = [i \in DOMAIN runs \union {j} |->
                  IF i = j THEN [config |-> config, asked |-> asked, value |-> value]
                           ELSE runs[i]]
  /\ Become(j, GoTo(j, "resolve"))
  /\ UNCHANGED <<table, history>>

\* POST .../baselines/resolve, unless the baseline was given.  The candidate
\* itself may have been promoted by hand in the meantime.
Resolve(j) ==
  /\ cmd[j].pc = "resolve"
  /\ LET found == IF cmd[j].baseline # NoRun THEN {cmd[j].baseline}
                  ELSE {b.run : b \in {row \in table : row.config = runs[j].config}}
     IN  IF found \subseteq {j}
           THEN Become(j, Exit(j, "error"))
           ELSE \E run \in found :
                  Become(j, [GoTo(j, "gate") EXCEPT !.baseline = run])
  /\ UNCHANGED <<runs, table, history>>

PromotesUnlessFailed(j, status) == cmd[j].promote /\ status # "fail"

Promotes(j, status) == cmd[j].promote /\ status = "pass"

\* POST .../quality-gates/evaluate, and the exit code it is turned into.
Decide(j) ==
  /\ cmd[j].pc = "gate"
  /\ LET status == Gate(runs[cmd[j].baseline], runs[j], Limits)
     IN  Become(j, IF Promotes(j, status) THEN GoTo(j, "promote") ELSE Exit(j, status))
  /\ UNCHANGED <<runs, table, history>>

\* An operator picks a saved run.
StartOperator(o) ==
  /\ cmd[o].pc = "start"
  /\ \E run \in DOMAIN runs : Become(o, Started("promote", FALSE, NoRun, run))
  /\ UNCHANGED <<runs, table, history>>

\* PUT .../baselines: the run is read and promoted_at is taken ...
ReadRun(c) ==
  /\ cmd[c].pc = "promote"
  /\ Become(c, [cmd[c] EXCEPT !.pc = "commit", !.at = now])
  /\ UNCHANGED <<runs, table, history>>

\* INSERT ... ON CONFLICT DO UPDATE: the row keeps its id.
Upserted(c) ==
  LET old == {b \in table : b.config = runs[cmd[c].run].config}
  IN  [config |-> runs[cmd[c].run].config,
       id     |-> IF old = {} THEN c ELSE (CHOOSE b \in old : TRUE).id,
       run    |-> cmd[c].run,
       at     |-> cmd[c].at]

Replaced(row) == {b \in table : b.config = row.config}

PromotionOfRequest(c) ==
  [config |-> runs[cmd[c].run].config, id |-> c, run |-> cmd[c].run, at |-> cmd[c].at]

\* The snapshot is taken of the row as it was returned.
Promotion(c) == Upserted(c)

\* ... then baseline and snapshot are written in one transaction.
Promote(c) ==
  /\ table' = (table \ Replaced(Upserted(c))) \union {Upserted(c)}
  /\ history' = history \union {[row |-> Promotion(c), by |-> c]}
  /\ UNCHANGED runs

Commit(c) ==
  /\ cmd[c].pc = "commit"
  /\ Promote(c)
  /\ Become(c, Exit(c, "pass"))

CommitFailsUnseen(c) ==
  /\ cmd[c].pc = "commit"
  /\ Promote(c) \/ UNCHANGED <<runs, table, history>>
  /\ Become(c, Exit(c, "pass"))

\* The transaction reports an error, committed or not.
CommitFails(c) ==
  /\ cmd[c].pc = "commit"
  /\ Promote(c) \/ UNCHANGED <<runs, table, history>>
  /\ Become(c, Exit(c, "error"))

\* The client gives up; what it asked for last is still carried out.
TimesOut(c) ==
  /\ cmd[c].pc \notin {"start", "done"} /\ cmd[c].exit = "running"
  /\ Become(c, [cmd[c] EXCEPT !.exit = "error"])
  /\ UNCHANGED <<runs, table, history>>

\* The connection breaks after the request: the HTTPException or OSError of
\* getresponse or read is none of the errors that are caught, and Python ends
\* the process with the status that stands for a failed gate.
Disconnects(j) ==
  /\ cmd[j].pc \notin {"start", "done"} /\ cmd[j].exit = "running"
  /\ Become(j, [cmd[j] EXCEPT !.exit = "fail"])
  /\ UNCHANGED <<runs, table, history>>

\* A request fails without effect.
CallFails(c) ==
  /\ cmd[c].pc \notin {"start", "commit", "done"}
  /\ Become(c, Exit(c, "error"))
  /\ UNCHANGED <<runs, table, history>>

Next ==
  \/ Tick \/ AddCases
  \/ \E j \in Jobs : \/ StartJob(j) \/ Evaluate(j) \/ Resolve(j)
                     \/ Decide(j) \/ Disconnects(j)
  \/ \E o \in Operators : StartOperator(o)
  \/ \E c \in Commands : \/ ReadRun(c) \/ Commit(c) \/ CommitFails(c)
                         \/ TimesOut(c) \/ CallFails(c)

Spec == Init /\ [][Next]_vars

-----------------------------------------------------------------------------

PromotedBy(c) == {p \in history : p.by = c}

\* What CI is told of the candidate holds, whatever operators and other jobs
\* did meanwhile.  Pass: no limited metric is worse than in the baseline by more
\* than its limit, and the candidate is promoted if that was asked for.
\* not_evaluable: it is not promoted.
ExitCodeIsTrue ==
  \A j \in Jobs :
    /\ cmd[j].exit = "pass" =>
         /\ \A m \in Configured(Limits) :
              Regression(m, runs[cmd[j].baseline], runs[j]) <= Limits[m]
         /\ cmd[j].promote => \E p \in PromotedBy(j) : p.row.run = j
    /\ cmd[j].exit = "not_evaluable" => PromotedBy(j) = {}

\* Exit code 1: "at least one configured regression threshold failed", and so
\* the baseline is left as it was.
ExitOneIsARegression ==
  \A j \in Jobs : cmd[j].exit = "fail" =>
    /\ PromotedBy(j) = {}
    /\ cmd[j].baseline \in DOMAIN runs
    /\ \E m \in Configured(Limits) :
         Regression(m, runs[cmd[j].baseline], runs[j]) > Limits[m]

\* Whatever became of its client, a job promotes its own run only, and only
\* after comparing it with another run of the same cases in which every limited
\* metric is known and not worse by more than its limit.
OnlyPassingRunsArePromoted ==
  \A j \in Jobs : \A p \in PromotedBy(j) :
    /\ p.row.run = j
    /\ cmd[j].baseline \in DOMAIN runs \ {j}
    /\ runs[cmd[j].baseline].asked = runs[j].asked
    /\ \A m \in Configured(Limits) :
         /\ NoValue \notin {runs[cmd[j].baseline].value[m], runs[j].value[m]}
         /\ Regression(m, runs[cmd[j].baseline], runs[j]) <= Limits[m]

\* The audit trail accounts for the table: each baseline row is one of its
\* promotions, of a run of its configuration, and all promotions of a
\* configuration are filed under the id of its one row, however the requests
\* that inserted and updated it raced.
HistoryAccountsForTable ==
  /\ \A b \in table : \E p \in history : p.row = b
  /\ \A p \in history :
       /\ p.row.run \in DOMAIN runs /\ runs[p.row.run].config = p.row.config
       /\ \E b \in table : b.config = p.row.config /\ b.id = p.row.id

\* "append-only promotion history newest first": the promotion that is in force
\* is the first one that the history of its configuration lists.
HistoryNewestFirst ==
  \A b \in table : \A p \in history :
    p.row.config = b.config => p.row.at <= b.at
=============================================================================
