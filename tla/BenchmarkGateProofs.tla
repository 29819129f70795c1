------------------------- MODULE BenchmarkGateProofs -------------------------
(***************************************************************************)
(* The quality gate for every set of metrics, every bound on their values  *)
(* and every pair of runs: what its answers say, and that it is monotone.  *)
(* Then BenchmarkGate, which asks it, for any number of jobs, operators    *)
(* and configurations, any outcomes of the benchmarks and any limits.      *)
(***************************************************************************)
EXTENDS BenchmarkGate, QualityGateDecision, TLAPS

\* A metric that is known has an amount, and everything but coverage is known.
LEMMA ValueKnown ==
  ASSUME NEW run, run.value \in Value, NEW m \in Metrics
  PROVE  /\ run.value[m] \in Amount \union {NoValue}
         /\ run.value[m] # NoValue => run.value[m] \in Int
         /\ m \notin Optional => run.value[m] # NoValue
BY ValueAssumption DEF Value, Amount

\* A configured threshold is an amount.
LEMMA ThresholdKnown ==
  ASSUME NEW t \in Thresholds, NEW m \in Configured(t)
  PROVE  m \in Metrics /\ t[m] \in Int
BY ValueAssumption DEF Thresholds, Configured, Amount

\* Available metrics are known on both sides.
LEMMA AvailableKnown ==
  ASSUME NEW one, one.value \in Value, NEW two, two.value \in Value,
         NEW t \in Thresholds,
         NEW m \in Configured(t) \ Unavailable(one, two, t)
  PROVE  /\ one.asked = two.asked
         /\ one.value[m] # NoValue /\ two.value[m] # NoValue
         /\ one.value[m] \in Int /\ two.value[m] \in Int /\ t[m] \in Int
<1>1. m \in Metrics /\ t[m] \in Int
  BY ThresholdKnown
<1>2. one.asked = two.asked
  BY DEF Unavailable, AggregateComparable
<1>3. one.value[m] # NoValue /\ two.value[m] # NoValue
  BY <1>1, <1>2, ValueKnown DEF Unavailable, AggregateComparable
<1> QED
  BY <1>1, <1>2, <1>3, ValueKnown

\* Thresholds ask for something, so that a gate that is evaluable has compared
\* two runs of the same cases.
LEMMA EvaluableIsComparable ==
  ASSUME NEW one, one.value \in Value, NEW two, two.value \in Value,
         NEW t \in Thresholds,
         Gate(one, two, t) # "not_evaluable"
  PROVE  Unavailable(one, two, t) = {} /\ one.asked = two.asked
<1>1. Unavailable(one, two, t) = {}
  BY DEF Gate
<1>2. Configured(t) # {}
  BY DEF Thresholds, Configured
<1> QED
  BY <1>1, <1>2 DEF Unavailable, AggregateComparable

\* A pass leaves every limited metric within its threshold.
LEMMA PassIsWithin ==
  ASSUME NEW one, one.value \in Value, NEW two, two.value \in Value,
         NEW t \in Thresholds, Gate(one, two, t) = "pass"
  PROVE  /\ one.asked = two.asked
         /\ \A m \in Configured(t) :
              /\ NoValue \notin {one.value[m], two.value[m]}
              /\ Regression(m, one, two) <= t[m]
<1>1. Unavailable(one, two, t) = {} /\ one.asked = two.asked
  BY EvaluableIsComparable
<1>2. Failed(one, two, t) = {}
  BY <1>1 DEF Gate
<1>3. ASSUME NEW m \in Configured(t)
      PROVE  /\ NoValue \notin {one.value[m], two.value[m]}
             /\ Regression(m, one, two) <= t[m]
  <2>1. /\ one.value[m] # NoValue /\ two.value[m] # NoValue
        /\ one.value[m] \in Int /\ two.value[m] \in Int /\ t[m] \in Int
    BY <1>1, AvailableKnown
  <2>2. ~ (Regression(m, one, two) > t[m])
    BY <1>1, <1>2 DEF Failed
  <2>3. Regression(m, one, two) \in Int
    BY <2>1 DEF Regression
  <2> QED
    BY <2>1, <2>2, <2>3
<1> QED
  BY <1>1, <1>3

-----------------------------------------------------------------------------

\* The answer, once there is one, is the gate's for the runs it was asked about.
Decided ==
  /\ first \in Run /\ second \in Run /\ thresholds \in Thresholds
  /\ status \in {"none", Gate(first, second, thresholds)}

\* What was asked and answered never changes.
THEOREM DecidedAlways == DecisionSpec => []Decided
<1>1. DecisionInit => Decided
  BY DEF DecisionInit, Decided
<1>2. Decided /\ [EvaluateGate]_decisionVars => Decided'
  BY DEF Decided, EvaluateGate, decisionVars
<1> QED
  BY <1>1, <1>2, PTL DEF DecisionSpec

\* Whatever the runs, a pass is within all thresholds.
THEOREM PassWithinThresholds == DecisionSpec => []PassIsWithinThresholds
<1>1. Decided => PassIsWithinThresholds
  <2> SUFFICES ASSUME Decided, status = "pass"
               PROVE  /\ first.asked = second.asked
                      /\ \A m \in Configured(thresholds) :
                           /\ NoValue \notin {first.value[m], second.value[m]}
                           /\ Gain(m) >= -thresholds[m]
    BY DEF PassIsWithinThresholds
  <2>1. Gate(first, second, thresholds) = "pass"
    BY DEF Decided
  <2>2. first \in Run /\ second \in Run /\ thresholds \in Thresholds
    BY DEF Decided
  <2>3. Unavailable(first, second, thresholds) = {} /\ first.asked = second.asked
    BY <2>1, <2>2, EvaluableIsComparable DEF Run
  <2>4. Failed(first, second, thresholds) = {}
    BY <2>1, <2>3 DEF Gate
  <2>5. ASSUME NEW m \in Configured(thresholds)
        PROVE  /\ NoValue \notin {first.value[m], second.value[m]}
               /\ Gain(m) >= -thresholds[m]
    <3>1. /\ first.value[m] # NoValue /\ second.value[m] # NoValue
          /\ first.value[m] \in Int /\ second.value[m] \in Int
          /\ thresholds[m] \in Int
      BY <2>2, <2>3, AvailableKnown DEF Run
    <3>2. ~ (Regression(m, first, second) > thresholds[m])
      BY <2>3, <2>4 DEF Failed
    <3> QED
      BY <3>1, <3>2 DEF Regression, Gain
  <2> QED
    BY <2>3, <2>5
<1> QED
  BY <1>1, DecidedAlways, PTL

\* Whatever the runs, a failure has a metric that regressed.
THEOREM FailRegressed == DecisionSpec => []FailIsARegression
<1>1. Decided => FailIsARegression
  <2> SUFFICES ASSUME Decided, status = "fail"
               PROVE  /\ first.asked = second.asked
                      /\ \E m \in Configured(thresholds) :
                           /\ NoValue \notin {first.value[m], second.value[m]}
                           /\ Gain(m) < -thresholds[m]
    BY DEF FailIsARegression
  <2>1. Gate(first, second, thresholds) = "fail"
    BY DEF Decided
  <2>2. first \in Run /\ second \in Run /\ thresholds \in Thresholds
    BY DEF Decided
  <2>3. Unavailable(first, second, thresholds) = {} /\ first.asked = second.asked
    BY <2>1, <2>2, EvaluableIsComparable DEF Run
  <2>4. PICK m \in Configured(thresholds) :
          Regression(m, first, second) > thresholds[m]
    BY <2>1, <2>3 DEF Gate, Failed
  <2>5. /\ first.value[m] # NoValue /\ second.value[m] # NoValue
        /\ first.value[m] \in Int /\ second.value[m] \in Int
        /\ thresholds[m] \in Int
    BY <2>2, <2>3, AvailableKnown DEF Run
  <2>6. thresholds[m] >= 0
    BY <2>2, <2>5, ValueAssumption DEF Thresholds, Configured, Amount
  <2>7. Gain(m) < -thresholds[m]
    BY <2>4, <2>5, <2>6 DEF Regression, Gain
  <2> QED
    BY <2>3, <2>5, <2>7
<1> QED
  BY <1>1, DecidedAlways, PTL

\* The gate is monotone: no improvement turns a pass into anything else.
THEOREM Monotone == DecisionSpec => []ImprovementKeepsPass
<1>1. Decided => ImprovementKeepsPass
  <2> SUFFICES ASSUME Decided, status = "pass", NEW run \in Run,
                      run.asked = second.asked, AsGood(run, second)
               PROVE  Gate(first, run, thresholds) = "pass"
    BY DEF ImprovementKeepsPass
  <2>1. Gate(first, second, thresholds) = "pass"
    BY DEF Decided
  <2>2. first \in Run /\ second \in Run /\ thresholds \in Thresholds
    BY DEF Decided
  <2>3. Unavailable(first, second, thresholds) = {} /\ first.asked = second.asked
    BY <2>1, <2>2, EvaluableIsComparable DEF Run
  <2>4. Failed(first, second, thresholds) = {}
    BY <2>1, <2>3 DEF Gate
  <2>5. ASSUME NEW m \in Configured(thresholds)
        PROVE  /\ run.value[m] # NoValue
               /\ ~ (Regression(m, first, run) > thresholds[m])
    <3>1. /\ first.value[m] # NoValue /\ second.value[m] # NoValue
          /\ first.value[m] \in Int /\ second.value[m] \in Int
          /\ thresholds[m] \in Int
      BY <2>2, <2>3, AvailableKnown DEF Run
    <3>2. ~ (Regression(m, first, second) > thresholds[m])
      BY <2>3, <2>4 DEF Failed
    <3>3. m \in Metrics
      BY <2>2, ThresholdKnown
    <3>4. \/ run.value[m] = second.value[m]
          \/ /\ run.value[m] # NoValue
             /\ IF m \in LowerIsBetter THEN run.value[m] <= second.value[m]
                                       ELSE run.value[m] >= second.value[m]
      BY <3>3 DEF AsGood
    <3>5. run.value[m] # NoValue /\ run.value[m] \in Int
      BY <3>1, <3>3, <3>4, ValueKnown DEF Run
    <3> QED
      BY <3>1, <3>2, <3>4, <3>5 DEF Regression
  <2>6. Unavailable(first, run, thresholds) = {}
    BY <2>3, <2>5 DEF Unavailable, AggregateComparable
  <2>7. Failed(first, run, thresholds) = {}
    BY <2>5 DEF Failed
  <2> QED
    BY <2>6, <2>7 DEF Gate
<1> QED
  BY <1>1, DecidedAlways, PTL

-----------------------------------------------------------------------------
\* The candidate of j passed the gate against the baseline j settled on.
Passed(j) ==
  /\ j \in DOMAIN runs /\ cmd[j].baseline # NoRun
  /\ Gate(runs[cmd[j].baseline], runs[j], Limits) = "pass"

\* A job's run is saved once, promoted only after it passed, and only by the
\* last step of the job, which is also what tells its client.
Sound(j) ==
  /\ cmd[j].pc \in {"start", "evaluate"} => j \notin DOMAIN runs
  /\ cmd[j].pc \in {"resolve", "gate", "promote", "commit"} => j \in DOMAIN runs
  /\ cmd[j].pc # "start" => cmd[j].run = j
  /\ cmd[j].baseline # NoRun => cmd[j].baseline \in DOMAIN runs \ {j}
  /\ cmd[j].pc = "gate" => cmd[j].baseline # NoRun
  /\ cmd[j].pc \in {"promote", "commit"} => Passed(j)
  /\ cmd[j].exit = "pass" =>
       cmd[j].pc = "done" /\ Passed(j) /\ (cmd[j].promote => PromotedBy(j) # {})
  /\ cmd[j].exit = "not_evaluable" => cmd[j].pc = "done" /\ PromotedBy(j) = {}
  /\ PromotedBy(j) # {} => cmd[j].pc = "done" /\ Passed(j)
  /\ \A p \in PromotedBy(j) : p.row.run = j

\* An operator promotes a saved run.
Chosen(o) == cmd[o].pc # "start" => cmd[o].run \in DOMAIN runs

IndInv ==
  /\ TypeOK
  /\ HistoryAccountsForTable
  /\ \A j \in Jobs : Sound(j)
  /\ \A o \in Operators : Chosen(o)

-----------------------------------------------------------------------------

\* What holds of a command is not disturbed by others, which at most save runs
\* of their own and promotions of their own.
LEMMA Undisturbed ==
  ASSUME NEW c \in Jobs, Sound(c), cmd'[c] = cmd[c],
         DOMAIN runs \subseteq DOMAIN runs',
         \A i \in DOMAIN runs : runs'[i] = runs[i],
         c \in DOMAIN runs' => c \in DOMAIN runs,
         PromotedBy(c)' = PromotedBy(c)
  PROVE  Sound(c)'
<1>1. Passed(c) => Passed(c)'
  BY DEF Passed, Sound
<1> QED
  BY <1>1 DEF Sound

LEMMA ChosenStays ==
  ASSUME NEW o \in Operators, Chosen(o), cmd'[o] = cmd[o],
         DOMAIN runs \subseteq DOMAIN runs'
  PROVE  Chosen(o)'
BY DEF Chosen

\* Promotions of others are not promotions of c.
LEMMA OthersPromotions ==
  ASSUME NEW c, NEW d, c # d, NEW row,
         \/ history' = history
         \/ history' = history \union {[row |-> row, by |-> d]}
  PROVE  PromotedBy(c)' = PromotedBy(c)
BY DEF PromotedBy

CommandState ==
  [pc : Steps, exit : Exits, promote : BOOLEAN, baseline : Jobs \union {NoRun},
   run : Jobs \union {NoRun}, at : 0 .. MaxTime]

\* A command that changes only its own state disturbs nobody else.
LEMMA QuietStep ==
  ASSUME IndInv, NEW c \in Commands, NEW state \in CommandState,
         Become(c, state), UNCHANGED <<runs, table, history>>,
         c \in Jobs => Sound(c)', c \in Operators => Chosen(c)'
  PROVE  IndInv'
<1>1. cmd' = [cmd EXCEPT ![c] = state] /\ now' = now /\ asked' = asked
  BY DEF Become
<1>2. TypeOK'
  BY <1>1 DEF IndInv, TypeOK, CommandState
<1>3. HistoryAccountsForTable'
  BY DEF IndInv, HistoryAccountsForTable
<1>4. ASSUME NEW d \in Commands, d # c PROVE cmd'[d] = cmd[d]
  BY <1>1, <1>4 DEF IndInv, TypeOK
<1>5. ASSUME NEW j \in Jobs PROVE Sound(j)'
  <2>1. CASE j = c
    BY <2>1
  <2>2. CASE j # c
    <3>1. cmd'[j] = cmd[j]
      BY <1>4, <2>2 DEF Commands
    <3>2. PromotedBy(j)' = PromotedBy(j)
      BY DEF PromotedBy
    <3>3. Sound(j)
      BY DEF IndInv
    <3> QED
      BY <3>1, <3>2, <3>3, Undisturbed
  <2> QED
    BY <2>1, <2>2
<1>6. ASSUME NEW o \in Operators PROVE Chosen(o)'
  <2>1. CASE o = c
    BY <2>1
  <2>2. CASE o # c
    <3>1. cmd'[o] = cmd[o]
      BY <1>4, <2>2 DEF Commands
    <3>2. Chosen(o)
      BY DEF IndInv
    <3> QED
      BY <3>1, <3>2, ChosenStays
  <2> QED
    BY <2>1, <2>2
<1> QED
  BY <1>2, <1>3, <1>5, <1>6 DEF IndInv

\* What a command knows of itself in a state that satisfies IndInv.
LEMMA OwnState ==
  ASSUME IndInv, NEW c \in Commands
  PROVE  /\ cmd[c] \in CommandState
         /\ c \in Jobs => Sound(c)
         /\ c \in Operators => Chosen(c)
         /\ \A state : Become(c, state) => cmd'[c] = state
BY DEF IndInv, TypeOK, CommandState, Become

LEMMA StartJobKeeps ==
  ASSUME IndInv, NEW j \in Jobs, StartJob(j)
  PROVE  IndInv'
<1>1. PICK promote \in BOOLEAN, explicit \in DOMAIN runs \union {NoRun} :
        Become(j, Started("evaluate", promote, explicit, j))
  BY DEF StartJob
<1> DEFINE state == Started("evaluate", promote, explicit, j)
<1>2. Become(j, state)
  BY <1>1
<1>3. state \in CommandState
  BY CommandAssumption DEF IndInv, TypeOK, CommandState, Steps, Exits, Started
<1>4. j \in Commands /\ j \notin Operators
  BY CommandAssumption DEF Commands
<1>5. UNCHANGED <<runs, table, history>> /\ cmd[j].pc = "start"
  BY DEF StartJob
<1>6. Sound(j)'
  <2>1. cmd'[j] = state
    BY <1>2, <1>4, OwnState
  <2>2. Sound(j)
    BY DEF IndInv
  <2>3. j \notin DOMAIN runs /\ PromotedBy(j)' = PromotedBy(j) /\ PromotedBy(j) = {}
    BY <1>5, <2>2 DEF Sound, Passed, PromotedBy
  <2> QED
    BY <1>5, <2>1, <2>3 DEF Sound, Passed, Started
<1> HIDE DEF state
<1> QED
  BY <1>2, <1>3, <1>4, <1>5, <1>6, QuietStep

\* The fields of the states that GoTo and Exit make.
LEMMA NextState ==
  ASSUME NEW c \in Commands, cmd[c] \in CommandState,
         NEW step \in Steps, NEW code \in Exits
  PROVE  /\ GoTo(c, step) \in CommandState
         /\ GoTo(c, step).pc \in {"done", step}
         /\ GoTo(c, step).exit = cmd[c].exit
         /\ GoTo(c, step).promote = cmd[c].promote
         /\ GoTo(c, step).baseline = cmd[c].baseline
         /\ GoTo(c, step).run = cmd[c].run
         /\ Exit(c, code) \in CommandState
         /\ Exit(c, code).pc = "done"
         /\ Exit(c, code).exit \in {cmd[c].exit, code}
         /\ cmd[c].exit = "running" => Exit(c, code).exit = code
         /\ Exit(c, code).promote = cmd[c].promote
         /\ Exit(c, code).baseline = cmd[c].baseline
         /\ Exit(c, code).run = cmd[c].run
BY DEF GoTo, Exit, CommandState, Steps

\* A job whose step is not the last one has not been promoted and has told
\* its client nothing about the candidate.
LEMMA NotYetDone ==
  ASSUME NEW j \in Jobs, Sound(j), cmd[j].pc # "done"
  PROVE  PromotedBy(j) = {} /\ cmd[j].exit # "not_evaluable"
BY DEF Sound

LEMMA ResolveKeeps ==
  ASSUME IndInv, NEW j \in Jobs, Resolve(j)
  PROVE  IndInv'
<1> DEFINE found == IF cmd[j].baseline # NoRun THEN {cmd[j].baseline}
                    ELSE {b.run : b \in {row \in table : row.config = runs[j].config}}
<1>1. j \in Commands /\ j \notin Operators
  BY CommandAssumption DEF Commands
<1>2. cmd[j] \in CommandState /\ Sound(j)
  BY <1>1, OwnState
<1>3. UNCHANGED <<runs, table, history>> /\ cmd[j].pc = "resolve"
  BY DEF Resolve
<1>4. PromotedBy(j)' = PromotedBy(j) /\ PromotedBy(j) = {} /\ j \in DOMAIN runs
  BY <1>2, <1>3, NotYetDone DEF PromotedBy, Sound
<1>5. CASE found \subseteq {j}
  <2>1. Become(j, Exit(j, "error"))
    BY <1>5 DEF Resolve
  <2>2. Exit(j, "error") \in CommandState /\ cmd'[j] = Exit(j, "error")
    BY <1>1, <1>2, <2>1, NextState, OwnState DEF Exits, Steps
  <2>3. Sound(j)'
    BY <1>1, <1>2, <1>3, <1>4, <2>2, NextState DEF Sound, Passed, Exits, Steps
  <2> QED
    BY <1>1, <1>3, <2>1, <2>2, <2>3, QuietStep
<1>6. CASE ~(found \subseteq {j})
  <2>1. PICK run \in found : Become(j, [GoTo(j, "gate") EXCEPT !.baseline = run])
    BY <1>6 DEF Resolve
  <2> DEFINE state == [GoTo(j, "gate") EXCEPT !.baseline = run]
  <2>2. run \in DOMAIN runs \ {j}
    <3>1. CASE cmd[j].baseline # NoRun
      BY <1>2, <3>1 DEF Sound
    <3>2. CASE cmd[j].baseline = NoRun
      <4>1. PICK b \in table : b.config = runs[j].config /\ b.run = run
        BY <3>2
      <4>2. b.run \in DOMAIN runs
        BY DEF IndInv, HistoryAccountsForTable
      <4>3. found = {run}
        BY <3>2, <4>1 DEF IndInv, TypeOK
      <4> QED
        BY <1>6, <4>1, <4>2, <4>3
    <3> QED
      BY <3>1, <3>2
  <2>3. /\ GoTo(j, "gate") \in CommandState
        /\ GoTo(j, "gate").pc \in {"done", "gate"}
        /\ GoTo(j, "gate").exit = cmd[j].exit
        /\ GoTo(j, "gate").run = cmd[j].run
    BY <1>1, <1>2, NextState DEF Steps, Exits
  <2>4. run \in Jobs
    BY <2>2 DEF IndInv, TypeOK
  <2>5. /\ state \in CommandState
        /\ state.pc \in {"done", "gate"}
        /\ state.exit = cmd[j].exit
        /\ state.run = cmd[j].run
        /\ state.baseline = run
    BY <2>3, <2>4 DEF CommandState
  <2>6. cmd'[j] = state
    BY <1>1, <2>1, OwnState
  <2>7. Sound(j)'
    <3>1. cmd[j].exit # "pass"
      BY <1>2, <1>3 DEF Sound
    <3> HIDE DEF state
    <3> QED
      BY <1>2, <1>3, <1>4, <2>2, <2>4, <2>5, <2>6, <3>1, CommandAssumption
      DEF Sound, Passed
  <2> HIDE DEF state
  <2> QED
    BY <1>1, <1>3, <2>1, <2>5, <2>7, QuietStep DEF state
<1> QED
  BY <1>5, <1>6

LEMMA DecideKeeps ==
  ASSUME IndInv, NEW j \in Jobs, Decide(j)
  PROVE  IndInv'
<1> DEFINE verdict == Gate(runs[cmd[j].baseline], runs[j], Limits)
<1>1. j \in Commands /\ j \notin Operators
  BY CommandAssumption DEF Commands
<1>2. cmd[j] \in CommandState /\ Sound(j)
  BY <1>1, OwnState
<1>3. UNCHANGED <<runs, table, history>> /\ cmd[j].pc = "gate"
  BY DEF Decide
<1>4. PromotedBy(j)' = PromotedBy(j) /\ PromotedBy(j) = {} /\ j \in DOMAIN runs
  BY <1>2, <1>3, NotYetDone DEF PromotedBy, Sound
<1>5. verdict \in {"pass", "fail", "not_evaluable"}
  BY DEF Gate
<1>6. cmd[j].exit \notin {"pass", "not_evaluable"} /\ cmd[j].baseline # NoRun
  BY <1>2, <1>3 DEF Sound
<1>7. CASE Promotes(j, verdict)
  <2>1. Become(j, GoTo(j, "promote")) /\ verdict = "pass"
    BY <1>7 DEF Decide, Promotes
  <2>2. GoTo(j, "promote") \in CommandState /\ cmd'[j] = GoTo(j, "promote")
    BY <1>1, <1>2, <2>1, NextState, OwnState DEF Exits, Steps
  <2>3. /\ cmd'[j].pc \in {"done", "promote"} /\ cmd'[j].exit = cmd[j].exit
        /\ cmd'[j].baseline = cmd[j].baseline /\ cmd'[j].run = cmd[j].run
    BY <1>1, <1>2, <2>2, NextState DEF Exits, Steps
  <2>4. Passed(j)'
    BY <1>3, <1>4, <1>6, <2>1, <2>3 DEF Passed
  <2>5. Sound(j)'
    BY <1>2, <1>3, <1>4, <1>6, <2>3, <2>4 DEF Sound
  <2> QED
    BY <1>1, <1>3, <2>1, <2>2, <2>5, QuietStep
<1>8. CASE ~Promotes(j, verdict)
  <2>1. Become(j, Exit(j, verdict))
    BY <1>8 DEF Decide
  <2> HIDE DEF verdict
  <2>6. verdict \in Exits /\ "promote" \in Steps
    BY <1>5 DEF Exits, Steps
  <2>7. cmd'[j] = Exit(j, verdict)
    BY <1>1, <2>1, OwnState
  <2>2. Exit(j, verdict) \in CommandState /\ cmd'[j] = Exit(j, verdict)
    BY <1>1, <1>2, <2>6, <2>7, NextState
  <2>3. /\ cmd'[j].pc = "done" /\ cmd'[j].exit \in {cmd[j].exit, verdict}
        /\ cmd'[j].baseline = cmd[j].baseline /\ cmd'[j].run = cmd[j].run
        /\ cmd'[j].promote = cmd[j].promote
    BY <1>1, <1>2, <2>6, <2>7, NextState
  <2>4. verdict = "pass" => Passed(j)' /\ ~cmd[j].promote
    BY <1>3, <1>4, <1>6, <1>8, <2>3 DEF Passed, Promotes, verdict
  <2>5. Sound(j)'
    BY <1>2, <1>3, <1>4, <1>6, <2>3, <2>4 DEF Sound
  <2> QED
    BY <1>1, <1>3, <2>1, <2>2, <2>5, QuietStep
<1> QED
  BY <1>7, <1>8

LEMMA StartOperatorKeeps ==
  ASSUME IndInv, NEW o \in Operators, StartOperator(o)
  PROVE  IndInv'
<1>1. PICK run \in DOMAIN runs : Become(o, Started("promote", FALSE, NoRun, run))
  BY DEF StartOperator
<1> DEFINE state == Started("promote", FALSE, NoRun, run)
<1>2. state \in CommandState
  BY CommandAssumption DEF IndInv, TypeOK, CommandState, Steps, Exits, Started
<1>3. o \in Commands /\ o \notin Jobs
  BY CommandAssumption DEF Commands
<1>4. UNCHANGED <<runs, table, history>>
  BY DEF StartOperator
<1>5. Chosen(o)'
  <2>1. cmd'[o] = state
    BY <1>1, <1>3, OwnState
  <2> QED
    BY <1>4, <2>1 DEF Chosen, Started
<1> HIDE DEF state
<1> QED
  BY <1>1, <1>2, <1>3, <1>4, <1>5, QuietStep DEF state

\* Reading the run, or losing the client, changes neither what was measured nor
\* what was promoted.
LEMMA OwnStepKeeps ==
  ASSUME IndInv, NEW c \in Commands, NEW state \in CommandState,
         Become(c, state), UNCHANGED <<runs, table, history>>,
         cmd[c].pc # "start", state.pc = cmd[c].pc \/ state.pc = "done"
           \/ (cmd[c].pc = "promote" /\ state.pc = "commit"),
         state.exit \in {cmd[c].exit, "error", "fail"},
         cmd[c].pc # "done",
         state.promote = cmd[c].promote, state.baseline = cmd[c].baseline,
         state.run = cmd[c].run
  PROVE  IndInv'
<1>1. cmd'[c] = state
  BY OwnState
<1>2. c \in Jobs => Sound(c)'
  <2> SUFFICES ASSUME c \in Jobs PROVE Sound(c)'
    OBVIOUS
  <2>1. Sound(c)
    BY DEF IndInv
  <2>2. PromotedBy(c) = {} /\ PromotedBy(c)' = PromotedBy(c)
    BY <2>1, NotYetDone DEF PromotedBy
  <2>3. Passed(c)' <=> Passed(c)
    BY <1>1 DEF Passed
  <2> QED
    BY <1>1, <2>1, <2>2, <2>3 DEF Sound
<1>3. c \in Operators => Chosen(c)'
  BY <1>1 DEF IndInv, Chosen
<1> QED
  BY <1>2, <1>3, QuietStep

LEMMA ReadRunKeeps ==
  ASSUME IndInv, NEW c \in Commands, ReadRun(c)
  PROVE  IndInv'
<1> DEFINE state == [cmd[c] EXCEPT !.pc = "commit", !.at = now]
<1>1. cmd[c] \in CommandState /\ now \in 0 .. MaxTime
  BY OwnState DEF IndInv, TypeOK
<1>2. /\ state \in CommandState /\ state.pc = "commit" /\ state.exit = cmd[c].exit
      /\ state.promote = cmd[c].promote /\ state.baseline = cmd[c].baseline
      /\ state.run = cmd[c].run
  BY <1>1 DEF CommandState, Steps
<1>3. /\ cmd[c].pc = "promote" /\ Become(c, state)
      /\ UNCHANGED <<runs, table, history>>
  BY DEF ReadRun
<1> HIDE DEF state
<1> QED
  BY <1>2, <1>3, OwnStepKeeps

LEMMA TimesOutKeeps ==
  ASSUME IndInv, NEW c \in Commands, TimesOut(c)
  PROVE  IndInv'
<1> DEFINE state == [cmd[c] EXCEPT !.exit = "error"]
<1>1. cmd[c] \in CommandState
  BY OwnState
<1>2. /\ state \in CommandState /\ state.pc = cmd[c].pc /\ state.exit = "error"
      /\ state.promote = cmd[c].promote /\ state.baseline = cmd[c].baseline
      /\ state.run = cmd[c].run
  BY <1>1 DEF CommandState, Exits
<1>3. /\ cmd[c].pc \notin {"start", "done"} /\ Become(c, state)
      /\ UNCHANGED <<runs, table, history>>
  BY DEF TimesOut
<1> HIDE DEF state
<1> QED
  BY <1>2, <1>3, OwnStepKeeps

LEMMA DisconnectsKeeps ==
  ASSUME IndInv, NEW j \in Jobs, Disconnects(j)
  PROVE  IndInv'
<1> DEFINE state == [cmd[j] EXCEPT !.exit = "fail"]
<1>1. j \in Commands /\ cmd[j] \in CommandState
  BY OwnState DEF Commands
<1>2. /\ state \in CommandState /\ state.pc = cmd[j].pc /\ state.exit = "fail"
      /\ state.promote = cmd[j].promote /\ state.baseline = cmd[j].baseline
      /\ state.run = cmd[j].run
  BY <1>1 DEF CommandState, Exits
<1>3. /\ cmd[j].pc \notin {"start", "done"} /\ Become(j, state)
      /\ UNCHANGED <<runs, table, history>>
  BY DEF Disconnects
<1> HIDE DEF state
<1> QED
  BY <1>1, <1>2, <1>3, OwnStepKeeps

LEMMA CallFailsKeeps ==
  ASSUME IndInv, NEW c \in Commands, CallFails(c)
  PROVE  IndInv'
<1>1. cmd[c] \in CommandState
  BY OwnState
<1>2. /\ Exit(c, "error") \in CommandState /\ Exit(c, "error").pc = "done"
      /\ Exit(c, "error").exit \in {cmd[c].exit, "error"}
      /\ Exit(c, "error").promote = cmd[c].promote
      /\ Exit(c, "error").baseline = cmd[c].baseline
      /\ Exit(c, "error").run = cmd[c].run
  BY <1>1, NextState DEF Exits, Steps
<1>3. /\ cmd[c].pc \notin {"start", "done"} /\ Become(c, Exit(c, "error"))
      /\ UNCHANGED <<runs, table, history>>
  BY DEF CallFails
<1> QED
  BY <1>2, <1>3, OwnStepKeeps

LEMMA EvaluateKeeps ==
  ASSUME IndInv, NEW j \in Jobs, Evaluate(j)
  PROVE  IndInv'
<1>1. j \in Commands /\ j \notin Operators
  BY CommandAssumption DEF Commands
<1>2. cmd[j] \in CommandState /\ Sound(j)
  BY <1>1, OwnState
<1>3. /\ cmd[j].pc = "evaluate" /\ Become(j, GoTo(j, "resolve"))
      /\ UNCHANGED <<table, history>> /\ UNCHANGED <<now, asked>>
  BY DEF Evaluate, Become
<1>4. j \notin DOMAIN runs
  BY <1>2, <1>3 DEF Sound
<1>5. /\ DOMAIN runs' = DOMAIN runs \union {j}
      /\ \A i \in DOMAIN runs : runs'[i] = runs[i]
      /\ runs'[j] \in SavedRun
  <2>1. PICK config \in Configs, value \in Measured :
          runs' = [i \in DOMAIN runs \union {j} |->
                     IF i = j THEN [config |-> config, asked |-> asked, value |-> value]
                              ELSE runs[i]]
    BY DEF Evaluate
  <2>2. asked \in Asked
    BY DEF IndInv, TypeOK
  <2> QED
    BY <1>4, <2>1, <2>2 DEF SavedRun
<1>6. /\ GoTo(j, "resolve") \in CommandState /\ cmd'[j] = GoTo(j, "resolve")
      /\ cmd' = [cmd EXCEPT ![j] = GoTo(j, "resolve")]
  BY <1>1, <1>2, <1>3, NextState, OwnState DEF Exits, Steps, Become
<1>7. /\ cmd'[j].pc \in {"done", "resolve"} /\ cmd'[j].exit = cmd[j].exit
      /\ cmd'[j].baseline = cmd[j].baseline /\ cmd'[j].run = cmd[j].run
  BY <1>1, <1>2, <1>6, NextState DEF Exits, Steps
<1>8. TypeOK'
  BY <1>3, <1>5, <1>6 DEF IndInv, TypeOK, CommandState
<1>9. HistoryAccountsForTable'
  BY <1>3, <1>5 DEF IndInv, HistoryAccountsForTable
<1>10. \A c : PromotedBy(c)' = PromotedBy(c)
  BY <1>3 DEF PromotedBy
<1>11. ASSUME NEW c \in Commands, c # j PROVE cmd'[c] = cmd[c]
  BY <1>6, <1>11 DEF IndInv, TypeOK
<1>12. Sound(j)'
  <2>1. PromotedBy(j) = {} /\ cmd[j].exit \notin {"pass", "not_evaluable"}
    BY <1>2, <1>3, NotYetDone DEF Sound
  <2> QED
    BY <1>2, <1>3, <1>4, <1>5, <1>7, <1>10, <2>1 DEF Sound
<1>13. ASSUME NEW c \in Jobs, c # j PROVE Sound(c)'
  <2>1. cmd'[c] = cmd[c]
    BY <1>11, <1>13 DEF Commands
  <2>2. Sound(c) /\ (c \in DOMAIN runs' => c \in DOMAIN runs)
    BY <1>5, <1>13 DEF IndInv
  <2> QED
    BY <1>5, <1>10, <2>1, <2>2, Undisturbed
<1>14. ASSUME NEW o \in Operators PROVE Chosen(o)'
  <2>1. cmd'[o] = cmd[o]
    BY <1>1, <1>11 DEF Commands
  <2>2. Chosen(o)
    BY DEF IndInv
  <2> QED
    BY <1>5, <2>1, <2>2, ChosenStays
<1> QED
  BY <1>8, <1>9, <1>12, <1>13, <1>14 DEF IndInv

-----------------------------------------------------------------------------

\* A promotion replaces the row of its configuration, under the same id.
LEMMA PromoteRows ==
  ASSUME IndInv, NEW c \in Commands, cmd[c] \in CommandState,
         cmd[c].run \in DOMAIN runs, Promote(c)
  PROVE  /\ table' \subseteq Baseline
         /\ \A b, d \in table' : b.config = d.config => b = d
         /\ history' \subseteq [row : Baseline, by : Commands]
         /\ HistoryAccountsForTable'
<1> DEFINE row == Upserted(c)
           old == {b \in table : b.config = runs[cmd[c].run].config}
<1>1. /\ runs' = runs
      /\ table' = (table \ Replaced(row)) \union {row}
      /\ history' = history \union {[row |-> row, by |-> c]}
  BY DEF Promote, Promotion
<1>2. /\ table \subseteq Baseline /\ history \subseteq [row : Baseline, by : Commands]
      /\ \A b, d \in table : b.config = d.config => b = d
      /\ runs[cmd[c].run] \in SavedRun /\ cmd[c].run \in Jobs
      /\ cmd[c].at \in 0 .. MaxTime
  BY DEF IndInv, TypeOK, CommandState
<1>3. /\ row.config = runs[cmd[c].run].config /\ row.run = cmd[c].run
      /\ row.at = cmd[c].at
      /\ row.id = IF old = {} THEN c ELSE (CHOOSE b \in old : TRUE).id
  BY DEF Upserted
<1>4. \A b \in old : row.id = b.id
  <2> SUFFICES ASSUME NEW b \in old PROVE row.id = b.id
    OBVIOUS
  <2>1. (CHOOSE d \in old : TRUE) \in old
    OBVIOUS
  <2>2. (CHOOSE d \in old : TRUE) = b
    BY <1>2, <2>1
  <2> QED
    BY <1>3, <2>2
<1>5. row \in Baseline
  <2>1. row.id \in Commands
    <3>1. CASE old = {}
      BY <1>3, <3>1
    <3>2. CASE old # {}
      BY <1>2, <1>4, <3>2 DEF Baseline
    <3> QED
      BY <3>1, <3>2
  <2> QED
    BY <1>2, <2>1 DEF Upserted, Baseline, SavedRun
<1> HIDE DEF row
<1>6. table' \subseteq Baseline /\ history' \subseteq [row : Baseline, by : Commands]
  BY <1>1, <1>2, <1>5
<1>7. \A b, d \in table' : b.config = d.config => b = d
  BY <1>1, <1>2, <1>3 DEF Replaced
<1>8. \A b \in table' : \E p \in history' : p.row = b
  <2>1. [row |-> row, by |-> c] \in history'
    BY <1>1
  <2>2. \A b \in table : \E p \in history : p.row = b
    BY DEF IndInv, HistoryAccountsForTable
  <2> QED
    BY <1>1, <2>1, <2>2
<1>9. ASSUME NEW p \in history'
      PROVE  /\ p.row.run \in DOMAIN runs' /\ runs'[p.row.run].config = p.row.config
             /\ \E b \in table' : b.config = p.row.config /\ b.id = p.row.id
  <2>1. CASE p = [row |-> row, by |-> c]
    <3>1. p.row = row /\ row \in table'
      BY <1>1, <2>1
    <3> QED
      BY <1>1, <1>3, <3>1
  <2>2. CASE p \in history
    <3>1. /\ p.row.run \in DOMAIN runs /\ runs[p.row.run].config = p.row.config
          /\ \E b \in table : b.config = p.row.config /\ b.id = p.row.id
      BY <2>2 DEF IndInv, HistoryAccountsForTable
    <3>2. PICK b \in table : b.config = p.row.config /\ b.id = p.row.id
      BY <3>1
    <3>3. CASE b.config = row.config
      BY <1>1, <1>3, <1>4, <3>1, <3>2, <3>3
    <3>4. CASE b.config # row.config
      <4>1. b \in table'
        BY <1>1, <3>4 DEF Replaced
      <4> QED
        BY <1>1, <3>1, <3>2, <4>1
    <3> QED
      BY <3>3, <3>4
  <2> QED
    BY <1>1, <2>1, <2>2
<1> QED
  BY <1>6, <1>7, <1>8, <1>9 DEF HistoryAccountsForTable

\* The end of a promotion: a job that reports a pass has promoted its own run,
\* which passed; one that reports an error may have.
LEMMA EndOfPromotion ==
  ASSUME IndInv, NEW c \in Commands, cmd[c].pc = "commit",
         NEW code \in {"pass", "error"}, Become(c, Exit(c, code)), Promote(c)
  PROVE  IndInv'
<1> DEFINE row == Upserted(c)
<1>1. cmd[c] \in CommandState
  BY OwnState
<1>2. cmd[c].run \in DOMAIN runs
  <2>1. CASE c \in Jobs
    BY <2>1 DEF IndInv, Sound
  <2>2. CASE c \in Operators
    BY <2>2 DEF IndInv, Chosen
  <2> QED
    BY <2>1, <2>2 DEF Commands
<1>3. /\ runs' = runs /\ history' = history \union {[row |-> row, by |-> c]}
      /\ row.run = cmd[c].run
  BY DEF Promote, Promotion, Upserted
<1>4. /\ cmd' = [cmd EXCEPT ![c] = Exit(c, code)] /\ UNCHANGED <<now, asked>>
      /\ cmd'[c] = Exit(c, code) /\ Exit(c, code) \in CommandState
  BY <1>1, NextState, OwnState DEF Become, Exits, Steps
<1>5. /\ cmd'[c].pc = "done" /\ cmd'[c].exit \in {cmd[c].exit, code}
      /\ cmd'[c].baseline = cmd[c].baseline /\ cmd'[c].run = cmd[c].run
      /\ cmd'[c].promote = cmd[c].promote
  BY <1>1, <1>4, NextState DEF Exits, Steps
<1> HIDE DEF row
<1>6. TypeOK' /\ HistoryAccountsForTable'
  <2>1. /\ table' \subseteq Baseline
        /\ \A b, d \in table' : b.config = d.config => b = d
        /\ history' \subseteq [row : Baseline, by : Commands]
        /\ HistoryAccountsForTable'
    BY <1>1, <1>2, PromoteRows
  <2>2. cmd' \in [Commands -> CommandState]
    BY <1>4 DEF IndInv, TypeOK, CommandState
  <2> QED
    BY <1>3, <1>4, <2>1, <2>2 DEF IndInv, TypeOK, CommandState
<1>7. ASSUME NEW d \in Commands, d # c
      PROVE  cmd'[d] = cmd[d] /\ PromotedBy(d)' = PromotedBy(d)
  BY <1>3, <1>4, <1>7, OthersPromotions DEF IndInv, TypeOK
<1>8. ASSUME NEW j \in Jobs PROVE Sound(j)'
  <2>1. Sound(j)
    BY DEF IndInv
  <2>2. CASE j = c
    <3>1. /\ PromotedBy(j) = {} /\ cmd[j].exit \notin {"pass", "not_evaluable"}
          /\ Passed(j) /\ cmd[j].run = j
      BY <2>1, <2>2 DEF Sound
    <3>2. Passed(j)'
      BY <1>3, <1>5, <2>2, <3>1 DEF Passed
    <3>3. PromotedBy(j)' = {[row |-> row, by |-> c]}
      BY <1>3, <2>2, <3>1 DEF PromotedBy
    <3>4. PromotedBy(j)' # {} /\ \A p \in PromotedBy(j)' : p.row.run = j
      BY <1>3, <2>2, <3>1, <3>3
    <3> QED
      BY <1>3, <1>5, <2>1, <2>2, <3>1, <3>2, <3>4 DEF Sound
  <2>3. CASE j # c
    <3>1. cmd'[j] = cmd[j] /\ PromotedBy(j)' = PromotedBy(j)
      BY <1>7, <2>3 DEF Commands
    <3> QED
      BY <1>3, <2>1, <3>1, Undisturbed
  <2> QED
    BY <2>2, <2>3
<1>9. ASSUME NEW o \in Operators PROVE Chosen(o)'
  <2>1. Chosen(o)
    BY DEF IndInv
  <2>2. CASE o = c
    BY <1>2, <1>3, <1>5, <2>2 DEF Chosen
  <2>3. CASE o # c
    <3>1. cmd'[o] = cmd[o]
      BY <1>7, <2>3 DEF Commands
    <3> QED
      BY <1>3, <2>1, <3>1, ChosenStays
  <2> QED
    BY <2>2, <2>3
<1> QED
  BY <1>6, <1>8, <1>9 DEF IndInv

LEMMA CommitKeeps ==
  ASSUME IndInv, NEW c \in Commands, Commit(c)
  PROVE  IndInv'
BY EndOfPromotion DEF Commit

LEMMA CommitFailsKeeps ==
  ASSUME IndInv, NEW c \in Commands, CommitFails(c)
  PROVE  IndInv'
<1>1. cmd[c].pc = "commit" /\ Become(c, Exit(c, "error"))
  BY DEF CommitFails
<1>2. CASE Promote(c)
  BY <1>1, <1>2, EndOfPromotion
<1>3. CASE UNCHANGED <<runs, table, history>>
  <2>1. cmd[c] \in CommandState
    BY OwnState
  <2>2. /\ Exit(c, "error") \in CommandState /\ Exit(c, "error").pc = "done"
        /\ Exit(c, "error").exit \in {cmd[c].exit, "error"}
        /\ Exit(c, "error").promote = cmd[c].promote
        /\ Exit(c, "error").baseline = cmd[c].baseline
        /\ Exit(c, "error").run = cmd[c].run
    BY <2>1, NextState DEF Exits, Steps
  <2> QED
    BY <1>1, <1>3, <2>2, OwnStepKeeps
<1> QED
  BY <1>2, <1>3 DEF CommitFails

-----------------------------------------------------------------------------

\* The clock and the dataset are nobody's business but the next benchmark's.
LEMMA OutsideStep ==
  ASSUME IndInv, now' \in 0 .. MaxTime, asked' \in Asked,
         UNCHANGED <<runs, table, history, cmd>>
  PROVE  IndInv'
<1>1. \A j : PromotedBy(j)' = PromotedBy(j)
  BY DEF PromotedBy
<1>2. TypeOK' /\ HistoryAccountsForTable'
  BY DEF IndInv, TypeOK, HistoryAccountsForTable
<1>3. \A j \in Jobs : Sound(j)'
  BY <1>1 DEF IndInv, Sound, Passed
<1>4. \A o \in Operators : Chosen(o)'
  BY DEF IndInv, Chosen
<1> QED
  BY <1>2, <1>3, <1>4 DEF IndInv

\* IndInv holds in every reachable state.
THEOREM GateInvariance == Spec => []IndInv
<1>1. Init => IndInv
  <2> SUFFICES ASSUME Init PROVE IndInv
    OBVIOUS
  <2>1. TypeOK
    BY CommandAssumption DEF Init, TypeOK, Idle, Started, Steps, Exits
  <2>2. HistoryAccountsForTable
    BY DEF Init, HistoryAccountsForTable
  <2>3. \A j \in Jobs : Sound(j)
    BY CommandAssumption
    DEF Init, Sound, Passed, PromotedBy, Idle, Started, Commands
  <2>4. \A o \in Operators : Chosen(o)
    BY DEF Init, Chosen, Idle, Started, Commands
  <2> QED
    BY <2>1, <2>2, <2>3, <2>4 DEF IndInv
<1>2. IndInv /\ [Next]_vars => IndInv'
  <2> SUFFICES ASSUME IndInv, [Next]_vars PROVE IndInv'
    OBVIOUS
  <2>1. CASE Tick
    BY <2>1, CommandAssumption, OutsideStep DEF Tick, IndInv, TypeOK
  <2>2. CASE AddCases
    BY <2>2, OutsideStep DEF AddCases, IndInv, TypeOK
  <2>3. ASSUME NEW j \in Jobs, StartJob(j) PROVE IndInv'
    BY <2>3, StartJobKeeps
  <2>4. ASSUME NEW j \in Jobs, Evaluate(j) PROVE IndInv'
    BY <2>4, EvaluateKeeps
  <2>5. ASSUME NEW j \in Jobs, Resolve(j) PROVE IndInv'
    BY <2>5, ResolveKeeps
  <2>6. ASSUME NEW j \in Jobs, Decide(j) PROVE IndInv'
    BY <2>6, DecideKeeps
  <2>7. ASSUME NEW j \in Jobs, Disconnects(j) PROVE IndInv'
    BY <2>7, DisconnectsKeeps
  <2>8. ASSUME NEW o \in Operators, StartOperator(o) PROVE IndInv'
    BY <2>8, StartOperatorKeeps
  <2>9. ASSUME NEW c \in Commands, ReadRun(c) PROVE IndInv'
    BY <2>9, ReadRunKeeps
  <2>10. ASSUME NEW c \in Commands, Commit(c) PROVE IndInv'
    BY <2>10, CommitKeeps
  <2>11. ASSUME NEW c \in Commands, CommitFails(c) PROVE IndInv'
    BY <2>11, CommitFailsKeeps
  <2>12. ASSUME NEW c \in Commands, TimesOut(c) PROVE IndInv'
    BY <2>12, TimesOutKeeps
  <2>13. ASSUME NEW c \in Commands, CallFails(c) PROVE IndInv'
    BY <2>13, CallFailsKeeps
  <2>14. CASE UNCHANGED vars
    BY <2>14, OutsideStep DEF vars, IndInv, TypeOK
  <2> QED
    BY <2>1, <2>2, <2>3, <2>4, <2>5, <2>6, <2>7, <2>8, <2>9, <2>10, <2>11,
       <2>12, <2>13, <2>14 DEF Next
<1> QED
  BY <1>1, <1>2, PTL DEF Spec

\* One baseline for each configuration, whatever promotions race.
THEOREM GateTypes == Spec => []TypeOK
<1>1. IndInv => TypeOK
  BY DEF IndInv
<1> QED
  BY <1>1, GateInvariance, PTL

\* The history accounts for every baseline, and files every promotion under it.
THEOREM HistoryAccounts == Spec => []HistoryAccountsForTable
<1>1. IndInv => HistoryAccountsForTable
  BY DEF IndInv
<1> QED
  BY <1>1, GateInvariance, PTL

\* The two runs of a verdict that passed.
LEMMA PassedRuns ==
  ASSUME IndInv, NEW j \in Jobs, Passed(j)
  PROVE  /\ cmd[j].baseline \in DOMAIN runs \ {j}
         /\ runs[cmd[j].baseline].asked = runs[j].asked
         /\ \A m \in Configured(Limits) :
              /\ NoValue \notin {runs[cmd[j].baseline].value[m], runs[j].value[m]}
              /\ Regression(m, runs[cmd[j].baseline], runs[j]) <= Limits[m]
<1>1. cmd[j].baseline \in DOMAIN runs \ {j} /\ j \in DOMAIN runs
  BY DEF IndInv, Sound, Passed
<1>2. runs[cmd[j].baseline].value \in Value /\ runs[j].value \in Value
  BY <1>1, CommandAssumption DEF IndInv, TypeOK, SavedRun
<1>3. Gate(runs[cmd[j].baseline], runs[j], Limits) = "pass"
  BY DEF Passed
<1> QED
  BY <1>1, <1>2, <1>3, CommandAssumption, PassIsWithin

\* What a job tells CI of a pass and of a gate it could not evaluate is so.
THEOREM ExitCodesAreTrue == Spec => []ExitCodeIsTrue
<1>1. IndInv => ExitCodeIsTrue
  <2> SUFFICES ASSUME IndInv, NEW j \in Jobs
               PROVE  /\ cmd[j].exit = "pass" =>
                           /\ \A m \in Configured(Limits) :
                                Regression(m, runs[cmd[j].baseline], runs[j]) <= Limits[m]
                           /\ cmd[j].promote => \E p \in PromotedBy(j) : p.row.run = j
                      /\ cmd[j].exit = "not_evaluable" => PromotedBy(j) = {}
    BY DEF ExitCodeIsTrue
  <2>1. Sound(j)
    BY DEF IndInv
  <2>2. ASSUME cmd[j].exit = "pass"
        PROVE  /\ \A m \in Configured(Limits) :
                    Regression(m, runs[cmd[j].baseline], runs[j]) <= Limits[m]
               /\ cmd[j].promote => \E p \in PromotedBy(j) : p.row.run = j
    <3>1. Passed(j) /\ (cmd[j].promote => PromotedBy(j) # {})
      BY <2>1, <2>2 DEF Sound
    <3>2. \A p \in PromotedBy(j) : p.row.run = j
      BY <2>1 DEF Sound
    <3> QED
      BY <3>1, <3>2, PassedRuns
  <2> QED
    BY <2>1, <2>2 DEF Sound
<1> QED
  BY <1>1, GateInvariance, PTL

\* Jobs promote their own runs only, and only after a comparison that passed,
\* also when nobody waits for them any more.
THEOREM PassedBeforePromoted == Spec => []OnlyPassingRunsArePromoted
<1>1. IndInv => OnlyPassingRunsArePromoted
  <2> SUFFICES ASSUME IndInv, NEW j \in Jobs, NEW p \in PromotedBy(j)
               PROVE  /\ p.row.run = j
                      /\ cmd[j].baseline \in DOMAIN runs \ {j}
                      /\ runs[cmd[j].baseline].asked = runs[j].asked
                      /\ \A m \in Configured(Limits) :
                           /\ NoValue \notin {runs[cmd[j].baseline].value[m],
                                              runs[j].value[m]}
                           /\ Regression(m, runs[cmd[j].baseline], runs[j]) <= Limits[m]
    BY DEF OnlyPassingRunsArePromoted
  <2>1. p.row.run = j /\ Passed(j)
    BY DEF IndInv, Sound
  <2> QED
    BY <2>1, PassedRuns
<1> QED
  BY <1>1, GateInvariance, PTL
=============================================================================
