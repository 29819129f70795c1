------------------------ MODULE QualityGateDecision ------------------------
(* One decision of the quality gate, whatever runs and thresholds it is given. *)
EXTENDS QualityGate

VARIABLES
  first, second,  \* the runs that were loaded
  thresholds,     \* of the request
  status          \* of the answer, "none" before it

decisionVars == <<first, second, thresholds, status>>

DecisionInit ==
  /\ first \in Run /\ second \in Run
  /\ thresholds \in Thresholds
  /\ status = "none"

EvaluateGate ==
  /\ status = "none"
  /\ status' = Gate(first, second, thresholds)
  /\ UNCHANGED <<first, second, thresholds>>

DecisionSpec == DecisionInit /\ [][EvaluateGate]_decisionVars

-----------------------------------------------------------------------------

\* How much better the second run is than the first, by the metric's own sense.
Gain(m) == IF m \in LowerIsBetter THEN first.value[m] - second.value[m]
                                  ELSE second.value[m] - first.value[m]

\* A pass is about the same questions, and each metric that was asked for is
\* known on both sides and at most its threshold worse than before: nothing
\* unknown is waved through.
PassIsWithinThresholds ==
  status = "pass" =>
    /\ first.asked = second.asked
    /\ \A m \in Configured(thresholds) :
         /\ NoValue \notin {first.value[m], second.value[m]}
         /\ Gain(m) >= -thresholds[m]

\* A failure is an observed regression beyond a threshold, of runs about the
\* same questions; what is merely unknown never fails a build.
FailIsARegression ==
  status = "fail" =>
    /\ first.asked = second.asked
    /\ \E m \in Configured(thresholds) :
         /\ NoValue \notin {first.value[m], second.value[m]}
         /\ Gain(m) < -thresholds[m]

\* run is as good as other in every metric.
AsGood(run, other) ==
  \A m \in Metrics :
    \/ run.value[m] = other.value[m]
    \/ /\ NoValue \notin {run.value[m], other.value[m]}
       /\ IF m \in LowerIsBetter THEN run.value[m] <= other.value[m]
                                 ELSE run.value[m] >= other.value[m]

\* A candidate that is as good as one that passed, on the same questions,
\* passes: improving a metric never fails the gate.
ImprovementKeepsPass ==
  status = "pass" =>
    \A run \in Run : run.asked = second.asked /\ AsGood(run, second)
                       => Gate(first, run, thresholds) = "pass"
=============================================================================
