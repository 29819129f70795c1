---------------------------- MODULE QualityGate ----------------------------
(***************************************************************************)
(* The decision whether a benchmark run regressed against an earlier one:  *)
(* compare_evaluation_runs and evaluate_quality_gate as operators.         *)
(*                                                                         *)
(* A run is [asked, value]: the query of each case it evaluated, and its   *)
(* aggregate metrics in whole units.  Exact numbers need no tolerance; the *)
(* code allows 1e-12 for the rounding of its floats.                       *)
(***************************************************************************)
EXTENDS Integers

CONSTANTS
  Metrics,       \* EvaluationQualityGateMetric, or some of them
  MaxValue,      \* bound on metric values and thresholds
  Asked,         \* what runs may have asked: functions from cases to queries
  NoValue        \* None: no coverage known, no threshold configured

\* Only coverage may be unknown, only the duration is better when lower.
Optional      == {"mean_judgment_coverage_at_k"}
LowerIsBetter == {"mean_duration_ms"}

ASSUME ValueAssumption == MaxValue \in Nat /\ NoValue \notin Int

Amount == 0 .. MaxValue

Value == {f \in [Metrics -> Amount \union {NoValue}] :
            \A m \in Metrics \ Optional : f[m] # NoValue}

Run == [asked : Asked, value : Value]

\* validate: at least one threshold is given.
Thresholds == {t \in [Metrics -> Amount \union {NoValue}] :
                 \E m \in Metrics : t[m] # NoValue}

-----------------------------------------------------------------------------

ComparableCases(first, second) == DOMAIN first.asked = DOMAIN second.asked

\* Both runs asked the same queries for the same cases.
AggregateComparable(first, second) == first.asked = second.asked

Configured(thresholds) == {m \in Metrics : thresholds[m] # NoValue}

Unavailable(first, second, thresholds) ==
  IF AggregateComparable(first, second)
    THEN {m \in Configured(thresholds) \intersect Optional :
            first.value[m] = NoValue \/ second.value[m] = NoValue}
    ELSE Configured(thresholds)

RegressionEitherWay(m, first, second) ==
  LET delta == second.value[m] - first.value[m]
  IN  IF delta > 0 THEN delta ELSE -delta

\* By how much the metric got worse, 0 if it did not.
Regression(m, first, second) ==
  LET worse == IF m \in LowerIsBetter THEN second.value[m] - first.value[m]
                                      ELSE first.value[m] - second.value[m]
  IN  IF worse > 0 THEN worse ELSE 0

\* The metrics whose check did not pass.
Failed(first, second, thresholds) ==
  {m \in Configured(thresholds) \ Unavailable(first, second, thresholds) :
     Regression(m, first, second) > thresholds[m]}

GateIgnoringUnavailable(first, second, thresholds) ==
  IF ~AggregateComparable(first, second) THEN "not_evaluable"
  ELSE IF Failed(first, second, thresholds) = {} THEN "pass" ELSE "fail"

Gate(first, second, thresholds) ==
  IF Unavailable(first, second, thresholds) # {} THEN "not_evaluable"
  ELSE IF Failed(first, second, thresholds) = {} THEN "pass" ELSE "fail"
=============================================================================
