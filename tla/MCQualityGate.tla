--------------------------- MODULE MCQualityGate ---------------------------
(* Small instances of the quality gate: one metric of each kind; precision, *)
(* MRR and nDCG are checked by the function that checks recall.             *)
EXTENDS QualityGateDecision, TLC

MCMetrics == {"mean_recall_at_k", "mean_judgment_coverage_at_k", "mean_duration_ms"}

\* Two datasets with one case each, and the first with another query.
MCAsked == {1 :> "q", 2 :> "q", 1 :> "r"}
=============================================================================
