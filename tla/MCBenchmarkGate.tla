-------------------------- MODULE MCBenchmarkGate --------------------------
(* Two CI jobs and an operator, without whom no configuration gets its      *)
(* first baseline unless a job is given one, over one or two cases.         *)
EXTENDS BenchmarkGate, TLC

MCMetrics == {"mean_recall_at_k", "mean_judgment_coverage_at_k"}

MCAsked == {1 :> "q", 1 :> "q" @@ 2 :> "r"}

\* A good run, a worse one, and one without judgments.
MCMeasured ==
  {"mean_recall_at_k" :> 1 @@ "mean_judgment_coverage_at_k" :> 1,
   "mean_recall_at_k" :> 0 @@ "mean_judgment_coverage_at_k" :> 1,
   "mean_recall_at_k" :> 1 @@ "mean_judgment_coverage_at_k" :> NoValue}

MCLimits == "mean_recall_at_k" :> 0 @@ "mean_judgment_coverage_at_k" :> 0

\* Neither the jobs nor the configurations are told apart.
MCSymmetry == Permutations(Jobs) \union Permutations(Configs)
=============================================================================
