-------------------------- MODULE MCEvaluationRun --------------------------
(* Small instances of EvaluationRun: three cases over two documents. *)
EXTENDS EvaluationRun, TLC

CONSTANTS d1, d2, k1, k2, k3, r1, r2

\* k1 and k2 judge a first version each, k3 both documents, d1 reprocessed.
MCJudged ==
  [c \in CaseIds |-> CASE c = k1 -> {<<d1, 1>>}
                       [] c = k2 -> {<<d2, 1>>}
                       [] OTHER -> {<<d1, 2>>, <<d2, 1>>}]

\* k1 precedes k2 and k3; d1 precedes d2.
MCRank ==
  [row \in UNION {{c} \X MCJudged[c] : c \in CaseIds} |->
     (CASE row[1] = k1 -> 0 [] row[1] = k2 -> 2 [] OTHER -> 4)
       + (IF row[2][1] = d1 THEN 0 ELSE 1)]

\* The same with the rows of k3 first, so that LIMIT drops those of the others.
MCRankLargeFirst ==
  [row \in UNION {{c} \X MCJudged[c] : c \in CaseIds} |->
     (CASE row[1] = k3 -> 0 [] row[1] = k1 -> 2 [] OTHER -> 4)
       + (IF row[2][1] = d1 THEN 0 ELSE 1)]

Symmetry == Permutations(Runners)
=============================================================================
