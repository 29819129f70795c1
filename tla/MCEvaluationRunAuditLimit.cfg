SPECIFICATION Spec
CONSTANTS
  d1 = d1
  d2 = d2
  k1 = k1
  k2 = k2
  k3 = k3
  r1 = r1
  r2 = r2
  Docs = {d1, d2}
  Runners = {r1}
  CaseIds = {k1, k3}
  Judged <- MCJudged
  Rank <- MCRankLargeFirst
  Branches = 1
  MaxCases = 2
  MaxJudgments = 1
  MaxVersion = 2
  MaxRuns = 1
INVARIANT RunsScoreJudgedIndex
CHECK_DEADLOCK FALSE
