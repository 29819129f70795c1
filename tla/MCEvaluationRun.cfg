SPECIFICATION Spec
CONSTANTS
  d1 = d1
  d2 = d2
  k1 = k1
  k2 = k2
  k3 = k3
  r1 = r1
  r2 = r2
  Docs = {d1, d2}
  Runners = {r1, r2}
  CaseIds = {k1, k2, k3}
  Judged <- MCJudged
  Rank <- MCRank
  Branches = 1
  MaxCases = 2
  MaxJudgments = 2
  MaxVersion = 2
  MaxRuns = 2
SYMMETRY Symmetry
INVARIANTS
  RunsScoreJudgedIndex
  RunsCoverDataset
  RunsWithinLimits
PROPERTY JudgmentsActiveWhenAdded
CHECK_DEADLOCK FALSE
