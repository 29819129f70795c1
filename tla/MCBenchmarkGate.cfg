SPECIFICATION Spec
CONSTANTS
  Metrics <- MCMetrics
  MaxValue = 1
  Asked <- MCAsked
  NoValue = NoValue
  Jobs = {j1, j2}
  Operators = {o1}
  Configs = {f1, f2}
  Measured <- MCMeasured
  Limits <- MCLimits
  MaxTime = 1
  NoRun = NoRun
INVARIANTS
  ExitCodeIsTrue
  OnlyPassingRunsArePromoted
  HistoryAccountsForTable
SYMMETRY MCSymmetry
CHECK_DEADLOCK FALSE
