SPECIFICATION Spec
CONSTANTS
  Metrics <- MCMetrics
  MaxValue = 1
  Asked <- MCAsked
  NoValue = NoValue
  Jobs = {j1, j2}
  Operators = {o1}
  Configs = {f1}
  Measured <- MCMeasured
  Limits <- MCLimits
  MaxTime = 1
  NoRun = NoRun
INVARIANT ExitOneIsARegression
CHECK_DEADLOCK FALSE
