SPECIFICATION DecisionSpec
CONSTANTS
  Metrics <- MCMetrics
  MaxValue = 2
  Asked <- MCAsked
  NoValue = NoValue
INVARIANTS
  PassIsWithinThresholds
  FailIsARegression
  ImprovementKeepsPass
CHECK_DEADLOCK FALSE
