SPECIFICATION Spec
CONSTANTS
  d1 = d1
  d2 = d2
  o1 = o1
  o2 = o2
  Docs <- MCDocs
  Operators <- MCOperators
  MaxChunks = 2
  TopK = 1
  Samples = 1
  Distances <- MCDistances
  MaxCommands = 2
INVARIANTS NeverRefused HeadIsDeclared ActiveIsReady LossHasACause
PROPERTIES ServedSurvives BuildReports
CHECK_DEADLOCK FALSE
SYMMETRY MCSymmetry
