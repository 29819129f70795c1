SPECIFICATION Spec
CONSTANTS
  d1 = d1
  d2 = d2
  r1 = r1
  Docs = {d1, d2}
  Requests = {r1}
  Id <- MCId
  Similarities <- MCSimilarities
  Measured <- MCMeasured
  Relevances <- MCRelevances
  Limit = 2
  CandidateLimit = 3
  RrfK = 1
  Unit = 12
  Filters <- MCFilters
  OlderTraces = {}
  MaxVersion = 2
INVARIANT OneVersionPerDocument
CHECK_DEADLOCK FALSE
