SPECIFICATION RagSpec
CONSTANTS
  d1 = d1
  d2 = d2
  r1 = r1
  Docs = {d1, d2}
  Requests = {r1}
  Id <- MCId
  Similarities <- MCSimilarities
  Measured <- MCMeasured
  Relevances <- MCRelevances
  Limit = 3
  RrfK = 1
  Unit = 12
  Filters <- MCFilters
  OlderTraces <- MCOlderTraces
  MaxVersion = 2
  CandidateLimit = 3
  NotRanked = 101
  Judgments <- MCJudgments
  Discount <- MCDiscount
  Frame <- MCFrame
  Length <- MCLength
  Blank <- MCBlank
  MaxContext = 11
  Answers <- MCAnswers
  MaxClaims = 2
  MaxLabels = 3
  Replies <- MCReplies
INVARIANTS
  AnswersWereActive
  AnswersAreTraced
  FusionRespectsBranches
  ContextIsFaithful
  ReviewIsHonest
  ComparisonKeepsRankings
  MetricsAreSound
PROPERTY ReviewKeepsAnswer
CHECK_DEADLOCK FALSE
