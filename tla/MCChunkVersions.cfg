SPECIFICATION FairSpec
CONSTANTS
  c1 = c1
  c2 = c2
  w1 = w1
  w2 = w2
  s1 = s1
  s2 = s2
  Workers = {w1, w2}
  Contents = {c1, c2}
  Spaces = {s1, s2}
  ChunkCount <- MCChunkCount
  BatchSize = 2
  MaxVersions = 3
  MaxAttempts = 3
  NoContent = NoContent
  NoSpace = NoSpace
INVARIANTS
  ActiveIsNewestReady
  ActiveFullyEmbedded
  IndInv
PROPERTIES
  StaleAttemptIsInert
  LiveLeaseExclusive
  ImplementsActiveIndex
  NeverStuck
CHECK_DEADLOCK FALSE
