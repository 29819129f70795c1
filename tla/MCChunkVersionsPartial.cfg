SPECIFICATION Spec
CONSTANTS
  c1 = c1
  c2 = c2
  w1 = w1
  w2 = w2
  s1 = s1
  s2 = s2
  Workers = {w1}
  Contents = {c1}
  Spaces = {s1, s2}
  ChunkCount <- MCChunkCount
  BatchSize = 2
  MaxVersions = 1
  MaxAttempts = 1
  NoContent = NoContent
  NoSpace = NoSpace
INVARIANT NoPartialIndexServed
CHECK_DEADLOCK FALSE
