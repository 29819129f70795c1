SPECIFICATION IngestionSpec
CONSTANTS
  u1 = u1
  Uploads = {u1}
  MaxSize = 2
  Texts <- MCTexts
  MaxCharacters = 4
  MaxTokens = 3
  MaxChunks = 5
  TokenCount <- MCTokenCount
  Pdfs <- MCPdfs
  MaxPages = 3
  MaxExtracted = 8
  MaxOcrPages = 1
INVARIANTS
  NeverTruncated
  AnswerIsTrue
  Lossless
  ChunksFit
  OverlapIsBounded
  EstimateIsExact
  SetsAreValid
  ProvenanceIsExact
PROPERTY
  AlwaysAdvances
CHECK_DEADLOCK FALSE
