SPECIFICATION Spec
CONSTANTS
  a = a
  b = b
  q1 = q1
  q2 = q2
  q3 = q3
  d1 = d1
  d2 = d2
  NoSql = NoSql
  NoTicker = NoTicker
  Companies = {a, b}
  SqlTexts = {q1, q2, q3}
  Selects = {q1, q2}
  RowSets <- MCRowSets
  MaxCalls = 1
  MaxRounds = 2
  MaxSqlRetries = 1
  Questions <- MCQuestions
  AskedIntents = {"VALUATION", "SENTIMENT", "MIXED"}
  ChunkOrder <- MCChunkOrder
  Owner <- MCOwner
  Publications = {{d1}}
  BaseTopK = 1
  ChunksPerCompany = 1
  MaxTime = 4
  Metrics <- MCMetrics
  PriceChange <- MCPriceChange
  ByGrowth <- MCByGrowth
  Ordering = {q1}
  Mentions <- MCMentions
  Similarity <- MCSimilarity
  Positive <- MCPositive
  Negative <- MCNegative
  Opinions <- MCOpinions
  BlendWeight = 3
  DbLimit = 2
  TopLimit = 2
  TopKFloor = 2
  EvidencePerCompany = 1
  MinEvidence = 2
  MinDocuments = 1
INVARIANTS RowsNameTheirQuery LostOnlyWhenHeld ReportStaysInCohort EvidenceReachesEveryCompany ScoreIsAMean
PROPERTIES MixedIsAnswered ImplementsGraph
