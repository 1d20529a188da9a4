CONSTANTS
  Provider = {p1, p2}
  Tiers = {"small", "large"}
  ModelNames = {n1, n2}
  NoName = NoName
  Admins = {"a"}
  AdminOps = {"patch"}
  MaxRequests = 2
  c1 = c1
  c2 = c2
  Scenarios <- MCScenarios
  NoIntent = NoIntent
  RagasSheets <- MCRagasSheets
  HumanLabels = {"UNSUPPORTED"}
SPECIFICATION Spec
CHECK_DEADLOCK FALSE
INVARIANT SnapshotNamesTheModels
