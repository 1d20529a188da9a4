SPECIFICATION Spec
CONSTANTS
  Provider = {p1, p2}
  Tiers = {"small", "large"}
  ModelNames = {n1, n2}
  NoName = NoName
  Admins = {"a", "b"}
  AdminOps = {"create", "enable", "default", "delete", "add", "patch", "drop"}
  MaxRequests = 2
  c1 = c1
  c2 = c2
  Scenarios <- MCScenarios
  NoIntent = NoIntent
  RagasSheets <- MCRagasSheets
  HumanLabels = {"UNSUPPORTED"}
SYMMETRY Symmetric
INVARIANTS
  EveryClaimCounts
  PassedIsSound
  TotalsAddUp
  DefaultIsUsable
PROPERTIES
  HumanLabelsStand
CHECK_DEADLOCK FALSE
