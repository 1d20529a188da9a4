SPECIFICATION Spec
CONSTANTS
  Intents = {"VALUATION", "SENTIMENT", "MIXED", "OUT_OF_SCOPE"}
  a = a
  b = b
  x = x
  Companies = {a, b}
  Measured = {a}
  Cohorts <- MCCohorts
  CompanyDrafts <- AllDrafts
  Claims = {x}
  TopLimit = 1
  MaxRetries = 2
INVARIANT RejectedIsNeverShown
CHECK_DEADLOCK FALSE
