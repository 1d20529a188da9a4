\* Two permits and a rate of two for three requests of one caller.
SPECIFICATION FairSpec
CONSTANTS
  r1 = r1
  r2 = r2
  r3 = r3
  x = x
  Requests = {r1, r2, r3}
  Callers = {x}
  Caller <- MCCaller
  RateLimit = 2
  Window = 2
  Permits = 2
  MaxFaults = 1
INVARIANTS
  PermitsMatch
  NeverOverCommitted
  WindowHolds
  OnRecordUnlessFault
  QueueHoldsWithheld
PROPERTIES
  RefusalIsRecent
  PermitsComeBack
CHECK_DEADLOCK FALSE
