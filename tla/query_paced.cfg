\* Three calls of one caller, a rate of two in a window, and no faults.
SPECIFICATION Spec
CONSTANTS
  r1 = r1
  r2 = r2
  r3 = r3
  x = x
  Requests = {r1, r2, r3}
  Callers = {x}
  Caller <- MCCaller
  RateLimit = 2
  Window = 2
  Permits = 2
  MaxFaults = 0
PROPERTIES
  RefusedOnlyOverRate
CHECK_DEADLOCK FALSE
