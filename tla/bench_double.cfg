\* Two calls with the same configuration, no fault.
SPECIFICATION Spec
CONSTANTS
  a = a
  b = b
  Runs = {a, b}
  Config <- MCConfig
  Questions = 2
  MaxFaults = 0
INVARIANTS
  NoIdenticalRuns
CHECK_DEADLOCK FALSE
