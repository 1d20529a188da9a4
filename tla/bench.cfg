\* Two calls with the same configuration, two questions, two faults.
SPECIFICATION FairSpec
CONSTANTS
  a = a
  b = b
  Runs = {a, b}
  Config <- MCConfig
  Questions = 2
  MaxFaults = 2
INVARIANTS
  EndedRunIsWhole
  TotalsNeverLag
  StrandedOnlyByFault
PROPERTIES
  FinalIsFinal
  AcceptedRunEnds
  CancelIsHeard
CHECK_DEADLOCK FALSE
