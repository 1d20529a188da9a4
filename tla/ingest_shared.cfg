\* The worker and the API's background tasks on the same tables.
SPECIFICATION Spec
CONSTANTS
  a = a
  b = b
  c = c
  d = d
  s = s
  x = x
  y = y
  m1 = m1
  m2 = m2
  w1 = w1
  j1 = j1
  j2 = j2
  none = none
  NoUrl = none
  Url <- MCUrl
  Hash <- MCHash
  Docs = {a, b, c, s}
  Seeded = {s}
  Kind <- BrokenKind
  Messages = {m1}
  Refs <- NewAndSeeded
  Workers = {w1}
  Jobs = {j1}
  BatchSize = 1
  MaxReceive = 2
  Generations = {0, 1, 2, 3, 4, 5, 6, 7}
  MaxFaults = 1
  MaxStarts = 2
INVARIANTS
  StoredOncePerProcess
  RowsLeftOnlyByFault
  OnlySeedsAreUseless
  NothingLost
  LogTellsTruth
PROPERTIES
  KeepsIntakePromise
CHECK_DEADLOCK FALSE
