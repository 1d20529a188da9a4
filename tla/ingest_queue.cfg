\* One worker on the queue, as deployed, and no background task.
SPECIFICATION FairSpec
CONSTANTS
  a = a
  b = b
  c = c
  d = d
  s = s
  x = x
  y = y
  m1 = m1
  m2 = m2
  w1 = w1
  j1 = j1
  j2 = j2
  none = none
  NoUrl = none
  Url <- MCUrl
  Hash <- MCHash
  Docs = {a, c, d, x, y}
  Seeded = {}
  Kind <- BlankKind
  Messages = {m1, m2}
  Refs <- TwoOfThreeFail
  Workers = {w1}
  Jobs = {}
  BatchSize = 2
  MaxReceive = 3
  Generations = {0, 1, 2, 3, 4, 5, 6, 7}
  MaxFaults = 2
  MaxStarts = 0
INVARIANTS
  NothingStoredTwice
PROPERTIES
  EveryMessageSettles
  EveryDocumentArrives
CHECK_DEADLOCK FALSE
