\* The same filing collected twice at once.
SPECIFICATION Spec
CONSTANTS
  a = a
  b = b
  c = c
  d = d
  s = s
  x = x
  y = y
  m1 = m1
  m2 = m2
  w1 = w1
  j1 = j1
  j2 = j2
  none = none
  NoUrl = none
  Url <- MCUrl
  Hash <- MCHash
  Docs = {a}
  Seeded = {}
  Kind <- BlankKind
  Messages = {}
  Refs <- NoRefs
  Workers = {}
  Jobs = {j1, j2}
  BatchSize = 1
  MaxReceive = 1
  Generations = {0, 1, 2, 3, 4, 5, 6, 7}
  MaxFaults = 0
  MaxStarts = 2
INVARIANTS
  NothingStoredTwice
CHECK_DEADLOCK FALSE
