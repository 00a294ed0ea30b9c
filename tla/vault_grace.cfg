SPECIFICATION Spec
CONSTANTS
  None = None
  Paths = {1, 2}
  Contents = {c1, c2}
  Indexers = {p1}
  Purgers = {u1}
  AbsLimit = 1
  Day = 2
  Grace = 2
  Batch = 1
  MaxDocs = 4
  MaxClock = 3
  MaxEvents = 1
INVARIANTS PurgedAfterGrace
