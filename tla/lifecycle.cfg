SPECIFICATION FairSpec
CONSTANTS
  None = None
  Left = Stale
  Daemons = {d1, d2}
  Supervised = FALSE
  Shims = {c1}
  Requests = {1}
  Hello = 0
  Ready = 0
  Grace = 1
  MaxAge = 1
  MaxTick = 1
  MaxMarks = 1
  MaxCrashes = 1
INVARIANTS RequestsAccounted NoHalfStart
PROPERTIES RestartsAreSmooth ClientsAreServed
CHECK_DEADLOCK FALSE
