SPECIFICATION Spec
CONSTANTS
  None = None
  Paths = {1, 2}
  Contents = {c1, c2}
  Indexers = {p1}
  Purgers = {u1}
  AbsLimit = 1
  Day = 1
  Grace = 1
  Batch = 1
  MaxDocs = 4
  MaxClock = 1
  MaxEvents = 2
INVARIANTS OneIdentity VectorsCurrent BlastRadius
PROPERTIES IdentityStays PurgesWhatWasShown EventuallySynced
