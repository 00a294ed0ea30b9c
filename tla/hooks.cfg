SPECIFICATION Spec
CONSTANTS
  None = None
  Spoiled = Spoiled
  Calls = {h1, h2}
  Installs <- MCInstalls
  Sessions = {s1, s2}
  Notes = {n1, n2, p1}
  Policies = {p1}
  MaxWarnings = 1
  Reasons = {r1, r2, r3}
  MaxCheckpoints = 2
  MaxSnapshots = 2
  MaxRaces = 1
SYMMETRY Symmetry
INVARIANTS WarningsBounded PoliciesDeny CheckpointsCapped UnreadStays
CHECK_DEADLOCK FALSE
