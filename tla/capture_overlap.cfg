SPECIFICATION Spec
CONSTANTS
  None = None
  Sessions = {s1}
  Kinds = {"plain"}
  Hooks = {h1}
  Events = {"session_end"}
  Daemons = {d1, d2}
  Delay <- MCShortDelay
  Retry = 1
  MaxRetry = 1
  Lease = 1
  MaxAttempts = 0
  MaxMtime = 2
  MaxEvents <- MCTwo
  MaxCrashes = 0
INVARIANTS AcceptedNotLost ReceiptHonest
SYMMETRY DaemonSymmetry
CHECK_DEADLOCK FALSE
