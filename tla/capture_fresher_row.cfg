SPECIFICATION Spec
CONSTANTS
  None = None
  Sessions = {s1}
  Kinds = {"plain"}
  Hooks = {h1, h2}
  Events = {"activity", "session_end"}
  Daemons = {d1}
  Delay <- MCShortDelay
  Retry = 1
  MaxRetry = 2
  Lease = 1
  MaxAttempts = 2
  MaxMtime = 2
  MaxEvents <- MCTwo
  MaxCrashes = 1
PROPERTIES RetryKeepsFresherRow
CHECK_DEADLOCK FALSE
