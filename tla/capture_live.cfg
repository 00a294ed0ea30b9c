SPECIFICATION FairSpec
CONSTANTS
  None = None
  Sessions = {s1}
  Kinds = {"plain", "subagent", "cursor"}
  Hooks = {h1, h2}
  Events = {"session_end"}
  Daemons = {d1}
  Delay <- MCShortDelay
  Retry = 1
  MaxRetry = 1
  Lease = 1
  MaxAttempts = 1
  MaxMtime = 2
  MaxEvents <- MCOneIfUnfit
  MaxCrashes = 1
PROPERTIES LeaseRespected EventuallyCaptured
CHECK_DEADLOCK FALSE
