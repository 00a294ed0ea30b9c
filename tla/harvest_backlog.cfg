SPECIFICATION FairSpec
CONSTANTS
  None = None
  Transcripts = {1, 2, 3}
  Healthy = {3}
  Sweepers = {s1}
  Captures = {}
  WantFacts = {FALSE}
  Lengths = {2}
  Parsers = {}
  Size <- MCSize
  PerRun <- MCPerRun
  MinText = 2
  MaxSessions = 1
  MaxGrowth = 1
  MaxCrashes = 0
PROPERTIES EventuallyRead
CHECK_DEADLOCK FALSE
