SPECIFICATION Spec
CONSTANTS
  None = None
  Transcripts = {1}
  Healthy = {1}
  Sweepers = {s1}
  Captures = {c1}
  WantFacts = {TRUE, FALSE}
  Lengths = {1, 2}
  Parsers = {"empty", "noted"}
  Size <- MCSize
  PerRun <- MCPerRun
  MinText = 2
  MaxSessions = 1
  MaxGrowth = 2
  MaxCrashes = 1
INVARIANTS WatermarkHonest
CHECK_DEADLOCK FALSE
