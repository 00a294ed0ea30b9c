SPECIFICATION MCSpec
CONSTANTS
  Ids = {1, 2, 3, 4}
  Rows = {1}
  Null = Null
  Paths = {"p", "q", "r"}
  Hashes = {"x", "y"}
  Backups <- MCBackups
  Lives <- MCLives
  Position <- MCPosition
  Batch = 1
  Commands = {c1, c2}
  MaxPlans = 1
  MaxChanges = 1
  MaxCrashes = 1
  Notes = {"a", "b"}
  Order <- MCOrder
  Homes = {"h", "k"}
  Bodies = {"x", "y", "headed x"}
  Fields = {"tier"}
  Values = {"v", "w"}
  Tags = {"t"}
  Parsed <- MCParsed
  Nothing = Nothing
  Sources <- MCSources
  Vaults <- MCVaults
  MaxSuffix = 1
  MaxEdits = 2
  MaxStops = 1
  Docs = {d1}
  Sessions = {s1}
  TestSessions = {}
  Second = 2
  Window = 2
  MaxTime = 7
  MaxLogged = 3
  Inferred = {n1, n2}
  Uncertain = {}
  Unfiled = {n2}
  Promoters = {p1, p2}
  Unset = Unset
  MaxRuns = 2
  MaxHand = 1
  Works = {w1}
  Versions = {v1, v2}
  Tasks = {t1, t2}
  Reason = {other}
  TickOf = 2
  MaxTicks = 4
  MaxLines = 4
  MaxRetrievals = 2
  MaxTurns = 1
INVARIANTS NoMixedState ImportsAll RerunsAreIdle LoggedMeansRaised OutcomesAreEarned
PROPERTIES RepairsAreProven UndoSparesOthers EditsKept VerdictsSettle
CONSTRAINT MCTranscripts
CHECK_DEADLOCK FALSE
