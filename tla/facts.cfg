SPECIFICATION MCSpec
CONSTANTS
  None = None
  t = t
  u = u
  n = n
  v = v
  w = w
  c1 = c1
  c2 = c2
  Names = {t, u, n, v, w}
  Tickets = {t, u}
  Subjects = {t, u, n}
  Values = {v, w}
  Renames <- MCRenames
  Batches <- MCBatches
  Verdicts = {"current"}
  Callers = {c1, c2}
  MaxReviews = 1
  Setups <- MCSetups
  Runs = {job, hand}
  Manual = {hand}
  Notes = {1, 2}
  About <- MCAbout
  Keys <- MCKeys
  Limit = 1
  MaxEvents = 1
INVARIANTS LedgerSound SettledMeansSeen AckedWereLogged
PROPERTIES MergesKeepFacts JudgedUnchanged EveryItemGetsATurn
CHECK_DEADLOCK FALSE
