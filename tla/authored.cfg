CONSTANTS
  w1 = w1
  w2 = w2
  n1 = n1
  p1 = p1
  p2 = p2
  a = a
  None = None
  Writers = {w1, w2}
  Seeds = {n1}
  Procs = {p1, p2}
  ProcOf <- MCProcOf
  Reindexers = {r1}
  Topics = {a}
  Topic <- MCTopic
  Similar <- MCSimilar
  Targets = {None, n1}
  MaxEdits = 1
SPECIFICATION FairSpec
INVARIANTS OneWriter LockAccounted DuplicateFree
PROPERTIES EveryCallEnds WritesAreAtomic
CHECK_DEADLOCK FALSE
