SPECIFICATION CorpusSpec
CONSTANTS
  fleet = fleet  mcp = mcp  skill1 = skill1  skill2 = skill2
  f1 = f1  f2 = f2  f3 = f3  d1 = d1  d2 = d2
  File = {f1, f2, f3}
  Dir = {d1, d2}
  DirOf <- MCDirOf
  Root = {fleet, mcp}
  Single = {skill1, skill2}
  Reads <- MCReads
  MaxRoots = 2
  MaxFiles = 1
  MaxChanges = 2
  MaxDeaf = 1
  MaxLost = 1
INVARIANTS StaleIsTold WatchersAreOwned
CHECK_DEADLOCK FALSE
