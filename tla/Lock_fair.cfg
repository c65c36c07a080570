SPECIFICATION FairSpec
CONSTANTS
  Proc = {p1, p2}
  NoProc = NoProc
  MaxDeaths = 1
  MaxRefusals = 1
  MayStall = TRUE
INVARIANTS MutexUnlessEvicted EvictionNeedsFault NoLeakedLock
PROPERTY EveryCallReturns
CHECK_DEADLOCK FALSE
