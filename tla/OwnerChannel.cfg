SPECIFICATION FairSpec
CONSTANTS
  Clients = 2
  Key = {k1, k2}
  Restored = {k2}
  Warm = {1}
  Oversized <- MCOversized
  MaxCalls = 2
  MaxGiveUps = 1
INVARIANTS AtMostOnce NoLostWakeup
PROPERTIES CallsAreAtomic EveryCallReturns StopDrains
CHECK_DEADLOCK FALSE
