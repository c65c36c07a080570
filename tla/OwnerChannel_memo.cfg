SPECIFICATION Spec
CONSTANTS
  Clients = 1
  Key = {k1, k2}
  Restored = {}
  Warm = {}
  Oversized = {}
  MaxCalls = 5
  MaxGiveUps = 0
INVARIANT MemoIsCurrent
CHECK_DEADLOCK FALSE
