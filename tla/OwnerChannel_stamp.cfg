SPECIFICATION Spec
CONSTANTS
  Clients = 1
  Key = {k1}
  Restored = {k1}
  Warm = {}
  Oversized = {}
  MaxCalls = 3
  MaxGiveUps = 0
INVARIANT StampProvesValue
CHECK_DEADLOCK FALSE
