SPECIFICATION Spec
CONSTANTS
  Peer <- MCPeer
  Doc = {d1}
  Seg = {x1}
  MaxRank = 2
  MaxOps = 3
INVARIANTS Convergence NoLostBump DriftNeverNegative DenialIsLastRecall OwedIsKept
CHECK_DEADLOCK FALSE
