SPECIFICATION FairSpec
CONSTANTS
  own = own  other = other  f1 = f1  f2 = f2
  File = {f1, f2}
  Judge = {own, other}
  ByCwd = {}
  Covers <- MCCovers
  MaxNudges = 2
  SILENT_SENSOR_TURNS = 1
  MAX_TOUCHED = 1
  StaysFull = FALSE
  MaxLost = 1
  MaxCompactions = 1
  MaxSkips = 1
INVARIANTS RefusalsBounded ReleasedStaysReleased CompleteListIsComplete
PROPERTY EveryTurnEnds
CHECK_DEADLOCK FALSE
