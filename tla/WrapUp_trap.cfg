SPECIFICATION FairSpec
CONSTANTS
  own = own  other = other  f1 = f1  f2 = f2
  File = {f1, f2}
  Judge = {own, other}
  ByCwd = {own}
  Covers <- MCCovers
  MaxNudges = 2
  SILENT_SENSOR_TURNS = 2
  MAX_TOUCHED = 1
  StaysFull = TRUE
  MaxLost = 1
  MaxCompactions = 0
  MaxSkips = 0
PROPERTY EveryTurnEnds
CHECK_DEADLOCK FALSE
