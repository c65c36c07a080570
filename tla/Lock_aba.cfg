SPECIFICATION Spec
CONSTANTS
  Proc = {p1, p2, p3}
  NoProc = NoProc
  MaxDeaths = 1
  MaxRefusals = 0
  MayStall = FALSE
INVARIANT LivingHolderNeverEvicted
SYMMETRY Symmetry
CHECK_DEADLOCK FALSE
