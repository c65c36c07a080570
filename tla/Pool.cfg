SPECIFICATION FairPoolSpec
CONSTANTS
  d = d  c1 = c1  c2 = c2  c3 = c3  c4 = c4  t1 = t1  t2 = t2
  Thread = {t1, t2}
  Doc = {d}
  Once = {d}
  Chunk <- MCChunk
  DocOf <- MCDocOf
  Fresh <- MCFresh
  Through <- MCThrough
  Inv = {i1, i2}
  NbFrames = 3
  MaxTimeouts = 1
  MaxPurges = 0
INVARIANT TransferIsExact
PROPERTY EveryRequestEnds
CHECK_DEADLOCK FALSE
