SPECIFICATION Spec
CONSTANTS
  big = big
  small = small
  always = always
  b1 = b1
  b2 = b2
  b3 = b3
  s1 = s1
  a1 = a1
  Doc <- MCDoc
  Once <- MCOnce
  Chunk <- MCChunk
  DocOf <- MCDocOf
  Fresh <- MCFresh
  Through <- MCThrough
  Inv = {i1, i2}
  NbFrames = 2
  MaxTimeouts = 1
  MaxPurges = 0
INVARIANT NothingLost
