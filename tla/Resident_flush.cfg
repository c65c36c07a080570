SPECIFICATION ResidentSpec
CONSTANTS
  p1 = p1  p2 = p2  p3 = p3  s1 = s1  s2 = s2
  Plan = {p1, p2, p3}
  Scope = {s1, s2}
  ScopeOf <- MCScopeOf
  Weight = {1, 2, 4}
  MAX_EPHEMERAL = 2
  MAX_EPHEMERAL_BYTES = 3
  PERSIST_EVERY = 3
  MaxFaults = 1
  MaxLives = 0
INVARIANT CleanExitSavesAll
CHECK_DEADLOCK FALSE
