SPECIFICATION Spec
CONSTANTS
  master = master  agent = agent
  None = None  Absent = Absent
  Key <- MCKey
  Under <- MCUnder
  Writer = {w1, w2}
  Reader = {r1}
  Purger = {c1}
  RENAME_RETRIES = 2
  MaxFacts = 2
  MaxPurges = 1
  MaxKills = 0
  MaxEvictions = 0
INVARIANT SweptStaysSwept
CHECK_DEADLOCK FALSE
