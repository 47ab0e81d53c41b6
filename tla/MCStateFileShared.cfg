CONSTANTS
  s1 = s1
  s2 = s2
  w1 = w1
  w2 = w2
  w3 = w3
  Sessions = {s1, s2}
  Writes = {w1, w2, w3}
  NoWrite = NoWrite
  NoSession = NoSession
  Starts = {"v2", "v3"}
  MaxFiles = 1
  MaxKills = 1
SPECIFICATION Spec
INVARIANT AcknowledgedStored
PROPERTY ImplementsDurableLog
SYMMETRY Symmetry
CHECK_DEADLOCK FALSE
