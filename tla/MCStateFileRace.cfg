CONSTANTS
  s1 = s1
  s2 = s2
  w1 = w1
  w2 = w2
  w3 = w3
  Sessions = {s1, s2}
  Writes = {w1, w2}
  NoWrite = NoWrite
  NoSession = NoSession
  Starts = {"missing"}
  MaxFiles = 2
  MaxKills = 0
SPECIFICATION Spec
INVARIANT AcknowledgedStored
CHECK_DEADLOCK FALSE
