CONSTANTS
  s1 = s1
  s2 = s2
  w1 = w1
  w2 = w2
  w3 = w3
  Sessions = {s1, s2}
  Writes = {w1, w2}
  NoWrite = NoWrite
  NoSession = NoSession
  Starts = {"missing", "v3"}
  MaxFiles = 2
  MaxKills = 1
SPECIFICATION FairSpec
INVARIANT RefusedNeverStored
PROPERTY CommandsAnswered
CHECK_DEADLOCK FALSE
