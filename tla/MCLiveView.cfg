CONSTANTS
  e1 = e1
  e2 = e2
  s1 = s1
  k1 = k1
  Edits = {e1, e2}
  Stages = {s1}
  Keys = {k1}
  None = None
  MaxFollowed = 2
  MaxHeaders = 1
  MaxEdits = 1
  MaxModels = 2
  MaxBranches = 1
  MaxBinds = 1
  MaxFaults = 1
SPECIFICATION FairSpec
INVARIANT ShowsOneLine
PROPERTY PageCatchesUp
CHECK_DEADLOCK FALSE
