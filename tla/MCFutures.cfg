CONSTANTS
  e1 = e1
  e2 = e2
  s1 = s1
  s2 = s2
  k1 = k1
  k2 = k2
  Edits = {e1}
  Stages = {s1, s2}
  Keys = {k1, k2}
  None = None
  MaxFollowed = 2
  MaxHeaders = 2
  MaxEdits = 1
  MaxModels = 3
  MaxBinds = 1
  MaxBranches = 2
  MaxFaults = 1
SPECIFICATION Spec
INVARIANT AncestryIsTrue
INVARIANT StaysOnLine
INVARIANT JointAlongBranches
INVARIANT StageForkedOnce
SYMMETRY Symmetry
CHECK_DEADLOCK FALSE
