CONSTANTS
  c1 = c1
  c2 = c2
  c3 = c3
  Calls = {c1, c2, c3}
  None = None
  MaxFaults = 1
  MaxCompound = 2
  Mixes <- MCMixes
SPECIFICATION Spec
INVARIANT ForksAreRaces
INVARIANT AnchorsResolve
INVARIANT RecordedWhole
SYMMETRY Symmetry
CHECK_DEADLOCK FALSE
