CONSTANTS
  Ops = {"preview", "build", "ingest", "shares"}
  Ids = {r1}
  Inputs = {i1, i2}
  Targets <- TwoTargets
  None = None
  MaxEntries = 3
  MaxBytes = 7
  Reservation = 3
  ResultBytes = 1
  ProposalBytes = 1
  MaxAsks = 2
  MaxFaults = 2
  MaxRestarts = 1
SPECIFICATION Spec
INVARIANTS BytesAccount OneEstimate
PROPERTY NeverRerolled
CHECK_DEADLOCK FALSE
SYMMETRY Symmetry
