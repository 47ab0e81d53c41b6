CONSTANTS
  m1 = m1
  m2 = m2
  r1 = r1
  Calls = {m1, m2, r1}
  Mutating = {m1, m2}
  Describe = Describe
  None = None
  MaxPendingCalls = 2
  TimeoutModes = {"one", "each"}
SPECIFICATION FairSpec
PROPERTY ImplementsRemoteCalls
PROPERTY CallsSettle
CHECK_DEADLOCK FALSE
