CONSTANTS
  m1 = m1
  m2 = m2
  m3 = m3
  g1 = g1
  g2 = g2
  a = a
  b = b
  Models = {m1, m2, m3}
  Graphs = {g1, g2}
  Previous <- MCPrevious
  Source <- MCSource
  KeptWhole = {m3}
  Sessions = {a, b}
  Nothing = Nothing
  MaxReady = 2
  MaxStored = 2
  MaxGeneration = 2
  MaxDamage = 1
SYMMETRY Symmetry
SPECIFICATION StoreSpec
INVARIANT EveryRevisionReads
INVARIANT ServesAccepted
INVARIANT SealedOnce
CHECK_DEADLOCK FALSE
