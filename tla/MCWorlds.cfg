CONSTANTS
  m0 = m0
  m1 = m1
  m2 = m2
  mb = mb
  mx = mx
  NoModel = NoModel
  Models <- MCModels
  IdOf <- MCIdOf
  NumberOf <- MCNumberOf
  PreviousOf <- MCPreviousOf
  ChangeOf <- MCChangeOf
  WorldIds = {w1}
  Queries = {q1}
  Specs = {s1}
  MaxRoll = 1
  Cadences = {2}
  MaxModels = 3
  MaxWorlds = 1
  MaxRevisions = 2
  MaxCandidates = 3
  HeadBytes <- MCHeadBytes
  MaxWorldBytes = 3
  StatusBytes <- MCStatusBytes
  PathBytes <- MCPathBytes
  MaxCandidateBytes = 31
  QueryWork <- MCQueryWork
  MaxReplayWork = 3
  GraphIds = {g1}
  MaxGraphs = 2
  PathsBesideGraphs <- MCPathsBesideGraphs
SPECIFICATION NarrativesSpec
INVARIANTS LineageRestores RowsRestore NoRivalPending GraphsRestore
PROPERTIES HistoryOnlyExtends ImplementsAcceptedHistory
CHECK_DEADLOCK FALSE
