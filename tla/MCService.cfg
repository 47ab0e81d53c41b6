CONSTANTS
  w1 = w1
  MaxCalls = 3
  Stored = {w1}
  Requests <- MCRequests
  Own = Own
  MaxWorlds = 1
  MaxCandidates = 2
  MaxReceiptBytes = 5
  NamedHeads <- MCNamedHeads
  RollOf <- MCRollOf
SPECIFICATION FairSpec
INVARIANT ExecutedOnce
INVARIANT HandleFollowsHead
INVARIANT EstimatesFrozen
INVARIANT QuotasHold
PROPERTY AcceptedAsExpected
PROPERTY CallsAnswered
CHECK_DEADLOCK FALSE
