CONSTANTS
  Processes <- MCProcesses
  Top = 2
  Observed = {"y"}
  Models <- MCModels
  Heads <- MCHeads
  Queries <- MCQueries
  Ticks <- MCTicks
  Roundings <- MCRoundings
  Noise = {0, 1}
  Cadences = {2}
SPECIFICATION Spec
INVARIANT ExactLawsHold
INVARIANT ObservedCarries
INVARIANT EnteringFires
INVARIANT CausalClaims
INVARIANT InterventionsTimely
INVARIANT RetainedAsExpected
PROPERTY ObservedClaimsStay
CHECK_DEADLOCK FALSE
