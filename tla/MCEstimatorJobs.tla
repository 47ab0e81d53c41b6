--------------------------- MODULE MCEstimatorJobs ---------------------------
(***************************************************************************)
(* EstimatorJobs for TLC: a request id used by every operation, with room  *)
(* for two requests at once, and two questions to an estimate of Cuts.     *)
(***************************************************************************)
EXTENDS EstimatorJobs, TLC

TwoTargets == [i \in Inputs |-> 2]

Symmetry == Permutations(Ids) \cup Permutations(Inputs)
=============================================================================
