------------------------------ MODULE Retention ------------------------------
(***************************************************************************)
(* How much of a rolled trajectory a candidate keeps: the endpoint only,   *)
(* every n-th sample, or all of them.  The canonical candidate does not    *)
(* depend on it, so two rolls of one candidate may differ in it and the    *)
(* stored one is replaced by a richer one.                                 *)
(***************************************************************************)
EXTENDS Integers, FiniteSets

CONSTANT Cadences       \* the decimation intervals a query may ask for

ASSUME CadencesAssumption == Cadences \subseteq Nat \ {0}

Endpoint     == [kind |-> "endpoint", every |-> 0]
Full         == [kind |-> "full", every |-> 0]
Decimated(n) == [kind |-> "decimated", every |-> n]

PathSpec == {Endpoint, Full} \cup {Decimated(n) : n \in Cadences}

(* A path is richer when it keeps every sample of the other and may keep   *)
(* more; two cadences compare only when one divides the other.             *)
PathIsRicher(path, stored) ==
  \/ path.kind = "full" /\ stored.kind # "full"
  \/ path.kind = "decimated" /\ stored.kind = "endpoint"
  \/ /\ path.kind = "decimated" /\ stored.kind = "decimated"
     /\ path.every < stored.every
     /\ stored.every % path.every = 0

(* Mutant: the end is kept only when the cadence meets it.                 *)
RetainWithoutEnd(path, step, total) ==
  \/ path.kind = "full"
  \/ path.kind = "endpoint" /\ step = total
  \/ path.kind = "decimated" /\ step % path.every = 0

(* Is sample `step` of 0..total kept?                                      *)
Retain(path, step, total) ==
  \/ path.kind = "full"
  \/ step = total
  \/ path.kind = "decimated" /\ (step = 0 \/ step % path.every = 0)

(* What the roll reserves room for.                                        *)
PathCapacity(path, total) ==
  CASE path.kind = "endpoint"  -> 1
    [] path.kind = "full"      -> total + 1
    [] path.kind = "decimated" -> total \div path.every + 2

(* What validation of a stored candidate expects to find.                  *)
ExpectedRetainedSampleCount(path, total) ==
  CASE path.kind = "endpoint"  -> 1
    [] path.kind = "full"      -> total + 1
    [] path.kind = "decimated" -> (IF total = 0 THEN 0 ELSE total - 1) \div path.every + 2

Kept(path, total) == {step \in 0..total : Retain(path, step, total)}
===============================================================================
