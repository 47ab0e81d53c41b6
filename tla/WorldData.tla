------------------------------ MODULE WorldData ------------------------------
(***************************************************************************)
(* The values the session stores for models, worlds and candidates.        *)
(*                                                                         *)
(* Hashes are content addresses and are taken to be collision-free, so a   *)
(* record stands for its own hash: a head is its world, the model of its   *)
(* genesis and every accepted step since; a candidate is its frozen parent *)
(* head, the dynamics of its query and its roll index.  A roll is a        *)
(* deterministic function of those three, so the successor state is not    *)
(* written down.                                                           *)
(***************************************************************************)
EXTENDS Integers, Sequences, FiniteSetsExt, Retention

CONSTANTS
  Models,       \* model definitions, one per content hash
  IdOf,         \* model -> model id
  NumberOf,     \* model -> revision number
  PreviousOf,   \* model -> the model it revises, or NoModel
  ChangeOf,     \* model -> what it changes of PreviousOf: "additive", "compatible", "breaking" or "unlawful"
  NoModel,
  WorldIds,
  Queries,      \* query dynamics: everything of a query but its roll index and its retention
  MaxRoll,      \* largest roll index (u64::MAX in the code)
  Specs         \* authored content of a world revision: state values, reason, provenance

Changes == {"additive", "compatible", "breaking", "unlawful"}

ASSUME ModelsAssumption ==
  /\ DOMAIN IdOf = Models
  /\ NumberOf \in [Models -> Nat]
  /\ PreviousOf \in [Models -> Models \cup {NoModel}]
  /\ ChangeOf \in [Models -> Changes]
  /\ NoModel \notin Models
  /\ \A m \in Models : (NumberOf[m] = 0) <=> (PreviousOf[m] = NoModel)

ASSUME RollAssumption == MaxRoll \in Nat

Modes == {"refine", "revise"}

CandidateStep == [kind : {"roll"}, query : Queries, roll : 0..MaxRoll]
RevisionStep  == [kind : {"revision"}, model : Models, mode : Modes, spec : Specs]
Step          == CandidateStep \cup RevisionStep

WorldHead == [world : WorldIds, genesis : Models, steps : Seq(Step)]

(* The model a head is under: that of its last revision, else its genesis. *)
ModelOf(h) ==
  LET revised == {i \in DOMAIN h.steps : h.steps[i].kind = "revision"}
  IN  IF revised = {} THEN h.genesis ELSE h.steps[Max(revised)].model

GenesisWorld(w, m) == [world |-> w, genesis |-> m, steps |-> <<>>]

Extend(h, s) == [world |-> h.world, genesis |-> h.genesis, steps |-> Append(h.steps, s)]

(* The head a world had after its first n accepted steps.                  *)
Ancestor(h, n) == [world |-> h.world, genesis |-> h.genesis, steps |-> SubSeq(h.steps, 1, n)]

Candidate == [parent : WorldHead, query : Queries, roll : 0..MaxRoll]

StepOf(c) == [kind |-> "roll", query |-> c.query, roll |-> c.roll]
ProposedHead(c) == Extend(c.parent, StepOf(c))
CandidateFor(h, s) == [parent |-> h, query |-> s.query, roll |-> s.roll]

WorldRevision == [source : WorldHead, model : Models, mode : Modes, spec : Specs]
RevisionStepOf(r) == [kind |-> "revision", model |-> r.model, mode |-> r.mode, spec |-> r.spec]
TargetHead(r) == Extend(r.source, RevisionStepOf(r))
RevisionFor(h, s) == [source |-> h, model |-> s.model, mode |-> s.mode, spec |-> s.spec]

(* b is the direct next revision of a: the only target a world accepts.    *)
DirectNext(a, b) == NumberOf[b] = NumberOf[a] + 1 /\ PreviousOf[b] = a

Status == {"Pending", "Committed", "Rejected", "Superseded"}
===============================================================================
