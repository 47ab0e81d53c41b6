-------------------------------- MODULE Worlds --------------------------------
(***************************************************************************)
(* The authoritative session in memory: registered models, worlds with     *)
(* their accepted heads, world revisions, and the candidates rolled from   *)
(* those heads.  Every action is one mutating command of the engine that   *)
(* succeeds; a refused command leaves the session as it was and is a       *)
(* stuttering step.                                                        *)
(***************************************************************************)
EXTENDS WorldData

CONSTANTS
  MaxModels, MaxWorlds, MaxRevisions, MaxCandidates,  \* counts a session may hold
  HeadBytes,          \* model -> size of a world head under it
  MaxWorldBytes,
  StatusBytes,        \* status -> size it adds to a stored candidate
  PathBytes,          \* retention -> size of the retained path
  MaxCandidateBytes,
  QueryWork,          \* query -> work its replay takes when the session is reopened
  MaxReplayWork

ASSUME CapacityAssumption ==
  /\ {MaxModels, MaxWorlds, MaxRevisions, MaxCandidates} \subseteq Nat
  /\ {MaxWorldBytes, MaxCandidateBytes, MaxReplayWork} \subseteq Nat
  /\ HeadBytes \in [Models -> Nat]
  /\ StatusBytes \in [Status -> Nat]
  /\ PathBytes \in [PathSpec -> Nat]
  /\ QueryWork \in [Queries -> Nat]

VARIABLES
  models,       \* the registered models
  worlds,       \* world id -> accepted head, for the worlds that exist
  revisions,    \* the recorded world revisions
  candidates    \* stored candidate -> its status and retained path

vars == <<models, worlds, revisions, candidates>>

Row == [status : Status, path : PathSpec]

TypeOK ==
  /\ models \subseteq Models
  /\ DOMAIN worlds \subseteq WorldIds
  /\ worlds \in [DOMAIN worlds -> WorldHead]
  /\ \A w \in DOMAIN worlds : worlds[w].world = w
  /\ revisions \subseteq WorldRevision
  /\ DOMAIN candidates \subseteq Candidate
  /\ candidates \in [DOMAIN candidates -> Row]

Init ==
  /\ models = {}
  /\ worlds = [w \in {} |-> GenesisWorld(w, NoModel)]
  /\ revisions = {}
  /\ candidates = [c \in {} |-> [status |-> "Pending", path |-> Endpoint]]

-----------------------------------------------------------------------------
(* Storage limits, checked against the session as it would be afterwards.  *)

ModelsFit(ms) == Cardinality(ms) <= MaxModels

WorldBytes(ws) ==
  MapThenSumSet(LAMBDA w : HeadBytes[ModelOf(ws[w])], DOMAIN ws)

WorldsFit(ws) ==
  /\ Cardinality(DOMAIN ws) <= MaxWorlds
  /\ WorldBytes(ws) <= MaxWorldBytes

RevisionsFit(rs) == Cardinality(rs) <= MaxRevisions

CandidateBytes(cs) ==
  MapThenSumSet(LAMBDA c : StatusBytes[cs[c].status] + PathBytes[cs[c].path], DOMAIN cs)

ReplayWork(cs) == MapThenSumSet(LAMBDA c : QueryWork[c.query], DOMAIN cs)

CandidatesFit(cs) ==
  /\ Cardinality(DOMAIN cs) <= MaxCandidates
  /\ CandidateBytes(cs) <= MaxCandidateBytes
  /\ ReplayWork(cs) <= MaxReplayWork

-----------------------------------------------------------------------------
(* Models.                                                                 *)

(* register_model: revision zero, and the only one under its model id.     *)
RegisterModel(m) ==
  /\ m \notin models
  /\ NumberOf[m] = 0
  /\ \A e \in models : NumberOf[e] = 0 => IdOf[e] # IdOf[m]
  /\ ModelsFit(models \cup {m})
  /\ models' = models \cup {m}
  /\ UNCHANGED <<worlds, revisions, candidates>>

(* revise_model: a lawful direct successor of a registered model.          *)
ReviseModel(m) ==
  /\ m \notin models
  /\ NumberOf[m] # 0
  /\ PreviousOf[m] \in models
  /\ IdOf[PreviousOf[m]] = IdOf[m]
  /\ NumberOf[m] = NumberOf[PreviousOf[m]] + 1
  /\ ChangeOf[m] # "unlawful"
  /\ ModelsFit(models \cup {m})
  /\ models' = models \cup {m}
  /\ UNCHANGED <<worlds, revisions, candidates>>

-----------------------------------------------------------------------------
(* Worlds.                                                                 *)

(* The worlds with w's head replaced, or w added.                          *)
WithHead(w, h) == [v \in DOMAIN worlds \cup {w} |-> IF v = w THEN h ELSE worlds[v]]

CreateWorld(w, m) ==
  /\ w \notin DOMAIN worlds
  /\ m \in models
  /\ WorldsFit(WithHead(w, GenesisWorld(w, m)))
  /\ worlds' = WithHead(w, GenesisWorld(w, m))
  /\ UNCHANGED <<models, revisions, candidates>>

(* Mutant: refines a world whatever was accepted on it.                    *)
RefineAnyHead(w, m) ==
  /\ w \in DOMAIN worlds
  /\ m \in models
  /\ DirectNext(ModelOf(worlds[w]), m)
  /\ ChangeOf[m] = "additive"
  /\ WorldsFit(WithHead(w, GenesisWorld(w, m)))
  /\ worlds' = WithHead(w, GenesisWorld(w, m))
  /\ UNCHANGED <<models, revisions, candidates>>

(* Only an untouched genesis may be refined, and only to an additive       *)
(* direct next revision.                                                   *)
RefineGenesisWorld(w, m) ==
  /\ w \in DOMAIN worlds
  /\ worlds[w] = GenesisWorld(w, ModelOf(worlds[w]))
  /\ m \in models
  /\ DirectNext(ModelOf(worlds[w]), m)
  /\ ChangeOf[m] = "additive"
  /\ WorldsFit(WithHead(w, GenesisWorld(w, m)))
  /\ worlds' = WithHead(w, GenesisWorld(w, m))
  /\ UNCHANGED <<models, revisions, candidates>>

(* The request names the head it was written against; a request that names *)
(* another head is refused, so only the current head is revised.           *)
ReviseWorld(w, m, mode, spec) ==
  /\ w \in DOMAIN worlds
  /\ m \in models
  /\ DirectNext(ModelOf(worlds[w]), m)
  /\ ChangeOf[m] \in (IF mode = "refine" THEN {"additive"} ELSE {"additive", "compatible"})
  /\ LET r == [source |-> worlds[w], model |-> m, mode |-> mode, spec |-> spec]
     IN  /\ WorldsFit(WithHead(w, TargetHead(r)))
         /\ RevisionsFit(revisions \cup {r})
         /\ worlds' = WithHead(w, TargetHead(r))
         /\ revisions' = revisions \cup {r}
  /\ UNCHANGED <<models, candidates>>

-----------------------------------------------------------------------------
(* Candidates.                                                             *)

Pending == {c \in DOMAIN candidates : candidates[c].status = "Pending"}

(* The candidates with c added as Pending and the set S superseded.        *)
WithInsertion(c, path, S) ==
  [d \in DOMAIN candidates \cup {c} |->
     IF d = c THEN [status |-> "Pending", path |-> path]
     ELSE IF d \in S THEN [candidates[d] EXCEPT !.status = "Superseded"]
     ELSE candidates[d]]

(* The candidates with a richer path of c kept and the set S superseded.   *)
WithUpgrade(c, path, S) ==
  [d \in DOMAIN candidates |->
     [status |-> IF d \in S THEN "Superseded" ELSE candidates[d].status,
      path   |-> IF d = c /\ PathIsRicher(path, candidates[d].path) THEN path ELSE candidates[d].path]]

(* A roll whose candidate is new stores it; one already stored is answered *)
(* as it is, except for a richer path.  S is what a reroll supersedes.     *)
InsertCandidate(c, path, S) ==
  /\ c \notin DOMAIN candidates
  /\ CandidatesFit(WithInsertion(c, path, S))
  /\ candidates' = WithInsertion(c, path, S)
  /\ UNCHANGED <<models, worlds, revisions>>

AnswerExistingCandidate(c, path, S) ==
  /\ c \in DOMAIN candidates
  /\ \/ S # {}
     \/ PathIsRicher(path, candidates[c].path)
  /\ CandidatesFit(WithUpgrade(c, path, S))
  /\ candidates' = WithUpgrade(c, path, S)
  /\ UNCHANGED <<models, worlds, revisions>>

RollWorld(w, query, roll, path) ==
  /\ w \in DOMAIN worlds
  /\ LET c == [parent |-> worlds[w], query |-> query, roll |-> roll]
     IN  \/ InsertCandidate(c, path, {})
         \/ AnswerExistingCandidate(c, path, {})

(* Mutant: a new reroll of a stale parent is stored.                       *)
RerollStaleParent(c) ==
  /\ c \in DOMAIN candidates
  /\ candidates[c].status # "Committed"
  /\ c.roll < MaxRoll
  /\ LET next == [c EXCEPT !.roll = @ + 1]
     IN  \/ InsertCandidate(next, candidates[c].path, Pending \cap {c})
         \/ AnswerExistingCandidate(next, candidates[c].path, Pending \cap {c})

(* Rolls the frozen parent of c again with the next roll index.  A new     *)
(* candidate needs that parent to be the world's head; one already stored  *)
(* is answered whatever the head is.                                       *)
RerollCandidate(c) ==
  /\ c \in DOMAIN candidates
  /\ candidates[c].status # "Committed"
  /\ c.roll < MaxRoll
  /\ LET next == [c EXCEPT !.roll = @ + 1]
         path == candidates[c].path
         source == Pending \cap {c}
     IN  \/ /\ c.parent.world \in DOMAIN worlds
            /\ worlds[c.parent.world] = c.parent
            /\ InsertCandidate(next, path, source)
         \/ AnswerExistingCandidate(next, path, source)

(* Mutant: the longer status is not measured.                              *)
RejectUnmeasured(c) ==
  /\ c \in Pending
  /\ candidates' = [candidates EXCEPT ![c].status = "Rejected"]
  /\ UNCHANGED <<models, worlds, revisions>>

RejectCandidate(c) ==
  /\ c \in Pending
  /\ LET rejected == [candidates EXCEPT ![c].status = "Rejected"]
     IN  CandidatesFit(rejected) /\ candidates' = rejected
  /\ UNCHANGED <<models, worlds, revisions>>

(* Mutant: only rerolls of the same query are rivals.                      *)
RivalsOfQuery(c) == {d \in Pending : d.parent = c.parent /\ d.query = c.query /\ d.roll <= c.roll}

Rivals(c) == {d \in Pending : d.parent = c.parent}

(* The candidates with c committed and its pending rivals superseded.      *)
WithCommit(c) ==
  [d \in DOMAIN candidates |->
     IF d = c THEN [candidates[d] EXCEPT !.status = "Committed"]
     ELSE IF d \in Rivals(c) THEN [candidates[d] EXCEPT !.status = "Superseded"]
     ELSE candidates[d]]

(* Mutant: commits whatever the head is by now.                            *)
CommitStale(c) ==
  /\ c \in Pending
  /\ c.parent.world \in DOMAIN worlds
  /\ WorldsFit(WithHead(c.parent.world, ProposedHead(c)))
  /\ CandidatesFit(WithCommit(c))
  /\ worlds' = WithHead(c.parent.world, ProposedHead(c))
  /\ candidates' = WithCommit(c)
  /\ UNCHANGED <<models, revisions>>

CommitCandidate(c) ==
  /\ c \in Pending
  /\ c.parent.world \in DOMAIN worlds
  /\ worlds[c.parent.world] = c.parent
  /\ WorldsFit(WithHead(c.parent.world, ProposedHead(c)))
  /\ CandidatesFit(WithCommit(c))
  /\ worlds' = WithHead(c.parent.world, ProposedHead(c))
  /\ candidates' = WithCommit(c)
  /\ UNCHANGED <<models, revisions>>

-----------------------------------------------------------------------------
Next ==
  \/ \E m \in Models : RegisterModel(m) \/ ReviseModel(m)
  \/ \E w \in WorldIds, m \in Models : CreateWorld(w, m) \/ RefineGenesisWorld(w, m)
  \/ \E w \in WorldIds, m \in Models, mode \in Modes, spec \in Specs :
       ReviseWorld(w, m, mode, spec)
  \/ \E w \in WorldIds, query \in Queries, roll \in 0..MaxRoll, path \in PathSpec :
       RollWorld(w, query, roll, path)
  \/ \E c \in DOMAIN candidates : RerollCandidate(c) \/ RejectCandidate(c) \/ CommitCandidate(c)

Spec == Init /\ [][Next]_vars

-----------------------------------------------------------------------------
(* What reopening the saved session checks of it.                          *)

WithinLimits ==
  ModelsFit(models) /\ WorldsFit(worlds) /\ RevisionsFit(revisions) /\ CandidatesFit(candidates)

Committed == {c \in DOMAIN candidates : candidates[c].status = "Committed"}
Closed    == {c \in DOMAIN candidates : candidates[c].status \in {"Rejected", "Superseded"}}

(* Step s was accepted on head h, somewhere below the present head of h's  *)
(* world.                                                                  *)
AcceptedOn(h, s) ==
  /\ h.world \in DOMAIN worlds
  /\ \E n \in DOMAIN worlds[h.world].steps :
       worlds[h.world].steps[n] = s /\ Ancestor(worlds[h.world], n - 1) = h

(* Every accepted step is backed by what accepted it, and nothing is       *)
(* recorded as accepted that is not on an accepted path: the walk from     *)
(* each head down to its genesis that a reopened session makes, and its    *)
(* two comparisons of what the walk met with what is stored.  A commit or  *)
(* a revision that left the two apart would make the file unopenable.      *)
LineageRestores ==
  /\ \A w \in DOMAIN worlds : \A n \in DOMAIN worlds[w].steps :
       LET s == worlds[w].steps[n]
           h == Ancestor(worlds[w], n - 1)
       IN  /\ s.kind = "roll" => CandidateFor(h, s) \in Committed
           /\ s.kind = "revision" => RevisionFor(h, s) \in revisions
  /\ \A c \in Committed : AcceptedOn(c.parent, StepOf(c))
  /\ \A r \in revisions : AcceptedOn(r.source, RevisionStepOf(r))

(* What was admitted one command at a time can be read back all at once.   *)
(* Every record refers to models that are registered, so it can be rebuilt *)
(* or replayed, and a revision goes to the direct next model.  Reopening   *)
(* applies the storage limits again, to the rows as they are by then: a    *)
(* status or a path that grew past a limit after its row was admitted      *)
(* would make the file unopenable.                                         *)
RowsRestore ==
  /\ \A m \in models : NumberOf[m] # 0 => PreviousOf[m] \in models
  /\ \A w \in DOMAIN worlds : worlds[w].genesis \in models /\ ModelOf(worlds[w]) \in models
  /\ \A c \in DOMAIN candidates : ModelOf(c.parent) \in models
  /\ \A r \in revisions :
       /\ {ModelOf(r.source), r.model} \subseteq models
       /\ DirectNext(ModelOf(r.source), r.model)
  /\ WithinLimits

-----------------------------------------------------------------------------
(* One future per head: once a candidate of a head is committed, no other  *)
(* candidate of that head is left pending, however it was rolled, rerolled *)
(* or answered from the store.                                             *)
NoRivalPending ==
  \A c \in Committed : \A d \in Pending : d.parent # c.parent

(* Accepted history is only ever extended, by one step at a time; the one  *)
(* exception is a genesis nothing was accepted on, which may move to the   *)
(* direct next model.                                                      *)
HistoryOnlyExtends ==
  [][\A w \in DOMAIN worlds :
       /\ w \in DOMAIN worlds'
       /\ \/ worlds'[w] = worlds[w]
          \/ \E s \in Step : worlds'[w] = Extend(worlds[w], s)
          \/ /\ worlds[w].steps = <<>> /\ worlds'[w].steps = <<>>
             /\ DirectNext(worlds[w].genesis, worlds'[w].genesis)]_vars

(* A candidate is never lost, a decided one is never decided again, and    *)
(* what is kept of its path only gets richer, whatever later rolls ask.    *)
CandidatesOnlySettle ==
  [][\A c \in DOMAIN candidates :
       /\ c \in DOMAIN candidates'
       /\ candidates[c].status # "Pending" => candidates'[c].status = candidates[c].status
       /\ \/ candidates'[c].path = candidates[c].path
          \/ PathIsRicher(candidates'[c].path, candidates[c].path)]_vars

(* The session implements accepted history.                                *)
History == INSTANCE AcceptedHistory WITH
  head     <- worlds,
  open     <- Pending,
  closed   <- Closed,
  accepted <- Committed

ImplementsAcceptedHistory == History!HSpec
===============================================================================
