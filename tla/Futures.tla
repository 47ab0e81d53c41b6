-------------------------------- MODULE Futures --------------------------------
(***************************************************************************)
(* Futures: branches of a model, the graphs bound to its revisions, and    *)
(* what the service remembers of their ancestry.                           *)
(*                                                                         *)
(* Model revisions are immutable and named by their content: a revision is *)
(* the sequence of its changes, and its predecessor all but the last.  A   *)
(* change is an edit, or a fork, which starts a branch of a stage.  A      *)
(* graph revision is the sequence of the models it and its predecessors    *)
(* were bound to; one that keeps its model adds a note.  Revisions never   *)
(* change, so a call that reads one may read it at any time: what it may   *)
(* read late is the memory of the service.                                 *)
(***************************************************************************)
EXTENDS Naturals, Sequences, SequencesExt, FiniteSets, FiniteSetsExt

CONSTANTS
  Edits,           \* what an ordinary revision changes
  Stages, Keys,    \* stages of futures, and the branches of each
  None,
  MaxFollowed,     \* MAX_FOLLOWED_MODEL_WRITES
  MaxHeaders,      \* MAX_HEADERS
  MaxEdits,        \* bound: the edits on any line
  MaxModels,       \* bound: the revisions an edit may be added to
  MaxBranches,     \* bound: the branches of all stages
  MaxBinds,        \* bound: the revisions of graphs after their first
  MaxFaults        \* bound: refused calls and restarts

ASSUME FuturesAssumption ==
  /\ {MaxFollowed, MaxHeaders} \subseteq Nat \ {0}
  /\ {MaxEdits, MaxModels, MaxBranches, MaxBinds, MaxFaults} \subseteq Nat
  /\ None \notin Nat \cup Stages \cup Keys
  /\ Keys \cap {"idle", "model", "done", "failed"} = {}

VARIABLES
  models, graphs,  \* the engine's store
  crossed,         \* history: graph revisions an import stored in other branches
  writes,          \* modelWrites: the revisions this server wrote, in order
  ancestry,        \* ancestryCache: revisions and their branches, in order
  receipts,        \* the calls of a fork that were answered
  req, fork,       \* forkStage, for each stage: what was asked, how far it is
  faults

storeVars == <<models, graphs, crossed>>
memoryVars == <<writes, ancestry>>
forkVars == <<receipts, req, fork>>
futureVars == <<storeVars, memoryVars, forkVars, faults>>

-----------------------------------------------------------------------------
(* Revisions.                                                              *)

Edit(e) == [kind |-> "edit", edit |-> e]

IsFork(m) == m # <<>> /\ Last(m).kind = "fork"

(* The forks a revision descends from, or is.                              *)
Forks(m) == {p \in Prefixes(m) : IsFork(p)}

Innermost(forks) == CHOOSE p \in forks : \A q \in forks : Len(q) <= Len(p)

Bound(g) == Last(g.binds)

-----------------------------------------------------------------------------
(* model-lineage.mjs.                                                      *)

Known(cache, m) == \E i \in DOMAIN cache : cache[i].model = m
Lookup(cache, m) == cache[CHOOSE i \in DOMAIN cache : cache[i].model = m].forks

(* A Map: the oldest entry goes first, one set again keeps its place.      *)
Remember(cache, m, forks) ==
  IF Known(cache, m)
  THEN [i \in DOMAIN cache |-> IF cache[i].model = m THEN [model |-> m, forks |-> forks] ELSE cache[i]]
  ELSE Append(IF Len(cache) >= MaxHeaders THEN Tail(cache) ELSE cache, [model |-> m, forks |-> forks])

OwnFork(m) == IF IsFork(m) THEN {m} ELSE {}

(* Mutant: a predecessor that is not remembered lies in no branch.         *)
RememberAnyRevision(cache, m) ==
  Remember(cache, m, OwnFork(m) \cup IF m # <<>> /\ Known(cache, Front(m)) THEN Lookup(cache, Front(m)) ELSE {})

RememberRevision(cache, m) ==
  IF m = <<>> THEN Remember(cache, m, {})
  ELSE IF Known(cache, Front(m)) THEN Remember(cache, m, OwnFork(m) \cup Lookup(cache, Front(m)))
  ELSE cache

(* The ancestry is read in one call and folded from the first revision,    *)
(* taking over what is remembered on the way.                              *)
Inherit(acc, p) ==
  IF Known(acc.cache, p) THEN [acc EXCEPT !.forks = Lookup(acc.cache, p)]
  ELSE LET forks == acc.forks \cup OwnFork(p)
       IN  [cache |-> Remember(acc.cache, p, forks), forks |-> forks]

Folded(cache, m) ==
  LET along[i \in 0..Len(m)] ==
        Inherit(IF i = 0 THEN [cache |-> cache, forks |-> {}] ELSE along[i - 1], SubSeq(m, 1, i))
  IN  along[Len(m)]

BranchesOf(cache, m) ==
  IF Known(cache, m) THEN [cache |-> cache, forks |-> Lookup(cache, m)] ELSE Folded(cache, m)

BranchesAlong(m, stopAt) == {p \in Forks(m) : Len(p) > Len(stopAt)}

(* Mutant: a graph may leave the branch it is in.                          *)
EntersNothing(from, to, target, current) ==
  IF IsPrefix(from, to) THEN BranchesAlong(to, from) = {} ELSE target \subseteq current

(* A graph neither enters nor leaves a branch.  A successor enters those   *)
(* on the way; any other revision lies in the same ones.                   *)
SameLine(from, to, target, current) ==
  IF IsPrefix(from, to) THEN BranchesAlong(to, from) = {} ELSE target = current

(* assertBranchSourceTransition: its answer and what it leaves remembered. *)
Transition(cache, from, to) ==
  LET target  == BranchesOf(cache, to)
      current == BranchesOf(target.cache, from)
  IN  [allowed |-> from = to \/ SameLine(from, to, target.forks, current.forks),
       cache   |-> IF from = to \/ IsPrefix(from, to) THEN cache ELSE current.cache]

-----------------------------------------------------------------------------
(* The service's record of what it wrote.                                  *)

Follows(w) == ~IsFork(w)

(* newestWrittenDescendant: of the descendants of a revision that can be   *)
(* reached through written revisions, none of them a fork, the last        *)
(* written of those with no such child.                                    *)
Reached(anchor) ==
  {w \in ToSet(writes) :
     /\ IsStrictPrefix(anchor, w)
     /\ \A i \in Len(anchor) + 1..Len(w) :
          SubSeq(w, 1, i) \in ToSet(writes) /\ Follows(SubSeq(w, 1, i))}

NewestWritten(anchor) ==
  LET leaves == {w \in Reached(anchor) :
                   ~\E v \in Reached(anchor) : v # w /\ Front(v) = w}
  IN  IF leaves = {} THEN anchor
      ELSE writes[Max({i \in DOMAIN writes : writes[i] \in leaves})]

(* A revision submitted again keeps its first place.                       *)
NoteWrite(m) ==
  IF m \in ToSet(writes) THEN writes
  ELSE LET noted == Append(writes, m) IN IF Len(noted) > MaxFollowed THEN Tail(noted) ELSE noted

(* The engine stores a revision, and its answer is remembered.             *)
StoreModel(m) ==
  /\ models' = models \cup {m}
  /\ writes' = NoteWrite(m)
  /\ ancestry' = RememberRevision(ancestry, m)

-----------------------------------------------------------------------------
(* Forking a stage.                                                        *)

(* The branch's probability is conditional on the branches it lies in; the *)
(* joint is given by the forks whose probabilities it multiplies, and      *)
(* unknown once one of them has none.                                      *)
Unknown == {None}

Marker(f, k) ==
  LET valued == k \in req[f].valued
      parent == fork[f].parent
  IN  [kind |-> "fork", stage |-> f, branch |-> k, valued |-> valued,
       joint |-> IF valued /\ parent # Unknown THEN parent \cup {Len(req[f].trunk) + 1} ELSE Unknown]

ForkRevision(f, k) == Append(req[f].trunk, Marker(f, k))
BranchGraph(f, k) == [id |-> <<f, k>>, binds |-> <<ForkRevision(f, k)>>]

Idle == [pc |-> "idle", left |-> {}, parent |-> Unknown]

Init ==
  /\ models = {<<>>} /\ graphs = {[id |-> <<>>, binds |-> <<<<>>>>]} /\ crossed = {}
  /\ writes = <<>> /\ ancestry = <<>>
  /\ receipts = {} /\ faults = 0
  /\ req = [f \in Stages |-> [trunk |-> <<>>, keys |-> {}, valued |-> {}]]
  /\ fork = [f \in Stages |-> Idle]

Fault == faults < MaxFaults /\ faults' = faults + 1

(* Mutant: an unknown joint probability counts as certainty.               *)
JointOrOne(forks) ==
  IF forks = {} \/ Last(Innermost(forks)).joint = Unknown THEN {} ELSE Last(Innermost(forks)).joint

(* What the parent branch says of its joint probability.                   *)
ParentJoint(forks) == IF forks = {} THEN {} ELSE Last(Innermost(forks)).joint

(* Mutant: a retry forks the newest revision of its trunk.                 *)
TrunkNow(f) == NewestWritten(req[f].trunk)

TrunkOf(f) == req[f].trunk

(* A stage is asked for, or asked for again after it failed.  The branches *)
(* its trunk lies in are looked up once.                                   *)
StartFork(f) ==
  /\ fork[f].pc \in {"idle", "failed"}
  /\ \/ /\ fork[f].pc = "idle"
        /\ \E m \in models, keys \in (SUBSET Keys) \ {{}} : \E valued \in SUBSET keys :
             req' = [req EXCEPT ![f] = [trunk |-> m, keys |-> keys, valued |-> valued]]
        /\ Cardinality({b \in Stages \X Keys : b[2] \in req'[b[1]].keys}) <= MaxBranches
     \/ fork[f].pc = "failed" /\ req' = [req EXCEPT ![f].trunk = TrunkOf(f)]
  /\ LET outer == BranchesOf(ancestry, req'[f].trunk)
     IN  /\ ancestry' = outer.cache
         /\ fork' = [fork EXCEPT ![f] = [pc |-> "model", left |-> req'[f].keys, parent |-> ParentJoint(outer.forks)]]
  /\ UNCHANGED <<storeVars, writes, receipts, faults>>

(* The branches are written one after another, each a revision and then    *)
(* its graph; a call that was answered is answered again from its receipt. *)
ForkModel(f) ==
  /\ fork[f].pc = "model"
  /\ \E k \in fork[f].left :
       /\ fork' = [fork EXCEPT ![f].pc = k]
       /\ IF <<f, k, "model">> \in receipts THEN UNCHANGED <<models, memoryVars, receipts>>
          ELSE StoreModel(ForkRevision(f, k)) /\ receipts' = receipts \cup {<<f, k, "model">>}
  /\ UNCHANGED <<graphs, crossed, req, faults>>

ForkGraph(f) ==
  /\ fork[f].pc \in Keys
  /\ LET k == fork[f].pc
         left == fork[f].left \ {k}
     IN  /\ graphs' = graphs \cup {BranchGraph(f, k)}
         /\ receipts' = receipts \cup {<<f, k, "graph">>}
         /\ fork' = [fork EXCEPT ![f].left = left, ![f].pc = IF left = {} THEN "done" ELSE "model"]
  /\ UNCHANGED <<models, crossed, memoryVars, req, faults>>

(* A call is refused, and the fork with it.                                *)
ForkFails(f) ==
  /\ fork[f].pc \in {"model"} \cup Keys
  /\ Fault
  /\ fork' = [fork EXCEPT ![f] = [Idle EXCEPT !.pc = "failed"]]
  /\ UNCHANGED <<storeVars, memoryVars, receipts, req>>

-----------------------------------------------------------------------------
(* Ordinary revisions.                                                     *)

(* A revision, a new one or one submitted again under another request id.  *)
Revise ==
  /\ \E m \in models, e \in Edits :
       LET n == Append(m, Edit(e)) IN
         /\ n \in models \/ Cardinality(models) <= MaxModels
         /\ Cardinality({i \in DOMAIN n : n[i].kind = "edit"}) <= MaxEdits
         /\ StoreModel(n)
  /\ UNCHANGED <<graphs, crossed, forkVars, faults>>

Rebound(g, m) == [g EXCEPT !.binds = Append(@, m)]

MoreBinds == Cardinality({h \in graphs : Len(h.binds) > 1}) < MaxBinds

(* A graph revision that keeps its model or changes it.                    *)
ReviseGraph ==
  /\ MoreBinds
  /\ \E g \in graphs, m \in models :
       LET move == Transition(ancestry, Bound(g), m) IN
         /\ ancestry' = move.cache
         /\ graphs' = IF move.allowed THEN graphs \cup {Rebound(g, m)} ELSE graphs
  /\ UNCHANGED <<models, crossed, writes, forkVars, faults>>

(* The import of a construction history stores a graph's revisions as they *)
(* were written elsewhere: nobody asks which branches they lie in.  One    *)
(* that is stored already stays as it is.                                  *)
ReplayGraph ==
  /\ MoreBinds
  /\ \E g \in graphs, m \in models :
       /\ graphs' = graphs \cup {Rebound(g, m)}
       /\ crossed' = IF Forks(m) = Forks(Bound(g)) THEN crossed
                     ELSE crossed \cup ({Rebound(g, m)} \ graphs)
  /\ UNCHANGED <<models, memoryVars, forkVars, faults>>

(* The server stops and starts again: what it remembered is lost, a call   *)
(* under way may have been carried out.                                    *)
Restart ==
  /\ Fault
  /\ LET Under(pcs) == {f \in Stages : fork[f].pc \in pcs} IN
       \/ UNCHANGED storeVars
       \/ \E f \in Under({"model"}) : \E k \in fork[f].left :
            models' = models \cup {ForkRevision(f, k)} /\ UNCHANGED <<graphs, crossed>>
       \/ \E f \in Under(Keys) : graphs' = graphs \cup {BranchGraph(f, fork[f].pc)} /\ UNCHANGED <<models, crossed>>
  /\ writes' = <<>> /\ ancestry' = <<>> /\ receipts' = {}
  /\ fork' = [f \in Stages |-> IF fork[f].pc \in {"idle", "done"} THEN fork[f] ELSE [Idle EXCEPT !.pc = "failed"]]
  /\ UNCHANGED req

FuturesNext ==
  \/ Revise \/ ReviseGraph \/ ReplayGraph
  \/ \E f \in Stages : StartFork(f) \/ ForkModel(f) \/ ForkGraph(f) \/ ForkFails(f)

Next == FuturesNext \/ Restart

Spec == Init /\ [][Next]_futureVars

-----------------------------------------------------------------------------
(* Properties.                                                             *)

(* Whatever is dropped from the cache, rewritten, or lost with the         *)
(* process, what it says of a revision are the forks of its ancestry.      *)
AncestryIsTrue == \A i \in DOMAIN ancestry : ancestry[i].forks = Forks(ancestry[i].model)

(* The i-th of the revisions that lead to g.                               *)
RevisionOf(g, i) == [g EXCEPT !.binds = SubSeq(@, 1, i)]

(* A revision of a graph is bound to a model that lies in the same         *)
(* branches as that of the revision before, whatever the cache dropped or  *)
(* a restart lost: only the import of a history takes a graph into a       *)
(* hypothetical line or out of it, and then it stays where that put it.    *)
StaysOnLine ==
  \A g \in graphs : \A i \in 2..Len(g.binds) :
    RevisionOf(g, i) \notin crossed => Forks(g.binds[i]) = Forks(g.binds[i - 1])

(* The joint probability of a branch multiplies those of all the branches  *)
(* it lies in, and is unknown when one of them is.                         *)
JointAlongBranches ==
  \A m \in models : IsFork(m) =>
    Last(m).joint = IF \A p \in Forks(m) : Last(p).valued THEN {Len(p) : p \in Forks(m)} ELSE Unknown

(* However often it failed and was asked for again, each branch of a stage *)
(* is one fork of the trunk with one first graph; both are there when the  *)
(* caller is told so.                                                      *)
StageForkedOnce ==
  \A f \in Stages : \A k \in req[f].keys :
    LET forked == {m \in models : IsFork(m) /\ Last(m).stage = f /\ Last(m).branch = k}
        opened == {g.binds[1] : g \in {h \in graphs : h.id = <<f, k>>}}
    IN  /\ Cardinality(forked) <= 1 /\ opened \subseteq forked
        /\ fork[f].pc = "done" => opened # {}
===============================================================================
