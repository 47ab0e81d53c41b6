------------------------------ MODULE Narratives ------------------------------
(***************************************************************************)
(* Narrative graphs over the session: what a graph revision is grounded    *)
(* in, and what of the session it freezes.                                 *)
(*                                                                         *)
(* A revision names its source: a model, the head of a world, or a         *)
(* candidate of whatever status.  With it a snapshot is stored: the model  *)
(* of the source and its anchors, the committed candidates that led to it. *)
(* The state, claims and marks a snapshot copies are those of its source,  *)
(* which is named by its content, and are not written down.  Of what a     *)
(* revision says only its sources are kept: a revision is the graph it     *)
(* belongs to and the sources of its line.                                 *)
(*                                                                         *)
(* The session goes on: heads move, worlds are refined and revised,        *)
(* candidates are decided.  A graph that was admitted must be admitted     *)
(* again by whoever reopens the session, and one that is exported must     *)
(* hold by itself where nothing of the session is known.                   *)
(***************************************************************************)
EXTENDS Worlds, SequencesExt

CONSTANTS
  GraphIds,
  MaxGraphs,           \* MAX_SESSION_NARRATIVE_GRAPHS
  PathsBesideGraphs    \* bound: what candidates keep of their paths once there are graphs

ASSUME GraphsAssumption == MaxGraphs \in Nat /\ PathsBesideGraphs \subseteq PathSpec

VARIABLE graphs        \* graph revision -> its snapshot

narrativeVars == <<vars, graphs>>

-----------------------------------------------------------------------------
(* Sources.                                                                *)

ModelSource(m) == [kind |-> "model", of |-> m]
WorldSource(h) == [kind |-> "world", of |-> h]
CandidateSource(c) == [kind |-> "candidate", of |-> c]

(* A world is bound at its present head, a candidate whatever became of    *)
(* it.                                                                     *)
Sources ==
  {ModelSource(m) : m \in models}
  \cup {WorldSource(worlds[w]) : w \in DOMAIN worlds}
  \cup {CandidateSource(c) : c \in DOMAIN candidates}

SourceModel(source) ==
  CASE source.kind = "model"     -> source.of
    [] source.kind = "world"     -> ModelOf(source.of)
    [] source.kind = "candidate" -> ModelOf(source.of.parent)

LedTo(h) == {c \in Committed : ProposedHead(c) = h}

(* The committed candidates from head h down, as far as one led to it: a   *)
(* genesis and a revision end the walk.                                    *)
WorldAnchors(h) ==
  LET walk[n \in 0..Len(h.steps)] ==
        IF n = 0 \/ LedTo(Ancestor(h, n)) = {} THEN {} ELSE LedTo(Ancestor(h, n)) \cup walk[n - 1]
  IN  walk[Len(h.steps)]

SourceAnchors(source) ==
  CASE source.kind = "model"     -> {}
    [] source.kind = "world"     -> WorldAnchors(source.of)
    [] source.kind = "candidate" -> WorldAnchors(source.of.parent) \cup {source.of}

Capture(source) == [model |-> SourceModel(source), anchors |-> SourceAnchors(source)]

-----------------------------------------------------------------------------
(* What is checked of a revision when it is stored, and again when the     *)
(* session is reopened.                                                    *)

SourceOf(g) == Last(g.line)

(* find_world_by_hash, without the worlds that checkpoints froze, which    *)
(* are not there yet when a session is reopened.                           *)
KnownHeads ==
  Range(worlds)
  \cup (UNION {{ProposedHead(c), c.parent} : c \in DOMAIN candidates})
  \cup (UNION {{r.source, TargetHead(r)} : r \in revisions})

(* Mutant: a head is looked for only in the session.                       *)
WorldFoundStored(h, model) == h \in KnownHeads

(* A genesis that was refined away is built again from its model.          *)
WorldFound(h, model) == h \in KnownHeads \/ h = GenesisWorld(h.world, model)

SnapshotBound(g, snapshot) ==
  LET source == SourceOf(g) IN
  /\ snapshot.model \in models
  /\ source.kind = "world" => WorldFound(source.of, snapshot.model)
  /\ source.kind = "candidate" => source.of \in DOMAIN candidates
  /\ SourceModel(source) = snapshot.model

AnchorsValid(g, snapshot) ==
  /\ snapshot.anchors = SourceAnchors(SourceOf(g))
  /\ \A c \in snapshot.anchors : c \in DOMAIN candidates /\ ModelOf(c.parent) = snapshot.model

(* One first revision to an id; any other is made from one that is stored. *)
Linked(g, stored) ==
  IF Len(g.line) = 1 THEN \A f \in stored : f.id = g.id => Len(f.line) > 1
  ELSE [g EXCEPT !.line = Front(@)] \in stored

Admissible(g, snapshot, stored) ==
  Linked(g, stored) /\ SnapshotBound(g, snapshot) /\ AnchorsValid(g, snapshot)

-----------------------------------------------------------------------------
(* Commands.  A revision that is stored already is answered as it is.      *)

(* Revisions are counted; their bytes, which are the text of their         *)
(* content, are not modelled.                                              *)
GraphFits == Cardinality(DOMAIN graphs) < MaxGraphs

StoreGraph(g, snapshot) ==
  /\ g \notin DOMAIN graphs
  /\ GraphFits
  /\ Admissible(g, snapshot, DOMAIN graphs)
  /\ graphs' = [f \in DOMAIN graphs \cup {g} |-> IF f = g THEN snapshot ELSE graphs[f]]
  /\ UNCHANGED vars

RegisterGraph(id, source) ==
  StoreGraph([id |-> id, line |-> <<source>>], Capture(source))

(* A complete revision, which captures its source anew.                    *)
ReviseGraph(g, source) ==
  StoreGraph([g EXCEPT !.line = Append(@, source)], Capture(source))

(* A revision that keeps its source, or a batch, which cannot change it,   *)
(* keeps the snapshot of the revision before.                              *)
ExtendGraph(g) ==
  StoreGraph([g EXCEPT !.line = Append(@, SourceOf(g))], graphs[g])

NarrativesInit == Init /\ graphs = [g \in {} |-> Capture(ModelSource(NoModel))]

(* No graph depends on what a candidate keeps of its path.                 *)
WithinBounds ==
  DOMAIN graphs # {} => \A c \in DOMAIN candidates : candidates[c].path \in PathsBesideGraphs

NarrativesNext ==
  /\ \/ Next /\ UNCHANGED graphs
     \/ \E id \in GraphIds, source \in Sources : RegisterGraph(id, source)
     \/ \E g \in DOMAIN graphs, source \in Sources : ReviseGraph(g, source)
     \/ \E g \in DOMAIN graphs : ExtendGraph(g)
  /\ WithinBounds'

NarrativesSpec == NarrativesInit /\ [][NarrativesNext]_narrativeVars

-----------------------------------------------------------------------------
(* Checkpoints: what is frozen must hold by itself.                        *)

LastIs(h, kind) == h.steps # <<>> /\ Last(h.steps).kind = kind

(* world_has_revision_history: from h down along what is stored.           *)
HasRevisionHistory(h) ==
  LET from[n \in 0..Len(h.steps)] ==
        LET a == Ancestor(h, n) IN
        \/ LastIs(a, "revision")
        \/ /\ LastIs(a, "roll")
           /\ CandidateFor(Ancestor(h, n - 1), Last(a.steps)) \in DOMAIN candidates
           /\ from[n - 1]
  IN  from[Len(h.steps)]

(* A source across world revisions is refused; a head that the session     *)
(* cannot name has none.                                                   *)
Portable(source) ==
  CASE source.kind = "model"     -> TRUE
    [] source.kind = "world"     -> source.of \in KnownHeads => ~HasRevisionHistory(source.of)
    [] source.kind = "candidate" -> ~HasRevisionHistory(source.of.parent)

(* validate_project_world_candidate_chain: from head h down to the genesis *)
(* of the frozen model, by the anchors, each used.                         *)
ChainHolds(h, snapshot) ==
  /\ h.genesis = snapshot.model
  /\ \A n \in DOMAIN h.steps :
       h.steps[n].kind = "roll" /\ CandidateFor(Ancestor(h, n - 1), h.steps[n]) \in snapshot.anchors
  /\ Cardinality(snapshot.anchors) = Len(h.steps)

(* validate_project_graph_source_binding: by the frozen graph and model    *)
(* alone.                                                                  *)
Standalone(source, snapshot) ==
  CASE source.kind = "model"     -> source.of = snapshot.model /\ snapshot.anchors = {}
    [] source.kind = "world"     -> ChainHolds(source.of, snapshot)
    [] source.kind = "candidate" -> source.of \in snapshot.anchors /\ ChainHolds(ProposedHead(source.of), snapshot)

-----------------------------------------------------------------------------
(* A graph, once admitted, is admitted again when the session is reopened, *)
(* whatever was committed, decided, refined or revised since; and one that *)
(* may be exported holds by itself, so that a session which knows nothing  *)
(* of its world imports it.                                                *)
GraphsRestore ==
  \A g \in DOMAIN graphs :
    /\ Admissible(g, graphs[g], DOMAIN graphs \ {g})
    /\ Portable(SourceOf(g)) => Standalone(SourceOf(g), graphs[g])
===============================================================================
