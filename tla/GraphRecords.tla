----------------------------- MODULE GraphRecords -----------------------------
(***************************************************************************)
(* The recording tools: calls that add to a narrative graph, alone or      *)
(* after a revision of the model it is bound to.                           *)
(*                                                                         *)
(* Graph and model revisions are immutable and named by their content: a   *)
(* graph revision is the sequence of records added since the graph was     *)
(* found, a model revision the sequence of its changes, and the store is   *)
(* the set of those written.  The graph found is bound to the model found  *)
(* and records transcripts.  A tool reads revisions that never change, so  *)
(* only three moments of a call matter: when it revises the model, when it *)
(* looks for the head of its graph, and when it writes.  What a write does *)
(* to its receipt is that of Service, without the calls in flight.         *)
(***************************************************************************)
EXTENDS Naturals, Sequences, SequencesExt, FiniteSets, FiniteSetsExt

CONSTANTS
  Calls,           \* the tool calls, each made once
  None,
  MaxFaults,       \* bound: refusals, uncertain outcomes and restarts
  MaxCompound,     \* bound: the calls of compound tools
  Mixes            \* bound: the tools that are called together

ASSUME RecordsAssumption == None \notin Calls /\ {MaxFaults, MaxCompound} \subseteq Nat

VARIABLES
  models, graphs,  \* the store
  receipts,        \* a request and a step of it -> what was written, against what
  faults,
  req, pc, at, base, time, told,       \* the tool calls
  before,          \* history: the calls that had ended when a call was made
  writer,          \* history: the call that wrote a graph revision
  unlisted         \* history: the calls that could not list their graph

storeVars == <<models, graphs, writer>>
inputVars == <<req, before, unlisted>>
callVars == <<pc, at, base, time, told>>
vars == <<storeVars, receipts, faults, callVars, inputVars>>

-----------------------------------------------------------------------------
(* What the store holds.                                                   *)

Of(g, kind) == {i \in DOMAIN g : g[i].kind = kind}

Bound(g) == IF Of(g, "bind") = {} THEN <<>> ELSE g[Max(Of(g, "bind"))].model

Recording(g) == IF Of(g, "setting") = {} THEN TRUE ELSE g[Max(Of(g, "setting"))].on

(* A pruning change drops every record the model had gained.               *)
Holds(m) == {m[i].by : i \in {j \in DOMAIN m : \A k \in j..Len(m) : ~m[k].drops}}

Anchors(g) == {g[i].about : i \in Of(g, "note")} \ {None}

(* The newest revisions of a graph that descend from g.                    *)
Heads(g) == {h \in graphs : IsPrefix(g, h) /\ ~\E k \in graphs : IsStrictPrefix(h, k)}

-----------------------------------------------------------------------------
(* The steps of a tool.                                                    *)

(* Those that keep the request id of a write find the head by its receipt; *)
(* those of a memory context list its revisions and go by what they find.  *)
Recorders == {"note", "review"}
Keepers == {"memory", "configure", "capture"}
Compound == {"carve", "breadth"}
Tools == Recorders \cup Keepers \cup Compound \cup {"prune", "rebind"}

Steps(tool) ==
  CASE tool = "carve"   -> <<"revise", "rebind", "begin", "notes", "more", "done">>
    [] tool = "breadth" -> <<"revise", "rebind", "begin", "notes", "done">>
    [] tool = "prune"   -> <<"revise", "done">>
    [] tool = "rebind"  -> <<"rebind", "done">>
    [] OTHER            -> <<"notes", "done">>

Writes == {"rebind", "notes", "more"}

Tool(c) == req[c].tool
After(c) == LET s == Steps(Tool(c)) IN s[CHOOSE i \in DOMAIN s : i > 1 /\ s[i - 1] = pc[c]]
Key(c, step) == <<req[c].by, step>>

(* A compound tool and a pruning revise the model its caller names.        *)
ModelOf(c) ==
  IF Tool(c) = "rebind" THEN req[c].model
  ELSE Append(req[c].model, [by |-> req[c].by, drops |-> Tool(c) = "prune"])

-----------------------------------------------------------------------------
(* What each tool adds to revision b of a graph.                           *)

Note(c, t, about) == [kind |-> "note", by |-> req[c].by, part |-> pc[c], time |-> t, about |-> about]

(* A note carries the number of the revision it is added to.               *)
UnderstandingNote(c, b) == Note(c, Len(b), req[c].about)

(* A review is of the revision its caller names, wherever it is recorded.  *)
ReviewNote(c) == Note(c, Len(req[c].graph), req[c].about)

MemoryEntry(c, b) == Note(c, Len(b), req[c].about)

(* Mutant: each batch of a carve's notes carries the revision it is added  *)
(* to.                                                                     *)
CarveNoteNow(c, b) == Note(c, Len(b), req[c].by)

(* All notes of a carve carry the revision the carve was begun at, and are *)
(* about the concept it added, like the decision of a breadth check.       *)
CarveNote(c, b) == Note(c, time[c], req[c].by)
BreadthNote(c, b) == Note(c, Len(b), req[c].by)

TranscriptSetting(c) == [kind |-> "setting", by |-> req[c].by, on |-> req[c].on]
TranscriptMessage(c) == [kind |-> "message", by |-> req[c].by]
Binding(c) == [kind |-> "bind", by |-> req[c].by, model |-> ModelOf(c)]

Addition(c, b) ==
  IF pc[c] = "rebind" THEN Binding(c)
  ELSE CASE Tool(c) = "carve"     -> CarveNote(c, b)
         [] Tool(c) = "breadth"   -> BreadthNote(c, b)
         [] Tool(c) = "note"      -> UnderstandingNote(c, b)
         [] Tool(c) = "review"    -> ReviewNote(c)
         [] Tool(c) = "memory"    -> MemoryEntry(c, b)
         [] Tool(c) = "configure" -> TranscriptSetting(c)
         [] Tool(c) = "capture"   -> TranscriptMessage(c)

(* A node is known by its id, whatever it says.                            *)
Node(r) == IF r.kind = "note" THEN <<r.by, r.part>> ELSE <<r.by, r.kind>>
Present(c, b) == \E i \in DOMAIN b : Node(b[i]) = Node(Addition(c, b))

(* What a call finds done already: a graph bound to its model, for a tool  *)
(* that means to bind it; a record of a memory context.                    *)
Reused(c, b) ==
  \/ pc[c] = "rebind" /\ Tool(c) \in Compound /\ Bound(b) = ModelOf(c)
  \/ Tool(c) \in Keepers /\ Present(c, b)

(* Mutant: the links of the graph are not looked at.                       *)
BindsSuccessor(c, b) == Bound(b) # ModelOf(c) /\ IsPrefix(Bound(b), ModelOf(c))

(* A graph is bound to a successor of its model that keeps every record it *)
(* is linked to.                                                           *)
Binds(c, b) ==
  /\ Bound(b) # ModelOf(c) /\ IsPrefix(Bound(b), ModelOf(c))
  /\ Anchors(b) \subseteq Holds(ModelOf(c))

(* A new node links to records of the model its graph is bound to.         *)
Adds(c, b) ==
  /\ ~Present(c, b)
  /\ Tool(c) = "capture" => Recording(b)
  /\ Anchors(<<Addition(c, b)>>) \subseteq Holds(Bound(b))

Valid(c, b) == IF pc[c] = "rebind" THEN Binds(c, b) ELSE Adds(c, b)

-----------------------------------------------------------------------------
Init ==
  /\ models = {<<>>} /\ graphs = {<<>>} /\ writer = [g \in {<<>>} |-> None]
  /\ receipts = <<>> /\ faults = 0
  /\ req = [c \in Calls |-> [tool |-> "note", by |-> c, graph |-> <<>>, model |-> <<>>, about |-> None, on |-> FALSE]]
  /\ pc = [c \in Calls |-> "idle"] /\ told = [c \in Calls |-> "nothing"]
  /\ at = [c \in Calls |-> <<>>] /\ base = [c \in Calls |-> None]
  /\ time = [c \in Calls |-> 0] /\ before = [c \in Calls |-> {}] /\ unlisted = {}

End(c, verdict) ==
  /\ pc' = [pc EXCEPT ![c] = "done"] /\ told' = [told EXCEPT ![c] = verdict]
  /\ at' = [at EXCEPT ![c] = <<>>] /\ base' = [base EXCEPT ![c] = None]
  /\ time' = [time EXCEPT ![c] = 0]

(* A call goes on from revision g.                                         *)
Proceed(c, g) ==
  LET ends == After(c) = "done"
  IN  /\ pc' = [pc EXCEPT ![c] = After(c)]
      /\ told' = [told EXCEPT ![c] = IF ends THEN "ok" ELSE @]
      /\ at' = [at EXCEPT ![c] = g] /\ base' = [base EXCEPT ![c] = None]
      /\ time' = [time EXCEPT ![c] = IF ends THEN 0 ELSE @]

Fault == faults < MaxFaults /\ faults' = faults + 1

-----------------------------------------------------------------------------
(* resolveAppendHead.                                                      *)

(* Mutant: a call is written against the revision its caller names.        *)
HeadNamed(r, g, step) == {g}

(* A request that was written, or may have been, is written against the    *)
(* same revision again; another goes to the heads of its graph.            *)
HeadsFor(r, g, step) ==
  IF <<r.by, step>> \in DOMAIN receipts /\ r.tool \notin Keepers
  THEN {receipts[<<r.by, step>>].base} ELSE Heads(g)

(* Call c, of request r, finds what to write its step against: a graph     *)
(* that has branched is not added to.  When its revisions cannot be listed *)
(* a graph is written where the caller says, a memory context is not.      *)
Find(c, r, g, step) ==
  \/ /\ \E h \in graphs :
          /\ HeadsFor(r, g, step) = {h}
          /\ base' = [base EXCEPT ![c] = h] /\ at' = [at EXCEPT ![c] = g]
          /\ pc' = [pc EXCEPT ![c] = step]
     /\ UNCHANGED <<told, time, faults, unlisted>>
  \/ /\ Cardinality(HeadsFor(r, g, step)) > 1
     /\ End(c, "error") /\ UNCHANGED <<faults, unlisted>>
  \/ /\ Fault /\ r.tool \notin Keepers /\ <<r.by, step>> \notin DOMAIN receipts
     /\ base' = [base EXCEPT ![c] = g] /\ at' = [at EXCEPT ![c] = g]
     /\ pc' = [pc EXCEPT ![c] = step]
     /\ unlisted' = unlisted \cup {c}
     /\ UNCHANGED <<told, time>>
  \/ Fault /\ r.tool \in Keepers /\ End(c, "error") /\ UNCHANGED unlisted

(* What a caller can ask for: of the fields a tool does not take, only one *)
(* value.                                                                  *)
Asked(c) ==
  {r \in [tool : Tools, by : {c}, graph : graphs, model : models,
           about : (UNION {Holds(m) : m \in models}) \cup {None}, on : BOOLEAN] :
     /\ r.tool \in Recorders \cup Keepers => r.model = <<>>
     /\ r.tool = "prune" => r.graph = <<>>
     /\ r.tool \notin Recorders \cup {"memory"} => r.about = None
     /\ r.on => r.tool = "configure"}

Made == {c \in Calls : pc[c] # "idle"}

(* A new request, or an exact retry of another call's.  A tool that only   *)
(* records looks for its head at once.                                     *)
Start(c) ==
  /\ pc[c] = "idle"
  /\ \E r \in Asked(c) \cup {req[d] : d \in Made} :
       /\ req' = [req EXCEPT ![c] = r]
       /\ Cardinality({d \in Made \cup {c} : req'[d].tool \in Compound}) <= MaxCompound
       /\ \E mix \in Mixes : {req'[d].tool : d \in Made \cup {c}} \subseteq mix
       /\ \/ r.tool \in Recorders \cup Keepers /\ Find(c, r, r.graph, "notes")
          \/ /\ r.tool \notin Recorders \cup Keepers
             /\ pc' = [pc EXCEPT ![c] = Steps(r.tool)[1]]
             /\ at' = [at EXCEPT ![c] = r.graph]
             /\ base' = [base EXCEPT ![c] = IF r.tool = "rebind" THEN r.graph ELSE None]
             /\ UNCHANGED <<told, time, faults, unlisted>>
  /\ before' = [before EXCEPT ![c] = {d \in Calls : pc[d] = "done"}]
  /\ UNCHANGED <<storeVars, receipts>>

(* The complete revision is stored; one stored before is found by its      *)
(* content.  A request whose outcome was uncertain gets that answer again. *)
Revise(c) ==
  /\ pc[c] = "revise"
  /\ \/ /\ Key(c, "revise") \notin DOMAIN receipts
        /\ models' = models \cup {ModelOf(c)}
        /\ Proceed(c, at[c])
        /\ UNCHANGED <<receipts, faults>>
     \/ /\ Fault /\ End(c, "error")
        /\ \/ UNCHANGED <<models, receipts>>
           \/ /\ Key(c, "revise") \notin DOMAIN receipts
              /\ models' \in {models, models \cup {ModelOf(c)}}
              /\ receipts' = [k \in DOMAIN receipts \cup {Key(c, "revise")} |->
                   IF k \in DOMAIN receipts THEN receipts[k]
                   ELSE [base |-> <<>>, record |-> None, sure |-> FALSE]]
     \/ /\ Key(c, "revise") \in DOMAIN receipts /\ End(c, "error")
        /\ UNCHANGED <<models, receipts, faults>>
  /\ UNCHANGED <<graphs, writer, inputVars>>

(* Where the notes of a compound tool begin: a carve reads the notes they  *)
(* replace and their time there, and still looks for the head again.       *)
Begin(c) ==
  /\ pc[c] = "begin"
  /\ \/ \E h \in graphs :
          /\ HeadsFor(req[c], at[c], "notes") = {h}
          /\ time' = [time EXCEPT ![c] = Len(h)]
          /\ at' = [at EXCEPT ![c] = IF Tool(c) = "breadth" THEN h ELSE @]
          /\ pc' = [pc EXCEPT ![c] = After(c)]
          /\ UNCHANGED <<base, told>>
     \/ Cardinality(HeadsFor(req[c], at[c], "notes")) > 1 /\ End(c, "error")
  /\ UNCHANGED <<storeVars, receipts, faults, inputVars>>

Look(c) ==
  /\ pc[c] \in Writes /\ base[c] = None
  /\ Find(c, req[c], at[c], pc[c])
  /\ UNCHANGED <<storeVars, receipts, req, before>>

-----------------------------------------------------------------------------
(* Writing against the revision that was read.                             *)

Ready(c) == pc[c] \in Writes /\ base[c] # None

Receive(c, b, sure) ==
  LET k == Key(c, pc[c])
  IN  receipts' = [j \in DOMAIN receipts \cup {k} |->
        IF j = k THEN [base |-> b, record |-> Addition(c, b), sure |-> sure] ELSE receipts[j]]

(* A revision keeps its first writer: the same content is the same one.    *)
Store(c, g) ==
  /\ graphs' = graphs \cup {g}
  /\ writer' = [h \in DOMAIN writer \cup {g} |-> IF h \in DOMAIN writer THEN writer[h] ELSE c]

(* Nothing is left to write, or it may not be written.                     *)
Settled(c) ==
  /\ Ready(c)
  /\ \/ Reused(c, base[c]) /\ Proceed(c, base[c])
     \/ ~Reused(c, base[c]) /\ ~Valid(c, base[c]) /\ End(c, "error")
  /\ UNCHANGED <<storeVars, receipts, faults, inputVars>>

Writable(c) == Ready(c) /\ ~Reused(c, base[c]) /\ Valid(c, base[c])

(* The receipt of the request answers a retry of it, and refuses another   *)
(* write under its id.                                                     *)
Repeat(c) ==
  /\ Writable(c) /\ Key(c, pc[c]) \in DOMAIN receipts
  /\ LET first == receipts[Key(c, pc[c])]
         same  == first.base = base[c] /\ first.record = Addition(c, base[c])
     IN  \/ same /\ first.sure /\ Proceed(c, Append(base[c], first.record))
         \/ same /\ ~first.sure /\ End(c, "error")
         \/ ~same /\ End(c, "conflict")
  /\ UNCHANGED <<storeVars, receipts, faults, inputVars>>

Write(c) ==
  /\ Writable(c) /\ Key(c, pc[c]) \notin DOMAIN receipts
  /\ LET b == base[c]
         g == Append(b, Addition(c, b))
     IN  \/ Store(c, g) /\ Receive(c, b, TRUE) /\ Proceed(c, g) /\ UNCHANGED faults
         \/ Fault /\ End(c, "error") /\ UNCHANGED <<graphs, writer, receipts>>
         \/ /\ Fault /\ End(c, "error") /\ Receive(c, b, FALSE)
            /\ Store(c, g) \/ UNCHANGED <<graphs, writer>>
  /\ UNCHANGED <<models, inputVars>>

(* The server stops and starts again: its calls are lost and so are its    *)
(* receipts, the state file keeps the store.                               *)
Restart ==
  /\ Fault /\ receipts' = <<>>
  /\ LET lost == {c \in Calls : pc[c] \notin {"idle", "done"}}
     IN  /\ pc' = [c \in Calls |-> IF c \in lost THEN "done" ELSE pc[c]]
         /\ told' = [c \in Calls |-> IF c \in lost THEN "lost" ELSE told[c]]
         /\ at' = [c \in Calls |-> IF c \in lost THEN <<>> ELSE at[c]]
  /\ base' = [c \in Calls |-> None] /\ time' = [c \in Calls |-> 0]
  /\ UNCHANGED <<storeVars, inputVars>>

Next ==
  \/ \E c \in Calls : \/ Start(c) \/ Revise(c) \/ Begin(c) \/ Look(c)
                      \/ Settled(c) \/ Repeat(c) \/ Write(c)
  \/ Restart

Spec == Init /\ [][Next]_vars

-----------------------------------------------------------------------------
(* Properties.                                                             *)

(* A graph forks only where two calls were under way at once: a call made  *)
(* after another had ended, a retry of it or one after a restart included, *)
(* never adds beside what that one wrote.  Apart are the tools that name   *)
(* their revision and a call that could not list the graph.                *)
Overlap(c, d) == c \notin before[d] /\ d \notin before[c]
ForksAreRaces ==
  \A g, h \in graphs \ {<<>>} :
    g # h /\ Front(g) = Front(h) =>
      \/ Overlap(writer[g], writer[h])
      \/ \E k \in {g, h} : Tool(writer[k]) = "rebind" \/ writer[k] \in unlisted

(* Every note of every revision links to records of the model the revision *)
(* is bound to.                                                            *)
AnchorsResolve == \A g \in graphs : Anchors(g) \subseteq Holds(Bound(g))

(* On every line, the notes of one carve carry one time; and a compound    *)
(* tool that was told it succeeded names a line that holds its binding's   *)
(* model and all of its notes.                                             *)
Notes(g, by) == {i \in Of(g, "note") : g[i].by = by}
RecordedWhole ==
  /\ \A g \in graphs : \A i, j \in Of(g, "note") : g[i].by = g[j].by => g[i].time = g[j].time
  /\ \A c \in Calls :
       told[c] = "ok" /\ Tool(c) \in Compound =>
         /\ IsPrefix(ModelOf(c), Bound(at[c]))
         /\ Cardinality(Notes(at[c], req[c].by)) = Len(Steps(Tool(c))) - 4
===============================================================================
