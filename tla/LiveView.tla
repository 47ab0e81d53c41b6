------------------------------- MODULE LiveView -------------------------------
(***************************************************************************)
(* A live view: a snapshot, opened at a graph revision or at a model, that *)
(* follows what is written after it, and the page of a browser that shows  *)
(* it.                                                                     *)
(*                                                                         *)
(* A refresh waits for the engine twice: it takes the newest revision of   *)
(* its graph from a listing, rebuilds that, asks only then for the newest  *)
(* model written after the one the graph is bound to, and rebuilds it with *)
(* that.  Everything may be written in between.                            *)
(***************************************************************************)
EXTENDS Futures

VARIABLES
  anchor,          \* what was opened: a graph revision or none, and a model
  shown,           \* the snapshot: graph, model, and the branches it is said to lie in
  refresh,         \* the refresh under way, one at a time
  status,
  page             \* what the browser shows

viewVars == <<anchor, shown, refresh, status, page>>
vars == <<futureVars, viewVars>>

-----------------------------------------------------------------------------
NoRefresh == [pc |-> "idle", graph |-> None, model |-> None]

(* A revision of the graph that was opened which descends from it.         *)
Following(g) == g.id = anchor.graph.id /\ IsPrefix(anchor.graph.binds, g.binds)

Descendants == {g \in graphs : Following(g)}

(* followedGraphHead: on the way from what was opened to its newest        *)
(* revision no other way may be left open.                                 *)
Branched == \E g, h \in Descendants : g # h /\ Len(g.binds) = Len(h.binds)

FollowedHead == CHOOSE g \in Descendants : \A h \in Descendants : Len(h.binds) <= Len(g.binds)

BoundOf(g) == IF g = None THEN anchor.model ELSE Bound(g)

(* A history carries the ancestry of its models; that of a model alone is  *)
(* looked up, and remembered.                                              *)
Ancestry(g, m) ==
  IF g = None THEN BranchesOf(ancestry, m) ELSE [cache |-> ancestry, forks |-> Forks(m)]

Show(g, m) ==
  /\ shown' = [graph |-> g, model |-> m, forks |-> Ancestry(g, m).forks]
  /\ ancestry' = Ancestry(g, m).cache

ViewInit ==
  /\ Init
  /\ anchor = None /\ shown = None /\ page = None
  /\ refresh = NoRefresh /\ status = "following"

-----------------------------------------------------------------------------
(* A link is opened in a browser.                                          *)
Open ==
  /\ anchor = None
  /\ \E g \in graphs \cup {None}, m \in models :
       /\ g # None => m = Bound(g)
       /\ anchor' = [graph |-> g, model |-> m]
       /\ Show(g, m)
       /\ page' = [graph |-> g, model |-> m]
  /\ status' = "following" /\ refresh' = NoRefresh
  /\ UNCHANGED <<storeVars, writes, forkVars, faults>>

(* The page asks, and a refresh begins.                                    *)
List ==
  /\ anchor # None /\ refresh.pc = "idle"
  /\ IF anchor.graph # None /\ Branched
     THEN status' = "branched" /\ UNCHANGED refresh
     ELSE /\ refresh' = [NoRefresh EXCEPT !.pc = "listed", !.graph = IF anchor.graph = None THEN None ELSE FollowedHead]
          /\ UNCHANGED status
  /\ UNCHANGED <<futureVars, anchor, shown, page>>

(* Mutant: the model is followed from the binding shown before.            *)
NewestAfterShown == NewestWritten(BoundOf(shown.graph))

NewestAfterListed == NewestWritten(BoundOf(refresh.graph))

Choose ==
  /\ refresh.pc = "listed"
  /\ refresh' = [refresh EXCEPT !.pc = "chosen", !.model = NewestAfterListed]
  /\ UNCHANGED <<futureVars, anchor, shown, status, page>>

Unchanged == refresh.graph = shown.graph /\ refresh.model = shown.model

(* Mutant: a refresh that found nothing new is never cleared.              *)
ClearedIfNew == IF Unchanged THEN [NoRefresh EXCEPT !.pc = "pending"] ELSE NoRefresh

Cleared == NoRefresh

(* The snapshot is replaced once all of it is ready.                       *)
Settle ==
  /\ refresh.pc = "chosen"
  /\ IF Unchanged THEN UNCHANGED <<shown, ancestry>> ELSE Show(refresh.graph, refresh.model)
  /\ status' = "following" /\ refresh' = Cleared
  /\ UNCHANGED <<storeVars, writes, forkVars, faults, anchor, page>>

(* Something the refresh reads is refused or fails: the snapshot stays.    *)
RefreshFails ==
  /\ refresh.pc \in {"listed", "chosen"} /\ Fault
  /\ status' = "unavailable" /\ refresh' = NoRefresh
  /\ UNCHANGED <<storeVars, memoryVars, forkVars, anchor, shown, page>>

(* The page finds another revision than its own and loads it, once nobody  *)
(* is reading, typing or playing.                                          *)
Reload ==
  /\ anchor # None /\ status = "following"
  /\ page # [graph |-> shown.graph, model |-> shown.model]
  /\ page' = [graph |-> shown.graph, model |-> shown.model]
  /\ UNCHANGED <<futureVars, anchor, shown, refresh, status>>

(* Views last as long as the server; a page keeps what it shows.           *)
Close ==
  /\ Restart
  /\ anchor' = None /\ shown' = None /\ refresh' = NoRefresh
  /\ UNCHANGED <<status, page>>

Refresh == List \/ Choose \/ Settle

ViewNext ==
  \/ FuturesNext /\ UNCHANGED viewVars
  \/ Open \/ Refresh \/ RefreshFails \/ Reload \/ Close

ViewSpec == ViewInit /\ [][ViewNext]_vars

(* A page that is open asks every two seconds, the engine answers, and the *)
(* reader lets go at some time.                                            *)
FairSpec == ViewSpec /\ WF_vars(Refresh) /\ WF_vars(Reload)

-----------------------------------------------------------------------------
(* Properties.                                                             *)

(* What a snapshot shows belongs together, whatever was written while it   *)
(* was built: a descendant of what was opened, a model on the line of the  *)
(* one that graph is bound to, and the branches that model lies in.        *)
ShowsOneLine ==
  anchor # None =>
    /\ shown.graph # None => Following(shown.graph)
    /\ IsPrefix(BoundOf(shown.graph), shown.model)
    /\ shown.forks = Forks(shown.model) /\ shown.forks = Forks(BoundOf(shown.graph))

(* Once nothing more is written, an open page comes to show the newest     *)
(* revision of its line, unless that has branched.                         *)
CaughtUp ==
  LET g == IF anchor.graph = None THEN None ELSE FollowedHead
  IN  page = [graph |-> g, model |-> NewestWritten(BoundOf(g))]
PageCatchesUp == <>[](anchor = None \/ (anchor.graph # None /\ Branched) \/ CaughtUp)
===============================================================================
