--------------------------- MODULE AcceptedHistory ---------------------------
(***************************************************************************)
(* What the engine promises about accepted history, without models,        *)
(* statuses, retention or storage limits.  Every world has one head.  A    *)
(* proposal is open, closed or accepted, once; it can be accepted only     *)
(* while the head it was made from is the head, and accepting it closes    *)
(* every rival.  Nothing is reopened and nothing accepted is undone.       *)
(***************************************************************************)
EXTENDS WorldData

VARIABLES
  head,       \* world -> its accepted head
  open,       \* proposals that may still be accepted
  closed,     \* proposals rejected or superseded
  accepted    \* proposals accepted

hvars == <<head, open, closed, accepted>>

Known == open \cup closed \cup accepted

HInit ==
  /\ head = [w \in {} |-> GenesisWorld(w, NoModel)]
  /\ open = {} /\ closed = {} /\ accepted = {}

SetHead(w, h) == head' = [v \in DOMAIN head \cup {w} |-> IF v = w THEN h ELSE head[v]]

(* A world begins at a genesis, which may be exchanged while nothing has   *)
(* been accepted on it.                                                    *)
Found(w, m) ==
  /\ w \in DOMAIN head => head[w].steps = <<>>
  /\ SetHead(w, GenesisWorld(w, m))
  /\ UNCHANGED <<open, closed, accepted>>

(* An authored revision extends the head and leaves proposals made from    *)
(* the old head open; none of them can be accepted any more.               *)
Amend(w, s) ==
  /\ w \in DOMAIN head
  /\ SetHead(w, Extend(head[w], s))
  /\ UNCHANGED <<open, closed, accepted>>

(* A new proposal from the head; the one it replaces, if any, is closed.   *)
Propose(c, S) ==
  /\ c \notin Known
  /\ c.parent.world \in DOMAIN head
  /\ head[c.parent.world] = c.parent
  /\ S \subseteq open
  /\ open' = (open \ S) \cup {c}
  /\ closed' = closed \cup S
  /\ UNCHANGED <<head, accepted>>

Close(c) ==
  /\ c \in open
  /\ open' = open \ {c}
  /\ closed' = closed \cup {c}
  /\ UNCHANGED <<head, accepted>>

Competing(c) == {d \in open : d.parent = c.parent /\ d # c}

Accept(c) ==
  /\ c \in open
  /\ c.parent.world \in DOMAIN head
  /\ head[c.parent.world] = c.parent
  /\ SetHead(c.parent.world, ProposedHead(c))
  /\ open' = open \ (Competing(c) \cup {c})
  /\ closed' = closed \cup Competing(c)
  /\ accepted' = accepted \cup {c}

HNext ==
  \/ \E w \in WorldIds, m \in Models : Found(w, m)
  \/ \E w \in WorldIds, s \in RevisionStep : Amend(w, s)
  \/ \E w \in DOMAIN head, query \in Queries, roll \in 0..MaxRoll, S \in SUBSET open :
       Propose([parent |-> head[w], query |-> query, roll |-> roll], S)
  \/ \E c \in open : Close(c) \/ Accept(c)

HSpec == HInit /\ [][HNext]_hvars
===============================================================================
