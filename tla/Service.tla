------------------------------- MODULE Service --------------------------------
(***************************************************************************)
(* The service behind the tools: each tool call finds or reopens the       *)
(* handle of its world, is bound to the receipt of its request id, and     *)
(* reaches the engine through the engine process.                          *)
(*                                                                         *)
(* A tool call runs up to its next call of the engine and goes on with the *)
(* answer.  The engine process answers in the order it was asked, and      *)
(* what the engine does for a call touches nothing the service holds: so   *)
(* executing a call and going on with its answer are one action.  Of the   *)
(* engine only what decides an answer is kept: each world's head, which is *)
(* its version and model revision, and the status of what was rolled.  A   *)
(* world is named by the call that creates it; those of Stored were left   *)
(* by an earlier server.                                                   *)
(***************************************************************************)
EXTENDS Naturals, Sequences, SequencesExt, FiniteSets, FiniteSetsExt, Functions

CONSTANTS
  MaxCalls,        \* bound: the tool calls that are made
  Requests,        \* bound: the operations that are asked for, each with its request ids
  Stored,          \* the worlds of the state file
  Own,             \* the store of the receipts that belong to no world
  MaxWorlds, MaxCandidates, MaxReceiptBytes,
  NamedHeads,      \* bound: the heads a call may name
  RollOf           \* bound: request id -> how a roll is asked for under it

Operations ==
  {"create", "refine", "revise", "roll", "reroll", "reject", "accept", "estimate", "submit", "review"}

Rolls == {"query", "default"}     \* a roll brings its query, or the service makes it

ASSUME ServiceAssumption ==
  /\ Requests # {} /\ \A q \in Requests : /\ q[1] \in Operations
                                          /\ q[1] = "roll" => RollOf[q[2]] \in Rolls
  /\ Stored \cap Nat = {} /\ Own \notin Nat \cup Stored
  /\ {MaxCalls, MaxWorlds, MaxCandidates, MaxReceiptBytes} \subseteq Nat
  /\ NamedHeads \subseteq [version : Nat, model : Nat]

Tools == 1..MaxCalls      \* the tool calls, in the order they are made
Worlds == Stored \cup Tools
Heads == [version : Nat, model : Nat]
Candidates == [parent : Heads, roll : Rolls, index : Nat]
Statuses == {"pending", "rejected", "superseded", "committed"}

(* What a receipt reserves, and what it keeps of it when it is small.      *)
Reserved == 2
Retained == 1

VARIABLES
  head,            \* the engine: world -> its accepted head
  status,          \* and <<world, candidate>> -> the status of what was rolled
  failed,          \* whether the engine process has failed
  queue,           \* the calls it has not answered, oldest first
  worlds,          \* world -> its handle, named by the call that opened it
  modelOf,         \* handle -> the model revision it holds for current
  known,           \* handle -> the candidates it can name
  rolling,         \* handle -> its reservations of a candidate
  pendingWorlds,   \* the reservations of a world
  receipts,        \* the calls whose receipt is kept or pending
  receiptBytes,
  req, pc, handle, seen, owner, told,              \* the tool calls
  ledger,          \* estimation calls -> the request, proposal or review each retained
  executed         \* the calls whose mutation the engine may have made

(* Function f with one entry more: for k set, or set unless f has it.      *)
With(f, k, v) == [x \in DOMAIN f \cup {k} |-> IF x = k THEN v ELSE f[x]]
WithNew(f, k, v) == [x \in DOMAIN f \cup {k} |-> IF x \in DOMAIN f THEN f[x] ELSE v]

engineState == <<head, status>>
engineVars  == <<engineState, failed, queue, executed>>
handleVars  == <<worlds, modelOf, known>>
quotaVars   == <<rolling, pendingWorlds, receipts, receiptBytes>>
callVars    == <<pc, owner, told>>
vars == <<engineVars, handleVars, quotaVars, callVars, ledger, req, handle, seen>>

Op(c) == req[c].op
World(c) == req[c].world
Rolling == {"roll", "reroll"}

(* What a caller can name: what a call it was told of made, and the worlds *)
(* that were stored before.                                                *)
Told(op) == {owner[c] : c \in {d \in Tools : Op(d) = op /\ told[d] = "ok"}}
Named == Stored \cup Told("create")

Arguments(op, id) ==
  CASE op = "create" -> {0}
    [] op = "roll"   -> {RollOf[id]}
    [] op = "refine" -> {h.model : h \in NamedHeads} \ {0}
    [] op = "revise" -> NamedHeads
    [] op = "accept" -> [candidate : UNION Range(known), expected : NamedHeads]
    [] op \in {"reroll", "reject"} -> UNION Range(known)
    [] op = "estimate" -> Named
    [] op = "submit" -> [request : Told("estimate"), model : BOOLEAN]
    [] op = "review" -> [proposal : Told("submit"), approved : BOOLEAN]

Pcs == {"idle", "getWorld", "getModel", "preset", "pre", "view", "check", "mutate", "after", "join", "done"}
Verdicts == {"ok", "error", "indeterminate"}

TypeOK ==
  /\ DOMAIN head \subseteq Worlds /\ \A w \in DOMAIN head : head[w] \in Heads
  /\ DOMAIN status \subseteq Worlds \X Candidates /\ Range(status) \subseteq Statuses
  /\ failed \in BOOLEAN
  /\ queue \in Seq(Tools) /\ IsInjective(queue)
  /\ ToSet(queue) = {c \in Tools : pc[c] \in Pcs \ {"idle", "preset", "join", "done"}}
  /\ DOMAIN worlds \subseteq DOMAIN head /\ Range(worlds) \subseteq Tools
  /\ modelOf \in [Tools -> Nat] /\ known \in [Tools -> SUBSET Candidates]
  /\ rolling \in [Tools -> Nat] /\ {pendingWorlds, receiptBytes} \subseteq Nat
  /\ receipts \cup executed \cup DOMAIN ledger \subseteq Tools
  /\ pc \in [Tools -> Pcs] /\ told \in [Tools -> Verdicts \cup {"none"}]
  /\ \A c \in Tools : told[c] = "none" <=> pc[c] # "done"
  /\ handle \in [Tools -> Tools \cup {Own}] /\ owner \in [Tools -> Tools] /\ seen \in [Tools -> Heads]

Init ==
  /\ head = [w \in Stored |-> [version |-> 0, model |-> 0]]
  /\ status = <<>>
  /\ failed = FALSE /\ queue = <<>> /\ executed = {}
  /\ worlds = <<>> /\ modelOf = [c \in Tools |-> 0] /\ known = [c \in Tools |-> {}]
  /\ rolling = [c \in Tools |-> 0] /\ pendingWorlds = 0
  /\ receipts = {} /\ receiptBytes = 0
  /\ req = [c \in Tools |-> [op |-> "create", world |-> c, id |-> (CHOOSE r \in Requests : TRUE)[2], arg |-> 0]]
  /\ pc = [c \in Tools |-> "idle"] /\ told = [c \in Tools |-> "none"]
  /\ owner = [c \in Tools |-> c] /\ handle = [c \in Tools |-> Own] /\ seen = [c \in Tools |-> [version |-> 0, model |-> 0]]
  /\ ledger = <<>>

-----------------------------------------------------------------------------
(* Ending calls: F gives some calls their verdict, all at once.            *)

(* Mutant: a call that reserved nothing releases all the same.             *)
ReleasingAll(S) == S

Releasing(S) == S \cap receipts

(* The receipt of a call that certainly did nothing is dropped, one of a   *)
(* call that may have done something stays.                                *)
Forgotten(F) == {c \in DOMAIN F \cap receipts : F[c] = "error"}

(* Mutant: only a success is told to those who wait for it.                *)
WaitersOfSuccess(F) == {c \in Tools : pc[c] = "join" /\ owner[c] \in DOMAIN F /\ F[owner[c]] = "ok"}

Waiters(F) == {c \in Tools : pc[c] = "join" /\ owner[c] \in DOMAIN F}

Settle(F) ==
  LET S    == DOMAIN F
      Ends == S \cup Waiters(F)
      Made == {c \in S \cap receipts : F[c] = "ok"}
  IN  /\ told' = [c \in Tools |-> IF c \in S THEN F[c] ELSE IF c \in Ends THEN F[owner[c]] ELSE told[c]]
      /\ pc' = [c \in Tools |-> IF c \in Ends THEN "done" ELSE pc[c]]
      /\ receipts' = receipts \ Forgotten(F)
      /\ receiptBytes' = receiptBytes - Reserved * Cardinality(Forgotten(F))
                                      - (Reserved - Retained) * Cardinality(Made)
      /\ pendingWorlds' = pendingWorlds - Cardinality({c \in Releasing(S) : Op(c) = "create"})
      /\ rolling' = [h \in Tools |->
           rolling[h] - Cardinality({c \in Releasing(S) : Op(c) \in Rolling /\ handle[c] = h})]
      /\ UNCHANGED owner

Verdict(c, v) == Settle([d \in {c} |-> v])

(* A receipt that grew past its allowance is kept, and says so.            *)
Succeed(c) == Verdict(c, "ok") \/ Verdict(c, "indeterminate")

-----------------------------------------------------------------------------
(* withIdempotentReceipt, and the first step of what it guards.            *)

(* The receipts of new worlds and of estimation belong to no world.        *)
StoreOf(op, h) == IF op \in {"create", "estimate", "submit", "review"} THEN Own ELSE h

(* Mutant: a receipt that is not settled yet is not looked at.             *)
BoundSettled(r, h) ==
  {o \in receipts : StoreOf(Op(o), handle[o]) = StoreOf(r.op, h) /\ Op(o) = r.op /\ req[o].id = r.id /\ pc[o] = "done"}

Bound(r, h) ==
  {o \in receipts : StoreOf(Op(o), handle[o]) = StoreOf(r.op, h) /\ Op(o) = r.op /\ req[o].id = r.id}

(* An exact retry gets the receipt of the first call, now or when it is    *)
(* there; a different payload is refused.                                  *)
Retry(c, r, h) ==
  \E o \in Bound(r, h) :
    /\ LET v == IF req[o].arg = r.arg THEN told[o] ELSE "error"
       IN  /\ told' = [told EXCEPT ![c] = v]
           /\ pc' = [pc EXCEPT ![c] = IF v = "none" THEN "join" ELSE "done"]
           /\ owner' = [owner EXCEPT ![c] = IF req[o].arg = r.arg THEN o ELSE c]
    /\ UNCHANGED quotaVars

Room(op, h) ==
  /\ receiptBytes + Reserved <= MaxReceiptBytes
  /\ op = "create" => Cardinality(DOMAIN worlds) + pendingWorlds < MaxWorlds
  /\ op \in Rolling => Cardinality(known[h]) + rolling[h] < MaxCandidates

(* A world that no preset describes is not rolled without a query; what    *)
(* this server did not roll is not known to it.                            *)
MayRefuse(r, h) ==
  \/ failed \/ ~Room(r.op, h)
  \/ r.op = "roll" /\ r.arg = "default"
  \/ r.op \in {"reroll", "reject"} /\ r.arg \notin known[h]

(* The call of request r is bound and takes its first step; q is the       *)
(* engine's queue without the answer the call goes on from.                *)
Admit(c, r, h, q) ==
  /\ handle' = [handle EXCEPT ![c] = h]
  /\ \/ Retry(c, r, h) /\ queue' = q
     \/ /\ Bound(r, h) = {} /\ ~failed /\ Room(r.op, h)
        /\ r.op \in {"reroll", "reject"} => r.arg \in known[h]
        /\ receipts' = receipts \cup {c} /\ receiptBytes' = receiptBytes + Reserved
        /\ pendingWorlds' = IF r.op = "create" THEN pendingWorlds + 1 ELSE pendingWorlds
        /\ rolling' = IF r.op \in Rolling THEN [rolling EXCEPT ![h] = @ + 1] ELSE rolling
        /\ pc' = [pc EXCEPT ![c] = IF r.op = "roll" /\ r.arg = "query" THEN "mutate" ELSE "pre"]
        /\ queue' = Append(q, c)
        /\ UNCHANGED <<owner, told>>
     \/ /\ Bound(r, h) = {} /\ MayRefuse(r, h)
        /\ Verdict(c, "error")
        /\ queue' = q

-----------------------------------------------------------------------------
(* Tool calls.                                                             *)

(* A proposal is for its request, a review for its proposal.               *)
WorldsFor(c, op, arg) ==
  CASE op = "create" -> {c}
    [] op = "estimate" -> {arg}
    [] op = "submit" -> {World(arg.request)}
    [] op = "review" -> {World(arg.proposal)}
    [] OTHER -> Named

NeedsHandle(r) == r.op \notin {"create", "submit", "review"}

(* getWorld: a world the service holds is used at once, another is looked  *)
(* for in the engine.                                                      *)
Start(c) ==
  /\ pc[c] = "idle" /\ \A d \in Tools : d < c => pc[d] # "idle"
  /\ \E q \in Requests : \E arg \in Arguments(q[1], q[2]) : \E w \in WorldsFor(c, q[1], arg) :
       LET r == [op |-> q[1], world |-> w, id |-> q[2], arg |-> arg]
       IN
       /\ req' = [req EXCEPT ![c] = r]
       /\ \/ ~NeedsHandle(r) /\ Admit(c, r, Own, queue)
          \/ NeedsHandle(r) /\ w \in DOMAIN worlds /\ Admit(c, r, worlds[w], queue)
          \/ /\ NeedsHandle(r) /\ w \notin DOMAIN worlds
             /\ \/ /\ ~failed
                   /\ pc' = [pc EXCEPT ![c] = "getWorld"] /\ queue' = Append(queue, c)
                   /\ UNCHANGED <<quotaVars, owner, told>>
                \/ failed /\ Verdict(c, "error") /\ UNCHANGED queue
             /\ UNCHANGED handle
  /\ UNCHANGED <<engineState, failed, executed, handleVars, ledger, seen>>

Answered(c, p) == ~failed /\ queue # <<>> /\ Head(queue) = c /\ pc[c] = p

WorldRead(c) ==
  /\ Answered(c, "getWorld")
  /\ seen' = [seen EXCEPT ![c] = head[World(c)]]
  /\ pc' = [pc EXCEPT ![c] = "getModel"]
  /\ queue' = Append(Tail(queue), c)
  /\ UNCHANGED <<engineState, failed, executed, handleVars, ledger, quotaVars, owner, told, req, handle>>

(* Another call may have opened the world meanwhile; the handle waits for  *)
(* the presets the model is compared with.                                 *)
ModelRead(c) ==
  /\ Answered(c, "getModel")
  /\ \/ World(c) \in DOMAIN worlds /\ Admit(c, req[c], worlds[World(c)], Tail(queue))
     \/ /\ World(c) \notin DOMAIN worlds
        /\ \/ /\ Cardinality(DOMAIN worlds) + pendingWorlds < MaxWorlds
              /\ pc' = [pc EXCEPT ![c] = "preset"]
              /\ UNCHANGED <<quotaVars, owner, told>>
           \/ /\ Cardinality(DOMAIN worlds) + pendingWorlds >= MaxWorlds
              /\ Verdict(c, "error")
        /\ queue' = Tail(queue) /\ UNCHANGED handle
  /\ UNCHANGED <<engineState, failed, executed, handleVars, ledger, req, seen>>

(* The presets are compared, by the engine or from memory, and the handle  *)
(* is kept: the model it holds is the one that was read.                   *)
Opened(c) ==
  /\ pc[c] = "preset"
  /\ worlds' = With(worlds, World(c), c)
  /\ modelOf' = [modelOf EXCEPT ![c] = seen[c].model]
  /\ Admit(c, req[c], c, queue)
  /\ UNCHANGED <<engineState, failed, executed, known, ledger, req, seen>>

PresetUnread(c) ==
  /\ pc[c] = "preset" /\ failed
  /\ Verdict(c, "error")
  /\ UNCHANGED <<engineVars, handleVars, ledger, req, handle, seen>>

(* What an estimation call is about: its world's head and model, which its *)
(* request froze.                                                          *)
Frozen(c) ==
  CASE Op(c) = "submit" -> ledger[req[c].arg.request]
    [] Op(c) = "review" -> ledger[req[c].arg.proposal]

(* Mutant: the expected head is taken on the caller's word.                *)
AllowedByCandidate(c) == Op(c) = "accept" => req[c].arg.candidate \in known[handle[c]]

(* Accepting compares the head with the one the caller expects and finds   *)
(* the candidate.  A request for estimates is made of the handle's model,  *)
(* a proposal and an approval of the head that was frozen.                 *)
Allowed(c) ==
  LET h == head[World(c)]
      arg == req[c].arg
  IN  CASE Op(c) = "accept"   -> h = arg.expected /\ arg.candidate \in known[handle[c]]
        [] Op(c) = "estimate" -> h.model = modelOf[handle[c]]
        [] Op(c) = "submit"   -> h = Frozen(c).head
        [] Op(c) = "review"   -> arg.approved => h = Frozen(c).head
        [] OTHER -> TRUE

IsRejected(c) == Op(c) = "reject" /\ status[<<World(c), req[c].arg>>] = "rejected"

(* What the call does next: estimates are asked for with a projection of   *)
(* the head, a proposed model is validated.                                *)
NextStep(c) ==
  CASE Op(c) = "estimate" -> "view"
    [] Op(c) \in {"submit", "review"} -> "check"
    [] OTHER -> "mutate"

HasModel(c) ==
  \/ Op(c) = "submit" /\ req[c].arg.model
  \/ Op(c) = "review" /\ req[req[c].arg.proposal].arg.model

(* A request, a proposal or a review is retained and its call succeeds.    *)
Retain(c, record) ==
  /\ ledger' = With(ledger, c, record)
  /\ Succeed(c)
  /\ queue' = Tail(queue)

(* The first read of what the receipt guards.  What is rejected is not     *)
(* rejected again; what an estimation call brings may be refused.          *)
FirstRead(c) ==
  /\ Answered(c, "pre")
  /\ seen' = [seen EXCEPT ![c] = IF Op(c) = "estimate" THEN head[World(c)] ELSE @]
  /\ \/ /\ Allowed(c) /\ ~IsRejected(c) /\ (NextStep(c) = "check" => HasModel(c))
        /\ pc' = [pc EXCEPT ![c] = NextStep(c)] /\ queue' = Append(Tail(queue), c)
        /\ UNCHANGED <<quotaVars, owner, told, ledger>>
     \/ Allowed(c) /\ NextStep(c) = "check" /\ ~HasModel(c) /\ Retain(c, Frozen(c))
     \/ /\ ~Allowed(c) \/ NextStep(c) # "mutate"
        /\ Verdict(c, "error") /\ queue' = Tail(queue) /\ UNCHANGED ledger
     \/ IsRejected(c) /\ Succeed(c) /\ queue' = Tail(queue) /\ UNCHANGED ledger
  /\ UNCHANGED <<engineState, failed, executed, handleVars, req, handle>>

(* Mutant: the projection is not compared with the head read before.       *)
UnmovedOrNot(c) == TRUE

Unmoved(c) == head[World(c)] = seen[c]

(* The projection of the head that was read; the request names the model   *)
(* the handle has by then.                                                 *)
Projected(c) ==
  /\ Answered(c, "view")
  /\ \/ Unmoved(c) /\ Retain(c, [model |-> modelOf[handle[c]], head |-> seen[c]])
     \/ Verdict(c, "error") /\ queue' = Tail(queue) /\ UNCHANGED ledger
  /\ UNCHANGED <<engineState, failed, executed, handleVars, req, handle, seen>>

Checked(c) ==
  /\ Answered(c, "check")
  /\ \/ Retain(c, Frozen(c))
     \/ Verdict(c, "error") /\ queue' = Tail(queue) /\ UNCHANGED ledger
  /\ UNCHANGED <<engineState, failed, executed, handleVars, req, handle, seen>>

-----------------------------------------------------------------------------
(* The mutation in the engine.                                             *)

(* The candidate that call c rolls.                                        *)
Rolled(c) ==
  IF Op(c) = "roll" THEN [parent |-> head[World(c)], roll |-> req[c].arg, index |-> 0]
  ELSE [req[c].arg EXCEPT !.index = @ + 1]

Pending(w, d) == status[<<w, d>>] = "pending"

(* A head is changed for a call made against it, a candidate while it is   *)
(* pending; a new one is rolled from the head.                             *)
Applies(c) ==
  LET w == World(c)
      arg == req[c].arg
  IN  CASE Op(c) = "refine" -> head[w] = [version |-> 0, model |-> arg - 1]
        [] Op(c) = "revise" -> head[w] = arg
        [] Op(c) = "reroll" -> /\ status[<<w, arg>>] # "committed"
                               /\ head[w] = arg.parent \/ <<w, Rolled(c)>> \in DOMAIN status
        [] Op(c) = "reject" -> Pending(w, arg)
        [] Op(c) = "accept" -> Pending(w, arg.candidate) /\ head[w] = arg.candidate.parent
        [] OTHER -> TRUE

HeadAfter(c) ==
  CASE Op(c) = "create" -> With(head, c, [version |-> 0, model |-> 0])
    [] Op(c) = "refine" -> [head EXCEPT ![World(c)].model = @ + 1]
    [] Op(c) = "revise" -> [head EXCEPT ![World(c)].version = @ + 1, ![World(c)].model = @ + 1]
    [] Op(c) = "accept" -> [head EXCEPT ![World(c)].version = @ + 1]
    [] OTHER -> head

(* A reroll supersedes its pending source, a commit its pending rivals;    *)
(* what was rolled before keeps its status.                                *)
StatusAfter(c) ==
  LET w == World(c)
      arg == req[c].arg
      Closing(S, as) == [k \in DOMAIN status |-> IF k \in S /\ Pending(w, k[2]) THEN as ELSE status[k]]
  IN  CASE Op(c) = "roll"   -> WithNew(status, <<w, Rolled(c)>>, "pending")
        [] Op(c) = "reroll" -> WithNew(Closing({<<w, arg>>}, "superseded"), <<w, Rolled(c)>>, "pending")
        [] Op(c) = "reject" -> Closing({<<w, arg>>}, "rejected")
        [] Op(c) = "accept" -> With(Closing({k \in DOMAIN status : k[1] = w /\ k[2].parent = arg.candidate.parent}, "superseded"),
                  <<w, arg.candidate>>, "committed")
        [] OTHER -> status

(* Mutant: the handle of a revised world keeps its model.                  *)
ModelKept(c) == modelOf

(* What the service keeps of it: the handle of a new world, the candidate  *)
(* that was rolled, the model of a revised world.                          *)
WorldsAfter(c) == IF Op(c) = "create" THEN With(worlds, c, c) ELSE worlds

KnownAfter(c) ==
  IF Op(c) \in Rolling THEN [known EXCEPT ![handle[c]] = @ \cup {Rolled(c)}] ELSE known

ModelAfter(c) ==
  IF Op(c) \in {"refine", "revise"} THEN [modelOf EXCEPT ![handle[c]] = head[World(c)].model + 1]
  ELSE modelOf

(* The claims of a revised world are then compared with its new head.      *)
Mutated(c) ==
  /\ Answered(c, "mutate") /\ Applies(c)
  /\ head' = HeadAfter(c) /\ status' = StatusAfter(c) /\ executed' = executed \cup {c}
  /\ worlds' = WorldsAfter(c) /\ known' = KnownAfter(c) /\ modelOf' = ModelAfter(c)
  /\ \/ /\ Op(c) = "revise"
        /\ pc' = [pc EXCEPT ![c] = "after"] /\ queue' = Append(Tail(queue), c)
        /\ UNCHANGED <<quotaVars, owner, told>>
     \/ Op(c) # "revise" /\ Succeed(c) /\ queue' = Tail(queue)
  /\ UNCHANGED <<failed, ledger, req, handle, seen>>

Refused(c) ==
  /\ Answered(c, "mutate")
  /\ Verdict(c, "error")
  /\ queue' = Tail(queue)
  /\ UNCHANGED <<engineState, failed, executed, handleVars, ledger, req, handle, seen>>

(* persistence_uncertain: the change may be stored or not.                 *)
Uncertain(c) ==
  /\ Answered(c, "mutate") /\ Applies(c)
  /\ \/ head' = HeadAfter(c) /\ status' = StatusAfter(c)
     \/ UNCHANGED engineState
  /\ executed' = executed \cup {c}
  /\ Verdict(c, "indeterminate")
  /\ queue' = Tail(queue)
  /\ UNCHANGED <<failed, handleVars, ledger, req, handle, seen>>

ClaimsRead(c) ==
  /\ Answered(c, "after")
  /\ Succeed(c)
  /\ queue' = Tail(queue)
  /\ UNCHANGED <<engineState, failed, executed, handleVars, ledger, req, handle, seen>>

(* The engine process gives up: of the calls it was asked, the first m     *)
(* were written, and a mutation among them may have been made.  A failed   *)
(* claim check does not fail its call, only an overgrown receipt does.     *)
EngineFails ==
  /\ ~failed /\ failed' = TRUE
  /\ \E m \in 0..Len(queue), overgrown \in SUBSET {c \in Tools : pc[c] = "after"} :
       LET lost == {c \in ToSet(SubSeq(queue, 1, m)) : pc[c] = "mutate"}
           Outcome(c) == CASE c \in lost \cup overgrown -> "indeterminate"
                             [] pc[c] = "after" /\ c \notin overgrown -> "ok"
                             [] OTHER -> "error"
       IN  /\ executed' = executed \cup lost
           /\ Settle([c \in ToSet(queue) |-> Outcome(c)])
  /\ queue' = <<>>
  /\ UNCHANGED <<engineState, handleVars, ledger, req, handle, seen>>

-----------------------------------------------------------------------------
EngineAnswers ==
  \/ \E c \in Tools : WorldRead(c) \/ ModelRead(c) \/ FirstRead(c) \/ Projected(c) \/ Checked(c)
                      \/ Mutated(c) \/ Refused(c) \/ Uncertain(c) \/ ClaimsRead(c)
  \/ EngineFails

Next ==
  \/ \E c \in Tools : Start(c) \/ Opened(c) \/ PresetUnread(c)
  \/ EngineAnswers

Spec == Init /\ [][Next]_vars

(* Every call of the engine is answered or the engine process fails        *)
(* (CallsSettle of EngineProcess), and continuations run.                  *)
FairSpec ==
  /\ Spec
  /\ WF_vars(EngineAnswers)
  /\ \A c \in Tools : WF_vars(Opened(c) \/ PresetUnread(c))

-----------------------------------------------------------------------------
(* Properties.                                                             *)

(* However often a request is sent, with its retries in flight or after    *)
(* its outcome is uncertain, the engine is asked for its mutation once: by *)
(* each handle of a world, and a world this server made has one.           *)
Twice(c, d) == c # d /\ Op(c) = Op(d) /\ req[c].id = req[d].id
ExecutedOnce ==
  \A c, d \in executed :
    Twice(c, d) =>
      /\ handle[c] # handle[d]
      /\ World(c) \in Stored \/ World(c) # World(d)

(* What the quotas count is what is open, being made or kept, and neither  *)
(* the candidates of a handle nor the worlds this server made pass their   *)
(* quota, while others are made at once; worlds it reopens at once may.    *)
QuotasHold ==
  LET InFlight(op, h) == {c \in receipts : Op(c) = op /\ handle[c] = h /\ pc[c] # "done"}
  IN  /\ receiptBytes = Reserved * Cardinality({c \in receipts : told[c] # "ok"})
                        + Retained * Cardinality({c \in receipts : told[c] = "ok"})
      /\ pendingWorlds = Cardinality(InFlight("create", Own))
      /\ \A h \in Tools : /\ rolling[h] = Cardinality(InFlight("roll", h) \cup InFlight("reroll", h))
                          /\ Cardinality(known[h]) + rolling[h] <= MaxCandidates
      /\ Cardinality(DOMAIN worlds \ Stored) <= MaxWorlds

(* The handle of a world this server made names the model of the accepted  *)
(* head, unless a revision of it ended in doubt.                           *)
HandleFollowsHead ==
  \A w \in DOMAIN worlds \ Stored :
    \/ modelOf[worlds[w]] = head[w].model
    \/ \E c \in Tools : Op(c) \in {"refine", "revise"} /\ World(c) = w /\ told[c] = "indeterminate"

(* What is estimated is frozen as one: the model a request names is that   *)
(* of the head it names, although both are read, and read again, while     *)
(* revisions are made and answered; and so are those of its proposals and  *)
(* reviews.                                                                *)
EstimatesFrozen == \A c \in DOMAIN ledger : ledger[c].model = ledger[c].head.model

(* A candidate is accepted on the head its caller expected, although the   *)
(* head is read before and may move until the engine commits; and it is    *)
(* not one that some caller was told is rejected or replaced by a reroll.  *)
AcceptedAsExpected ==
  [][\A c \in executed' \ executed :
       Op(c) = "accept" /\ head'[World(c)] # head[World(c)] =>
         /\ head[World(c)] = req[c].arg.expected
         /\ ~\E d \in Tools : /\ Op(d) \in {"reroll", "reject"} /\ told[d] = "ok"
                              /\ World(d) = World(c) /\ req[d].arg = req[c].arg.candidate]_vars

CallsAnswered == \A c \in Tools : pc[c] # "idle" ~> pc[c] = "done"
===============================================================================
