---------------------------- MODULE Service_proofs ----------------------------
(***************************************************************************)
(* Proofs about the service, for every number of calls, every set of       *)
(* stored worlds and all quotas.                                           *)
(***************************************************************************)
EXTENDS Service, FiniteSetTheorems, TLAPS

-----------------------------------------------------------------------------
(* The inductive invariant.                                                *)

Estimation == {"estimate", "submit", "review"}
Unbound  == {"idle", "getWorld", "getModel", "preset"}     \* before the receipt
InFlight == {"pre", "view", "check", "mutate", "after"}    \* under a receipt

CallsTyped ==
  /\ pc \in [Tools -> Pcs] /\ told \in [Tools -> Verdicts \cup {"none"}]
  /\ \A c \in Tools : told[c] = "none" <=> pc[c] # "done"
  /\ owner \in [Tools -> Tools] /\ receipts \subseteq Tools

Typed ==
  /\ head \in [DOMAIN head -> Heads] /\ Stored \subseteq DOMAIN head /\ DOMAIN head \subseteq Worlds
  /\ status \in [DOMAIN status -> Statuses] /\ DOMAIN status \subseteq Worlds \X Candidates
  /\ failed \in BOOLEAN
  /\ worlds \in [DOMAIN worlds -> Tools] /\ DOMAIN worlds \subseteq DOMAIN head
  /\ modelOf \in [Tools -> Nat] /\ known \in [Tools -> SUBSET Candidates]
  /\ executed \subseteq Tools
  /\ ledger \in [DOMAIN ledger -> [model : Nat, head : Heads]] /\ DOMAIN ledger \subseteq Tools
  /\ handle \in [Tools -> Tools \cup {Own}] /\ seen \in [Tools -> Heads]
  /\ req = [c \in Tools |-> req[c]]

Waiting == Pcs \ {"idle", "preset", "join", "done"}

(* The calls the engine process holds are those that wait for it.          *)
QueueHolds ==
  /\ queue \in Seq(Tools) /\ IsInjective(queue)
  /\ ToSet(queue) = {c \in Tools : pc[c] \in Waiting}

(* What is asked for has the form its operation has.                       *)
Asked(r) ==
  /\ r.op \in Operations
  /\ r.op = "roll" => r.arg \in Rolls
  /\ r.op = "refine" => r.arg \in Nat \ {0}
  /\ r.op = "revise" => r.arg \in Heads
  /\ r.op \in {"reroll", "reject"} => r.arg \in Candidates
  /\ r.op = "accept" => r.arg.candidate \in Candidates /\ r.arg.expected \in Heads

(* It is about a world that is there, and an estimation call about the     *)
(* world of the request or proposal it answers.                            *)
Fits(c) ==
  /\ Asked(req[c])
  /\ IF Op(c) = "create" THEN World(c) = c
     ELSE World(c) \in DOMAIN head /\ World(c) \in Stored \cup DOMAIN worlds
  /\ Op(c) = "estimate" => World(c) = req[c].arg
  /\ Op(c) = "submit" => req[c].arg.request \in DOMAIN ledger /\ World(c) = World(req[c].arg.request)
  /\ Op(c) = "review" => req[c].arg.proposal \in DOMAIN ledger /\ World(c) = World(req[c].arg.proposal)

RequestsFit == \A c \in Tools : pc[c] # "idle" => Fits(c)

(* Call c asks for what call o does.                                       *)
Same(c, o) ==
  /\ Op(o) = Op(c) /\ req[o].arg = req[c].arg
  /\ Op(c) # "create" => World(o) = World(c)

(* A call in flight has its receipt, one that joined waits for another's   *)
(* that is in flight, and a success is that of the receipt it was given.   *)
CallsLinked ==
  /\ \A c \in Tools : pc[c] \in InFlight => c \in receipts
  /\ \A c \in Tools : pc[c] \in Unbound => owner[c] = c
  /\ \A c \in receipts : pc[c] \in InFlight \cup {"done"} /\ owner[c] = c /\ told[c] # "error"
  /\ \A c \in Tools : pc[c] = "join" \/ told[c] = "ok" => owner[c] \in receipts /\ Same(c, owner[c])
  /\ \A c \in Tools : pc[c] = "join" => pc[owner[c]] # "done"
  /\ \A c \in Tools : told[c] = "ok" => told[owner[c]] = "ok"

(* No two receipts of one store are for one request id of one operation.   *)
ReceiptsDiffer ==
  \A c, d \in receipts : Twice(c, d) => StoreOf(Op(c), handle[c]) # StoreOf(Op(d), handle[d])

(* A handle is of the world of the call that opened it; a world this       *)
(* server made has the handle of its creation and no other.                *)
HandleOf(h, w) == h \in Tools /\ pc[h] \notin Unbound /\ World(h) = w

Handled(c) ==
  IF NeedsHandle(req[c]) THEN HandleOf(handle[c], World(c)) /\ (World(c) \notin Stored => handle[c] = World(c))
  ELSE handle[c] = Own

HandlesFit ==
  /\ DOMAIN head \ Stored \subseteq executed
  /\ \A w \in DOMAIN worlds : /\ HandleOf(worlds[w], w)
                              /\ w \notin Stored => worlds[w] = w /\ Op(w) = "create"
  /\ \A c \in receipts : Handled(c)

Below(a, b) == a.version <= b.version /\ a.model <= b.model

(* What a call that is under way has come to.  While the head has the      *)
(* model that was read for an estimate, so has the handle; an accept was   *)
(* checked against a head between the candidate's and this one.            *)
AtStep(c) ==
  /\ pc[c] \in {"getWorld", "getModel", "preset"} => NeedsHandle(req[c])
  /\ pc[c] = "preset" => World(c) \in Stored
  /\ pc[c] = "view" =>
       /\ Op(c) = "estimate" /\ seen[c].model <= head[World(c)].model
       /\ seen[c].model = head[World(c)].model => modelOf[handle[c]] = seen[c].model
  /\ pc[c] = "check" => Op(c) \in {"submit", "review"}
  /\ pc[c] = "mutate" => Op(c) \notin Estimation
  /\ pc[c] = "mutate" /\ Op(c) = "accept" =>
       /\ req[c].arg.candidate \in known[handle[c]]
       /\ Below(req[c].arg.candidate.parent, req[c].arg.expected)
       /\ Below(req[c].arg.expected, head[World(c)])
  /\ pc[c] = "after" => Op(c) = "revise"
  /\ pc[c] \in InFlight /\ Op(c) \in {"reroll", "reject"} => req[c].arg \in known[handle[c]]

StepsFit == \A c \in Tools : AtStep(c)

(* What a success has left: a handle, an estimate, a candidate that is no  *)
(* longer pending.                                                         *)
Outcome(c) ==
  /\ Op(c) = "create" => c \in DOMAIN worlds
  /\ Op(c) \in Estimation => c \in DOMAIN ledger
  /\ Op(c) \in {"reroll", "reject"} =>
       <<World(c), req[c].arg>> \in DOMAIN status /\ status[<<World(c), req[c].arg>>] # "pending"

OutcomesFit == \A c \in receipts : told[c] = "ok" => Outcome(c)

(* What may have changed the engine's state keeps its receipt, and so does *)
(* what was retained.                                                      *)
ReceiptsKept ==
  /\ \A c \in executed : c \in receipts /\ pc[c] \in {"after", "done"} /\ Op(c) \notin Estimation
  /\ \A c \in DOMAIN ledger : c \in receipts /\ pc[c] = "done"

(* A new world's handle starts with its first model.                       *)
ModelsFit ==
  /\ \A c \in Tools \ DOMAIN worlds : pc[c] = "idle" \/ Op(c) = "create" => modelOf[c] = 0
  /\ HandleFollowsHead

(* What a handle can name was rolled from its world's head or before it.   *)
CandidatesFit ==
  \A h \in Tools : \A k \in known[h] :
    /\ pc[h] # "idle" /\ World(h) \in DOMAIN head
    /\ <<World(h), k>> \in DOMAIN status /\ Below(k.parent, head[World(h)])

(* The calls that hold a reservation of a world, or of a candidate of h.   *)
Making == {c \in receipts : Op(c) = "create" /\ pc[c] # "done"}
RollingOn(h) == {c \in receipts : Op(c) \in Rolling /\ handle[c] = h /\ pc[c] # "done"}

(* What is reserved is what is in flight, and fits with what is there.     *)
Counts ==
  /\ receiptBytes = Reserved * Cardinality({c \in receipts : told[c] # "ok"})
                    + Retained * Cardinality({c \in receipts : told[c] = "ok"})
  /\ pendingWorlds = Cardinality(Making)
  /\ rolling \in [Tools -> Nat] /\ \A h \in Tools : rolling[h] = Cardinality(RollingOn(h))

WithinQuotas ==
  /\ IsFiniteSet(DOMAIN worlds) /\ Cardinality(DOMAIN worlds \ Stored) + pendingWorlds <= MaxWorlds
  /\ \A h \in Tools : IsFiniteSet(known[h]) /\ Cardinality(known[h]) + rolling[h] <= MaxCandidates

IInv ==
  /\ CallsTyped /\ Typed /\ QueueHolds /\ RequestsFit /\ CallsLinked /\ ReceiptsDiffer
  /\ HandlesFit /\ StepsFit /\ OutcomesFit /\ ReceiptsKept /\ EstimatesFrozen
  /\ ModelsFit /\ CandidatesFit /\ Counts /\ WithinQuotas

-----------------------------------------------------------------------------
(* The ways a step ends, moves, joins or binds calls.                      *)

(* What no step touches: a request once it is made, a handle once it is    *)
(* bound.                                                                  *)
Steady ==
  /\ req' = [c \in Tools |-> req'[c]] /\ handle' \in [Tools -> Tools \cup {Own}]
  /\ \A c \in Tools : pc[c] # "idle" => req'[c] = req[c]
  /\ \A c \in Tools : pc[c] \notin Unbound => handle'[c] = handle[c]

(* Beside, only calls of M get a receipt or take a step under one, and     *)
(* only those of E end in success under their own.                         *)
Frame(M, E) ==
  /\ Steady
  /\ \A c \in Tools : /\ pc'[c] = "idle" => pc[c] = "idle"
                      /\ pc[c] \notin Unbound => pc'[c] \notin Unbound
                      /\ pc'[c] \in {pc[c], "done"} \/ c \in M \/ (pc[c] \in Unbound /\ pc'[c] = "join")
                      /\ told[c] # "none" => told'[c] = told[c]
  /\ receipts' \subseteq receipts \cup M
  /\ \A c \in receipts' : told'[c] = "ok" => told[c] = "ok" \/ c \in E

Links == CallsTyped /\ CallsLinked /\ ReceiptsDiffer

(* Calls F ends are under way, those without a receipt with an error.      *)
Endable(F) ==
  /\ DOMAIN F \subseteq Tools /\ F \in [DOMAIN F -> Verdicts]
  /\ \A c \in DOMAIN F : pc[c] \in InFlight \/ (pc[c] \in Unbound /\ F[c] = "error")

(* Ended calls and those that joined them get one verdict.                 *)
LEMMA SettleLinks ==
  ASSUME Links, Steady, NEW F, Endable(F), Settle(F)
  PROVE  /\ Links' /\ Frame({}, {c \in DOMAIN F : F[c] = "ok"})
         /\ \A c \in Tools : pc'[c] = IF c \in DOMAIN F \cup Waiters(F) THEN "done" ELSE pc[c]
         /\ \A c \in receipts : told'[c] = IF c \in DOMAIN F THEN F[c] ELSE told[c]
<1> DEFINE S == DOMAIN F
           Ends == S \cup Waiters(F)
<1>1. /\ \A c \in Tools : told'[c] = IF c \in S THEN F[c] ELSE IF c \in Ends THEN F[owner[c]] ELSE told[c]
      /\ \A c \in Tools : pc'[c] = IF c \in Ends THEN "done" ELSE pc[c]
      /\ \A c \in Tools : c \in Ends <=> c \in S \/ (pc[c] = "join" /\ owner[c] \in S)
      /\ receipts' = {c \in receipts : ~(c \in S /\ F[c] = "error")}
      /\ owner' = owner
  BY DEF Settle, Waiters, Forgotten
<1>2. pc' \in [Tools -> Pcs] /\ told' \in [Tools -> Verdicts \cup {"none"}]
  <2>1. pc' = [c \in Tools |-> pc'[c]] /\ told' = [c \in Tools |-> told'[c]]
    BY DEF Settle
  <2>2. \A c \in Tools : pc'[c] \in Pcs /\ told'[c] \in Verdicts \cup {"none"}
    BY <1>1 DEF Links, CallsTyped, Endable, Pcs
  <2> QED
    BY <2>1, <2>2
<1> HIDE DEF S, Ends
<1>3. \A c \in S : F[c] \in Verdicts /\ c \in Tools /\ pc[c] \in InFlight \cup Unbound
  BY DEF Endable, S
<1>4. \A c \in Tools : pc[c] \in Unbound /\ c \in S => F[c] = "error"
  BY DEF Endable, S, InFlight, Unbound
<1>5. CallsTyped'
  BY <1>1, <1>2, <1>3 DEF Links, CallsTyped, Verdicts
<1>6. \A c \in receipts : c \in Ends <=> c \in S
  BY <1>1 DEF Links, CallsLinked, CallsTyped, InFlight
<1>7. \A c \in S : told[c] = "none"
  BY <1>3 DEF Links, CallsTyped, InFlight, Unbound
<1>8. \A c \in Tools : told'[c] = "ok" => owner[c] \in receipts /\ Same(c, owner[c]) /\ told'[owner[c]] = "ok"
  <2> SUFFICES ASSUME NEW c \in Tools, told'[c] = "ok"
               PROVE  owner[c] \in receipts /\ Same(c, owner[c]) /\ told'[owner[c]] = "ok"
    OBVIOUS
  <2>1. owner[c] \in Tools
    BY DEF Links, CallsTyped
  <2>2. CASE c \in S
    <3>1. F[c] = "ok" /\ pc[c] \in InFlight
      BY <1>1, <1>3, <1>4, <2>2
    <3>2. c \in receipts /\ owner[c] = c
      BY <3>1 DEF Links, CallsLinked
    <3> QED
      BY <1>1, <2>2, <3>1, <3>2 DEF Same
  <2>3. CASE c \notin S /\ c \in Ends
    <3>1. pc[c] = "join" /\ owner[c] \in S /\ F[owner[c]] = "ok"
      BY <1>1, <2>3
    <3> QED
      BY <1>1, <2>1, <3>1 DEF Links, CallsLinked
  <2>4. CASE c \notin Ends
    <3>1. told[c] = "ok" /\ c \notin S
      BY <1>1, <2>4
    <3>2. owner[c] \in receipts /\ Same(c, owner[c]) /\ told[owner[c]] = "ok"
      BY <3>1 DEF Links, CallsLinked
    <3>3. owner[c] \notin S
      BY <1>7, <3>2
    <3> QED
      BY <1>1, <1>6, <2>1, <3>2, <3>3
  <2> QED
    BY <2>2, <2>3, <2>4
<1>9. CallsLinked'
  <2>1. \A c \in Tools : pc'[c] \in InFlight => c \in receipts'
    BY <1>1 DEF Links, CallsLinked, InFlight
  <2>2. \A c \in Tools : pc'[c] \in Unbound => owner'[c] = c
    BY <1>1 DEF Links, CallsLinked, Unbound
  <2>3. \A c \in receipts' : pc'[c] \in InFlight \cup {"done"} /\ owner'[c] = c /\ told'[c] # "error"
    BY <1>1, <1>6 DEF Links, CallsLinked, CallsTyped
  <2>4. \A c \in Tools : pc'[c] = "join" \/ told'[c] = "ok" => owner'[c] \in receipts' /\ Same(c, owner[c])'
    <3>1. \A c \in Tools : pc'[c] = "join" \/ told'[c] = "ok" =>
            owner[c] \in receipts' /\ Same(c, owner[c]) /\ pc[c] # "idle"
      BY <1>1, <1>4, <1>6, <1>8 DEF Links, CallsLinked, CallsTyped, Unbound
    <3>2. \A c \in receipts : c \in Tools /\ pc[c] # "idle"
      BY DEF Links, CallsLinked, CallsTyped, InFlight
    <3> QED
      BY <1>1, <3>1, <3>2 DEF Steady, Same, Op, World
  <2>5. \A c \in Tools : pc'[c] = "join" => pc'[owner'[c]] # "done"
    BY <1>1, <1>6 DEF Links, CallsLinked, CallsTyped
  <2>6. \A c \in Tools : told'[c] = "ok" => told'[owner'[c]] = "ok"
    BY <1>1, <1>8
  <2> QED
    BY <2>1, <2>2, <2>3, <2>4, <2>5, <2>6 DEF CallsLinked
<1>10. ReceiptsDiffer'
  BY <1>1 DEF Links, ReceiptsDiffer, CallsLinked, CallsTyped, Steady, Twice, Op, StoreOf, Unbound, InFlight
<1>11. Frame({}, {c \in DOMAIN F : F[c] = "ok"})
  <2>1. \A c \in Tools : /\ pc'[c] = "idle" => pc[c] = "idle"
                         /\ pc[c] \notin Unbound => pc'[c] \notin Unbound
                         /\ pc'[c] \in {pc[c], "done"}
                         /\ told[c] # "none" => told'[c] = told[c]
    BY <1>1, <1>3, <1>7 DEF Unbound, Links, CallsTyped
  <2>2. \A c \in receipts' : told'[c] = "ok" => told[c] = "ok" \/ (c \in S /\ F[c] = "ok")
    BY <1>1, <1>6 DEF Links, CallsTyped
  <2>3. receipts' \subseteq receipts
    BY <1>1
  <2> QED
    BY <2>1, <2>2, <2>3 DEF Frame, S
<1>12. \A c \in receipts : told'[c] = IF c \in S THEN F[c] ELSE told[c]
  BY <1>1, <1>6 DEF Links, CallsTyped
<1>13. Links'
  BY <1>5, <1>9, <1>10 DEF Links
<1> QED
  BY <1>1, <1>11, <1>12, <1>13 DEF S, Ends

(* A call goes on.                                                         *)
LEMMA MoveLinks ==
  ASSUME Links, Steady, NEW c \in Tools, NEW p,
         \/ pc[c] \in Unbound /\ p \in Unbound \ {"idle"}
         \/ pc[c] \in InFlight /\ p \in InFlight,
         pc' = [pc EXCEPT ![c] = p], UNCHANGED <<receipts, owner, told>>
  PROVE  Links' /\ Frame({c}, {})
<1>1. /\ pc' \in [Tools -> Pcs] /\ pc'[c] = p /\ \A d \in Tools : d # c => pc'[d] = pc[d]
      /\ pc[c] # "done" /\ p # "done"
  BY DEF Links, CallsTyped, Pcs, Unbound, InFlight
<1>2. CallsTyped'
  BY <1>1 DEF Links, CallsTyped
<1>3. CallsLinked'
  <2>1. \A d \in Tools : pc'[d] \in InFlight => d \in receipts
    BY <1>1 DEF Links, CallsLinked, InFlight, Unbound
  <2>2. \A d \in Tools : pc'[d] \in Unbound => owner[d] = d
    BY <1>1 DEF Links, CallsLinked, InFlight, Unbound
  <2>3. \A d \in receipts : pc'[d] \in InFlight \cup {"done"}
    BY <1>1 DEF Links, CallsLinked, CallsTyped, InFlight, Unbound
  <2>4. \A d \in Tools : pc'[d] = "join" \/ told[d] = "ok" => owner[d] \in receipts /\ Same(d, owner[d])'
    <3>1. \A d \in Tools : pc'[d] = "join" \/ told[d] = "ok" => Same(d, owner[d]) /\ owner[d] \in receipts /\ pc[d] # "idle"
      BY <1>1 DEF Links, CallsLinked, CallsTyped, InFlight, Unbound
    <3>2. \A d \in receipts : d \in Tools /\ pc[d] # "idle"
      BY DEF Links, CallsLinked, CallsTyped, InFlight
    <3> QED
      BY <3>1, <3>2 DEF Steady, Same, Op, World
  <2>5. \A d \in Tools : pc'[d] = "join" => pc'[owner[d]] # "done"
    BY <1>1 DEF Links, CallsLinked, CallsTyped, InFlight, Unbound
  <2> QED
    BY <2>1, <2>2, <2>3, <2>4, <2>5 DEF CallsLinked, Links
<1>4. ReceiptsDiffer'
  BY DEF Links, ReceiptsDiffer, CallsLinked, CallsTyped, Steady, Twice, Op, StoreOf, Unbound, InFlight
<1>5. Frame({c}, {})
  <2>1. \A d \in Tools : /\ pc'[d] = "idle" => pc[d] = "idle"
                         /\ pc[d] \notin Unbound => pc'[d] \notin Unbound
                         /\ pc'[d] \in {pc[d], "done"} \/ d \in {c}
    BY <1>1 DEF Unbound, InFlight
  <2>2. /\ \A d \in Tools : told[d] # "none" => told'[d] = told[d]
        /\ receipts' = receipts /\ \A d \in receipts' : told'[d] = "ok" => told[d] = "ok"
    OBVIOUS
  <2> QED
    BY <2>1, <2>2 DEF Frame
<1> QED
  BY <1>2, <1>3, <1>4, <1>5 DEF Links

(* A retry asks for what the call of the receipt does, and waits for it or *)
(* has its verdict at once.                                                *)
LEMMA RetryLinks ==
  ASSUME Links, Steady, RequestsFit, HandlesFit, DOMAIN ledger \subseteq receipts, ledger' = ledger,
         NEW c \in Tools, pc[c] \in Unbound, Fits(c)', Retry(c, req'[c], handle'[c]),
         NeedsHandle(req'[c]) => req'[handle'[c]].world = req'[c].world
  PROVE  /\ Links' /\ Frame({}, {}) /\ UNCHANGED quotaVars
         /\ \A d \in Tools : d # c => pc'[d] = pc[d] /\ told'[d] = told[d]
         /\ pc'[c] \in {"join", "done"} /\ c \notin receipts
<1>1. PICK o \in Bound(req'[c], handle'[c]) :
        /\ LET v == IF req[o].arg = req'[c].arg THEN told[o] ELSE "error"
           IN  /\ told' = [told EXCEPT ![c] = v]
               /\ pc' = [pc EXCEPT ![c] = IF v = "none" THEN "join" ELSE "done"]
               /\ owner' = [owner EXCEPT ![c] = IF req[o].arg = req'[c].arg THEN o ELSE c]
        /\ UNCHANGED quotaVars
  BY DEF Retry
<1> DEFINE same == req[o].arg = req'[c].arg
           v == IF same THEN told[o] ELSE "error"
<1>2. /\ o \in receipts /\ Op(o) = req'[c].op
      /\ StoreOf(Op(o), handle[o]) = StoreOf(Op(o), handle'[c])
  BY DEF Bound
<1>3. /\ o \in Tools /\ pc[o] \in InFlight \cup {"done"} /\ pc[o] \notin Unbound /\ pc[o] # "idle"
      /\ told[o] # "error" /\ owner[o] = o /\ c \notin receipts /\ o # c
      /\ pc[c] # "done" /\ told[c] = "none" /\ owner[c] = c
  BY <1>2 DEF Links, CallsLinked, CallsTyped, InFlight, Unbound
<1>4. receipts' = receipts /\ req'[o] = req[o] /\ handle'[o] = handle[o]
  BY <1>1, <1>3 DEF quotaVars, Steady
<1>5. /\ told' \in [Tools -> Verdicts \cup {"none"}] /\ told'[c] = v /\ \A d \in Tools : d # c => told'[d] = told[d]
      /\ pc' \in [Tools -> Pcs] /\ pc'[c] = (IF v = "none" THEN "join" ELSE "done")
      /\ \A d \in Tools : d # c => pc'[d] = pc[d]
      /\ owner' \in [Tools -> Tools] /\ owner'[c] = (IF same THEN o ELSE c)
      /\ \A d \in Tools : d # c => owner'[d] = owner[d]
  BY <1>1, <1>3 DEF Links, CallsTyped, Pcs, Verdicts
<1>6. ASSUME same PROVE Same(c, o)'
  <2>1. Fits(o) /\ Handled(o)
    BY <1>2, <1>3 DEF RequestsFit, HandlesFit
  <2>2. CASE Op(o) = "create"
    BY <1>2, <1>4, <1>6, <2>2 DEF Same, Op
  <2>3. CASE Op(o) = "estimate"
    BY <1>2, <1>4, <1>6, <2>1, <2>3 DEF Same, Fits, Op, World
  <2>4. CASE Op(o) \in {"submit", "review"}
    <3>1. \A x \in DOMAIN ledger : x \in Tools /\ req'[x] = req[x]
      BY DEF Links, CallsTyped, CallsLinked, Steady, InFlight
    <3> QED
      BY <1>2, <1>4, <1>6, <2>1, <2>4, <3>1 DEF Same, Fits, Op, World
  <2>5. CASE Op(o) \notin {"create", "estimate", "submit", "review"}
    <3>1. handle[o] = handle'[c]
      BY <1>2, <2>5 DEF StoreOf
    <3>2. HandleOf(handle[o], World(o)) /\ NeedsHandle(req'[c])
      BY <1>2, <2>1, <2>5 DEF Handled, NeedsHandle, Op
    <3>3. handle[o] \in Tools /\ req'[handle[o]] = req[handle[o]] /\ World(handle[o]) = World(o)
      BY <3>2 DEF HandleOf, Steady, Unbound
    <3>4. req'[handle'[c]].world = req'[c].world
      BY <3>2
    <3> QED
      BY <1>2, <1>4, <1>6, <3>1, <3>3, <3>4 DEF Same, Op, World
  <2> QED
    BY <2>2, <2>3, <2>4, <2>5
<1> HIDE DEF same, v
<1>7. v = (IF same THEN told[o] ELSE "error")
  BY DEF v, same
<1>8. CallsTyped'
  BY <1>4, <1>5, <1>7 DEF Links, CallsTyped
<1>9. CallsLinked'
  <2>1. \A d \in Tools : pc'[d] \in InFlight => d \in receipts
    BY <1>5 DEF Links, CallsLinked, InFlight
  <2>2. \A d \in Tools : pc'[d] \in Unbound => owner'[d] = d
    BY <1>5 DEF Links, CallsLinked, Unbound
  <2>3. \A d \in receipts : pc'[d] \in InFlight \cup {"done"} /\ owner'[d] = d /\ told'[d] # "error" /\ d # c
    BY <1>3, <1>5 DEF Links, CallsLinked, CallsTyped
  <2>4. ASSUME NEW d \in Tools, pc'[d] = "join" \/ told'[d] = "ok"
        PROVE  /\ owner'[d] \in receipts /\ Same(d, owner[d])'
               /\ pc'[d] = "join" => pc'[owner'[d]] # "done"
               /\ told'[d] = "ok" => told'[owner'[d]] = "ok"
    <3>1. CASE d = c
      <4>1. same /\ owner'[c] = o
        BY <1>3, <1>5, <1>7, <2>4, <3>1
      <4>2. (pc'[c] = "join" <=> told[o] = "none") /\ (told'[c] = "ok" <=> told[o] = "ok")
        BY <1>5, <1>7, <4>1
      <4>3. pc'[o] = pc[o] /\ told'[o] = told[o] /\ (told[o] = "none" <=> pc[o] # "done")
        BY <1>3, <1>5 DEF Links, CallsTyped
      <4>4. Same(d, owner[d])'
        BY <1>6, <3>1, <4>1 DEF Same, Op, World
      <4> QED
        BY <1>2, <3>1, <4>1, <4>2, <4>3, <4>4
    <3>2. CASE d # c
      <4>1. pc'[d] = pc[d] /\ told'[d] = told[d] /\ owner'[d] = owner[d]
        BY <1>5, <3>2
      <4>2. /\ owner[d] \in receipts /\ Same(d, owner[d]) /\ pc[d] # "idle"
            /\ pc[d] = "join" => pc[owner[d]] # "done"
            /\ told[d] = "ok" => told[owner[d]] = "ok"
        BY <2>4, <4>1 DEF Links, CallsLinked, CallsTyped
      <4>3. owner[d] \in Tools /\ owner[d] # c /\ pc[owner[d]] # "idle"
        BY <1>3, <4>2 DEF Links, CallsLinked, CallsTyped, InFlight
      <4>4. pc'[owner[d]] = pc[owner[d]] /\ told'[owner[d]] = told[owner[d]]
        BY <1>5, <4>3
      <4>5. req'[d] = req[d] /\ req'[owner[d]] = req[owner[d]]
        BY <4>2, <4>3 DEF Steady
      <4>6. Same(d, owner[d])'
        BY <4>1, <4>2, <4>5 DEF Same, Op, World
      <4> QED
        BY <4>1, <4>2, <4>4, <4>6
    <3> QED
      BY <3>1, <3>2
  <2> QED
    BY <1>4, <2>1, <2>2, <2>3, <2>4 DEF CallsLinked
<1>10. ReceiptsDiffer'
  BY <1>4 DEF Links, ReceiptsDiffer, CallsLinked, CallsTyped, Steady, Twice, Op, StoreOf, Unbound, InFlight
<1>11. Frame({}, {})
  <2>1. \A d \in Tools : /\ pc'[d] = "idle" => pc[d] = "idle"
                         /\ pc[d] \notin Unbound => pc'[d] \notin Unbound
                         /\ pc'[d] \in {pc[d], "done"} \/ (pc[d] \in Unbound /\ pc'[d] = "join")
                         /\ told[d] # "none" => told'[d] = told[d]
    BY <1>3, <1>5 DEF Unbound
  <2>2. \A d \in receipts' : told'[d] = "ok" => told[d] = "ok"
    BY <1>3, <1>4, <1>5 DEF Links, CallsTyped
  <2> QED
    BY <1>4, <2>1, <2>2 DEF Frame
<1> QED
  BY <1>1, <1>3, <1>5, <1>8, <1>9, <1>10, <1>11 DEF Links

(* A new receipt is the only one of its store for its request id.          *)
LEMMA TakeLinks ==
  ASSUME Links, Steady, NEW c \in Tools, pc[c] \in Unbound, NEW p \in {"pre", "mutate"},
         Bound(req'[c], handle'[c]) = {}, receipts' = receipts \cup {c},
         pc' = [pc EXCEPT ![c] = p], UNCHANGED <<owner, told>>
  PROVE  Links' /\ Frame({c}, {}) /\ c \notin receipts
<1>1. /\ pc' \in [Tools -> Pcs] /\ pc'[c] = p /\ \A d \in Tools : d # c => pc'[d] = pc[d]
      /\ pc[c] # "done" /\ owner[c] = c /\ told[c] = "none" /\ c \notin receipts
  BY DEF Links, CallsTyped, CallsLinked, Pcs, Unbound, InFlight
<1>2. CallsTyped'
  BY <1>1 DEF Links, CallsTyped
<1>3. \A d \in receipts : d \in Tools /\ d # c /\ req'[d] = req[d] /\ handle'[d] = handle[d]
  BY <1>1 DEF Links, CallsTyped, CallsLinked, Steady, Unbound, InFlight
<1>4. CallsLinked'
  <2>1. \A d \in Tools : pc'[d] \in InFlight => d \in receipts'
    BY <1>1 DEF Links, CallsLinked
  <2>2. \A d \in Tools : pc'[d] \in Unbound => owner[d] = d
    BY <1>1 DEF Links, CallsLinked, Unbound
  <2>3. \A d \in receipts' : pc'[d] \in InFlight \cup {"done"} /\ owner[d] = d /\ told[d] # "error"
    BY <1>1 DEF Links, CallsLinked, CallsTyped, InFlight
  <2>4. ASSUME NEW d \in Tools, pc'[d] = "join" \/ told[d] = "ok"
        PROVE  /\ owner[d] \in receipts' /\ Same(d, owner[d])'
               /\ pc'[d] = "join" => pc'[owner[d]] # "done"
    <3>1. d # c /\ pc'[d] = pc[d]
      BY <1>1, <2>4
    <3>2. owner[d] \in receipts /\ Same(d, owner[d]) /\ (pc[d] = "join" => pc[owner[d]] # "done")
      BY <2>4, <3>1 DEF Links, CallsLinked
    <3>3. req'[d] = req[d] /\ req'[owner[d]] = req[owner[d]] /\ pc'[owner[d]] = pc[owner[d]]
      BY <1>1, <1>3, <2>4, <3>1, <3>2 DEF Steady, Links, CallsTyped
    <3> QED
      BY <3>1, <3>2, <3>3 DEF Same, Op, World
  <2>5. \A d \in Tools : told[d] = "ok" => told[owner[d]] = "ok"
    BY DEF Links, CallsLinked
  <2> QED
    BY <2>1, <2>2, <2>3, <2>4, <2>5 DEF CallsLinked
<1>5. ReceiptsDiffer'
  <2>1. ASSUME NEW d \in receipts, Op(d) = req'[c].op, req[d].id = req'[c].id
        PROVE  StoreOf(Op(d), handle[d]) # StoreOf(req'[c].op, handle'[c])
    BY <2>1 DEF Bound
  <2> QED
    BY <1>3, <2>1 DEF Links, ReceiptsDiffer, Twice, Op
<1>6. Frame({c}, {})
  <2>1. \A d \in Tools : /\ pc'[d] = "idle" => pc[d] = "idle"
                         /\ pc[d] \notin Unbound => pc'[d] \notin Unbound
                         /\ pc'[d] \in {pc[d], "done"} \/ d \in {c}
    BY <1>1 DEF Unbound
  <2>2. receipts' \subseteq receipts \cup {c} /\ \A d \in receipts' : told'[d] = "ok" => told[d] = "ok"
    OBVIOUS
  <2> QED
    BY <2>1, <2>2 DEF Frame
<1> QED
  BY <1>1, <1>2, <1>4, <1>5, <1>6 DEF Links

(* What a call asks for stays fitting while worlds, handles and estimates  *)
(* are only added.                                                         *)
Grows ==
  /\ DOMAIN head \subseteq DOMAIN head' /\ DOMAIN worlds \subseteq DOMAIN worlds'
  /\ DOMAIN ledger \subseteq DOMAIN ledger'

(* A call keeps fitting when worlds, handles and estimates only grow.      *)
LEMMA RequestsKept ==
  ASSUME RequestsFit, Steady, Grows, DOMAIN ledger \subseteq {d \in Tools : pc[d] # "idle"},
         \A d \in Tools : (pc'[d] = "idle" => pc[d] = "idle") /\ (pc[d] = "idle" => pc'[d] = "idle" \/ Fits(d)')
  PROVE  RequestsFit' /\ \A d \in Tools : pc[d] # "idle" => Fits(d)'
<1>1. ASSUME NEW d \in Tools, pc[d] # "idle" PROVE Fits(d)'
  <2>1. req'[d] = req[d] /\ Fits(d)
    BY <1>1 DEF Steady, RequestsFit
  <2>2. \A x \in DOMAIN ledger : req'[x] = req[x]
    BY DEF Steady
  <2>3. Asked(req[d])'
    BY <2>1 DEF Fits, Asked
  <2> QED
    BY <2>1, <2>2, <2>3 DEF Fits, Grows, Op, World
<1> QED
  BY <1>1 DEF RequestsFit

-----------------------------------------------------------------------------
(* Counting reservations.                                                  *)

(* Every set of calls is finite.                                           *)
LEMMA CallsFinite == \A S : S \subseteq Tools => IsFiniteSet(S) /\ Cardinality(S) \in Nat
<1>1. IsFiniteSet(Tools)
  <2>1. MaxCalls \in Int /\ 1 \in Int
    BY ServiceAssumption
  <2> QED
    BY <2>1, FS_Interval DEF Tools
<1> QED
  BY <1>1, FS_Subset, FS_CardinalityType

(* What is taken out of a set of calls, or joined to it, is counted.       *)
LEMMA CountWithout ==
  ASSUME NEW A, A \subseteq Tools, NEW B, B \subseteq A
  PROVE  Cardinality(A \ B) = Cardinality(A) - Cardinality(B)
<1>1. A \cap B = B
  OBVIOUS
<1> QED
  BY <1>1, CallsFinite, FS_Difference

(* Two sets of calls that share none count what they count together.       *)
LEMMA CountBoth ==
  ASSUME NEW A, A \subseteq Tools, NEW B, B \subseteq Tools, A \cap B = {}
  PROVE  Cardinality(A \cup B) = Cardinality(A) + Cardinality(B)
<1>1. Cardinality({}) = 0
  BY FS_EmptySet
<1>2. Cardinality(A) \in Nat /\ Cardinality(B) \in Nat /\ IsFiniteSet(A) /\ IsFiniteSet(B)
  BY CallsFinite
<1>3. Cardinality(A \cup B) = Cardinality(A) + Cardinality(B) - Cardinality(A \cap B)
  BY <1>2, FS_Union
<1>4. Cardinality(A \cap B) = 0
  BY <1>1
<1> QED
  BY <1>2, <1>3, <1>4

(* A set that got at most one element counts at most one more.             *)
LEMMA OneMore ==
  ASSUME NEW A, IsFiniteSet(A), NEW B, A \subseteq B, NEW x, B \subseteq A \cup {x}
  PROVE  /\ IsFiniteSet(B) /\ Cardinality(A) \in Nat /\ Cardinality(B) \in Nat
         /\ Cardinality(B) <= Cardinality(A) + 1 /\ (B \subseteq A => Cardinality(B) = Cardinality(A))
<1>1. Cardinality(A) \in Nat
  BY FS_CardinalityType
<1>2. CASE B = A
  BY <1>1, <1>2
<1>3. CASE x \notin A /\ B = A \cup {x}
  <2>1. IsFiniteSet(B) /\ Cardinality(B) = Cardinality(A) + 1
    BY <1>3, FS_AddElement
  <2> QED
    BY <1>1, <1>3, <2>1
<1> QED
  BY <1>2, <1>3

(* Calls that end release what they reserved, and no other call does.      *)
LEMMA SettleCounts ==
  ASSUME Links, Counts, Steady, NEW F, Endable(F), Settle(F)
  PROVE  /\ Counts'
         /\ pendingWorlds' <= pendingWorlds /\ \A c \in Making \cap DOMAIN F : pendingWorlds' < pendingWorlds
         /\ \A h \in Tools : /\ rolling'[h] <= rolling[h]
                             /\ \A c \in RollingOn(h) \cap DOMAIN F : rolling'[h] < rolling[h]
<1> DEFINE S    == DOMAIN F
           Ok   == {c \in receipts : told[c] = "ok"}
           Rest == {c \in receipts : told[c] # "ok"}
           Made == {c \in S \cap receipts : F[c] = "ok"}
           Lost == Forgotten(F)
<1>1. /\ \A c \in Tools : pc'[c] = IF c \in S \cup Waiters(F) THEN "done" ELSE pc[c]
      /\ \A c \in receipts : told'[c] = IF c \in S THEN F[c] ELSE told[c]
  BY SettleLinks
<1>2. /\ receipts \subseteq Tools /\ S \subseteq Tools
      /\ \A c \in receipts : c \notin Waiters(F) /\ req'[c] = req[c] /\ handle'[c] = handle[c]
      /\ \A c \in S : told[c] = "none" /\ pc[c] # "done"
  BY DEF Links, CallsTyped, CallsLinked, Waiters, Steady, Endable, InFlight, Unbound
<1>3. receipts' = receipts \ Lost
  BY DEF Settle
<1>4. /\ Lost = {c \in receipts : c \in S /\ F[c] = "error"}
      /\ Lost \subseteq Rest /\ Made \subseteq Rest /\ Lost \cap Made = {} /\ Ok \cap Made = {}
      /\ Ok \subseteq Tools /\ Rest \subseteq Tools
  BY <1>2 DEF Forgotten
<1>5. {c \in receipts' : told'[c] = "ok"} = Ok \cup Made /\ {c \in receipts' : told'[c] # "ok"} = Rest \ (Lost \cup Made)
  BY <1>1, <1>2, <1>3, <1>4
<1>6. receiptBytes' = Reserved * Cardinality({c \in receipts' : told'[c] # "ok"})
                      + Retained * Cardinality({c \in receipts' : told'[c] = "ok"})
  <2>1. receiptBytes' = receiptBytes - Reserved * Cardinality(Lost) - (Reserved - Retained) * Cardinality(Made)
    BY DEF Settle
  <2>2. receiptBytes = Reserved * Cardinality(Rest) + Retained * Cardinality(Ok)
    BY DEF Counts
  <2> HIDE DEF Ok, Rest, Made, Lost
  <2>3. Cardinality(Ok \cup Made) = Cardinality(Ok) + Cardinality(Made)
    BY <1>4, CountBoth
  <2>4. Cardinality(Rest \ (Lost \cup Made)) = Cardinality(Rest) - Cardinality(Lost \cup Made)
    BY <1>4, CountWithout
  <2>5. Cardinality(Lost \cup Made) = Cardinality(Lost) + Cardinality(Made)
    BY <1>4, CountBoth
  <2>6. Cardinality(Ok) \in Nat /\ Cardinality(Rest) \in Nat /\ Cardinality(Made) \in Nat /\ Cardinality(Lost) \in Nat
    BY <1>4, CallsFinite
  <2>7. receiptBytes' = Reserved * Cardinality(Rest \ (Lost \cup Made)) + Retained * Cardinality(Ok \cup Made)
    BY <2>1, <2>2, <2>3, <2>4, <2>5, <2>6 DEF Reserved, Retained
  <2> QED
    BY <1>5, <2>7
<1>7. /\ pendingWorlds' = Cardinality(Making') /\ pendingWorlds' <= pendingWorlds
      /\ \A c \in Making \cap S : pendingWorlds' < pendingWorlds
  <2> DEFINE Out == Making \cap S
  <2>1. Out = {c \in Releasing(S) : Op(c) = "create"} /\ Out \subseteq Making /\ Making \subseteq Tools
    BY <1>2 DEF Making, Releasing
  <2>2. Making' = Making \ Out
    BY <1>1, <1>2, <1>3, <1>4 DEF Making, Op
  <2>3. pendingWorlds' = pendingWorlds - Cardinality(Out) /\ pendingWorlds = Cardinality(Making)
    BY <2>1 DEF Settle, Counts
  <2>4. Cardinality(Making \ Out) = Cardinality(Making) - Cardinality(Out)
    BY <2>1, CountWithout
  <2>5. Cardinality(Out) \in Nat /\ Cardinality(Making) \in Nat /\ (Cardinality(Out) = 0 => Out = {})
    BY <2>1, CallsFinite, FS_EmptySet
  <2> QED
    BY <2>2, <2>3, <2>4, <2>5
<1>8. rolling' \in [Tools -> Nat]
      /\ \A h \in Tools : /\ rolling'[h] = Cardinality(RollingOn(h)') /\ rolling'[h] <= rolling[h]
                          /\ \A c \in RollingOn(h) \cap S : rolling'[h] < rolling[h]
  <2>1. rolling' = [h \in Tools |-> rolling[h] - Cardinality({c \in Releasing(S) : Op(c) \in Rolling /\ handle[c] = h})]
    BY DEF Settle
  <2>2. ASSUME NEW h \in Tools
        PROVE  /\ rolling'[h] \in Nat /\ rolling'[h] = Cardinality(RollingOn(h)') /\ rolling'[h] <= rolling[h]
               /\ \A c \in RollingOn(h) \cap S : rolling'[h] < rolling[h]
    <3> DEFINE Out == RollingOn(h) \cap S
    <3>1. /\ Out = {c \in Releasing(S) : Op(c) \in Rolling /\ handle[c] = h}
          /\ Out \subseteq RollingOn(h) /\ RollingOn(h) \subseteq Tools
      BY <1>2 DEF RollingOn, Releasing
    <3>2. RollingOn(h)' = RollingOn(h) \ Out
      BY <1>1, <1>2, <1>3, <1>4 DEF RollingOn, Op
    <3>3. rolling'[h] = rolling[h] - Cardinality(Out) /\ rolling[h] = Cardinality(RollingOn(h))
      BY <2>1, <3>1 DEF Counts
    <3>4. Cardinality(RollingOn(h) \ Out) = Cardinality(RollingOn(h)) - Cardinality(Out)
      BY <3>1, CountWithout
    <3>5. /\ Cardinality(Out) \in Nat /\ Cardinality(RollingOn(h)) \in Nat /\ (Cardinality(Out) = 0 => Out = {})
          /\ Cardinality(RollingOn(h) \ Out) \in Nat
      BY <3>1, CallsFinite, FS_EmptySet
    <3> QED
      BY <3>2, <3>3, <3>4, <3>5
  <2> QED
    BY <2>1, <2>2
<1> QED
  BY <1>6, <1>7, <1>8 DEF Counts

(* A verdict of one call.                                                  *)
LEMMA VerdictCalls ==
  ASSUME Links, Counts, Steady, NEW c \in Tools, NEW v \in Verdicts,
         pc[c] \in InFlight \/ (pc[c] \in Unbound /\ v = "error"), Verdict(c, v)
  PROVE  /\ Links' /\ Counts' /\ Frame({}, IF v = "ok" THEN {c} ELSE {})
         /\ pc'[c] = "done" /\ \A d \in Tools : d # c => pc'[d] = pc[d] \/ (pc[d] = "join" /\ pc'[d] = "done")
         /\ c \in receipts => told'[c] = v
         /\ receipts' = IF v = "error" THEN receipts \ {c} ELSE receipts
         /\ pendingWorlds' <= pendingWorlds /\ (c \in Making => pendingWorlds' < pendingWorlds)
         /\ \A h \in Tools : rolling'[h] <= rolling[h] /\ (c \in RollingOn(h) => rolling'[h] < rolling[h])
<1> DEFINE F == [d \in {c} |-> v]
<1>1. /\ DOMAIN F = {c} /\ F[c] = v /\ F \in [DOMAIN F -> Verdicts] /\ Settle(F)
      /\ {d \in DOMAIN F : F[d] = "ok"} = IF v = "ok" THEN {c} ELSE {}
      /\ Forgotten(F) = IF v = "error" THEN {c} \cap receipts ELSE {}
      /\ \A d \in Waiters(F) : pc[d] = "join"
  BY DEF Verdict, Forgotten, Waiters
<1>2. Endable(F)
  BY <1>1 DEF Endable
<1> HIDE DEF F
<1>3. /\ Links' /\ Frame({}, IF v = "ok" THEN {c} ELSE {})
      /\ \A d \in Tools : pc'[d] = IF d \in {c} \cup Waiters(F) THEN "done" ELSE pc[d]
      /\ \A d \in receipts : told'[d] = IF d \in {c} THEN v ELSE told[d]
  <2>1. /\ Links' /\ Frame({}, {d \in DOMAIN F : F[d] = "ok"})
        /\ \A d \in Tools : pc'[d] = IF d \in DOMAIN F \cup Waiters(F) THEN "done" ELSE pc[d]
        /\ \A d \in receipts : told'[d] = IF d \in DOMAIN F THEN F[d] ELSE told[d]
    BY <1>1, <1>2, SettleLinks
  <2> QED
    BY <1>1, <2>1
<1>4. /\ Counts' /\ pendingWorlds' <= pendingWorlds /\ (c \in Making => pendingWorlds' < pendingWorlds)
      /\ \A h \in Tools : rolling'[h] <= rolling[h] /\ (c \in RollingOn(h) => rolling'[h] < rolling[h])
  BY <1>1, <1>2, SettleCounts
<1>5. receipts' = IF v = "error" THEN receipts \ {c} ELSE receipts
  BY <1>1 DEF Settle
<1> QED
  BY <1>1, <1>3, <1>4, <1>5

(* What leaves the receipts and their calls alone leaves the counts.       *)
LEMMA KeepCounts ==
  ASSUME Links, Counts, Steady, UNCHANGED quotaVars,
         \A c \in receipts : told'[c] = told[c] /\ (pc'[c] = "done" <=> pc[c] = "done")
  PROVE  Counts'
<1>1. \A c \in receipts : req'[c] = req[c] /\ handle'[c] = handle[c]
  BY DEF Links, CallsTyped, CallsLinked, Steady, InFlight, Unbound
<1>2. Making' = Making /\ \A h \in Tools : RollingOn(h)' = RollingOn(h)
  BY <1>1 DEF Making, RollingOn, Op, quotaVars
<1>3. /\ {c \in receipts' : told'[c] = "ok"} = {c \in receipts : told[c] = "ok"}
      /\ {c \in receipts' : told'[c] # "ok"} = {c \in receipts : told[c] # "ok"}
  BY DEF quotaVars
<1> QED
  BY <1>2, <1>3 DEF Counts, quotaVars

(* A receipt is taken with what its call reserves.                         *)
LEMMA TakeCounts ==
  ASSUME Links, Counts, Steady, NEW c \in Tools, c \notin receipts, told'[c] # "ok", pc'[c] # "done",
         \A d \in Tools : d # c => told'[d] = told[d] /\ pc'[d] = pc[d],
         receipts' = receipts \cup {c}, receiptBytes' = receiptBytes + Reserved,
         pendingWorlds' = IF req'[c].op = "create" THEN pendingWorlds + 1 ELSE pendingWorlds,
         rolling' = IF req'[c].op \in Rolling THEN [rolling EXCEPT ![handle'[c]] = @ + 1] ELSE rolling
  PROVE  Counts'
<1>1. receipts \subseteq Tools /\ \A d \in receipts : req'[d] = req[d] /\ handle'[d] = handle[d] /\ d # c
  BY DEF Links, CallsTyped, CallsLinked, Steady, InFlight, Unbound
<1>2. \A S : S \subseteq receipts => Cardinality(S \cup {c}) = Cardinality(S) + 1 /\ Cardinality(S) \in Nat
  BY <1>1, CallsFinite, FS_AddElement
<1>3. receiptBytes' = Reserved * Cardinality({d \in receipts' : told'[d] # "ok"})
                      + Retained * Cardinality({d \in receipts' : told'[d] = "ok"})
  <2> DEFINE Ok   == {d \in receipts : told[d] = "ok"}
             Rest == {d \in receipts : told[d] # "ok"}
  <2>1. {d \in receipts' : told'[d] = "ok"} = Ok /\ {d \in receipts' : told'[d] # "ok"} = Rest \cup {c}
    BY <1>1
  <2>2. Ok \subseteq receipts /\ Rest \subseteq receipts
    OBVIOUS
  <2>3. receiptBytes = Reserved * Cardinality(Rest) + Retained * Cardinality(Ok)
    BY DEF Counts
  <2> HIDE DEF Ok, Rest
  <2>4. Cardinality(Rest \cup {c}) = Cardinality(Rest) + 1 /\ Cardinality(Rest) \in Nat /\ Cardinality(Ok) \in Nat
    BY <1>2, <2>2
  <2>5. receiptBytes' = Reserved * Cardinality(Rest \cup {c}) + Retained * Cardinality(Ok)
    BY <2>3, <2>4 DEF Reserved, Retained
  <2> QED
    BY <2>1, <2>5
<1>4. pendingWorlds' = Cardinality(Making')
  <2>1. Making \subseteq receipts /\ pendingWorlds = Cardinality(Making)
    BY DEF Making, Counts
  <2>2. CASE req'[c].op = "create"
    <3>1. Making' = Making \cup {c}
      BY <1>1, <2>2 DEF Making, Op
    <3> QED
      BY <1>2, <2>1, <2>2, <3>1
  <2>3. CASE req'[c].op # "create"
    <3>1. Making' = Making
      BY <1>1, <2>3 DEF Making, Op
    <3> QED
      BY <2>1, <2>3, <3>1
  <2> QED
    BY <2>2, <2>3
<1>5. rolling' \in [Tools -> Nat] /\ \A h \in Tools : rolling'[h] = Cardinality(RollingOn(h)')
  <2>1. rolling' \in [Tools -> Nat]
    <3>1. rolling \in [Tools -> Nat]
      BY DEF Counts
    <3>2. ASSUME NEW k PROVE [rolling EXCEPT ![k] = rolling[k] + 1] \in [Tools -> Nat]
      <4> DEFINE f == [rolling EXCEPT ![k] = rolling[k] + 1]
      <4>1. f = [h \in Tools |-> f[h]]
        BY <3>1
      <4>2. \A h \in Tools : rolling[h] \in Nat /\ f[h] = IF h = k THEN rolling[k] + 1 ELSE rolling[h]
        BY <3>1
      <4> HIDE DEF f
      <4>3. \A h \in Tools : f[h] \in Nat
        BY <4>2
      <4> QED
        BY <4>1, <4>3 DEF f
    <3> QED
      BY <3>1, <3>2
  <2>2. ASSUME NEW h \in Tools PROVE rolling'[h] = Cardinality(RollingOn(h)')
    <3>1. RollingOn(h) \subseteq receipts /\ rolling[h] = Cardinality(RollingOn(h)) /\ rolling \in [Tools -> Nat]
      BY DEF RollingOn, Counts
    <3>2. CASE req'[c].op \in Rolling /\ handle'[c] = h
      <4>1. RollingOn(h)' = RollingOn(h) \cup {c}
        BY <1>1, <3>2 DEF RollingOn, Op
      <4> QED
        BY <1>2, <3>1, <3>2, <4>1
    <3>3. CASE ~(req'[c].op \in Rolling /\ handle'[c] = h)
      <4>1. RollingOn(h)' = RollingOn(h)
        BY <1>1, <3>3 DEF RollingOn, Op
      <4> QED
        BY <3>1, <3>3, <4>1
    <3> QED
      BY <3>2, <3>3
  <2> QED
    BY <2>1, <2>2
<1> QED
  BY <1>3, <1>4, <1>5 DEF Counts

-----------------------------------------------------------------------------
(* The calls the engine process holds.                                     *)

(* A new element is added at the end.                                      *)
LEMMA Appended ==
  ASSUME NEW S, NEW s \in Seq(S), NEW e \in S
  PROVE  /\ Append(s, e) \in Seq(S)
         /\ ToSet(Append(s, e)) = ToSet(s) \cup {e}
         /\ IsInjective(s) /\ e \notin ToSet(s) => IsInjective(Append(s, e))
<1>1. Append(s, e) \in Seq(S) /\ Len(Append(s, e)) = Len(s) + 1
  OBVIOUS
<1>2. \A i \in 1..Len(s) + 1 : Append(s, e)[i] = IF i <= Len(s) THEN s[i] ELSE e
  OBVIOUS
<1>3. ToSet(Append(s, e)) = ToSet(s) \cup {e}
  BY <1>1, <1>2 DEF ToSet
<1>4. ASSUME IsInjective(s), e \notin ToSet(s) PROVE IsInjective(Append(s, e))
  BY <1>1, <1>2, <1>4 DEF ToSet, IsInjective
<1> QED
  BY <1>1, <1>3, <1>4

(* The oldest element is taken from the front.                             *)
LEMMA Taken ==
  ASSUME NEW S, NEW s \in Seq(S), s # <<>>
  PROVE  /\ Head(s) \in S /\ Tail(s) \in Seq(S)
         /\ ToSet(s) = {Head(s)} \cup ToSet(Tail(s))
         /\ IsInjective(s) => IsInjective(Tail(s)) /\ Head(s) \notin ToSet(Tail(s))
<1>1. /\ Head(s) \in S /\ Tail(s) \in Seq(S) /\ Len(Tail(s)) = Len(s) - 1
      /\ Head(s) = s[1] /\ Len(s) \in Nat \ {0}
      /\ DOMAIN s = 1..Len(s) /\ DOMAIN Tail(s) = 1..Len(s) - 1
  OBVIOUS
<1>2. \A i \in 1..Len(s) - 1 : Tail(s)[i] = s[i + 1]
  OBVIOUS
<1>3. ToSet(s) = {Head(s)} \cup ToSet(Tail(s))
  <2>1. ASSUME NEW x \in ToSet(s) PROVE x = Head(s) \/ x \in ToSet(Tail(s))
    <3>1. PICK i \in 1..Len(s) : x = s[i]
      BY DEF ToSet
    <3>2. CASE i = 1
      BY <1>1, <3>1, <3>2
    <3>3. CASE i # 1
      <4>1. i - 1 \in 1..Len(s) - 1 /\ Tail(s)[i - 1] = x
        BY <1>1, <1>2, <3>1, <3>3
      <4> QED
        BY <1>1, <4>1 DEF ToSet
    <3> QED
      BY <3>2, <3>3
  <2>2. Head(s) \in ToSet(s)
    BY <1>1 DEF ToSet
  <2>3. ASSUME NEW x \in ToSet(Tail(s)) PROVE x \in ToSet(s)
    BY <1>1, <1>2, <2>3 DEF ToSet
  <2> QED
    BY <2>1, <2>2, <2>3
<1>4. ASSUME IsInjective(s) PROVE IsInjective(Tail(s)) /\ Head(s) \notin ToSet(Tail(s))
  BY <1>1, <1>2, <1>4 DEF ToSet, IsInjective
<1> QED
  BY <1>1, <1>3, <1>4

(* The queue without call c.                                               *)
OthersQueued(c, q) ==
  /\ q \in Seq(Tools) /\ IsInjective(q)
  /\ ToSet(q) = {d \in Tools : d # c /\ pc[d] \in Waiting}

(* A call that has not asked is not in it, the one answered is its first.  *)
LEMMA QueueWithout ==
  ASSUME QueueHolds, NEW c \in Tools
  PROVE  /\ pc[c] \notin Waiting => OthersQueued(c, queue)
         /\ queue # <<>> /\ Head(queue) = c => OthersQueued(c, Tail(queue))
<1>1. queue \in Seq(Tools) /\ IsInjective(queue) /\ ToSet(queue) = {d \in Tools : pc[d] \in Waiting}
  BY DEF QueueHolds
<1>2. ASSUME queue # <<>>, Head(queue) = c PROVE OthersQueued(c, Tail(queue))
  <2>1. /\ Tail(queue) \in Seq(Tools) /\ ToSet(queue) = {c} \cup ToSet(Tail(queue))
        /\ IsInjective(Tail(queue)) /\ c \notin ToSet(Tail(queue))
    BY <1>1, <1>2, Taken
  <2> QED
    BY <1>1, <2>1 DEF OthersQueued
<1>3. ASSUME pc[c] \notin Waiting PROVE OthersQueued(c, queue)
  <2>1. ToSet(queue) = {d \in Tools : d # c /\ pc[d] \in Waiting}
    BY <1>1, <1>3
  <2> QED
    BY <1>1, <2>1 DEF OthersQueued
<1> QED
  BY <1>2, <1>3

(* A call that asks again is the last in it.                               *)
LEMMA QueueNext ==
  ASSUME NEW c \in Tools, NEW q, OthersQueued(c, q),
         \A d \in Tools : d # c => (pc'[d] \in Waiting <=> pc[d] \in Waiting),
         \/ queue' = q /\ pc'[c] \notin Waiting
         \/ queue' = Append(q, c) /\ pc'[c] \in Waiting
  PROVE  QueueHolds'
<1>1. q \in Seq(Tools) /\ IsInjective(q) /\ ToSet(q) = {d \in Tools : d # c /\ pc'[d] \in Waiting} /\ c \notin ToSet(q)
  BY DEF OthersQueued
<1>2. CASE queue' = q /\ pc'[c] \notin Waiting
  <2>1. ToSet(q) = {d \in Tools : pc'[d] \in Waiting}
    BY <1>1, <1>2
  <2> QED
    BY <1>1, <1>2, <2>1 DEF QueueHolds
<1>3. CASE queue' = Append(q, c) /\ pc'[c] \in Waiting
  <2>1. Append(q, c) \in Seq(Tools) /\ IsInjective(Append(q, c)) /\ ToSet(Append(q, c)) = ToSet(q) \cup {c}
    BY <1>1, Appended
  <2>2. ToSet(q) \cup {c} = {d \in Tools : pc'[d] \in Waiting}
    BY <1>1, <1>3
  <2> QED
    BY <1>3, <2>1, <2>2 DEF QueueHolds
<1> QED
  BY <1>2, <1>3

-----------------------------------------------------------------------------
(* Binding a call, in its three outcomes.                                  *)

(* A call that is bound is linked to its receipt or joins that of the      *)
(* first, is counted, and is queued if it asks the engine.                 *)
LEMMA AdmitCalls ==
  ASSUME IInv, NEW c \in Tools, pc[c] \in Unbound, NEW h \in Tools \cup {Own}, NEW q, OthersQueued(c, q),
         req' = [d \in Tools |-> req'[d]], \A d \in Tools : pc[d] # "idle" => req'[d] = req[d],
         Fits(c)', ledger' = ledger,
         NeedsHandle(req'[c]) => h \in Tools /\ req'[h].world = req'[c].world,
         Admit(c, req'[c], h, q)
  PROVE  /\ Links' /\ Counts' /\ QueueHolds' /\ Frame({c}, {}) /\ receipts \subseteq receipts'
         /\ handle'[c] = h /\ \A d \in Tools : d # c => handle'[d] = handle[d]
         /\ \A d \in Tools : d # c => pc'[d] = pc[d] \/ (pc[d] = "join" /\ pc'[d] = "done")
         /\ pc'[c] \in {"join", "done", "pre", "mutate"} /\ (c \in receipts' => pc'[c] \in InFlight)
         /\ pc'[c] = "mutate" => req'[c].op = "roll"
         /\ pc'[c] \in InFlight /\ req'[c].op \in {"reroll", "reject"} => req'[c].arg \in known[h]
         /\ \/ pendingWorlds' <= pendingWorlds
            \/ Cardinality(DOMAIN worlds) + pendingWorlds' <= MaxWorlds
         /\ \A k \in Tools : rolling'[k] <= rolling[k] \/ Cardinality(known[k]) + rolling'[k] <= MaxCandidates
<1>1. Links /\ CallsTyped /\ Counts /\ RequestsFit /\ HandlesFit /\ DOMAIN ledger \subseteq receipts
  BY DEF IInv, Links, ReceiptsKept
<1>2. handle \in [Tools -> Tools \cup {Own}] /\ handle' = [handle EXCEPT ![c] = h]
  BY DEF IInv, Typed, Admit
<1>3. /\ handle' \in [Tools -> Tools \cup {Own}] /\ handle'[c] = h
      /\ \A d \in Tools : d # c => handle'[d] = handle[d]
  BY <1>2
<1>4. Steady
  BY <1>3 DEF Steady
<1>5. /\ pendingWorlds \in Nat /\ rolling \in [Tools -> Nat] /\ c \notin receipts /\ told[c] = "none"
      /\ owner[c] = c /\ pc[c] # "done"
  <2>1. pendingWorlds = Cardinality(Making) /\ rolling \in [Tools -> Nat] /\ Making \subseteq Tools
    BY <1>1 DEF Counts, Making, CallsTyped
  <2>2. pendingWorlds \in Nat
    BY <2>1, CallsFinite
  <2> QED
    BY <1>1, <2>1, <2>2 DEF Links, CallsTyped, CallsLinked, Unbound, InFlight
<1>6. CASE Retry(c, req'[c], h) /\ queue' = q
  <2>1. Retry(c, req'[c], handle'[c]) /\ (NeedsHandle(req'[c]) => req'[handle'[c]].world = req'[c].world)
    BY <1>3, <1>6
  <2>2. /\ Links' /\ Frame({}, {}) /\ UNCHANGED quotaVars
        /\ \A d \in Tools : d # c => pc'[d] = pc[d] /\ told'[d] = told[d]
        /\ pc'[c] \in {"join", "done"}
    BY <1>1, <1>4, <2>1, RetryLinks
  <2>3. Frame({c}, {})
    BY <2>2 DEF Frame
  <2>4. \A d \in receipts : d \in Tools /\ d # c
    BY <1>1, <1>5 DEF CallsTyped
  <2>5. Counts'
    BY <1>1, <1>4, <2>2, <2>4, KeepCounts
  <2>6. pc'[c] \notin Waiting /\ pc'[c] \notin InFlight
    BY <2>2 DEF Waiting, InFlight
  <2>7. QueueHolds'
    BY <1>6, <2>2, <2>6, QueueNext
  <2>8. receipts' = receipts /\ pendingWorlds' = pendingWorlds /\ rolling' = rolling
    BY <2>2 DEF quotaVars
  <2> QED
    BY <1>3, <1>5, <2>2, <2>3, <2>5, <2>6, <2>7, <2>8
<1>7. CASE /\ Bound(req'[c], h) = {} /\ ~failed /\ Room(req'[c].op, h)
           /\ req'[c].op \in {"reroll", "reject"} => req'[c].arg \in known[h]
           /\ receipts' = receipts \cup {c} /\ receiptBytes' = receiptBytes + Reserved
           /\ pendingWorlds' = IF req'[c].op = "create" THEN pendingWorlds + 1 ELSE pendingWorlds
           /\ rolling' = IF req'[c].op \in Rolling THEN [rolling EXCEPT ![h] = @ + 1] ELSE rolling
           /\ pc' = [pc EXCEPT ![c] = IF req'[c].op = "roll" /\ req'[c].arg = "query" THEN "mutate" ELSE "pre"]
           /\ queue' = Append(q, c)
           /\ UNCHANGED <<owner, told>>
  <2> DEFINE p == IF req'[c].op = "roll" /\ req'[c].arg = "query" THEN "mutate" ELSE "pre"
  <2>1. p \in {"pre", "mutate"} /\ pc' = [pc EXCEPT ![c] = p] /\ (p = "mutate" => req'[c].op = "roll")
    BY <1>7
  <2> HIDE DEF p
  <2>2. /\ Links' /\ Frame({c}, {})
    BY <1>1, <1>3, <1>4, <1>7, <2>1, TakeLinks
  <2>3. pc'[c] = p /\ \A d \in Tools : d # c => pc'[d] = pc[d]
    BY <1>1, <2>1 DEF CallsTyped
  <2>4. /\ pc'[c] \in Waiting /\ pc'[c] \in InFlight /\ pc'[c] # "done" /\ told'[c] # "ok"
        /\ pc'[c] \in {"join", "done", "pre", "mutate"}
    BY <1>5, <1>7, <2>1, <2>3 DEF Waiting, InFlight, Pcs
  <2>5. Counts'
    BY <1>1, <1>3, <1>4, <1>5, <1>7, <2>3, <2>4, TakeCounts
  <2>6. QueueHolds'
    BY <1>7, <2>3, <2>4, QueueNext
  <2>7. \/ pendingWorlds' <= pendingWorlds
        \/ Cardinality(DOMAIN worlds) + pendingWorlds' <= MaxWorlds
    <3>1. IsFiniteSet(DOMAIN worlds)
      BY DEF IInv, WithinQuotas
    <3>2. Cardinality(DOMAIN worlds) \in Nat /\ MaxWorlds \in Nat
      BY <3>1, FS_CardinalityType, ServiceAssumption
    <3> QED
      BY <1>5, <1>7, <3>2 DEF Room
  <2>8. ASSUME NEW k \in Tools
        PROVE  rolling'[k] <= rolling[k] \/ Cardinality(known[k]) + rolling'[k] <= MaxCandidates
    <3>1. IsFiniteSet(known[k])
      BY DEF IInv, WithinQuotas
    <3>2. Cardinality(known[k]) \in Nat /\ MaxCandidates \in Nat
      BY <3>1, FS_CardinalityType, ServiceAssumption
    <3>3. CASE req'[c].op \in Rolling /\ k = h
      <4>1. rolling'[k] = rolling[k] + 1 /\ Cardinality(known[k]) + rolling[k] < MaxCandidates /\ rolling[k] \in Nat
        BY <1>5, <1>7, <3>3 DEF Room
      <4> QED
        BY <3>2, <4>1
    <3>4. CASE ~(req'[c].op \in Rolling /\ k = h)
      <4>1. rolling'[k] = rolling[k] /\ rolling[k] \in Nat
        BY <1>5, <1>7, <3>4
      <4> QED
        BY <4>1
    <3> QED
      BY <3>3, <3>4
  <2> QED
    BY <1>3, <1>7, <2>1, <2>2, <2>3, <2>4, <2>5, <2>6, <2>7, <2>8
<1>8. CASE Bound(req'[c], h) = {} /\ MayRefuse(req'[c], h) /\ Verdict(c, "error") /\ queue' = q
  <2>1. /\ Links' /\ Counts' /\ Frame({}, {})
        /\ pc'[c] = "done" /\ \A d \in Tools : d # c => pc'[d] = pc[d] \/ (pc[d] = "join" /\ pc'[d] = "done")
        /\ receipts' = receipts \ {c} /\ pendingWorlds' <= pendingWorlds
        /\ \A k \in Tools : rolling'[k] <= rolling[k]
    <3>1. "error" \in Verdicts /\ "error" # "ok"
      BY DEF Verdicts
    <3> QED
      BY <1>1, <1>4, <1>8, <3>1, VerdictCalls
  <2>2. Frame({c}, {})
    BY <2>1 DEF Frame
  <2>3. pc'[c] \notin Waiting /\ \A d \in Tools : d # c => (pc'[d] \in Waiting <=> pc[d] \in Waiting)
    BY <2>1 DEF Waiting
  <2>4. QueueHolds'
    BY <1>8, <2>3, QueueNext
  <2>5. receipts' = receipts /\ pc'[c] \notin InFlight /\ pc'[c] # "mutate"
    BY <1>5, <2>1 DEF InFlight
  <2> QED
    BY <1>3, <1>5, <2>1, <2>2, <2>4, <2>5
<1> QED
  BY <1>6, <1>7, <1>8 DEF Admit

-----------------------------------------------------------------------------
(* What holds of every call is kept by a step that only adds to worlds,    *)
(* candidates and estimates, and holds of the calls M it moves and E that  *)
(* it ends in success.                                                     *)

Growth ==
  /\ Grows /\ \A w \in DOMAIN head : Below(head[w], head'[w])
  /\ \A k \in DOMAIN status : k \in DOMAIN status' /\ (status'[k] = "pending" => status[k] = "pending")
  /\ \A h \in Tools : known[h] \subseteq known'[h]
  /\ \A h \in Tools : pc[h] \notin Unbound =>
       modelOf'[h] = modelOf[h] \/ head[World(h)].model < head'[World(h)].model

(* A call that does not move stays at a step that fits.                    *)
LEMMA StepsKept ==
  ASSUME IInv, Typed', NEW M, NEW E, Frame(M, E), Growth, \A c \in M : AtStep(c)',
         \A c \in Tools : pc'[c] = "view" => c \in M \/ seen'[c] = seen[c]
  PROVE  StepsFit'
<1> SUFFICES ASSUME NEW c \in Tools, c \notin M PROVE AtStep(c)'
  BY DEF StepsFit
<1>1. AtStep(c) /\ pc[c] \in Pcs
  BY DEF IInv, StepsFit, CallsTyped
<1>2. /\ pc'[c] \in {pc[c], "done", "join"}
      /\ pc[c] # "idle" => req'[c] = req[c]
      /\ pc[c] \notin Unbound => handle'[c] = handle[c]
  BY DEF Frame, Steady
<1>3. CASE pc'[c] \in {"idle", "done", "join"}
  BY <1>3 DEF AtStep, InFlight
<1>4. CASE pc'[c] = pc[c] /\ pc[c] \in {"getWorld", "getModel", "preset"}
  BY <1>1, <1>2, <1>4 DEF AtStep, InFlight, Op, World
<1>5. CASE pc'[c] = pc[c] /\ pc[c] \in InFlight
  <2>1. /\ req'[c] = req[c] /\ handle'[c] = handle[c] /\ c \in receipts /\ Fits(c)
        /\ Op(c)' = Op(c) /\ World(c)' = World(c)
    BY <1>2, <1>5 DEF InFlight, Unbound, IInv, CallsLinked, RequestsFit, Op, World
  <2>2. Op(c) # "create" => /\ World(c) \in DOMAIN head /\ Below(head[World(c)], head'[World(c)])
                            /\ head[World(c)] \in Heads /\ head'[World(c)] \in Heads
    <3>1. head \in [DOMAIN head -> Heads] /\ head' \in [DOMAIN head' -> Heads]
      BY DEF IInv, Typed
    <3> QED
      BY <2>1, <3>1 DEF Fits, Growth, Grows
  <2>3. NeedsHandle(req[c]) => /\ handle[c] \in Tools /\ pc[handle[c]] \notin Unbound
                               /\ World(handle[c]) = World(c) /\ known[handle[c]] \subseteq known'[handle[c]]
    BY <2>1 DEF IInv, HandlesFit, Handled, HandleOf, Growth
  <2>4. ASSUME pc[c] = "view"
        PROVE  /\ seen'[c].model <= head'[World(c)].model
               /\ seen'[c].model = head'[World(c)].model => modelOf'[handle[c]] = seen'[c].model
    <3>1. /\ seen[c].model <= head[World(c)].model /\ seen'[c] = seen[c]
          /\ seen[c].model = head[World(c)].model => modelOf[handle[c]] = seen[c].model
          /\ Op(c) = "estimate" /\ NeedsHandle(req[c])
      BY <1>1, <1>5, <2>4 DEF AtStep, NeedsHandle, Op
    <3>2. seen[c].model \in Nat /\ head[World(c)].model \in Nat /\ head'[World(c)].model \in Nat
          /\ head[World(c)].model <= head'[World(c)].model
      BY <2>2, <3>1 DEF IInv, Typed, Heads, Below
    <3>3. modelOf'[handle[c]] = modelOf[handle[c]] \/ head[World(c)].model < head'[World(c)].model
      BY <2>3, <3>1 DEF Growth
    <3> QED
      BY <3>1, <3>2, <3>3
  <2>5. ASSUME pc[c] = "mutate", Op(c) = "accept"
        PROVE  /\ req[c].arg.candidate \in known'[handle[c]]
               /\ Below(req[c].arg.candidate.parent, req[c].arg.expected)
               /\ Below(req[c].arg.expected, head'[World(c)])
    <3>1. /\ req[c].arg.candidate \in known[handle[c]] /\ NeedsHandle(req[c])
          /\ Below(req[c].arg.candidate.parent, req[c].arg.expected)
          /\ Below(req[c].arg.expected, head[World(c)])
      BY <1>1, <2>5 DEF AtStep, NeedsHandle, Op
    <3>2. req[c].arg.expected \in Heads
      BY <2>1, <2>5 DEF Fits, Asked, Op
    <3> QED
      BY <2>2, <2>3, <2>5, <3>1, <3>2 DEF Below, Heads
  <2>6. Op(c) \in {"reroll", "reject"} => req[c].arg \in known'[handle[c]]
    BY <1>1, <1>5, <2>3 DEF AtStep, NeedsHandle, Op
  <2>7. /\ pc[c] = "view" => Op(c) = "estimate"
        /\ pc[c] = "check" => Op(c) \in {"submit", "review"}
        /\ pc[c] = "mutate" => Op(c) \notin Estimation
        /\ pc[c] = "after" => Op(c) = "revise"
    BY <1>1 DEF AtStep
  <2>8. pc'[c] = pc[c] /\ pc[c] \notin {"getWorld", "getModel", "preset"}
    BY <1>5 DEF InFlight
  <2> QED
    BY <2>1, <2>4, <2>5, <2>6, <2>7, <2>8 DEF AtStep, Below
<1> QED
  BY <1>1, <1>2, <1>3, <1>4, <1>5 DEF Pcs, InFlight

(* Receipts keep the handle they were bound to, and worlds theirs.         *)
LEMMA HandlesKept ==
  ASSUME IInv, NEW M, NEW E, Frame(M, E), DOMAIN head' \ Stored \subseteq executed',
         \A c \in receipts' \ receipts : Handled(c)',
         \A w \in DOMAIN worlds' :
           \/ w \in DOMAIN worlds /\ worlds'[w] = worlds[w]
           \/ HandleOf(worlds[w], w)' /\ (w \notin Stored => worlds'[w] = w /\ Op(w)' = "create")
  PROVE  HandlesFit'
<1>1. ASSUME NEW h \in Tools, pc[h] \notin Unbound PROVE pc'[h] \notin Unbound /\ req'[h] = req[h]
  BY <1>1 DEF Frame, Steady, Unbound
<1>2. ASSUME NEW w \in DOMAIN worlds', w \in DOMAIN worlds, worlds'[w] = worlds[w]
      PROVE  HandleOf(worlds[w], w)' /\ (w \notin Stored => worlds'[w] = w /\ Op(w)' = "create")
  <2>1. HandleOf(worlds[w], w) /\ (w \notin Stored => worlds[w] = w /\ Op(w) = "create")
    BY <1>2 DEF IInv, HandlesFit
  <2>2. /\ worlds[w] \in Tools /\ pc'[worlds[w]] \notin Unbound /\ req'[worlds[w]] = req[worlds[w]]
        /\ req[worlds[w]].world = w
    BY <1>1, <2>1 DEF HandleOf, World
  <2>3. HandleOf(worlds[w], w)'
    BY <1>2, <2>2 DEF HandleOf, World
  <2> QED
    <3>1. ASSUME w \notin Stored PROVE worlds'[w] = w /\ req'[w].op = "create"
      BY <1>2, <2>1, <2>2, <3>1 DEF Op
    <3> QED
      BY <2>3, <3>1 DEF Op
<1>3. ASSUME NEW c \in receipts PROVE Handled(c)'
  <2>1. Handled(c) /\ c \in Tools /\ pc[c] \notin Unbound
    BY DEF IInv, HandlesFit, CallsLinked, CallsTyped, InFlight, Unbound
  <2>2. req'[c] = req[c] /\ handle'[c] = handle[c]
    BY <1>1, <2>1 DEF Frame, Steady
  <2>3. ASSUME HandleOf(handle[c], World(c)) PROVE HandleOf(handle[c], World(c))'
    <3>1. pc'[handle[c]] \notin Unbound /\ req'[handle[c]] = req[handle[c]]
      BY <1>1, <2>3 DEF HandleOf
    <3> QED
      BY <2>2, <2>3, <3>1 DEF HandleOf, World
  <2> QED
    BY <2>1, <2>2, <2>3 DEF Handled, NeedsHandle, World
<1> QED
  BY <1>2, <1>3 DEF HandlesFit

(* What an earlier success has left stays.                                 *)
LEMMA OutcomesKept ==
  ASSUME IInv, NEW M, NEW E, Frame(M, E), Growth, CallsTyped', \A c \in M : pc[c] # "done",
         \A c \in E \cap receipts' : Outcome(c)'
  PROVE  OutcomesFit'
<1> SUFFICES ASSUME NEW c \in receipts', told'[c] = "ok", c \notin E PROVE Outcome(c)'
  BY DEF OutcomesFit
<1>1. c \in receipts /\ told[c] = "ok" /\ c \in Tools
  BY DEF Frame, CallsTyped, IInv
<1>2. Outcome(c) /\ req'[c] = req[c]
  BY <1>1 DEF IInv, OutcomesFit, CallsTyped, Frame, Steady
<1> QED
  BY <1>2 DEF Outcome, Growth, Grows, Op, World

(* What was executed or retained keeps its receipt.                        *)
LEMMA ReceiptsStay ==
  ASSUME IInv, NEW M, NEW E, Frame(M, E), Links', \A c \in M : pc[c] \notin {"after", "done"},
         \A c \in receipts \ receipts' : pc[c] \notin {"after", "done"},
         \A c \in executed' \ executed : c \in receipts' /\ pc'[c] \in {"after", "done"} /\ Op(c)' \notin Estimation,
         \A c \in DOMAIN ledger' \ DOMAIN ledger : c \in receipts' /\ pc'[c] = "done"
  PROVE  ReceiptsKept'
<1>1. ASSUME NEW c \in receipts, pc[c] \in {"after", "done"}
      PROVE  c \in receipts' /\ pc'[c] \in {pc[c], "done"} /\ Op(c)' = Op(c)
  BY <1>1 DEF IInv, CallsTyped, Frame, Steady, Op, Unbound
<1>2. ASSUME NEW c \in executed PROVE c \in receipts' /\ pc'[c] \in {"after", "done"} /\ Op(c)' \notin Estimation
  BY <1>1 DEF IInv, ReceiptsKept
<1>3. ASSUME NEW c \in DOMAIN ledger PROVE c \in receipts' /\ pc'[c] = "done"
  BY <1>1 DEF IInv, ReceiptsKept
<1> QED
  BY <1>2, <1>3 DEF ReceiptsKept

(* A handle follows the head of its world if each world's model moves      *)
(* with its handle's.                                                      *)
LEMMA ModelsKept ==
  ASSUME IInv, NEW M, NEW E, Frame(M, E), DOMAIN worlds \subseteq DOMAIN worlds',
         \A c \in Tools : modelOf'[c] = modelOf[c] \/ (pc[c] # "idle" /\ (Op(c) # "create" \/ c \in DOMAIN worlds')),
         \A w \in DOMAIN worlds' \ Stored :
           \/ w \in DOMAIN worlds /\ modelOf'[worlds'[w]] = modelOf[worlds[w]] /\ head'[w].model = head[w].model
           \/ modelOf'[worlds'[w]] = head'[w].model
           \/ \E c \in Tools : Op(c)' \in {"refine", "revise"} /\ World(c)' = w /\ told'[c] = "indeterminate"
  PROVE  ModelsFit'
<1>1. ASSUME NEW c \in Tools, c \notin DOMAIN worlds', pc'[c] = "idle" \/ Op(c)' = "create"
      PROVE  modelOf'[c] = 0
  <2>1. pc[c] = "idle" \/ Op(c) = "create"
    BY <1>1 DEF Frame, Steady, Op
  <2>2. modelOf[c] = 0
    BY <1>1, <2>1 DEF IInv, ModelsFit
  <2> QED
    BY <1>1, <2>1, <2>2
<1>2. ASSUME NEW c \in Tools, Op(c) \in {"refine", "revise"}, told[c] = "indeterminate"
      PROVE  Op(c)' = Op(c) /\ World(c)' = World(c) /\ told'[c] = "indeterminate"
  BY <1>2 DEF IInv, CallsTyped, Frame, Steady, Op, World
<1>3. ASSUME NEW w \in DOMAIN worlds' \ Stored, w \in DOMAIN worlds,
             modelOf'[worlds'[w]] = modelOf[worlds[w]], head'[w].model = head[w].model
      PROVE  \/ modelOf'[worlds'[w]] = head'[w].model
             \/ \E c \in Tools : Op(c)' \in {"refine", "revise"} /\ World(c)' = w /\ told'[c] = "indeterminate"
  <2>1. \/ modelOf[worlds[w]] = head[w].model
        \/ \E c \in Tools : Op(c) \in {"refine", "revise"} /\ World(c) = w /\ told[c] = "indeterminate"
    BY <1>3 DEF IInv, ModelsFit, HandleFollowsHead
  <2> QED
    BY <1>2, <1>3, <2>1
<1>4. HandleFollowsHead'
  BY <1>3 DEF HandleFollowsHead
<1> QED
  BY <1>1, <1>4 DEF ModelsFit

(* What a handle can name is there, and comes of no later head.            *)
LEMMA CandidatesKept ==
  ASSUME IInv, Typed', NEW M, NEW E, Frame(M, E), Growth,
         \A h \in Tools : \A k \in known'[h] \ known[h] :
           /\ pc[h] # "idle" /\ World(h) \in DOMAIN head
           /\ <<World(h), k>> \in DOMAIN status' /\ Below(k.parent, head'[World(h)])
  PROVE  CandidatesFit'
<1> SUFFICES ASSUME NEW h \in Tools, NEW k \in known'[h]
             PROVE  /\ pc'[h] # "idle" /\ World(h)' \in DOMAIN head'
                    /\ <<World(h)', k>> \in DOMAIN status' /\ Below(k.parent, head'[World(h)'])
  BY DEF CandidatesFit, Below
<1>1. /\ pc[h] # "idle" /\ World(h) \in DOMAIN head
      /\ <<World(h), k>> \in DOMAIN status' /\ Below(k.parent, head'[World(h)])
  <2>1. CASE k \in known[h]
    <3>1. /\ pc[h] # "idle" /\ World(h) \in DOMAIN head /\ <<World(h), k>> \in DOMAIN status'
          /\ Below(k.parent, head[World(h)]) /\ Below(head[World(h)], head'[World(h)])
      BY <2>1 DEF IInv, CandidatesFit, Growth
    <3>2. k.parent \in Heads /\ head[World(h)] \in Heads /\ head'[World(h)] \in Heads
      <4>1. known[h] \subseteq Candidates
        BY DEF IInv, Typed
      <4>2. head \in [DOMAIN head -> Heads] /\ head' \in [DOMAIN head' -> Heads] /\ DOMAIN head \subseteq DOMAIN head'
        BY DEF IInv, Typed, Growth, Grows
      <4> QED
        BY <2>1, <3>1, <4>1, <4>2 DEF Candidates
    <3> QED
      BY <3>1, <3>2 DEF Below, Heads
  <2> QED
    BY <2>1
<1> QED
  BY <1>1 DEF Frame, Steady, Growth, Grows, World

(* A step that adds no world of this server and no candidate keeps the     *)
(* quotas if it reserves within them.                                      *)
LEMMA QuotasKept ==
  ASSUME IInv, Counts', known' = known, IsFiniteSet(DOMAIN worlds'), DOMAIN worlds' \ Stored = DOMAIN worlds \ Stored,
         pendingWorlds' <= pendingWorlds \/ Cardinality(DOMAIN worlds) + pendingWorlds' <= MaxWorlds,
         \A h \in Tools : rolling'[h] <= rolling[h] \/ Cardinality(known[h]) + rolling'[h] <= MaxCandidates,
         receipts' \subseteq Tools
  PROVE  WithinQuotas'
<1>1. MaxWorlds \in Nat /\ MaxCandidates \in Nat
  BY ServiceAssumption
<1>2. pendingWorlds \in Nat /\ pendingWorlds' \in Nat
  <2>1. Making \subseteq Tools /\ Making' \subseteq Tools
    BY DEF IInv, CallsTyped, Making
  <2> QED
    BY <2>1, CallsFinite DEF IInv, Counts
<1>3. Cardinality(DOMAIN worlds \ Stored) + pendingWorlds' <= MaxWorlds
  <2> DEFINE D == DOMAIN worlds
  <2>1. IsFiniteSet(D) /\ Cardinality(D \ Stored) + pendingWorlds <= MaxWorlds
    BY DEF IInv, WithinQuotas
  <2>2. D \ Stored \subseteq D
    OBVIOUS
  <2> HIDE DEF D
  <2>3. /\ Cardinality(D \ Stored) <= Cardinality(D) /\ Cardinality(D \ Stored) \in Nat /\ Cardinality(D) \in Nat
    BY <2>1, <2>2, FS_Subset, FS_CardinalityType
  <2>4. pendingWorlds' <= pendingWorlds \/ Cardinality(D) + pendingWorlds' <= MaxWorlds
    BY DEF D
  <2>5. Cardinality(D \ Stored) + pendingWorlds' <= MaxWorlds
    BY <1>1, <1>2, <2>1, <2>3, <2>4
  <2> QED
    BY <2>5 DEF D
<1>4. ASSUME NEW h \in Tools PROVE IsFiniteSet(known[h]) /\ Cardinality(known[h]) + rolling'[h] <= MaxCandidates
  <2>1. IsFiniteSet(known[h]) /\ Cardinality(known[h]) + rolling[h] <= MaxCandidates
    BY DEF IInv, WithinQuotas
  <2>2. Cardinality(known[h]) \in Nat /\ rolling[h] \in Nat /\ rolling'[h] \in Nat
    BY <2>1, FS_CardinalityType DEF IInv, Counts
  <2> QED
    BY <1>1, <2>1, <2>2
<1> QED
  BY <1>3, <1>4 DEF WithinQuotas

(* A step that changes neither the engine's state nor the handles keeps    *)
(* the invariant, if it holds of the calls that take it.                   *)
LEMMA QuietStep ==
  ASSUME IInv, Links', Counts', QueueHolds', NEW M, NEW E, Frame(M, E), UNCHANGED <<engineState, handleVars>>,
         failed' \in BOOLEAN, seen' \in [Tools -> Heads],
         \A c \in Tools : pc'[c] = "view" => c \in M \/ seen'[c] = seen[c],
         \A c \in Tools : pc[c] = "idle" => pc'[c] = "idle" \/ Fits(c)',
         \A c \in M : pc[c] \notin {"after", "done"} /\ AtStep(c)', \A c \in receipts' \ receipts : Handled(c)',
         \A c \in E \cap receipts' : Outcome(c)',
         \A c \in receipts \ receipts' : pc[c] \notin {"after", "done"},
         executed \subseteq executed', executed' \subseteq Tools,
         \A c \in executed' \ executed : c \in receipts' /\ pc'[c] \in {"after", "done"} /\ Op(c)' \notin Estimation,
         DOMAIN ledger \subseteq DOMAIN ledger', ledger' \in [DOMAIN ledger' -> [model : Nat, head : Heads]],
         \A c \in DOMAIN ledger' \ DOMAIN ledger : c \in receipts' /\ pc'[c] = "done", EstimatesFrozen',
         pendingWorlds' <= pendingWorlds \/ Cardinality(DOMAIN worlds) + pendingWorlds' <= MaxWorlds,
         \A h \in Tools : rolling'[h] <= rolling[h] \/ Cardinality(known[h]) + rolling'[h] <= MaxCandidates
  PROVE  IInv'
<1>1. head' = head /\ status' = status /\ worlds' = worlds /\ modelOf' = modelOf /\ known' = known
  BY DEF engineState, handleVars
<1>2. Steady /\ CallsTyped' /\ CallsLinked' /\ ReceiptsDiffer' /\ receipts' \subseteq Tools
  BY DEF Frame, Links, CallsTyped
<1>3. Typed'
  <2>1. DOMAIN ledger' \subseteq Tools
    BY <1>2 DEF IInv, Typed
  <2> QED
    BY <1>1, <1>2, <2>1 DEF IInv, Typed, Steady
<1>4. Growth
  <2>1. \A w \in DOMAIN head : Below(head[w], head[w])
    BY DEF Below, Heads, IInv, Typed
  <2> QED
    BY <1>1, <2>1 DEF Growth, Grows
<1>5. RequestsFit'
  <2>1. DOMAIN ledger \subseteq {c \in Tools : pc[c] # "idle"}
    BY DEF IInv, ReceiptsKept, CallsTyped
  <2>2. Grows /\ RequestsFit
    BY <1>4 DEF Growth, IInv
  <2>3. \A c \in Tools : pc'[c] = "idle" => pc[c] = "idle"
    BY DEF Frame
  <2> QED
    BY <1>2, <2>1, <2>2, <2>3, RequestsKept
<1>6. HandlesFit'
  <2>1. DOMAIN head' \ Stored \subseteq executed'
    BY <1>1 DEF IInv, HandlesFit
  <2>2. \A w \in DOMAIN worlds' : w \in DOMAIN worlds /\ worlds'[w] = worlds[w]
    BY <1>1
  <2> QED
    BY <2>1, <2>2, HandlesKept
<1>7. StepsFit'
  BY <1>3, <1>4, StepsKept
<1>8. OutcomesFit'
  BY <1>2, <1>4, OutcomesKept
<1>9. ReceiptsKept'
  BY ReceiptsStay
<1>10. ModelsFit'
  <2>1. \A w \in DOMAIN worlds' \ Stored :
          w \in DOMAIN worlds /\ modelOf'[worlds'[w]] = modelOf[worlds[w]] /\ head'[w].model = head[w].model
    BY <1>1
  <2> QED
    BY <1>1, <2>1, ModelsKept
<1>11. CandidatesFit'
  <2>1. \A h \in Tools : known'[h] \ known[h] = {}
    BY <1>1
  <2> QED
    BY <1>3, <1>4, <2>1, CandidatesKept
<1>12. WithinQuotas'
  <2>1. IsFiniteSet(DOMAIN worlds') /\ DOMAIN worlds' \ Stored = DOMAIN worlds \ Stored
    BY <1>1 DEF IInv, WithinQuotas
  <2> QED
    BY <1>1, <1>2, <2>1, QuotasKept
<1> QED
  BY <1>2, <1>3, <1>5, <1>6, <1>7, <1>8, <1>9, <1>10, <1>11, <1>12 DEF IInv

(* A call that goes on without changing anything else.                     *)
LEMMA QuietMove ==
  ASSUME IInv, Steady, NEW c \in Tools, NEW p \in Pcs, NEW q,
         \/ pc[c] \in Unbound /\ p \in Unbound \ {"idle"}
         \/ pc[c] \in InFlight \ {"after"} /\ p \in InFlight,
         pc' = [pc EXCEPT ![c] = p], UNCHANGED <<quotaVars, owner, told>>,
         OthersQueued(c, q), queue' = IF p = "preset" THEN q ELSE Append(q, c),
         UNCHANGED <<engineState, handleVars, failed, executed, ledger>>,
         seen' \in [Tools -> Heads], \A d \in Tools : d # c => seen'[d] = seen[d],
         Fits(c)', AtStep(c)'
  PROVE  IInv'
<1>1. Links /\ Counts /\ pc \in [Tools -> Pcs]
  BY DEF IInv, Links, CallsTyped
<1>2. Links' /\ Frame({c}, {})
  <2>1. UNCHANGED <<receipts, owner, told>>
    BY DEF quotaVars
  <2> QED
    BY <1>1, <2>1, MoveLinks
<1>3. pc'[c] = p /\ (\A d \in Tools : d # c => pc'[d] = pc[d]) /\ pc[c] \notin {"after", "done"} /\ p # "done"
  BY <1>1 DEF Unbound, InFlight
<1>4. Counts'
  BY <1>1, <1>3, KeepCounts DEF IInv, CallsTyped
<1>5. QueueHolds'
  <2>1. p \in Waiting <=> p # "preset"
    BY DEF Waiting, Unbound, InFlight, Pcs
  <2> QED
    BY <1>3, <2>1, QueueNext
<1>6. receipts' = receipts /\ executed' = executed /\ ledger' = ledger /\ pendingWorlds' = pendingWorlds /\ rolling' = rolling
  BY DEF quotaVars
<1>7. pendingWorlds' <= pendingWorlds /\ \A h \in Tools : rolling'[h] <= rolling[h]
  <2>1. Making \subseteq Tools
    BY DEF Making, IInv, CallsTyped
  <2>2. pendingWorlds \in Nat /\ rolling \in [Tools -> Nat]
    BY <1>1, <2>1, CallsFinite DEF Counts
  <2> QED
    BY <1>6, <2>2
<1>8. EstimatesFrozen' /\ executed' \subseteq Tools /\ ledger' \in [DOMAIN ledger' -> [model : Nat, head : Heads]] /\ failed' \in BOOLEAN
  BY <1>6 DEF IInv, Typed, EstimatesFrozen
<1>9. \A d \in Tools : pc[d] = "idle" => pc'[d] = "idle" \/ Fits(d)'
  BY <1>3
<1>10. \A d \in Tools : pc'[d] = "view" => d \in {c} \/ seen'[d] = seen[d]
  OBVIOUS
<1>11. \A d \in {c} : pc[d] \notin {"after", "done"} /\ AtStep(d)'
  BY <1>3
<1>12. UNCHANGED <<engineState, handleVars>> /\ receipts' \ receipts = {} /\ receipts \ receipts' = {}
  BY <1>6
<1> QED
  BY <1>2, <1>4, <1>5, <1>6, <1>7, <1>8, <1>9, <1>10, <1>11, <1>12, QuietStep

(* A call that ends without changing anything but the ledger.              *)
LEMMA QuietVerdict ==
  ASSUME IInv, Steady, NEW c \in Tools, NEW v \in Verdicts, NEW q,
         \/ pc[c] \in InFlight /\ (pc[c] = "after" => v # "error")
         \/ pc[c] \in Unbound /\ v = "error",
         Verdict(c, v), OthersQueued(c, q), queue' = q,
         UNCHANGED <<engineState, handleVars, failed, executed>>,
         seen' \in [Tools -> Heads], \A d \in Tools : d # c => seen'[d] = seen[d],
         Fits(c)', v = "ok" => Outcome(c)',
         \/ ledger' = ledger
         \/ /\ c \in receipts /\ v # "error"
            /\ \E record \in [model : Nat, head : Heads] :
                 record.model = record.head.model /\ ledger' = With(ledger, c, record)
  PROVE  IInv'
<1>1. Links /\ Counts /\ pc \in [Tools -> Pcs]
  BY DEF IInv, Links, CallsTyped
<1> DEFINE E == IF v = "ok" THEN {c} ELSE {}
<1>2. /\ Links' /\ Counts' /\ Frame({}, E)
      /\ pc'[c] = "done" /\ \A d \in Tools : d # c => pc'[d] = pc[d] \/ (pc[d] = "join" /\ pc'[d] = "done")
      /\ receipts' = IF v = "error" THEN receipts \ {c} ELSE receipts
      /\ pendingWorlds' <= pendingWorlds /\ \A h \in Tools : rolling'[h] <= rolling[h]
  BY <1>1, VerdictCalls
<1>3. \A d \in E \cap receipts' : Outcome(d)'
  OBVIOUS
<1> HIDE DEF E
<1>4. QueueHolds'
  <2>1. pc'[c] \notin Waiting /\ \A d \in Tools : d # c => (pc'[d] \in Waiting <=> pc[d] \in Waiting)
    BY <1>2 DEF Waiting
  <2> QED
    BY <2>1, QueueNext
<1>5. receipts' \ receipts = {} /\ \A d \in receipts \ receipts' : pc[d] \notin {"after", "done"}
  BY <1>2 DEF Unbound, InFlight
<1>6. /\ DOMAIN ledger \subseteq DOMAIN ledger' /\ ledger' \in [DOMAIN ledger' -> [model : Nat, head : Heads]]
      /\ \A d \in DOMAIN ledger' \ DOMAIN ledger : d \in receipts' /\ pc'[d] = "done"
      /\ EstimatesFrozen'
  <2>1. ledger \in [DOMAIN ledger -> [model : Nat, head : Heads]] /\ \A d \in DOMAIN ledger : ledger[d].model = ledger[d].head.model
    BY DEF IInv, Typed, EstimatesFrozen
  <2>2. CASE ledger' = ledger
    BY <2>1, <2>2 DEF EstimatesFrozen
  <2>3. ASSUME c \in receipts, v # "error", NEW record \in [model : Nat, head : Heads],
               record.model = record.head.model, ledger' = With(ledger, c, record)
        PROVE  <1>6!1 /\ <1>6!2 /\ <1>6!3
    <3>1. DOMAIN ledger' = DOMAIN ledger \cup {c} /\ ledger' = [d \in DOMAIN ledger \cup {c} |-> ledger'[d]]
      BY <2>3 DEF With
    <3>2. ledger'[c] = record /\ \A d \in DOMAIN ledger : d # c => ledger'[d] = ledger[d]
      BY <2>3 DEF With
    <3>3. \A d \in DOMAIN ledger' : ledger'[d] \in [model : Nat, head : Heads] /\ ledger'[d].model = ledger'[d].head.model
      BY <2>1, <2>3, <3>1, <3>2
    <3> QED
      BY <1>2, <2>3, <3>1, <3>3 DEF EstimatesFrozen
  <2> QED
    BY <2>2, <2>3
<1>7. executed' = executed /\ executed' \subseteq Tools /\ failed' \in BOOLEAN
  BY DEF IInv, Typed
<1>8. \A d \in Tools : pc[d] = "idle" => pc'[d] = "idle" \/ Fits(d)'
  BY <1>2
<1>9. \A d \in Tools : pc'[d] = "view" => seen'[d] = seen[d]
  BY <1>2
<1> QED
  BY <1>2, <1>3, <1>4, <1>5, <1>6, <1>7, <1>8, <1>9, QuietStep

(* A call that is bound without changing anything else.                    *)
LEMMA QuietAdmit ==
  ASSUME IInv, NEW c \in Tools, pc[c] \in Unbound, NEW h \in Tools \cup {Own}, NEW q, OthersQueued(c, q),
         req' = [d \in Tools |-> req'[d]], \A d \in Tools : pc[d] # "idle" => req'[d] = req[d], Fits(c)',
         IF NeedsHandle(req'[c])
         THEN HandleOf(h, req'[c].world) /\ (req'[c].world \notin Stored => h = req'[c].world)
         ELSE h = Own,
         Admit(c, req'[c], h, q), UNCHANGED <<engineState, failed, executed, handleVars, ledger, seen>>
  PROVE  IInv'
<1>1. NeedsHandle(req'[c]) => h \in Tools /\ pc[h] \notin Unbound /\ req'[h].world = req'[c].world
  BY DEF HandleOf, World, Unbound
<1>2. ledger' = ledger /\ executed' = executed /\ seen' = seen /\ failed' = failed /\ UNCHANGED <<engineState, handleVars>>
  OBVIOUS
<1>3. /\ Links' /\ Counts' /\ QueueHolds' /\ Frame({c}, {}) /\ receipts \subseteq receipts'
      /\ handle'[c] = h
      /\ \A d \in Tools : d # c => pc'[d] = pc[d] \/ (pc[d] = "join" /\ pc'[d] = "done")
      /\ pc'[c] \in {"join", "done", "pre", "mutate"}
      /\ pc'[c] = "mutate" => req'[c].op = "roll"
      /\ pc'[c] \in InFlight /\ req'[c].op \in {"reroll", "reject"} => req'[c].arg \in known[h]
      /\ \/ pendingWorlds' <= pendingWorlds
         \/ Cardinality(DOMAIN worlds) + pendingWorlds' <= MaxWorlds
      /\ \A k \in Tools : rolling'[k] <= rolling[k] \/ Cardinality(known[k]) + rolling'[k] <= MaxCandidates
  BY <1>1, <1>2, AdmitCalls
<1>4. pc[c] \notin {"after", "done"} /\ AtStep(c)'
  BY <1>2, <1>3 DEF AtStep, handleVars, Op, Estimation, Unbound
<1>5. \A d \in receipts' \ receipts : Handled(d)'
  <2>1. \A d \in receipts' \ receipts : d = c
    BY <1>3 DEF Frame
  <2>2. CASE NeedsHandle(req'[c])
    <3>1. HandleOf(handle[c], World(c))'
      BY <1>1, <1>3, <2>2 DEF HandleOf, World, Frame
    <3> QED
      BY <1>3, <2>1, <2>2, <3>1 DEF Handled, World
  <2>3. CASE ~NeedsHandle(req'[c])
    BY <1>3, <2>1, <2>3 DEF Handled
  <2> QED
    BY <2>2, <2>3
<1>6. \A d \in Tools : pc[d] = "idle" => pc'[d] = "idle" \/ Fits(d)'
  BY <1>3
<1>7. /\ seen' \in [Tools -> Heads] /\ failed' \in BOOLEAN /\ executed' \subseteq Tools
      /\ ledger' \in [DOMAIN ledger' -> [model : Nat, head : Heads]] /\ EstimatesFrozen'
  BY <1>2 DEF IInv, Typed, EstimatesFrozen
<1>8. receipts \ receipts' = {} /\ executed' \ executed = {} /\ DOMAIN ledger' \ DOMAIN ledger = {}
  BY <1>2, <1>3
<1> QED
  BY <1>2, <1>3, <1>4, <1>5, <1>6, <1>7, <1>8, QuietStep

-----------------------------------------------------------------------------
(* Tool calls.                                                             *)

(* What a caller was told of is there.                                     *)
LEMMA ToldIsThere ==
  ASSUME IInv
  PROVE  /\ \A w \in Named : w \in DOMAIN head /\ w \in Stored \cup DOMAIN worlds /\ w \in Worlds
         /\ \A o \in Told("estimate") \cup Told("submit") :
              /\ o \in DOMAIN ledger /\ o \in Tools /\ pc[o] # "idle" /\ World(o) \in DOMAIN head
              /\ World(o) \in Stored \cup DOMAIN worlds
<1>1. ASSUME NEW op, NEW o \in Told(op)
      PROVE  o \in Tools /\ o \in receipts /\ Op(o) = op /\ told[o] = "ok" /\ Outcome(o) /\ pc[o] # "idle"
  <2>1. PICK d \in Tools : Op(d) = op /\ told[d] = "ok" /\ o = owner[d]
    BY <1>1 DEF Told
  <2>2. o \in receipts /\ Same(d, o) /\ told[o] = "ok"
    BY <2>1 DEF IInv, CallsLinked
  <2>3. Outcome(o) /\ o \in Tools /\ pc[o] # "idle"
    BY <2>2 DEF IInv, OutcomesFit, CallsTyped
  <2> QED
    BY <2>1, <2>2, <2>3 DEF Same
<1>2. Stored \subseteq DOMAIN head /\ DOMAIN worlds \subseteq DOMAIN head /\ DOMAIN head \subseteq Worlds
  BY DEF IInv, Typed
<1>3. ASSUME NEW w \in Named PROVE w \in DOMAIN head /\ w \in Stored \cup DOMAIN worlds /\ w \in Worlds
  <2>1. w \in Told("create") => w \in DOMAIN worlds
    BY <1>1 DEF Outcome
  <2> QED
    BY <1>2, <2>1 DEF Named
<1>4. ASSUME NEW o \in Told("estimate") \cup Told("submit")
      PROVE  /\ o \in DOMAIN ledger /\ o \in Tools /\ pc[o] # "idle" /\ World(o) \in DOMAIN head
             /\ World(o) \in Stored \cup DOMAIN worlds
  <2>1. o \in Tools /\ Op(o) \in {"estimate", "submit"} /\ Outcome(o) /\ pc[o] # "idle"
    BY <1>1
  <2>2. Fits(o)
    BY <2>1 DEF IInv, RequestsFit
  <2> QED
    BY <2>1, <2>2 DEF Outcome, Fits, Estimation
<1> QED
  BY <1>3, <1>4

(* What is asked for fits: it is about a world that is there.              *)
LEMMA StartFits ==
  ASSUME IInv, NEW c \in Tools, pc[c] = "idle", NEW q \in Requests, NEW arg \in Arguments(q[1], q[2]),
         NEW w \in WorldsFor(c, q[1], arg),
         req' = [req EXCEPT ![c] = [op |-> q[1], world |-> w, id |-> q[2], arg |-> arg]],
         UNCHANGED <<head, worlds, ledger>>
  PROVE  /\ Fits(c)' /\ req' = [d \in Tools |-> req'[d]] /\ \A d \in Tools : pc[d] # "idle" => req'[d] = req[d]
         /\ req'[c] = [op |-> q[1], world |-> w, id |-> q[2], arg |-> arg] /\ w \in Worlds
<1>1. /\ req' = [d \in Tools |-> req'[d]] /\ \A d \in Tools : d # c => req'[d] = req[d]
      /\ req'[c] = [op |-> q[1], world |-> w, id |-> q[2], arg |-> arg]
  BY DEF IInv, Typed
<1>2. q[1] \in Operations /\ (q[1] = "roll" => RollOf[q[2]] \in Rolls) /\ NamedHeads \subseteq Heads
  BY ServiceAssumption DEF Heads
<1>3. UNION Range(known) \subseteq Candidates
  BY DEF Range, IInv, Typed
<1>4. Asked(req'[c])
  <2>1. CASE q[1] = "create"
    BY <1>1, <1>2, <2>1 DEF Asked
  <2>2. CASE q[1] = "roll"
    BY <1>1, <1>2, <2>2 DEF Asked, Arguments
  <2>3. CASE q[1] = "refine"
    <3>1. \A h \in NamedHeads : h.model \in Nat
      BY <1>2 DEF Heads
    <3>2. arg \in {h.model : h \in NamedHeads} \ {0}
      BY <2>3 DEF Arguments
    <3> QED
      BY <1>1, <1>2, <2>3, <3>1, <3>2 DEF Asked
  <2>4. CASE q[1] = "revise"
    BY <1>1, <1>2, <2>4 DEF Asked, Arguments
  <2>5. CASE q[1] \in {"reroll", "reject"}
    BY <1>1, <1>2, <1>3, <2>5 DEF Asked, Arguments
  <2>6. CASE q[1] = "accept"
    BY <1>1, <1>2, <1>3, <2>6 DEF Asked, Arguments
  <2>7. CASE q[1] \in Estimation
    BY <1>1, <1>2, <2>7 DEF Asked, Estimation
  <2> QED
    BY <1>2, <2>1, <2>2, <2>3, <2>4, <2>5, <2>6, <2>7 DEF Operations, Estimation
<1>5. CASE q[1] = "create"
  BY <1>1, <1>4, <1>5 DEF Fits, WorldsFor, Op, World, Worlds
<1>6. CASE q[1] = "estimate"
  <2>1. arg \in Named /\ w = arg
    BY <1>6 DEF Arguments, WorldsFor
  <2> QED
    BY <1>1, <1>4, <1>6, <2>1, ToldIsThere DEF Fits, Op, World
<1>7. CASE q[1] = "submit"
  <2>1. arg.request \in Told("estimate") /\ w = World(arg.request)
    BY <1>7 DEF Arguments, WorldsFor
  <2>2. req'[arg.request] = req[arg.request] /\ w \in Worlds
    BY <1>1, <2>1, ToldIsThere DEF IInv, Typed
  <2> QED
    BY <1>1, <1>4, <1>7, <2>1, <2>2, ToldIsThere DEF Fits, Op, World
<1>8. CASE q[1] = "review"
  <2>1. arg.proposal \in Told("submit") /\ w = World(arg.proposal)
    BY <1>8 DEF Arguments, WorldsFor
  <2>2. req'[arg.proposal] = req[arg.proposal] /\ w \in Worlds
    BY <1>1, <2>1, ToldIsThere DEF IInv, Typed
  <2> QED
    BY <1>1, <1>4, <1>8, <2>1, <2>2, ToldIsThere DEF Fits, Op, World
<1>9. CASE q[1] \notin {"create", "estimate", "submit", "review"}
  <2>1. w \in Named
    BY <1>9 DEF WorldsFor
  <2> QED
    BY <1>1, <1>4, <1>9, <2>1, ToldIsThere DEF Fits, Op, World
<1> QED
  BY <1>1, <1>5, <1>6, <1>7, <1>8, <1>9

(* Requests and handles that no step touches keep fitting.                 *)
LEMMA FitsStay ==
  ASSUME IInv, UNCHANGED <<head, worlds, req, handle>>, DOMAIN ledger \subseteq DOMAIN ledger'
  PROVE  Steady /\ \A c \in Tools : pc[c] # "idle" => Fits(c)'
<1>1. Steady
  BY DEF Steady, IInv, Typed
<1>2. ASSUME NEW c \in Tools, pc[c] # "idle" PROVE Fits(c)'
  <2>1. Fits(c)
    BY <1>2 DEF IInv, RequestsFit
  <2>2. Asked(req[c])'
    BY <2>1 DEF Fits, Asked
  <2> QED
    BY <2>1, <2>2 DEF Fits, Op, World
<1> QED
  BY <1>1, <1>2

(* A handle the service holds is of its world.                             *)
LEMMA HeldFits ==
  ASSUME IInv, NEW w \in DOMAIN worlds
  PROVE  HandleOf(worlds[w], w) /\ (w \notin Stored => worlds[w] = w) /\ worlds[w] \in Tools \cup {Own}
BY DEF IInv, HandlesFit, HandleOf

(* A tool call is made: it finds its handle, or asks for its world.        *)
LEMMA StartStep ==
  ASSUME IInv, NEW c \in Tools, Start(c)
  PROVE  IInv'
<1> DEFINE Request(q, arg, w) == [op |-> q[1], world |-> w, id |-> q[2], arg |-> arg]
           Begins(r, w) ==
             /\ req' = [req EXCEPT ![c] = r]
             /\ \/ ~NeedsHandle(r) /\ Admit(c, r, Own, queue)
                \/ NeedsHandle(r) /\ w \in DOMAIN worlds /\ Admit(c, r, worlds[w], queue)
                \/ /\ NeedsHandle(r) /\ w \notin DOMAIN worlds
                   /\ \/ /\ ~failed
                         /\ pc' = [pc EXCEPT ![c] = "getWorld"] /\ queue' = Append(queue, c)
                         /\ UNCHANGED <<quotaVars, owner, told>>
                      \/ failed /\ Verdict(c, "error") /\ UNCHANGED queue
                   /\ UNCHANGED handle
<1>a. PICK q \in Requests : \E arg \in Arguments(q[1], q[2]) : \E w \in WorldsFor(c, q[1], arg) : Begins(Request(q, arg, w), w)
  BY DEF Start
<1>b. PICK arg \in Arguments(q[1], q[2]) : \E w \in WorldsFor(c, q[1], arg) : Begins(Request(q, arg, w), w)
  BY <1>a
<1>1. PICK w \in WorldsFor(c, q[1], arg) : Begins(Request(q, arg, w), w)
  BY <1>b
<1> DEFINE r == [op |-> q[1], world |-> w, id |-> q[2], arg |-> arg]
<1>2. /\ pc[c] = "idle" /\ UNCHANGED <<engineState, failed, executed, handleVars, ledger, seen>>
      /\ UNCHANGED <<head, worlds, ledger>> /\ UNCHANGED seen
  BY DEF Start, engineState, handleVars
<1>3. /\ Fits(c)' /\ req' = [d \in Tools |-> req'[d]] /\ \A d \in Tools : pc[d] # "idle" => req'[d] = req[d]
      /\ req'[c] = r
  BY <1>1, <1>2, StartFits
<1>4. r.world = w
  OBVIOUS
<1> HIDE DEF r
<1>5. pc[c] \in Unbound /\ OthersQueued(c, queue)
  BY <1>2, QueueWithout DEF Unbound, Waiting, IInv
<1>6. CASE ~NeedsHandle(r) /\ Admit(c, r, Own, queue)
  BY <1>2, <1>3, <1>5, <1>6, QuietAdmit
<1>7. CASE NeedsHandle(r) /\ w \in DOMAIN worlds /\ Admit(c, r, worlds[w], queue)
  <2>1. HandleOf(worlds[w], w) /\ (w \notin Stored => worlds[w] = w) /\ worlds[w] \in Tools \cup {Own}
    BY <1>7, HeldFits
  <2> QED
    BY <1>2, <1>3, <1>4, <1>5, <1>7, <2>1, QuietAdmit
<1>8. ASSUME NeedsHandle(r), UNCHANGED handle PROVE Steady /\ seen' \in [Tools -> Heads] /\ UNCHANGED seen
  BY <1>2, <1>3, <1>8 DEF Steady, IInv, Typed
<1>9. CASE /\ NeedsHandle(r) /\ w \notin DOMAIN worlds /\ UNCHANGED handle
           /\ pc' = [pc EXCEPT ![c] = "getWorld"] /\ queue' = Append(queue, c)
           /\ UNCHANGED <<quotaVars, owner, told>>
  <2>1. AtStep(c)'
    <3>1. pc'[c] = "getWorld"
      BY <1>9 DEF IInv, CallsTyped
    <3> QED
      BY <1>3, <1>9, <3>1 DEF AtStep, InFlight
  <2>2. "getWorld" \in Pcs /\ "getWorld" \in Unbound \ {"idle"} /\ "getWorld" # "preset"
    BY DEF Pcs, Unbound
  <2> QED
    BY <1>2, <1>3, <1>5, <1>8, <1>9, <2>1, <2>2, QuietMove
<1>10. CASE /\ NeedsHandle(r) /\ w \notin DOMAIN worlds /\ UNCHANGED handle
            /\ Verdict(c, "error") /\ UNCHANGED queue
  <2>1. "error" \in Verdicts /\ "error" # "ok"
    BY DEF Verdicts
  <2> QED
    BY <1>2, <1>3, <1>5, <1>8, <1>10, <2>1, QuietVerdict
<1> QED
  BY <1>1, <1>6, <1>7, <1>9, <1>10 DEF r

(* The world was read; its model is asked for.                             *)
LEMMA WorldReadStep ==
  ASSUME IInv, NEW c \in Tools, WorldRead(c)
  PROVE  IInv'
<1>1. /\ pc[c] = "getWorld" /\ queue # <<>> /\ Head(queue) = c /\ queue' = Append(Tail(queue), c)
      /\ seen' = [seen EXCEPT ![c] = head[World(c)]] /\ pc' = [pc EXCEPT ![c] = "getModel"]
      /\ UNCHANGED <<engineState, handleVars, failed, executed, ledger>> /\ UNCHANGED <<quotaVars, owner, told>>
      /\ UNCHANGED <<head, worlds, req, handle>> /\ ledger' = ledger
  BY DEF WorldRead, Answered, engineState, handleVars
<1>2. Steady /\ Fits(c)' /\ OthersQueued(c, Tail(queue))
  BY <1>1, FitsStay, QueueWithout DEF IInv
<1>3. seen' \in [Tools -> Heads] /\ \A d \in Tools : d # c => seen'[d] = seen[d]
  <2>1. World(c) \in DOMAIN head
    BY <1>1 DEF IInv, RequestsFit, Fits, StepsFit, AtStep, NeedsHandle, Op
  <2> QED
    BY <1>1, <2>1 DEF IInv, Typed
<1>4. AtStep(c)'
  <2>1. pc'[c] = "getModel" /\ NeedsHandle(req[c])
    BY <1>1 DEF IInv, CallsTyped, StepsFit, AtStep
  <2> QED
    BY <1>1, <2>1 DEF AtStep, InFlight
<1>5. "getModel" \in Pcs /\ "getModel" \in Unbound \ {"idle"} /\ "getModel" # "preset" /\ pc[c] \in Unbound
  BY <1>1 DEF Pcs, Unbound
<1> QED
  BY <1>1, <1>2, <1>3, <1>4, <1>5, QuietMove

(* The model was read; the call is bound, or opens the world.              *)
LEMMA ModelReadStep ==
  ASSUME IInv, NEW c \in Tools, ModelRead(c)
  PROVE  IInv'
<1>1. /\ pc[c] = "getModel" /\ pc[c] # "idle" /\ queue # <<>> /\ Head(queue) = c
      /\ UNCHANGED <<engineState, failed, executed, handleVars, ledger, seen>> /\ UNCHANGED <<head, worlds, req>>
      /\ UNCHANGED <<engineState, handleVars, failed, executed, ledger>> /\ ledger' = ledger /\ seen' = seen
  BY DEF ModelRead, Answered, engineState, handleVars
<1>2. OthersQueued(c, Tail(queue)) /\ pc[c] \in Unbound /\ NeedsHandle(req[c]) /\ pc \in [Tools -> Pcs]
  BY <1>1, QueueWithout DEF IInv, CallsTyped, Unbound, StepsFit, AtStep
<1>3. CASE World(c) \in DOMAIN worlds /\ Admit(c, req[c], worlds[World(c)], Tail(queue))
  <2>1. /\ HandleOf(worlds[World(c)], World(c)) /\ (World(c) \notin Stored => worlds[World(c)] = World(c))
        /\ worlds[World(c)] \in Tools \cup {Own}
    BY <1>3, HeldFits
  <2>2. /\ req'[c] = req[c] /\ req' = [d \in Tools |-> req'[d]] /\ \A d \in Tools : pc[d] # "idle" => req'[d] = req[d]
    BY <1>1 DEF IInv, Typed
  <2>3. Fits(c)'
    <3>1. Fits(c) /\ Asked(req[c])'
      BY <1>1, <2>2 DEF IInv, RequestsFit, Fits, Asked
    <3> QED
      BY <1>1, <3>1 DEF Fits, Op, World
  <2> QED
    BY <1>1, <1>2, <1>3, <2>1, <2>2, <2>3, QuietAdmit DEF World
<1>4. ASSUME World(c) \notin DOMAIN worlds, UNCHANGED handle
      PROVE  /\ Steady /\ Fits(c)' /\ seen' \in [Tools -> Heads] /\ World(c) \in Stored
             /\ \A d \in Tools : d # c => seen'[d] = seen[d]
  <2>1. World(c) \in Stored
    BY <1>1, <1>2, <1>4 DEF IInv, RequestsFit, Fits, NeedsHandle, Op
  <2> QED
    BY <1>1, <1>4, <2>1, FitsStay DEF IInv, Typed
<1>5. CASE /\ World(c) \notin DOMAIN worlds /\ queue' = Tail(queue) /\ UNCHANGED handle
           /\ pc' = [pc EXCEPT ![c] = "preset"] /\ UNCHANGED <<quotaVars, owner, told>>
  <2>1. AtStep(c)'
    <3>1. pc'[c] = "preset"
      BY <1>2, <1>5
    <3> QED
      BY <1>1, <1>2, <1>4, <1>5, <3>1 DEF AtStep, InFlight, World
  <2>2. "preset" \in Pcs /\ "preset" \in Unbound \ {"idle"}
    BY DEF Pcs, Unbound
  <2> QED
    BY <1>1, <1>2, <1>4, <1>5, <2>1, <2>2, QuietMove
<1>6. CASE World(c) \notin DOMAIN worlds /\ queue' = Tail(queue) /\ UNCHANGED handle /\ Verdict(c, "error")
  <2>1. "error" \in Verdicts /\ "error" # "ok"
    BY DEF Verdicts
  <2> QED
    BY <1>1, <1>2, <1>4, <1>6, <2>1, QuietVerdict
<1> QED
  BY <1>3, <1>5, <1>6 DEF ModelRead

(* The presets cannot be read any more.                                    *)
LEMMA PresetUnreadStep ==
  ASSUME IInv, NEW c \in Tools, PresetUnread(c)
  PROVE  IInv'
<1>1. /\ pc[c] = "preset" /\ pc[c] # "idle" /\ Verdict(c, "error") /\ queue' = queue
      /\ UNCHANGED <<engineState, handleVars, failed, executed>> /\ ledger' = ledger /\ seen' = seen
      /\ UNCHANGED <<head, worlds, req, handle>>
  BY DEF PresetUnread, engineVars, engineState, handleVars
<1>2. Steady /\ Fits(c)' /\ OthersQueued(c, queue)
  BY <1>1, FitsStay, QueueWithout DEF IInv, Waiting
<1>3. seen' \in [Tools -> Heads] /\ \A d \in Tools : d # c => seen'[d] = seen[d]
  BY <1>1 DEF IInv, Typed
<1>4. "error" \in Verdicts /\ "error" # "ok" /\ pc[c] \in Unbound
  BY <1>1 DEF Verdicts, Unbound
<1> QED
  BY <1>1, <1>2, <1>3, <1>4, QuietVerdict

(* What an estimation call is about was frozen as one.                     *)
LEMMA FrozenFits ==
  ASSUME IInv, NEW c \in Tools, pc[c] # "idle", Op(c) \in {"submit", "review"}
  PROVE  Frozen(c) \in [model : Nat, head : Heads] /\ Frozen(c).model = Frozen(c).head.model
<1>1. Fits(c) /\ ledger \in [DOMAIN ledger -> [model : Nat, head : Heads]] /\ EstimatesFrozen
  BY DEF IInv, RequestsFit, Typed
<1>2. CASE Op(c) = "submit"
  BY <1>1, <1>2 DEF Fits, EstimatesFrozen, Frozen
<1>3. CASE Op(c) = "review"
  BY <1>1, <1>3 DEF Fits, EstimatesFrozen, Frozen
<1> QED
  BY <1>2, <1>3

(* An answered call under a receipt ends.                                  *)
LEMMA AnswerEnds ==
  ASSUME IInv, NEW c \in Tools, queue # <<>>, Head(queue) = c, NEW v \in Verdicts,
         pc[c] \in InFlight, pc[c] = "after" => v # "error", Verdict(c, v), queue' = Tail(queue),
         UNCHANGED <<engineState, handleVars, failed, executed>>, UNCHANGED <<req, handle>>,
         seen' \in [Tools -> Heads], \A d \in Tools : d # c => seen'[d] = seen[d],
         v = "ok" => Outcome(c)',
         \/ ledger' = ledger
         \/ /\ v # "error"
            /\ \E record \in [model : Nat, head : Heads] :
                 record.model = record.head.model /\ ledger' = With(ledger, c, record)
  PROVE  IInv'
<1>1. c \in receipts /\ pc[c] # "idle"
  BY DEF IInv, CallsLinked, InFlight
<1>2. UNCHANGED <<head, worlds, req, handle>> /\ DOMAIN ledger \subseteq DOMAIN ledger'
  BY DEF engineState, handleVars, With
<1>3. Steady /\ Fits(c)' /\ OthersQueued(c, Tail(queue))
  BY <1>1, <1>2, FitsStay, QueueWithout DEF IInv
<1>4. \/ ledger' = ledger
      \/ /\ c \in receipts /\ v # "error"
         /\ \E record \in [model : Nat, head : Heads] :
              record.model = record.head.model /\ ledger' = With(ledger, c, record)
  BY <1>1
<1> QED
  BY <1>3, <1>4, QuietVerdict

(* Retaining something frozen as one is such an end.                       *)
LEMMA RetainEnds ==
  ASSUME IInv, NEW c \in Tools, queue # <<>>, Head(queue) = c, pc[c] \in InFlight, Op(c) \in Estimation,
         NEW record \in [model : Nat, head : Heads], record.model = record.head.model, Retain(c, record),
         UNCHANGED <<engineState, handleVars, failed, executed>>, UNCHANGED <<req, handle>>,
         seen' \in [Tools -> Heads], \A d \in Tools : d # c => seen'[d] = seen[d]
  PROVE  IInv'
<1>1. queue' = Tail(queue) /\ ledger' = With(ledger, c, record) /\ (Verdict(c, "ok") \/ Verdict(c, "indeterminate"))
  BY DEF Retain, Succeed
<1>2. Outcome(c)'
  BY <1>1 DEF Outcome, With, Op, Estimation
<1>3. {"ok", "indeterminate"} \subseteq Verdicts
  BY DEF Verdicts
<1>4. PICK v \in {"ok", "indeterminate"} : Verdict(c, v)
  BY <1>1
<1>5. v \in Verdicts /\ v # "error"
  BY <1>3
<1> QED
  BY <1>1, <1>2, <1>4, <1>5, AnswerEnds

(* The first read under the receipt was answered.                          *)
LEMMA FirstReadStep ==
  ASSUME IInv, NEW c \in Tools, FirstRead(c)
  PROVE  IInv'
<1>1. /\ pc[c] = "pre" /\ pc[c] \in InFlight \ {"after"} /\ queue # <<>> /\ Head(queue) = c
      /\ seen' = [seen EXCEPT ![c] = IF Op(c) = "estimate" THEN head[World(c)] ELSE @]
      /\ UNCHANGED <<engineState, handleVars, failed, executed>> /\ UNCHANGED <<req, handle>>
      /\ UNCHANGED <<head, worlds, req, handle>> /\ head' = head /\ known' = known /\ modelOf' = modelOf
  BY DEF FirstRead, Answered, engineState, handleVars, InFlight
<1>2. /\ c \in receipts /\ pc[c] # "idle" /\ pc \in [Tools -> Pcs] /\ Fits(c)
      /\ head \in [DOMAIN head -> Heads] /\ Handled(c) /\ AtStep(c) /\ Op(c) \in Operations
  <2>1. c \in receipts /\ pc[c] # "idle" /\ pc \in [Tools -> Pcs]
    BY <1>1 DEF IInv, CallsLinked, CallsTyped
  <2>2. Fits(c) /\ Handled(c) /\ AtStep(c)
    BY <2>1 DEF IInv, RequestsFit, HandlesFit, StepsFit
  <2>3. Op(c) \in Operations
    BY <2>2 DEF Fits, Asked, Op
  <2> QED
    BY <2>1, <2>2, <2>3 DEF IInv, Typed
<1>3. /\ seen' \in [Tools -> Heads] /\ \A d \in Tools : d # c => seen'[d] = seen[d]
      /\ Op(c) = "estimate" => seen'[c] = head[World(c)] /\ head[World(c)] \in Heads
  <2>1. Op(c) = "estimate" => World(c) \in DOMAIN head
    BY <1>2 DEF Fits
  <2>2. seen \in [Tools -> Heads]
    BY DEF IInv, Typed
  <2>3. CASE Op(c) = "estimate"
    BY <1>1, <1>2, <2>1, <2>2, <2>3
  <2>4. CASE Op(c) # "estimate"
    BY <1>1, <2>2, <2>4
  <2> QED
    BY <2>3, <2>4
<1>4. CASE /\ Allowed(c) /\ pc' = [pc EXCEPT ![c] = NextStep(c)] /\ queue' = Append(Tail(queue), c)
           /\ UNCHANGED <<quotaVars, owner, told, ledger>>
  <2> DEFINE p == NextStep(c)
  <2>1. p \in Pcs /\ p \in InFlight /\ p \in {"view", "check", "mutate"} /\ p # "preset"
    BY DEF NextStep, Pcs, InFlight
  <2>2. /\ p = "view" <=> Op(c) = "estimate"
        /\ p = "check" <=> Op(c) \in {"submit", "review"}
    BY DEF NextStep
  <2> HIDE DEF p
  <2>3. pc'[c] = p
    BY <1>2, <1>4 DEF p
  <2>4. ASSUME p = "view"
        PROVE  /\ seen'[c].model <= head[World(c)].model
               /\ seen'[c].model = head[World(c)].model => modelOf[handle[c]] = seen'[c].model
    <3>1. head[World(c)].model = modelOf[handle[c]]
      BY <1>4, <2>2, <2>4 DEF Allowed
    <3> QED
      BY <1>3, <2>2, <2>4, <3>1 DEF Heads
  <2>5. ASSUME p = "mutate", Op(c) = "accept"
        PROVE  /\ req[c].arg.candidate \in known[handle[c]]
               /\ Below(req[c].arg.candidate.parent, req[c].arg.expected)
               /\ Below(req[c].arg.expected, head[World(c)])
    <3>1. head[World(c)] = req[c].arg.expected /\ req[c].arg.candidate \in known[handle[c]]
      BY <1>4, <2>5 DEF Allowed
    <3>2. handle[c] \in Tools /\ World(handle[c]) = World(c) /\ World(c) \in DOMAIN head
      BY <1>2, <2>5 DEF Handled, HandleOf, NeedsHandle, Op, Fits
    <3>3. Below(req[c].arg.candidate.parent, head[World(c)]) /\ head[World(c)] \in Heads
      BY <1>2, <3>1, <3>2 DEF IInv, CandidatesFit
    <3> QED
      BY <3>1, <3>3 DEF Below, Heads
  <2>6. Op(c) \in {"reroll", "reject"} => req[c].arg \in known[handle[c]]
    BY <1>1, <1>2 DEF AtStep
  <2>7. p = "mutate" => Op(c) \notin Estimation
    BY <2>2 DEF Estimation
  <2>8. AtStep(c)'
    BY <1>1, <2>1, <2>2, <2>3, <2>4, <2>5, <2>6, <2>7 DEF AtStep, Below, Op, World
  <2>9. Steady /\ Fits(c)' /\ OthersQueued(c, Tail(queue))
    BY <1>1, <1>2, <1>4, FitsStay, QueueWithout DEF IInv
  <2>10. /\ pc' = [pc EXCEPT ![c] = p] /\ UNCHANGED <<quotaVars, owner, told>>
         /\ UNCHANGED <<engineState, handleVars, failed, executed, ledger>>
    BY <1>1, <1>4 DEF p
  <2>11. queue' = IF p = "preset" THEN Tail(queue) ELSE Append(Tail(queue), c)
    BY <1>4, <2>1
  <2> QED
    BY <1>1, <1>3, <2>1, <2>8, <2>9, <2>10, <2>11, QuietMove
<1>5. CASE NextStep(c) = "check" /\ Retain(c, Frozen(c))
  <2>1. Op(c) \in {"submit", "review"}
    BY <1>5 DEF NextStep
  <2>2. Frozen(c) \in [model : Nat, head : Heads] /\ Frozen(c).model = Frozen(c).head.model
    BY <1>2, <2>1, FrozenFits
  <2> QED
    BY <1>1, <1>3, <1>5, <2>1, <2>2, RetainEnds DEF Estimation
<1>6. CASE Verdict(c, "error") /\ queue' = Tail(queue) /\ UNCHANGED ledger
  <2>1. "error" \in Verdicts /\ "error" # "ok"
    BY DEF Verdicts
  <2> QED
    BY <1>1, <1>3, <1>6, <2>1, AnswerEnds
<1>7. CASE IsRejected(c) /\ Succeed(c) /\ queue' = Tail(queue) /\ UNCHANGED ledger
  <2>1. Outcome(c)'
    <3>1. Op(c) = "reject" /\ status[<<World(c), req[c].arg>>] = "rejected" /\ status' = status
      BY <1>1, <1>7 DEF IsRejected, engineState
    <3>2. req[c].arg \in known[handle[c]] /\ handle[c] \in Tools /\ World(handle[c]) = World(c)
      BY <1>1, <1>2, <3>1 DEF AtStep, Handled, HandleOf, NeedsHandle, Op
    <3>3. <<World(c), req[c].arg>> \in DOMAIN status
      BY <3>2 DEF IInv, CandidatesFit
    <3> QED
      BY <1>1, <3>1, <3>3 DEF Outcome, Estimation, Op, World
  <2>2. {"ok", "indeterminate"} \subseteq Verdicts
    BY DEF Verdicts
  <2>3. PICK v \in {"ok", "indeterminate"} : Verdict(c, v)
    BY <1>7 DEF Succeed
  <2>4. v \in Verdicts /\ v # "error"
    BY <2>2
  <2> QED
    BY <1>1, <1>3, <1>7, <2>1, <2>3, <2>4, AnswerEnds
<1> QED
  BY <1>4, <1>5, <1>6, <1>7 DEF FirstRead

(* The head was projected for an estimate.                                 *)
LEMMA ProjectedStep ==
  ASSUME IInv, NEW c \in Tools, Projected(c)
  PROVE  IInv'
<1>1. /\ pc[c] = "view" /\ pc[c] \in InFlight /\ pc[c] # "after" /\ queue # <<>> /\ Head(queue) = c
      /\ UNCHANGED <<engineState, handleVars, failed, executed>> /\ UNCHANGED <<req, handle>> /\ seen' = seen
  BY DEF Projected, Answered, InFlight
<1>2. /\ AtStep(c) /\ Fits(c) /\ seen \in [Tools -> Heads] /\ head \in [DOMAIN head -> Heads] /\ modelOf \in [Tools -> Nat]
  BY <1>1 DEF IInv, StepsFit, RequestsFit, Typed
<1>3. seen' \in [Tools -> Heads] /\ \A d \in Tools : d # c => seen'[d] = seen[d]
  BY <1>1, <1>2
<1>4. CASE Unmoved(c) /\ Retain(c, [model |-> modelOf[handle[c]], head |-> seen[c]])
  <2> DEFINE record == [model |-> modelOf[handle[c]], head |-> seen[c]]
  <2>1. Op(c) = "estimate" /\ modelOf[handle[c]] = seen[c].model
    BY <1>1, <1>2, <1>4 DEF AtStep, Unmoved
  <2>2. seen[c] \in Heads /\ seen[c].model \in Nat
    BY <1>2 DEF Heads
  <2>3. record \in [model : Nat, head : Heads] /\ record.model = record.head.model
    BY <2>1, <2>2
  <2> HIDE DEF record
  <2>4. Retain(c, record) /\ Op(c) \in Estimation
    BY <1>4, <2>1 DEF record, Estimation
  <2> QED
    BY <1>1, <1>3, <2>3, <2>4, RetainEnds
<1>5. CASE Verdict(c, "error") /\ queue' = Tail(queue) /\ UNCHANGED ledger
  <2>1. "error" \in Verdicts /\ "error" # "ok"
    BY DEF Verdicts
  <2> QED
    BY <1>1, <1>3, <1>5, <2>1, AnswerEnds
<1> QED
  BY <1>4, <1>5 DEF Projected

(* A proposed model was validated.                                         *)
LEMMA CheckedStep ==
  ASSUME IInv, NEW c \in Tools, Checked(c)
  PROVE  IInv'
<1>1. /\ pc[c] = "check" /\ pc[c] \in InFlight /\ pc[c] \notin {"after", "idle"} /\ queue # <<>> /\ Head(queue) = c
      /\ UNCHANGED <<engineState, handleVars, failed, executed>> /\ UNCHANGED <<req, handle>> /\ seen' = seen
  BY DEF Checked, Answered, InFlight
<1>2. seen' \in [Tools -> Heads] /\ \A d \in Tools : d # c => seen'[d] = seen[d]
  BY <1>1 DEF IInv, Typed
<1>3. CASE Retain(c, Frozen(c))
  <2>1. Op(c) \in {"submit", "review"}
    BY <1>1 DEF IInv, StepsFit, AtStep
  <2>2. Frozen(c) \in [model : Nat, head : Heads] /\ Frozen(c).model = Frozen(c).head.model
    BY <1>1, <2>1, FrozenFits
  <2> QED
    BY <1>1, <1>2, <1>3, <2>1, <2>2, RetainEnds DEF Estimation
<1>4. CASE Verdict(c, "error") /\ queue' = Tail(queue) /\ UNCHANGED ledger
  <2>1. "error" \in Verdicts /\ "error" # "ok"
    BY DEF Verdicts
  <2> QED
    BY <1>1, <1>2, <1>4, <2>1, AnswerEnds
<1> QED
  BY <1>3, <1>4 DEF Checked

(* The engine refused the mutation.                                        *)
LEMMA RefusedStep ==
  ASSUME IInv, NEW c \in Tools, Refused(c)
  PROVE  IInv'
<1>1. /\ pc[c] = "mutate" /\ pc[c] \in InFlight /\ pc[c] # "after" /\ queue # <<>> /\ Head(queue) = c
      /\ UNCHANGED <<engineState, handleVars, failed, executed>> /\ UNCHANGED <<req, handle>>
      /\ seen' = seen /\ ledger' = ledger /\ Verdict(c, "error") /\ queue' = Tail(queue)
  BY DEF Refused, Answered, InFlight
<1>2. seen' \in [Tools -> Heads] /\ \A d \in Tools : d # c => seen'[d] = seen[d]
  BY <1>1 DEF IInv, Typed
<1>3. "error" \in Verdicts /\ "error" # "ok"
  BY DEF Verdicts
<1> QED
  BY <1>1, <1>2, <1>3, AnswerEnds

(* The claims of a revised world were compared.                            *)
LEMMA ClaimsReadStep ==
  ASSUME IInv, NEW c \in Tools, ClaimsRead(c)
  PROVE  IInv'
<1>1. /\ pc[c] = "after" /\ pc[c] \in InFlight /\ queue # <<>> /\ Head(queue) = c
      /\ UNCHANGED <<engineState, handleVars, failed, executed>> /\ UNCHANGED <<req, handle>>
      /\ seen' = seen /\ ledger' = ledger /\ Succeed(c) /\ queue' = Tail(queue)
  BY DEF ClaimsRead, Answered, InFlight
<1>2. seen' \in [Tools -> Heads] /\ \A d \in Tools : d # c => seen'[d] = seen[d]
  BY <1>1 DEF IInv, Typed
<1>3. Outcome(c)'
  <2>1. req'[c].op = "revise"
    BY <1>1 DEF IInv, StepsFit, AtStep, Op
  <2> QED
    BY <2>1 DEF Outcome, Op, Estimation
<1>4. {"ok", "indeterminate"} \subseteq Verdicts
  BY DEF Verdicts
<1>5. PICK v \in {"ok", "indeterminate"} : Verdict(c, v)
  BY <1>1 DEF Succeed
<1>6. v \in Verdicts /\ v # "error"
  BY <1>4
<1> QED
  BY <1>1, <1>2, <1>3, <1>5, <1>6, AnswerEnds

(* All the calls the engine process holds end at once: what it may have    *)
(* done keeps its receipt.                                                 *)
LEMMA EngineFailsStep ==
  ASSUME IInv, EngineFails
  PROVE  IInv'
<1>1. PICK m \in 0..Len(queue), overgrown \in SUBSET {c \in Tools : pc[c] = "after"} :
        LET lost == {c \in ToSet(SubSeq(queue, 1, m)) : pc[c] = "mutate"}
            Result(c) == CASE c \in lost \cup overgrown -> "indeterminate"
                           [] pc[c] = "after" /\ c \notin overgrown -> "ok"
                           [] OTHER -> "error"
        IN  /\ executed' = executed \cup lost
            /\ Settle([c \in ToSet(queue) |-> Result(c)])
  BY DEF EngineFails
<1> DEFINE lost == {c \in ToSet(SubSeq(queue, 1, m)) : pc[c] = "mutate"}
           Result(c) == CASE c \in lost \cup overgrown -> "indeterminate"
                          [] pc[c] = "after" /\ c \notin overgrown -> "ok"
                          [] OTHER -> "error"
           F == [c \in ToSet(queue) |-> Result(c)]
<1>2. /\ executed' = executed \cup lost /\ Settle(F) /\ failed' = TRUE /\ queue' = <<>>
      /\ UNCHANGED <<engineState, handleVars>> /\ UNCHANGED <<head, worlds, req, handle>> /\ ledger' = ledger /\ seen' = seen
  BY <1>1 DEF EngineFails, engineState, handleVars
<1>3. /\ ToSet(queue) = {c \in Tools : pc[c] \in Waiting} /\ queue \in Seq(Tools) /\ pc \in [Tools -> Pcs]
      /\ Links /\ Counts
  BY DEF IInv, QueueHolds, CallsTyped, Links
<1>4. lost \subseteq ToSet(queue) /\ \A c \in lost : pc[c] = "mutate"
  <2>1. \A i \in 1..Len(SubSeq(queue, 1, m)) : i \in 1..Len(queue) /\ SubSeq(queue, 1, m)[i] = queue[i]
    BY <1>3
  <2>2. DOMAIN SubSeq(queue, 1, m) = 1..Len(SubSeq(queue, 1, m)) /\ DOMAIN queue = 1..Len(queue)
    BY <1>3
  <2> QED
    BY <2>1, <2>2 DEF ToSet
<1>5. /\ DOMAIN F = ToSet(queue)
      /\ \A c \in ToSet(queue) : F[c] = IF c \in lost \cup overgrown THEN "indeterminate"
                                        ELSE IF pc[c] = "after" THEN "ok" ELSE "error"
      /\ F = [c \in ToSet(queue) |-> F[c]]
  <2>1. \A c \in ToSet(queue) : Result(c) = IF c \in lost \cup overgrown THEN "indeterminate"
                                            ELSE IF pc[c] = "after" THEN "ok" ELSE "error"
    <3> HIDE DEF lost
    <3> SUFFICES ASSUME NEW c \in ToSet(queue)
                 PROVE  Result(c) = IF c \in lost \cup overgrown THEN "indeterminate"
                                    ELSE IF pc[c] = "after" THEN "ok" ELSE "error"
      OBVIOUS
    <3>1. (c \in overgrown => pc[c] = "after") /\ (c \in lost => pc[c] # "after")
      BY <1>4
    <3>2. CASE c \in lost \cup overgrown
      BY <3>1, <3>2
    <3>3. CASE c \notin lost \cup overgrown /\ pc[c] = "after"
      BY <3>3
    <3>4. CASE c \notin lost \cup overgrown /\ pc[c] # "after"
      BY <3>4
    <3> QED
      BY <3>2, <3>3, <3>4
  <2> HIDE DEF Result, lost
  <2> QED
    BY <2>1
<1> HIDE DEF F, lost
<1>6. /\ F \in [DOMAIN F -> Verdicts]
      /\ \A c \in DOMAIN F : /\ c \in Tools
                             /\ F[c] = "ok" => pc[c] = "after"
                             /\ F[c] = "error" => pc[c] # "after" /\ c \notin lost
                             /\ F[c] # "error" => pc[c] \in {"mutate", "after"}
                             /\ pc[c] \in InFlight \/ pc[c] \in Unbound
  <2>1. \A c \in DOMAIN F : F[c] \in Verdicts
    BY <1>5 DEF Verdicts
  <2>2. \A c \in DOMAIN F : c \in Tools /\ pc[c] \in InFlight \cup Unbound
    BY <1>3, <1>5 DEF Waiting, InFlight, Unbound, Pcs
  <2> QED
    BY <1>4, <1>5, <2>1, <2>2
<1>7. Endable(F)
  BY <1>6 DEF Endable, InFlight
<1>8. Steady
  BY <1>2, FitsStay
<1> DEFINE E == {c \in DOMAIN F : F[c] = "ok"}
<1>9. /\ Links' /\ Frame({}, E)
      /\ \A c \in Tools : pc'[c] = IF c \in DOMAIN F \cup Waiters(F) THEN "done" ELSE pc[c]
  BY <1>2, <1>3, <1>7, <1>8, SettleLinks
<1>10. Counts' /\ pendingWorlds' <= pendingWorlds /\ \A h \in Tools : rolling'[h] <= rolling[h]
  BY <1>2, <1>3, <1>7, <1>8, SettleCounts
<1>11. QueueHolds'
  <2>1. \A c \in Tools : pc'[c] \notin Waiting
    BY <1>3, <1>5, <1>9 DEF Waiting
  <2>2. queue' \in Seq(Tools) /\ ToSet(queue') = {} /\ IsInjective(queue')
    BY <1>2 DEF ToSet, IsInjective
  <2> QED
    BY <2>1, <2>2 DEF QueueHolds
<1>12. \A c \in receipts : c \in receipts' \/ (c \in DOMAIN F /\ F[c] = "error")
  BY <1>2 DEF Settle, Forgotten
<1>13. \A c \in receipts \ receipts' : pc[c] \notin {"after", "done"}
  BY <1>6, <1>12 DEF InFlight, Unbound
<1>14. /\ executed \subseteq executed' /\ executed' \subseteq Tools
       /\ \A c \in executed' \ executed : c \in receipts' /\ pc'[c] \in {"after", "done"} /\ Op(c)' \notin Estimation
  <2>1. executed \subseteq Tools
    BY DEF IInv, Typed
  <2>2. ASSUME NEW c \in lost
        PROVE  c \in Tools /\ c \in receipts' /\ pc'[c] = "done" /\ Op(c) \notin Estimation
    <3>1. c \in DOMAIN F /\ c \in Tools /\ pc[c] = "mutate" /\ F[c] # "error"
      BY <1>4, <1>5, <1>6
    <3>2. c \in receipts /\ Op(c) \notin Estimation
      BY <3>1 DEF IInv, CallsLinked, StepsFit, AtStep, InFlight
    <3> QED
      BY <1>9, <1>12, <3>1, <3>2
  <2> QED
    BY <1>2, <2>1, <2>2 DEF Op
<1>15. \A c \in E : Outcome(c)'
  <2>1. \A c \in E : req'[c].op = "revise"
    BY <1>2, <1>6 DEF IInv, StepsFit, AtStep, Op
  <2> QED
    BY <2>1 DEF Outcome, Op, Estimation
<1> HIDE DEF E
<1>16. \A c \in Tools : pc[c] = "idle" => pc'[c] = "idle"
  BY <1>3, <1>5, <1>9 DEF Waiting, Waiters
<1>17. /\ failed' \in BOOLEAN /\ seen' \in [Tools -> Heads] /\ DOMAIN ledger' \ DOMAIN ledger = {}
       /\ DOMAIN ledger \subseteq DOMAIN ledger'
       /\ ledger' \in [DOMAIN ledger' -> [model : Nat, head : Heads]] /\ EstimatesFrozen'
  BY <1>2 DEF IInv, Typed, EstimatesFrozen
<1>18. receipts' \ receipts = {} /\ \A c \in Tools : pc'[c] = "view" => c \in {} \/ seen'[c] = seen[c]
  BY <1>2 DEF Settle
<1> QED
  BY <1>2, <1>9, <1>10, <1>11, <1>13, <1>14, <1>15, <1>16, <1>17, <1>18, QuietStep

(* A stored world's handle is kept, with the model that was read for it.   *)
LEMMA OpenedStep ==
  ASSUME IInv, NEW c \in Tools, Opened(c)
  PROVE  IInv'
<1>1. /\ pc[c] = "preset" /\ pc[c] \in Unbound /\ pc[c] \notin {"idle", "after", "done"}
      /\ worlds' = With(worlds, World(c), c) /\ modelOf' = [modelOf EXCEPT ![c] = seen[c].model]
      /\ Admit(c, req[c], c, queue) /\ failed' = failed /\ executed' = executed /\ ledger' = ledger /\ seen' = seen
      /\ head' = head /\ status' = status /\ known' = known /\ req' = req
  BY DEF Opened, engineState, Unbound
<1>2. /\ World(c) \in Stored /\ NeedsHandle(req[c]) /\ Fits(c) /\ OthersQueued(c, queue) /\ Typed
      /\ Op(c) # "create" /\ World(c) \in DOMAIN head
  <2>1. AtStep(c) /\ Fits(c) /\ QueueHolds /\ Typed
    BY <1>1 DEF IInv, StepsFit, RequestsFit
  <2>2. World(c) \in Stored /\ NeedsHandle(req[c])
    BY <1>1, <2>1 DEF AtStep
  <2>3. OthersQueued(c, queue)
    BY <1>1, <2>1, QueueWithout DEF Waiting
  <2> QED
    BY <2>1, <2>2, <2>3 DEF NeedsHandle, Op, Typed
<1>3. /\ DOMAIN worlds' = DOMAIN worlds \cup {World(c)} /\ worlds' \in [DOMAIN worlds' -> Tools]
      /\ worlds'[World(c)] = c /\ \A w \in DOMAIN worlds : w # World(c) => worlds'[w] = worlds[w]
      /\ modelOf' \in [Tools -> Nat] /\ \A d \in Tools : d # c => modelOf'[d] = modelOf[d]
  <2>1. worlds \in [DOMAIN worlds -> Tools] /\ modelOf \in [Tools -> Nat] /\ seen[c].model \in Nat
    BY <1>2 DEF Typed, Heads
  <2> QED
    BY <1>1, <2>1 DEF With
<1>4. /\ Fits(c)' /\ req' = [d \in Tools |-> req'[d]] /\ \A d \in Tools : pc[d] # "idle" => req'[d] = req[d]
      /\ req'[c] = req[c]
  <2>1. Asked(req[c])'
    BY <1>1, <1>2 DEF Fits, Asked
  <2> QED
    BY <1>1, <1>2, <1>3, <2>1 DEF Fits, Typed, Op, World
<1>5. /\ Links' /\ Counts' /\ QueueHolds' /\ Frame({c}, {}) /\ receipts \subseteq receipts'
      /\ handle'[c] = c
      /\ \A d \in Tools : d # c => pc'[d] = pc[d] \/ (pc[d] = "join" /\ pc'[d] = "done")
      /\ pc'[c] \in {"join", "done", "pre", "mutate"}
      /\ pc'[c] = "mutate" => req'[c].op = "roll"
      /\ pc'[c] \in InFlight /\ req'[c].op \in {"reroll", "reject"} => req'[c].arg \in known[c]
      /\ \/ pendingWorlds' <= pendingWorlds
         \/ Cardinality(DOMAIN worlds) + pendingWorlds' <= MaxWorlds
      /\ \A k \in Tools : rolling'[k] <= rolling[k] \/ Cardinality(known[k]) + rolling'[k] <= MaxCandidates
  <2>1. c \in Tools \cup {Own} /\ Admit(c, req'[c], c, queue)
    BY <1>1, <1>4
  <2> QED
    BY <1>1, <1>2, <1>4, <2>1, AdmitCalls
<1>6. Steady /\ CallsTyped' /\ CallsLinked' /\ ReceiptsDiffer' /\ receipts' \subseteq Tools
  BY <1>5 DEF Frame, Links, CallsTyped
<1>7. Typed'
  BY <1>1, <1>2, <1>3, <1>6 DEF Typed, Steady
<1>8. Growth
  <2>1. \A w \in DOMAIN head : Below(head[w], head[w])
    BY <1>2 DEF Below, Heads, Typed
  <2>2. \A h \in Tools : pc[h] \notin Unbound => modelOf'[h] = modelOf[h]
    BY <1>1, <1>3
  <2> QED
    BY <1>1, <1>3, <2>1, <2>2 DEF Growth, Grows
<1>9. RequestsFit'
  <2>1. DOMAIN ledger \subseteq {d \in Tools : pc[d] # "idle"}
    BY DEF IInv, ReceiptsKept, CallsTyped
  <2>2. \A d \in Tools : (pc'[d] = "idle" => pc[d] = "idle") /\ (pc[d] = "idle" => pc'[d] = "idle" \/ Fits(d)')
    BY <1>4, <1>5 DEF Frame
  <2> QED
    BY <1>6, <1>8, <2>1, <2>2, RequestsKept DEF Growth, IInv
<1>10. HandleOf(c, World(c))'
  BY <1>1, <1>4, <1>5 DEF HandleOf, Unbound, World
<1>11. HandlesFit'
  <2>1. DOMAIN head' \ Stored \subseteq executed'
    BY <1>1 DEF IInv, HandlesFit
  <2>2. \A d \in receipts' \ receipts : Handled(d)'
    <3>1. \A d \in receipts' \ receipts : d = c
      BY <1>5 DEF Frame
    <3>2. Handled(c)'
      BY <1>1, <1>2, <1>5, <1>10 DEF Handled, HandleOf, World
    <3> QED
      BY <3>1, <3>2
  <2>3. ASSUME NEW w \in DOMAIN worlds'
        PROVE  \/ w \in DOMAIN worlds /\ worlds'[w] = worlds[w]
               \/ HandleOf(worlds[w], w)' /\ (w \notin Stored => worlds'[w] = w /\ Op(w)' = "create")
    <3>1. CASE w = World(c)
      BY <1>1, <1>2, <1>3, <1>10, <3>1 DEF HandleOf, World
    <3>2. CASE w # World(c)
      BY <1>3, <3>2
    <3> QED
      BY <3>1, <3>2
  <2> QED
    BY <1>5, <2>1, <2>2, <2>3, HandlesKept
<1>12. StepsFit'
  <2>1. AtStep(c)'
    BY <1>4, <1>5, <1>1 DEF AtStep, Op, Estimation
  <2> QED
    BY <1>1, <1>5, <1>7, <1>8, <2>1, StepsKept
<1>13. OutcomesFit'
  BY <1>1, <1>5, <1>6, <1>8, OutcomesKept
<1>14. ReceiptsKept'
  BY <1>1, <1>5, ReceiptsStay
<1>15. ModelsFit'
  <2>1. \A d \in Tools : modelOf'[d] = modelOf[d] \/ (pc[d] # "idle" /\ (Op(d) # "create" \/ d \in DOMAIN worlds'))
    BY <1>1, <1>2, <1>3
  <2>2. ASSUME NEW w \in DOMAIN worlds' \ Stored
        PROVE  w \in DOMAIN worlds /\ modelOf'[worlds'[w]] = modelOf[worlds[w]] /\ head'[w].model = head[w].model
    <3>1. w \in DOMAIN worlds /\ w # World(c) /\ worlds'[w] = worlds[w]
      BY <1>2, <1>3
    <3>2. worlds[w] \in Tools /\ worlds[w] # c
      BY <1>1, <3>1 DEF IInv, HandlesFit, HandleOf
    <3> QED
      BY <1>1, <1>3, <3>1, <3>2
  <2> QED
    BY <1>3, <1>5, <2>1, <2>2, ModelsKept
<1>16. CandidatesFit'
  <2>1. \A h \in Tools : known'[h] \ known[h] = {}
    BY <1>1
  <2> QED
    BY <1>5, <1>7, <1>8, <2>1, CandidatesKept
<1>17. WithinQuotas'
  <2>1. IsFiniteSet(DOMAIN worlds') /\ DOMAIN worlds' \ Stored = DOMAIN worlds \ Stored
    BY <1>2, <1>3, FS_AddElement DEF IInv, WithinQuotas
  <2> QED
    BY <1>1, <1>5, <1>6, <2>1, QuotasKept
<1>18. EstimatesFrozen'
  BY <1>1 DEF IInv, EstimatesFrozen
<1> QED
  BY <1>5, <1>6, <1>7, <1>9, <1>11, <1>12, <1>13, <1>14, <1>15, <1>16, <1>17, <1>18 DEF IInv

-----------------------------------------------------------------------------
(* The mutation in the engine.                                             *)

(* A call whose mutation is made has its handle, and a new world is new.   *)
LEMMA Mutates ==
  ASSUME IInv, NEW c \in Tools, pc[c] = "mutate"
  PROVE  /\ c \in receipts /\ c \notin executed /\ Op(c) \in Operations \ Estimation /\ Fits(c) /\ Handled(c)
         /\ IF Op(c) = "create" THEN c \notin DOMAIN head /\ c \notin Stored /\ World(c) = c
            ELSE /\ World(c) \in DOMAIN head /\ head[World(c)] \in Heads
                 /\ handle[c] \in Tools /\ pc[handle[c]] \notin Unbound /\ World(handle[c]) = World(c)
         /\ Op(c) \in {"reroll", "reject"} => /\ req[c].arg \in known[handle[c]] /\ req[c].arg \in Candidates
                                              /\ <<World(c), req[c].arg>> \in DOMAIN status
                                              /\ Below(req[c].arg.parent, head[World(c)])
<1>1. c \in receipts /\ c \notin executed /\ AtStep(c) /\ Fits(c) /\ Handled(c)
  BY DEF IInv, CallsLinked, InFlight, ReceiptsKept, StepsFit, RequestsFit, HandlesFit
<1>2. Op(c) \in Operations \ Estimation
  BY <1>1 DEF AtStep, Fits, Asked, Op
<1>3. ASSUME Op(c) = "create" PROVE c \notin DOMAIN head /\ c \notin Stored /\ World(c) = c
  BY <1>1, <1>3, ServiceAssumption DEF Fits, IInv, HandlesFit, Tools
<1>4. ASSUME Op(c) # "create"
      PROVE  /\ World(c) \in DOMAIN head /\ head[World(c)] \in Heads
             /\ handle[c] \in Tools /\ pc[handle[c]] \notin Unbound /\ World(handle[c]) = World(c)
  <2>1. NeedsHandle(req[c])
    BY <1>2, <1>4 DEF NeedsHandle, Op, Estimation
  <2> QED
    BY <1>1, <1>4, <2>1 DEF Fits, Handled, HandleOf, IInv, Typed
<1>5. ASSUME Op(c) \in {"reroll", "reject"}
      PROVE  /\ req[c].arg \in known[handle[c]] /\ req[c].arg \in Candidates
             /\ <<World(c), req[c].arg>> \in DOMAIN status /\ Below(req[c].arg.parent, head[World(c)])
  <2>1. req[c].arg \in known[handle[c]] /\ req[c].arg \in Candidates
    BY <1>1, <1>5 DEF AtStep, InFlight, Fits, Asked, Op
  <2> QED
    BY <1>4, <1>5, <2>1 DEF IInv, CandidatesFit
<1> QED
  BY <1>1, <1>2, <1>3, <1>4, <1>5

(* A head only moves on, with the model of a revised world.                *)
LEMMA HeadMoves ==
  ASSUME IInv, NEW c \in Tools, pc[c] = "mutate"
  PROVE  /\ DOMAIN HeadAfter(c) = DOMAIN head \cup (IF Op(c) = "create" THEN {c} ELSE {})
         /\ HeadAfter(c) \in [DOMAIN HeadAfter(c) -> Heads]
         /\ \A w \in DOMAIN head : Below(head[w], HeadAfter(c)[w]) /\ (w # World(c) => HeadAfter(c)[w] = head[w])
         /\ Op(c) = "create" => HeadAfter(c)[c].model = 0
         /\ Op(c) # "create" =>
              HeadAfter(c)[World(c)].model = head[World(c)].model + (IF Op(c) \in {"refine", "revise"} THEN 1 ELSE 0)
<1>1. head \in [DOMAIN head -> Heads] /\ \A w \in DOMAIN head : head[w] \in Heads /\ Below(head[w], head[w])
  BY DEF IInv, Typed, Heads, Below
<1>2. CASE Op(c) = "create"
  <2>1. HeadAfter(c) = With(head, c, [version |-> 0, model |-> 0]) /\ c \notin DOMAIN head
    BY <1>2, Mutates DEF HeadAfter
  <2>2. [version |-> 0, model |-> 0] \in Heads
    BY DEF Heads
  <2> QED
    BY <1>1, <1>2, <2>1, <2>2 DEF With
<1>3. ASSUME Op(c) # "create", NEW h \in Heads, HeadAfter(c) = [head EXCEPT ![World(c)] = h],
             Below(head[World(c)], h),
             h.model = head[World(c)].model + (IF Op(c) \in {"refine", "revise"} THEN 1 ELSE 0)
      PROVE  /\ DOMAIN HeadAfter(c) = DOMAIN head /\ HeadAfter(c) \in [DOMAIN HeadAfter(c) -> Heads]
             /\ \A w \in DOMAIN head : Below(head[w], HeadAfter(c)[w]) /\ (w # World(c) => HeadAfter(c)[w] = head[w])
             /\ HeadAfter(c)[World(c)].model = head[World(c)].model + (IF Op(c) \in {"refine", "revise"} THEN 1 ELSE 0)
  <2>1. World(c) \in DOMAIN head
    BY <1>3, Mutates
  <2> QED
    BY <1>1, <1>3, <2>1
<1>4. CASE Op(c) # "create"
  <2> DEFINE old == head[World(c)]
             new == [version |-> old.version + (IF Op(c) \in {"revise", "accept"} THEN 1 ELSE 0),
                     model   |-> old.model + (IF Op(c) \in {"refine", "revise"} THEN 1 ELSE 0)]
  <2>1. World(c) \in DOMAIN head /\ old \in Heads
    BY <1>4, Mutates
  <2>2. old = [version |-> old.version, model |-> old.model] /\ old.version \in Nat /\ old.model \in Nat
    BY <2>1 DEF Heads
  <2>3. HeadAfter(c) = [head EXCEPT ![World(c)] = new]
    <3>1. CASE Op(c) = "refine"
      <4>1. HeadAfter(c) = [head EXCEPT ![World(c)].model = @ + 1]
        BY <3>1 DEF HeadAfter
      <4>2. new = [old EXCEPT !.model = @ + 1]
        BY <2>2, <3>1
      <4> QED
        BY <4>1, <4>2
    <3>2. CASE Op(c) = "revise"
      <4>1. HeadAfter(c) = [head EXCEPT ![World(c)].version = @ + 1, ![World(c)].model = @ + 1]
        BY <3>2 DEF HeadAfter
      <4>2. new \in Heads /\ new.version = old.version + 1 /\ new.model = old.model + 1
        BY <2>2, <3>2 DEF Heads
      <4>3. new = [old EXCEPT !.version = @ + 1, !.model = @ + 1]
        <5> HIDE DEF old, new
        <5> QED
          BY <2>1, <4>2 DEF Heads
      <4> QED
        BY <2>1, <4>1, <4>3
    <3>3. CASE Op(c) = "accept"
      <4>1. HeadAfter(c) = [head EXCEPT ![World(c)].version = @ + 1]
        BY <3>3 DEF HeadAfter
      <4>2. new = [old EXCEPT !.version = @ + 1]
        BY <2>2, <3>3
      <4> QED
        BY <4>1, <4>2
    <3>4. CASE Op(c) \notin {"create", "refine", "revise", "accept"}
      <4>1. HeadAfter(c) = head
        BY <3>4 DEF HeadAfter
      <4>2. new = old
        BY <2>2, <3>4
      <4> QED
        BY <1>1, <2>1, <4>1, <4>2
    <3> QED
      BY <1>4, <3>1, <3>2, <3>3, <3>4
  <2>4. new \in Heads /\ Below(old, new) /\ new.model = old.model + (IF Op(c) \in {"refine", "revise"} THEN 1 ELSE 0)
    BY <2>2 DEF Heads, Below
  <2> HIDE DEF new, old
  <2> QED
    BY <1>3, <1>4, <2>3, <2>4 DEF old
<1> QED
  BY <1>2, <1>4

(* What is rolled comes of the head, or of what was rolled before.         *)
LEMMA RolledFits ==
  ASSUME IInv, NEW c \in Tools, pc[c] = "mutate", Op(c) \in Rolling
  PROVE  Rolled(c) \in Candidates /\ Below(Rolled(c).parent, head[World(c)])
<1>1. head[World(c)] \in Heads /\ Below(head[World(c)], head[World(c)])
  <2>1. Op(c) # "create" /\ head[World(c)] \in Heads
    BY Mutates DEF Rolling
  <2> QED
    BY <2>1 DEF Heads, Below
<1>2. CASE Op(c) = "roll"
  <2>1. req[c].arg \in Rolls
    BY <1>2, Mutates DEF Fits, Asked, Op
  <2>2. Rolled(c) = [parent |-> head[World(c)], roll |-> req[c].arg, index |-> 0]
    BY <1>2 DEF Rolled
  <2> QED
    BY <1>1, <2>1, <2>2 DEF Candidates
<1>3. CASE Op(c) = "reroll"
  <2>1. req[c].arg \in Candidates /\ Below(req[c].arg.parent, head[World(c)])
    BY <1>3, Mutates
  <2>2. Rolled(c) = [req[c].arg EXCEPT !.index = @ + 1]
    BY <1>3 DEF Rolled
  <2> QED
    BY <2>1, <2>2 DEF Candidates
<1> QED
  BY <1>2, <1>3 DEF Rolling

(* What was rolled stays, and is pending only if it was; what is rerolled  *)
(* or rejected is not.                                                     *)
LEMMA StatusMoves ==
  ASSUME IInv, NEW c \in Tools, pc[c] = "mutate"
  PROVE  /\ StatusAfter(c) \in [DOMAIN StatusAfter(c) -> Statuses] /\ DOMAIN StatusAfter(c) \subseteq Worlds \X Candidates
         /\ \A k \in DOMAIN status : k \in DOMAIN StatusAfter(c) /\ (StatusAfter(c)[k] = "pending" => status[k] = "pending")
         /\ Op(c) \in Rolling => <<World(c), Rolled(c)>> \in DOMAIN StatusAfter(c)
         /\ Op(c) \in {"reroll", "reject"} => StatusAfter(c)[<<World(c), req[c].arg>>] # "pending"
<1> DEFINE w == World(c)
           arg == req[c].arg
           Closing(S, as) == [k \in DOMAIN status |-> IF k \in S /\ Pending(w, k[2]) THEN as ELSE status[k]]
<1>1. status \in [DOMAIN status -> Statuses] /\ DOMAIN status \subseteq Worlds \X Candidates /\ DOMAIN head \subseteq Worlds
  BY DEF IInv, Typed
<1>2. /\ Op(c) # "create" => w \in Worlds
      /\ Op(c) \in {"reroll", "reject"} => <<w, arg>> \in DOMAIN status
      /\ Op(c) = "accept" => arg.candidate \in Candidates
  BY <1>1, Mutates DEF Fits, Asked, Op
<1>3. ASSUME NEW S, NEW as \in Statuses \ {"pending"}
      PROVE  /\ DOMAIN Closing(S, as) = DOMAIN status /\ Closing(S, as) \in [DOMAIN status -> Statuses]
             /\ \A k \in DOMAIN status : Closing(S, as)[k] = "pending" => status[k] = "pending"
  BY <1>1
<1>4. ASSUME NEW as \in Statuses \ {"pending"}, <<w, arg>> \in DOMAIN status
      PROVE  Closing({<<w, arg>>}, as)[<<w, arg>>] # "pending"
  BY <1>4 DEF Pending
<1>5. "pending" \in Statuses /\ {"rejected", "superseded", "committed"} \subseteq Statuses \ {"pending"}
  BY DEF Statuses
<1> HIDE DEF w, arg
<1>6. CASE Op(c) = "roll"
  <2> DEFINE k == <<w, Rolled(c)>>
  <2>1. k \in Worlds \X Candidates
    BY <1>2, <1>6, RolledFits DEF Rolling
  <2>2. StatusAfter(c) = WithNew(status, k, "pending")
    BY <1>6 DEF StatusAfter, w
  <2> HIDE DEF k
  <2>3. /\ DOMAIN StatusAfter(c) = DOMAIN status \cup {k} /\ StatusAfter(c) \in [DOMAIN status \cup {k} -> Statuses]
        /\ \A x \in DOMAIN status : StatusAfter(c)[x] = status[x]
    BY <1>1, <1>5, <2>2 DEF WithNew
  <2> QED
    BY <1>1, <1>6, <2>1, <2>3 DEF k, w
<1>7. CASE Op(c) = "reroll"
  <2> DEFINE k == <<w, Rolled(c)>>
             f == Closing({<<w, arg>>}, "superseded")
  <2>1. k \in Worlds \X Candidates
    BY <1>2, <1>7, RolledFits DEF Rolling
  <2>2. StatusAfter(c) = WithNew(f, k, "pending")
    BY <1>7 DEF StatusAfter, w, arg
  <2>3. /\ DOMAIN f = DOMAIN status /\ f \in [DOMAIN status -> Statuses] /\ <<w, arg>> \in DOMAIN status
        /\ \A x \in DOMAIN status : f[x] = "pending" => status[x] = "pending"
        /\ f[<<w, arg>>] # "pending"
    BY <1>2, <1>3, <1>4, <1>5, <1>7
  <2> HIDE DEF k, f
  <2>4. /\ DOMAIN StatusAfter(c) = DOMAIN status \cup {k} /\ StatusAfter(c) \in [DOMAIN status \cup {k} -> Statuses]
        /\ \A x \in DOMAIN status : StatusAfter(c)[x] = f[x]
    BY <1>5, <2>2, <2>3 DEF WithNew
  <2> QED
    BY <1>1, <1>7, <2>1, <2>3, <2>4 DEF k, w, arg
<1>8. CASE Op(c) = "reject"
  <2>1. StatusAfter(c) = Closing({<<w, arg>>}, "rejected")
    BY <1>8 DEF StatusAfter, w, arg
  <2> QED
    BY <1>1, <1>2, <1>3, <1>4, <1>5, <1>8, <2>1 DEF Rolling, w, arg
<1>9. CASE Op(c) = "accept"
  <2> DEFINE k == <<w, arg.candidate>>
             S == {x \in DOMAIN status : x[1] = w /\ x[2].parent = arg.candidate.parent}
             f == Closing(S, "superseded")
  <2>1. k \in Worlds \X Candidates
    BY <1>2, <1>9
  <2>2. StatusAfter(c) = With(f, k, "committed")
    BY <1>9 DEF StatusAfter, w, arg
  <2>3. /\ DOMAIN f = DOMAIN status /\ f \in [DOMAIN status -> Statuses]
        /\ \A x \in DOMAIN status : f[x] = "pending" => status[x] = "pending"
    BY <1>3, <1>5
  <2> HIDE DEF k, f
  <2>4. /\ DOMAIN StatusAfter(c) = DOMAIN status \cup {k} /\ StatusAfter(c) \in [DOMAIN status \cup {k} -> Statuses]
        /\ \A x \in DOMAIN status : StatusAfter(c)[x] \in {f[x], "committed"}
    BY <1>5, <2>2, <2>3 DEF With
  <2> QED
    BY <1>1, <1>9, <2>1, <2>3, <2>4 DEF Rolling
<1>10. CASE Op(c) \notin {"roll", "reroll", "reject", "accept"}
  <2>1. StatusAfter(c) = status
    BY <1>10 DEF StatusAfter
  <2> QED
    BY <1>1, <1>10, <2>1 DEF Rolling
<1> QED
  BY <1>6, <1>7, <1>8, <1>9, <1>10

(* What the service keeps of the mutation, or only that it is in doubt.    *)
Keeps(c) ==
  \/ worlds' = WorldsAfter(c) /\ known' = KnownAfter(c) /\ modelOf' = ModelAfter(c)
  \/ UNCHANGED handleVars /\ told'[c] = "indeterminate"

(* The handles after a mutation, by what the call does.                    *)
LEMMA HandlesMove ==
  ASSUME IInv, NEW c \in Tools, pc[c] = "mutate", Keeps(c)
  PROVE  /\ DOMAIN worlds \subseteq DOMAIN worlds' /\ worlds' \in [DOMAIN worlds' -> Tools]
         /\ \A w \in DOMAIN worlds : worlds'[w] = worlds[w]
         /\ \A w \in DOMAIN worlds' \ DOMAIN worlds : w = c /\ Op(c) = "create" /\ worlds'[w] = c
         /\ Op(c) = "create" /\ told'[c] # "indeterminate" => c \in DOMAIN worlds'
         /\ known' \in [Tools -> SUBSET Candidates]
         /\ \A h \in Tools : known[h] \subseteq known'[h]
         /\ \A h \in Tools : \A k \in known'[h] \ known[h] : Op(c) \in Rolling /\ h = handle[c] /\ k = Rolled(c)
         /\ modelOf' \in [Tools -> Nat]
         /\ \A h \in Tools : \/ modelOf'[h] = modelOf[h]
                             \/ Op(c) \in {"refine", "revise"} /\ h = handle[c] /\ modelOf'[h] = head[World(c)].model + 1
         /\ Op(c) \in {"refine", "revise"} => \/ modelOf'[handle[c]] = head[World(c)].model + 1
                                              \/ told'[c] = "indeterminate"
<1>1. /\ worlds \in [DOMAIN worlds -> Tools] /\ DOMAIN worlds \subseteq DOMAIN head
      /\ known \in [Tools -> SUBSET Candidates] /\ modelOf \in [Tools -> Nat]
  BY DEF IInv, Typed
<1>2. CASE UNCHANGED handleVars /\ told'[c] = "indeterminate"
  BY <1>1, <1>2 DEF handleVars
<1>3. CASE worlds' = WorldsAfter(c) /\ known' = KnownAfter(c) /\ modelOf' = ModelAfter(c)
  <2>1. /\ DOMAIN worlds \subseteq DOMAIN worlds' /\ worlds' \in [DOMAIN worlds' -> Tools]
        /\ \A w \in DOMAIN worlds : worlds'[w] = worlds[w]
        /\ \A w \in DOMAIN worlds' \ DOMAIN worlds : w = c /\ Op(c) = "create" /\ worlds'[w] = c
        /\ Op(c) = "create" => c \in DOMAIN worlds'
    <3>1. CASE Op(c) = "create"
      <4>1. worlds' = With(worlds, c, c) /\ c \notin DOMAIN worlds
        BY <1>1, <1>3, <3>1, Mutates DEF WorldsAfter
      <4> QED
        BY <1>1, <3>1, <4>1 DEF With
    <3>2. CASE Op(c) # "create"
      BY <1>1, <1>3, <3>2 DEF WorldsAfter
    <3> QED
      BY <3>1, <3>2
  <2>2. /\ known' \in [Tools -> SUBSET Candidates] /\ \A h \in Tools : known[h] \subseteq known'[h]
        /\ \A h \in Tools : \A k \in known'[h] \ known[h] : Op(c) \in Rolling /\ h = handle[c] /\ k = Rolled(c)
    <3>1. CASE Op(c) \in Rolling
      <4>1. known' = [known EXCEPT ![handle[c]] = @ \cup {Rolled(c)}] /\ Rolled(c) \in Candidates /\ handle[c] \in Tools
        BY <1>3, <3>1, Mutates, RolledFits DEF KnownAfter, Rolling
      <4> QED
        BY <1>1, <3>1, <4>1
    <3>2. CASE Op(c) \notin Rolling
      BY <1>1, <1>3, <3>2 DEF KnownAfter
    <3> QED
      BY <3>1, <3>2
  <2>3. /\ modelOf' \in [Tools -> Nat]
        /\ \A h \in Tools : \/ modelOf'[h] = modelOf[h]
                            \/ Op(c) \in {"refine", "revise"} /\ h = handle[c] /\ modelOf'[h] = head[World(c)].model + 1
        /\ Op(c) \in {"refine", "revise"} => modelOf'[handle[c]] = head[World(c)].model + 1
    <3>1. CASE Op(c) \in {"refine", "revise"}
      <4>1. /\ modelOf' = [modelOf EXCEPT ![handle[c]] = head[World(c)].model + 1]
            /\ handle[c] \in Tools /\ head[World(c)] \in Heads
        BY <1>3, <3>1, Mutates DEF ModelAfter
      <4>2. head[World(c)].model + 1 \in Nat
        BY <4>1 DEF Heads
      <4> QED
        BY <1>1, <3>1, <4>1, <4>2
    <3>2. CASE Op(c) \notin {"refine", "revise"}
      BY <1>1, <1>3, <3>2 DEF ModelAfter
    <3> QED
      BY <3>1, <3>2
  <2> QED
    BY <2>1, <2>2, <2>3
<1> QED
  BY <1>2, <1>3 DEF Keeps

(* A mutation that is made keeps the invariant, whether its call goes on   *)
(* to the claims or ends, and whether the service knows of it or not.      *)
LEMMA MutationStep ==
  ASSUME IInv, NEW c \in Tools, pc[c] = "mutate", head' = HeadAfter(c), status' = StatusAfter(c), Keeps(c),
         executed' = executed \cup {c}, UNCHANGED <<failed, ledger, req, handle, seen>>,
         Links', Counts', QueueHolds', NEW M, M \subseteq {c}, NEW E, E \subseteq {c}, Frame(M, E),
         \A d \in E : told'[d] # "indeterminate",
         \A d \in Tools : d # c => pc'[d] = pc[d] \/ (pc[d] = "join" /\ pc'[d] = "done"),
         pc'[c] = "done" \/ (pc'[c] = "after" /\ Op(c) = "revise"), receipts' = receipts,
         pendingWorlds' <= pendingWorlds, Op(c) = "create" => pendingWorlds' < pendingWorlds,
         \A h \in Tools : rolling'[h] <= rolling[h], Op(c) \in Rolling => rolling'[handle[c]] < rolling[handle[c]]
  PROVE  IInv'
<1>1. Steady /\ CallsTyped' /\ CallsLinked' /\ ReceiptsDiffer' /\ receipts' \subseteq Tools
  BY DEF Frame, Links, CallsTyped
<1>2. /\ c \in receipts /\ Fits(c) /\ Handled(c) /\ Op(c) \notin Estimation
      /\ pc'[c] \notin Unbound /\ pc'[c] \in {"after", "done"} /\ pc[c] \notin {"idle", "after", "done"}
      /\ \A x : Op(x)' = Op(x) /\ World(x)' = World(x)
  BY Mutates DEF Unbound, Op, World
<1>3. /\ DOMAIN head \subseteq DOMAIN head' /\ DOMAIN head' \subseteq DOMAIN head \cup {c}
      /\ Op(c) # "create" => DOMAIN head' = DOMAIN head
      /\ Op(c) = "create" => c \in DOMAIN head' /\ head'[c].model = 0
      /\ head' \in [DOMAIN head' -> Heads]
      /\ \A w \in DOMAIN head : Below(head[w], head'[w]) /\ (w # World(c) => head'[w] = head[w])
      /\ Op(c) # "create" => head'[World(c)].model = head[World(c)].model + (IF Op(c) \in {"refine", "revise"} THEN 1 ELSE 0)
  BY HeadMoves
<1>4. /\ status' \in [DOMAIN status' -> Statuses] /\ DOMAIN status' \subseteq Worlds \X Candidates
      /\ \A k \in DOMAIN status : k \in DOMAIN status' /\ (status'[k] = "pending" => status[k] = "pending")
      /\ Op(c) \in Rolling => <<World(c), Rolled(c)>> \in DOMAIN status'
      /\ Op(c) \in {"reroll", "reject"} => status'[<<World(c), req[c].arg>>] # "pending"
  BY StatusMoves
<1>5. /\ DOMAIN worlds \subseteq DOMAIN worlds' /\ worlds' \in [DOMAIN worlds' -> Tools]
      /\ \A w \in DOMAIN worlds : worlds'[w] = worlds[w]
      /\ \A w \in DOMAIN worlds' \ DOMAIN worlds : w = c /\ Op(c) = "create" /\ worlds'[w] = c
      /\ Op(c) = "create" /\ told'[c] # "indeterminate" => c \in DOMAIN worlds'
      /\ known' \in [Tools -> SUBSET Candidates]
      /\ \A h \in Tools : known[h] \subseteq known'[h]
      /\ \A h \in Tools : \A k \in known'[h] \ known[h] : Op(c) \in Rolling /\ h = handle[c] /\ k = Rolled(c)
      /\ modelOf' \in [Tools -> Nat]
      /\ \A h \in Tools : \/ modelOf'[h] = modelOf[h]
                          \/ Op(c) \in {"refine", "revise"} /\ h = handle[c] /\ modelOf'[h] = head[World(c)].model + 1
      /\ Op(c) \in {"refine", "revise"} => \/ modelOf'[handle[c]] = head[World(c)].model + 1
                                           \/ told'[c] = "indeterminate"
  BY HandlesMove
<1>6. IF Op(c) = "create" THEN c \notin DOMAIN head /\ c \notin Stored /\ World(c) = c
      ELSE /\ World(c) \in DOMAIN head /\ head[World(c)] \in Heads
           /\ handle[c] \in Tools /\ pc[handle[c]] \notin Unbound /\ World(handle[c]) = World(c)
  BY Mutates
<1>7. Typed'
  <2>1. /\ DOMAIN head \subseteq Worlds /\ DOMAIN worlds \subseteq DOMAIN head /\ Stored \subseteq DOMAIN head
        /\ failed \in BOOLEAN /\ executed \subseteq Tools /\ seen \in [Tools -> Heads]
        /\ ledger \in [DOMAIN ledger -> [model : Nat, head : Heads]] /\ DOMAIN ledger \subseteq Tools
    BY DEF IInv, Typed
  <2>2. DOMAIN head' \subseteq Worlds /\ Stored \subseteq DOMAIN head'
    BY <1>3, <2>1 DEF Worlds
  <2>3. DOMAIN worlds' \subseteq DOMAIN head'
    BY <1>3, <1>5, <2>1
  <2> QED
    BY <1>1, <1>3, <1>4, <1>5, <2>1, <2>2, <2>3 DEF Typed, Steady
<1>8. Growth
  <2>1. ASSUME NEW h \in Tools, pc[h] \notin Unbound, modelOf'[h] # modelOf[h]
        PROVE  head[World(h)].model < head'[World(h)].model
    <3>1. Op(c) \in {"refine", "revise"} /\ h = handle[c]
      BY <1>5, <2>1
    <3>2. head'[World(c)].model = head[World(c)].model + 1 /\ World(h) = World(c) /\ head[World(c)].model \in Nat
      BY <1>3, <1>6, <3>1 DEF Heads
    <3> QED
      BY <3>2
  <2> QED
    BY <1>3, <1>4, <1>5, <2>1 DEF Growth, Grows
<1>9. RequestsFit'
  <2>1. DOMAIN ledger \subseteq {d \in Tools : pc[d] # "idle"}
    BY DEF IInv, ReceiptsKept, CallsTyped
  <2>2. \A d \in Tools : (pc'[d] = "idle" => pc[d] = "idle") /\ (pc[d] = "idle" => pc'[d] = "idle")
    BY <1>2 DEF Frame
  <2> QED
    BY <1>1, <1>8, <2>1, <2>2, RequestsKept DEF Growth, IInv
<1>10. HandlesFit'
  <2>1. DOMAIN head' \ Stored \subseteq executed'
    BY <1>3 DEF IInv, HandlesFit
  <2>2. ASSUME NEW w \in DOMAIN worlds'
        PROVE  \/ w \in DOMAIN worlds /\ worlds'[w] = worlds[w]
               \/ HandleOf(worlds[w], w)' /\ (w \notin Stored => worlds'[w] = w /\ Op(w)' = "create")
    <3>1. CASE w \in DOMAIN worlds
      BY <1>5, <3>1
    <3>2. CASE w \notin DOMAIN worlds
      <4>1. w = c /\ Op(c) = "create" /\ worlds'[w] = c /\ World(c) = c
        BY <1>5, <1>6, <3>2
      <4> QED
        BY <1>2, <4>1 DEF HandleOf
    <3> QED
      BY <3>1, <3>2
  <2> QED
    BY <2>1, <2>2, HandlesKept
<1>11. StepsFit'
  <2>1. \A d \in M : AtStep(d)'
    BY <1>2 DEF AtStep, InFlight
  <2> QED
    BY <1>7, <1>8, <2>1, StepsKept
<1>12. OutcomesFit'
  <2>1. \A d \in E \cap receipts' : Outcome(d)'
    <3>1. ASSUME c \in E PROVE Outcome(c)'
      <4>1. Op(c) = "create" => c \in DOMAIN worlds'
        BY <1>5, <3>1
      <4>2. Op(c) \in {"reroll", "reject"} =>
              <<World(c), req[c].arg>> \in DOMAIN status' /\ status'[<<World(c), req[c].arg>>] # "pending"
        BY <1>4, Mutates
      <4> QED
        BY <1>2, <4>1, <4>2 DEF Outcome, Op, World
    <3> QED
      BY <3>1
  <2> QED
    BY <1>1, <1>2, <1>8, <2>1, OutcomesKept
<1>13. ReceiptsKept'
  <2>1. \A d \in executed' \ executed : d \in receipts' /\ pc'[d] \in {"after", "done"} /\ Op(d)' \notin Estimation
    BY <1>2
  <2>2. \A d \in M : pc[d] \notin {"after", "done"}
    BY <1>2
  <2> QED
    BY <2>1, <2>2, ReceiptsStay
<1>14. CandidatesFit'
  <2>1. ASSUME NEW h \in Tools, NEW k \in known'[h] \ known[h]
        PROVE  /\ pc[h] # "idle" /\ World(h) \in DOMAIN head
               /\ <<World(h), k>> \in DOMAIN status' /\ Below(k.parent, head'[World(h)])
    <3>1. Op(c) \in Rolling /\ h = handle[c] /\ k = Rolled(c)
      BY <1>5
    <3>2. k \in Candidates /\ Below(k.parent, head[World(c)])
      BY <3>1, RolledFits
    <3>3. World(h) = World(c) /\ World(c) \in DOMAIN head /\ pc[h] # "idle"
      BY <1>6, <3>1 DEF Rolling, Unbound
    <3>4. Below(head[World(c)], head'[World(c)]) /\ k.parent \in Heads /\ head[World(c)] \in Heads /\ head'[World(c)] \in Heads
      BY <1>3, <1>6, <3>1, <3>2, <3>3 DEF Candidates, Rolling
    <3>5. Below(k.parent, head'[World(c)])
      BY <3>2, <3>4 DEF Below, Heads
    <3> QED
      BY <1>4, <3>1, <3>3, <3>5
  <2> QED
    BY <1>7, <1>8, <2>1, CandidatesKept
<1>15. ModelsFit'
  <2>1. ASSUME NEW d \in Tools
        PROVE  modelOf'[d] = modelOf[d] \/ (pc[d] # "idle" /\ (Op(d) # "create" \/ d \in DOMAIN worlds'))
    <3> SUFFICES ASSUME modelOf'[d] # modelOf[d], Op(d) = "create" PROVE pc[d] # "idle" /\ d \in DOMAIN worlds'
      BY <1>5, <1>6 DEF Unbound
    <3>1. Op(c) \in {"refine", "revise"} /\ d = handle[c] /\ pc[d] # "idle" /\ World(d) = World(c)
      BY <1>5, <1>6 DEF Unbound
    <3>2. World(d) = d /\ World(c) \in Stored \cup DOMAIN worlds
      BY <1>2, <3>1 DEF IInv, RequestsFit, Fits
    <3>3. d \notin Stored
      BY ServiceAssumption DEF Tools
    <3> QED
      BY <1>5, <3>1, <3>2, <3>3
  <2>2. ASSUME NEW w \in DOMAIN worlds' \ Stored
        PROVE  \/ w \in DOMAIN worlds /\ modelOf'[worlds'[w]] = modelOf[worlds[w]] /\ head'[w].model = head[w].model
               \/ modelOf'[worlds'[w]] = head'[w].model
               \/ \E d \in Tools : Op(d)' \in {"refine", "revise"} /\ World(d)' = w /\ told'[d] = "indeterminate"
    <3>1. CASE w \notin DOMAIN worlds
      <4>1. w = c /\ Op(c) = "create" /\ worlds'[w] = c /\ c \notin DOMAIN worlds
        BY <1>5, <3>1
      <4>2. modelOf'[c] = 0
        BY <1>5, <4>1 DEF IInv, ModelsFit
      <4> QED
        BY <1>3, <4>1, <4>2
    <3>2. CASE w \in DOMAIN worlds
      <4>1. worlds'[w] = worlds[w] /\ worlds[w] = w /\ World(w) = w /\ w \in Tools /\ w \in DOMAIN head
        BY <1>5, <3>2 DEF IInv, HandlesFit, HandleOf, Typed
      <4>2. CASE Op(c) \in {"refine", "revise"} /\ w = World(c)
        <5>1. NeedsHandle(req[c]) /\ handle[c] = w
          BY <1>2, <4>2 DEF Handled, NeedsHandle, Op
        <5> QED
          BY <1>2, <1>3, <1>5, <4>1, <4>2, <5>1
      <4>3. CASE Op(c) \in {"refine", "revise"} /\ w # World(c)
        <5>1. w # handle[c]
          BY <1>6, <4>1, <4>3
        <5> QED
          BY <1>3, <1>5, <3>2, <4>1, <4>3, <5>1
      <4>4. CASE Op(c) \notin {"refine", "revise"}
        <5>1. head'[w].model = head[w].model
          <6>1. CASE w # World(c)
            BY <1>3, <4>1, <6>1
          <6>2. CASE w = World(c)
            <7>1. Op(c) # "create" /\ head[w].model \in Nat
              BY <1>6, <4>1, <6>2 DEF Heads
            <7> QED
              BY <1>3, <4>4, <6>2, <7>1
          <6> QED
            BY <6>1, <6>2
        <5> QED
          BY <1>5, <3>2, <4>1, <4>4, <5>1
      <4> QED
        BY <4>2, <4>3, <4>4
    <3> QED
      BY <3>1, <3>2
  <2> QED
    BY <1>5, <2>1, <2>2, ModelsKept
<1>16. WithinQuotas'
  <2>1. /\ MaxWorlds \in Nat /\ MaxCandidates \in Nat /\ IsFiniteSet(DOMAIN worlds)
        /\ Cardinality(DOMAIN worlds \ Stored) + pendingWorlds <= MaxWorlds
        /\ \A h \in Tools : IsFiniteSet(known[h]) /\ Cardinality(known[h]) + rolling[h] <= MaxCandidates
    BY ServiceAssumption DEF IInv, WithinQuotas
  <2>2. pendingWorlds \in Nat /\ pendingWorlds' \in Nat /\ rolling \in [Tools -> Nat] /\ rolling' \in [Tools -> Nat]
    <3>1. Making \subseteq Tools /\ Making' \subseteq Tools
      BY <1>1 DEF IInv, CallsTyped, Making
    <3> QED
      BY <3>1, CallsFinite DEF IInv, Counts
  <2>4. IsFiniteSet(DOMAIN worlds') /\ Cardinality(DOMAIN worlds' \ Stored) + pendingWorlds' <= MaxWorlds
    <3> DEFINE A == DOMAIN worlds \ Stored
               B == DOMAIN worlds' \ Stored
    <3>1. /\ DOMAIN worlds \subseteq DOMAIN worlds' /\ DOMAIN worlds' \subseteq DOMAIN worlds \cup {c}
          /\ A \subseteq B /\ B \subseteq A \cup {c} /\ (Op(c) # "create" => B \subseteq A)
      BY <1>5
    <3>2. IsFiniteSet(A) /\ IsFiniteSet(DOMAIN worlds')
      BY <2>1, <3>1, OneMore, FS_Subset
    <3> HIDE DEF A, B
    <3>3. /\ Cardinality(A) \in Nat /\ Cardinality(B) \in Nat
          /\ Cardinality(B) <= Cardinality(A) + 1 /\ (Op(c) # "create" => Cardinality(B) = Cardinality(A))
      BY <3>1, <3>2, OneMore
    <3>4. Cardinality(A) + pendingWorlds <= MaxWorlds
      BY <2>1 DEF A
    <3>5. Cardinality(B) + pendingWorlds' <= MaxWorlds
      BY <2>1, <2>2, <3>3, <3>4
    <3> QED
      BY <3>2, <3>5 DEF B
  <2>5. ASSUME NEW h \in Tools PROVE IsFiniteSet(known'[h]) /\ Cardinality(known'[h]) + rolling'[h] <= MaxCandidates
    <3>1. /\ known[h] \subseteq known'[h] /\ known'[h] \subseteq known[h] \cup {Rolled(c)}
          /\ ~(Op(c) \in Rolling /\ h = handle[c]) => known'[h] \subseteq known[h]
      BY <1>5
    <3>2. /\ IsFiniteSet(known'[h]) /\ Cardinality(known[h]) \in Nat /\ Cardinality(known'[h]) \in Nat
          /\ Cardinality(known'[h]) <= Cardinality(known[h]) + 1
          /\ ~(Op(c) \in Rolling /\ h = handle[c]) => Cardinality(known'[h]) = Cardinality(known[h])
      BY <2>1, <3>1, OneMore
    <3>3. rolling[h] \in Nat /\ rolling'[h] \in Nat /\ rolling'[h] <= rolling[h]
          /\ (Op(c) \in Rolling /\ h = handle[c] => rolling'[h] < rolling[h])
      BY <2>2
    <3> QED
      BY <2>1, <3>2, <3>3
  <2> QED
    BY <2>4, <2>5 DEF WithinQuotas
<1>17. EstimatesFrozen'
  BY DEF IInv, EstimatesFrozen
<1> QED
  BY <1>1, <1>7, <1>9, <1>10, <1>11, <1>12, <1>13, <1>14, <1>15, <1>16, <1>17 DEF IInv

(* The call of a mutation that ends keeps its receipt and gives back what  *)
(* it had reserved.                                                        *)
LEMMA MutationEnds ==
  ASSUME IInv, NEW c \in Tools, pc[c] = "mutate", queue # <<>>, Head(queue) = c, queue' = Tail(queue), Steady,
         NEW v \in {"ok", "indeterminate"}, Verdict(c, v)
  PROVE  /\ Links' /\ Counts' /\ QueueHolds' /\ Frame({}, IF v = "ok" THEN {c} ELSE {})
         /\ pc'[c] = "done" /\ \A d \in Tools : d # c => pc'[d] = pc[d] \/ (pc[d] = "join" /\ pc'[d] = "done")
         /\ told'[c] = v /\ receipts' = receipts
         /\ pendingWorlds' <= pendingWorlds /\ (Op(c) = "create" => pendingWorlds' < pendingWorlds)
         /\ \A h \in Tools : rolling'[h] <= rolling[h]
         /\ Op(c) \in Rolling => rolling'[handle[c]] < rolling[handle[c]]
<1>1. /\ Links /\ Counts /\ v \in Verdicts /\ v # "error" /\ pc[c] \in InFlight /\ pc[c] # "done"
      /\ OthersQueued(c, Tail(queue))
  BY QueueWithout DEF IInv, Links, Verdicts, InFlight
<1>2. c \in receipts /\ (Op(c) \in Rolling => handle[c] \in Tools)
  BY Mutates DEF Rolling
<1>3. /\ Op(c) = "create" => c \in Making
      /\ Op(c) \in Rolling => c \in RollingOn(handle[c])
  BY <1>1, <1>2 DEF Making, RollingOn
<1>4. /\ Links' /\ Counts' /\ Frame({}, IF v = "ok" THEN {c} ELSE {})
      /\ pc'[c] = "done" /\ \A d \in Tools : d # c => pc'[d] = pc[d] \/ (pc[d] = "join" /\ pc'[d] = "done")
      /\ c \in receipts => told'[c] = v
      /\ receipts' = receipts
      /\ pendingWorlds' <= pendingWorlds /\ (c \in Making => pendingWorlds' < pendingWorlds)
      /\ \A h \in Tools : rolling'[h] <= rolling[h] /\ (c \in RollingOn(h) => rolling'[h] < rolling[h])
  BY <1>1, VerdictCalls
<1>5. pc'[c] \notin Waiting /\ \A d \in Tools : d # c => (pc'[d] \in Waiting <=> pc[d] \in Waiting)
  BY <1>4 DEF Waiting
<1>6. QueueHolds'
  BY <1>1, <1>5, QueueNext
<1> QED
  BY <1>2, <1>3, <1>4, <1>6

(* The mutation that the service knows of.                                 *)
LEMMA MutatedStep ==
  ASSUME IInv, NEW c \in Tools, Mutated(c)
  PROVE  IInv'
<1>1. /\ pc[c] = "mutate" /\ queue # <<>> /\ Head(queue) = c
      /\ head' = HeadAfter(c) /\ status' = StatusAfter(c) /\ executed' = executed \cup {c}
      /\ worlds' = WorldsAfter(c) /\ known' = KnownAfter(c) /\ modelOf' = ModelAfter(c)
      /\ UNCHANGED <<failed, ledger, req, handle, seen>> /\ req' = req /\ handle' = handle
  BY DEF Mutated, Answered
<1>2. Steady /\ Keeps(c)
  BY <1>1 DEF Steady, Keeps, IInv, Typed
<1>3. CASE /\ Op(c) = "revise" /\ pc' = [pc EXCEPT ![c] = "after"] /\ queue' = Append(Tail(queue), c)
           /\ UNCHANGED <<quotaVars, owner, told>>
  <2>1. Links /\ Counts /\ pc \in [Tools -> Pcs] /\ pc[c] \in InFlight /\ "after" \in InFlight
    BY <1>1 DEF IInv, Links, CallsTyped, InFlight
  <2>2. UNCHANGED <<receipts, owner, told>> /\ pendingWorlds' = pendingWorlds /\ rolling' = rolling
    BY <1>3 DEF quotaVars
  <2>3. Links' /\ Frame({c}, {})
    BY <1>2, <1>3, <2>1, <2>2, MoveLinks
  <2>4. pc'[c] = "after" /\ \A d \in Tools : d # c => pc'[d] = pc[d]
    BY <1>3, <2>1
  <2>5. Counts'
    BY <1>1, <1>2, <1>3, <2>1, <2>4, KeepCounts DEF IInv, CallsTyped
  <2>6. QueueHolds'
    <3>1. OthersQueued(c, Tail(queue)) /\ "after" \in Waiting
      BY <1>1, QueueWithout DEF IInv, Waiting, Pcs
    <3> QED
      BY <1>3, <2>4, <3>1, QueueNext
  <2>7. pendingWorlds' <= pendingWorlds /\ \A h \in Tools : rolling'[h] <= rolling[h]
    <3>1. Making \subseteq Tools
      BY DEF Making, IInv, CallsTyped
    <3>2. pendingWorlds \in Nat /\ rolling \in [Tools -> Nat]
      BY <2>1, <3>1, CallsFinite DEF Counts
    <3> QED
      BY <2>2, <3>2
  <2>8. Op(c) \notin Rolling /\ Op(c) # "create"
    BY <1>3 DEF Rolling
  <2> QED
    BY <1>1, <1>2, <1>3, <2>2, <2>3, <2>4, <2>5, <2>6, <2>7, <2>8, MutationStep
<1>4. CASE Op(c) # "revise" /\ Succeed(c) /\ queue' = Tail(queue)
  <2>1. PICK v \in {"ok", "indeterminate"} : Verdict(c, v)
    BY <1>4 DEF Succeed
  <2> DEFINE E == IF v = "ok" THEN {c} ELSE {}
  <2>2. /\ Links' /\ Counts' /\ QueueHolds' /\ Frame({}, E)
        /\ pc'[c] = "done" /\ \A d \in Tools : d # c => pc'[d] = pc[d] \/ (pc[d] = "join" /\ pc'[d] = "done")
        /\ told'[c] = v /\ receipts' = receipts
        /\ pendingWorlds' <= pendingWorlds /\ (Op(c) = "create" => pendingWorlds' < pendingWorlds)
        /\ \A h \in Tools : rolling'[h] <= rolling[h]
        /\ Op(c) \in Rolling => rolling'[handle[c]] < rolling[handle[c]]
    BY <1>1, <1>2, <1>4, <2>1, MutationEnds
  <2>3. E \subseteq {c} /\ \A d \in E : told'[d] # "indeterminate"
    BY <2>2
  <2> HIDE DEF E
  <2>4. {} \subseteq {c}
    OBVIOUS
  <2> QED
    BY <1>1, <1>2, <2>2, <2>3, <2>4, MutationStep
<1> QED
  BY <1>3, <1>4 DEF Mutated

(* The mutation that is in doubt.                                          *)
LEMMA UncertainStep ==
  ASSUME IInv, NEW c \in Tools, Uncertain(c)
  PROVE  IInv'
<1>1. /\ pc[c] = "mutate" /\ queue # <<>> /\ Head(queue) = c /\ queue' = Tail(queue)
      /\ (head' = HeadAfter(c) /\ status' = StatusAfter(c)) \/ UNCHANGED engineState
      /\ executed' = executed \cup {c} /\ Verdict(c, "indeterminate")
      /\ UNCHANGED <<failed, ledger, req, handle, seen>> /\ req' = req /\ handle' = handle /\ UNCHANGED handleVars
      /\ seen' = seen /\ ledger' = ledger /\ failed' = failed
  BY DEF Uncertain, Answered
<1>2. Steady
  BY <1>1 DEF Steady, IInv, Typed
<1>3. /\ Links' /\ Counts' /\ QueueHolds' /\ Frame({}, {})
      /\ pc'[c] = "done" /\ \A d \in Tools : d # c => pc'[d] = pc[d] \/ (pc[d] = "join" /\ pc'[d] = "done")
      /\ told'[c] = "indeterminate" /\ receipts' = receipts
      /\ pendingWorlds' <= pendingWorlds /\ (Op(c) = "create" => pendingWorlds' < pendingWorlds)
      /\ \A h \in Tools : rolling'[h] <= rolling[h]
      /\ Op(c) \in Rolling => rolling'[handle[c]] < rolling[handle[c]]
  <2>1. "indeterminate" \in {"ok", "indeterminate"} /\ (IF "indeterminate" = "ok" THEN {c} ELSE {}) = {}
    OBVIOUS
  <2> QED
    BY <1>1, <1>2, <2>1, MutationEnds
<1>4. CASE head' = HeadAfter(c) /\ status' = StatusAfter(c)
  <2>1. Keeps(c) /\ {} \subseteq {c} /\ \A d \in {} : told'[d] # "indeterminate"
    BY <1>1, <1>3 DEF Keeps
  <2> QED
    BY <1>1, <1>3, <1>4, <2>1, MutationStep
<1>5. CASE UNCHANGED engineState
  <2>1. c \in receipts /\ Op(c) \notin Estimation
    BY <1>1, Mutates
  <2>2. /\ executed \subseteq executed' /\ executed' \subseteq Tools
        /\ \A d \in executed' \ executed : d \in receipts' /\ pc'[d] \in {"after", "done"} /\ Op(d)' \notin Estimation
    BY <1>1, <1>3, <2>1 DEF IInv, Typed, Op
  <2>3. /\ failed' \in BOOLEAN /\ seen' \in [Tools -> Heads] /\ DOMAIN ledger' \ DOMAIN ledger = {}
        /\ DOMAIN ledger \subseteq DOMAIN ledger'
        /\ ledger' \in [DOMAIN ledger' -> [model : Nat, head : Heads]] /\ EstimatesFrozen'
    BY <1>1 DEF IInv, Typed, EstimatesFrozen
  <2>4. \A d \in Tools : (pc[d] = "idle" => pc'[d] = "idle") /\ seen'[d] = seen[d]
    BY <1>1, <1>3
  <2>5. UNCHANGED <<engineState, handleVars>> /\ receipts' \ receipts = {} /\ receipts \ receipts' = {}
    BY <1>1, <1>3, <1>5
  <2> QED
    BY <1>3, <2>2, <2>3, <2>4, <2>5, QuietStep
<1> QED
  BY <1>1, <1>4, <1>5

-----------------------------------------------------------------------------
(* The invariant holds.                                                    *)

(* Nothing was asked for, and the stored worlds are at their first head.   *)
LEMMA InitHolds == Init => IInv
<1> SUFFICES ASSUME Init PROVE IInv
  OBVIOUS
<1>1. /\ head = [w \in Stored |-> [version |-> 0, model |-> 0]] /\ status = <<>> /\ failed = FALSE
      /\ queue = <<>> /\ executed = {} /\ worlds = <<>> /\ modelOf = [c \in Tools |-> 0]
      /\ known = [c \in Tools |-> {}] /\ rolling = [c \in Tools |-> 0] /\ pendingWorlds = 0
      /\ receipts = {} /\ receiptBytes = 0 /\ pc = [c \in Tools |-> "idle"] /\ told = [c \in Tools |-> "none"]
      /\ owner = [c \in Tools |-> c] /\ handle = [c \in Tools |-> Own]
      /\ seen = [c \in Tools |-> [version |-> 0, model |-> 0]] /\ ledger = <<>>
      /\ req = [c \in Tools |-> req[c]]
  BY DEF Init
<1>2. /\ DOMAIN head = Stored /\ DOMAIN status = {} /\ DOMAIN worlds = {} /\ DOMAIN ledger = {}
      /\ \A c \in Tools : pc[c] = "idle" /\ told[c] = "none" /\ owner[c] = c /\ modelOf[c] = 0 /\ known[c] = {} /\ rolling[c] = 0
  BY <1>1
<1>3. CallsTyped
  BY <1>1 DEF CallsTyped, Pcs
<1>4. Typed
  <2>1. [version |-> 0, model |-> 0] \in Heads
    BY DEF Heads
  <2>2. head \in [DOMAIN head -> Heads] /\ seen \in [Tools -> Heads]
    BY <1>1, <2>1
  <2>3. /\ status \in [DOMAIN status -> Statuses] /\ worlds \in [DOMAIN worlds -> Tools]
        /\ ledger \in [DOMAIN ledger -> [model : Nat, head : Heads]]
    BY <1>1
  <2>4. handle \in [Tools -> Tools \cup {Own}] /\ modelOf \in [Tools -> Nat] /\ known \in [Tools -> SUBSET Candidates]
    BY <1>1
  <2> QED
    BY <1>1, <1>2, <2>2, <2>3, <2>4 DEF Typed, Worlds
<1>5. QueueHolds
  <2>1. ToSet(queue) = {} /\ IsInjective(queue) /\ queue \in Seq(Tools)
    BY <1>1 DEF ToSet, IsInjective
  <2>2. {c \in Tools : pc[c] \in Waiting} = {}
    BY <1>2 DEF Waiting
  <2> QED
    BY <2>1, <2>2 DEF QueueHolds
<1>6. RequestsFit /\ StepsFit
  BY <1>2 DEF RequestsFit, StepsFit, AtStep, InFlight
<1>7. CallsLinked /\ ReceiptsDiffer
  BY <1>1, <1>2 DEF CallsLinked, ReceiptsDiffer, InFlight
<1>8. HandlesFit /\ OutcomesFit /\ ReceiptsKept /\ EstimatesFrozen
  BY <1>1, <1>2 DEF HandlesFit, OutcomesFit, ReceiptsKept, EstimatesFrozen
<1>9. ModelsFit /\ CandidatesFit
  BY <1>2 DEF ModelsFit, CandidatesFit, HandleFollowsHead
<1>10. Counts
  <2>1. Cardinality({}) = 0
    BY FS_EmptySet
  <2>2. {c \in receipts : told[c] # "ok"} = {} /\ {c \in receipts : told[c] = "ok"} = {} /\ Making = {}
    BY <1>1 DEF Making
  <2>3. \A h \in Tools : RollingOn(h) = {}
    BY <1>1 DEF RollingOn
  <2>4. rolling \in [Tools -> Nat]
    BY <1>1
  <2>5. \A h \in Tools : rolling[h] = Cardinality(RollingOn(h))
    BY <1>2, <2>1, <2>3
  <2>6. receiptBytes = Reserved * Cardinality({c \in receipts : told[c] # "ok"})
                       + Retained * Cardinality({c \in receipts : told[c] = "ok"})
    <3>1. receiptBytes = Reserved * 0 + Retained * 0
      BY <1>1 DEF Reserved, Retained
    <3> QED
      BY <2>1, <2>2, <3>1
  <2>7. pendingWorlds = Cardinality(Making)
    BY <1>1, <2>1, <2>2
  <2> QED
    BY <2>4, <2>5, <2>6, <2>7 DEF Counts
<1>11. WithinQuotas
  <2>1. Cardinality({}) = 0 /\ IsFiniteSet({}) /\ {} \ Stored = {} /\ MaxWorlds \in Nat /\ MaxCandidates \in Nat
    BY FS_EmptySet, ServiceAssumption
  <2> QED
    BY <1>1, <1>2, <2>1 DEF WithinQuotas
<1> QED
  BY <1>3, <1>4, <1>5, <1>6, <1>7, <1>8, <1>9, <1>10, <1>11 DEF IInv

(* A step that changes nothing keeps it.                                   *)
LEMMA StutterStep ==
  ASSUME IInv, UNCHANGED vars
  PROVE  IInv'
<1>1. /\ UNCHANGED <<head, status, failed, queue, executed, worlds, modelOf, known, rolling, pendingWorlds>>
      /\ UNCHANGED <<receipts, receiptBytes, pc, owner, told, ledger, req, handle, seen>>
  BY DEF vars, engineVars, engineState, handleVars, quotaVars, callVars
<1>2. CallsTyped' /\ Typed' /\ QueueHolds' /\ CallsLinked' /\ ReceiptsDiffer'
  BY <1>1 DEF IInv, CallsTyped, Typed, QueueHolds, CallsLinked, ReceiptsDiffer, Same, Twice, Op, World
<1>3. RequestsFit'
  BY <1>1 DEF IInv, RequestsFit, Fits, Asked, Op, World
<1>4. HandlesFit'
  BY <1>1 DEF IInv, HandlesFit, Handled, HandleOf, Op, World
<1>5. StepsFit'
  BY <1>1 DEF IInv, StepsFit, AtStep, Op, World, Below
<1>6. OutcomesFit' /\ ReceiptsKept' /\ EstimatesFrozen'
  BY <1>1 DEF IInv, OutcomesFit, Outcome, ReceiptsKept, EstimatesFrozen, Op, World
<1>7. ModelsFit' /\ CandidatesFit'
  BY <1>1 DEF IInv, ModelsFit, HandleFollowsHead, CandidatesFit, Op, World, Below
<1>8. Counts' /\ WithinQuotas'
  BY <1>1 DEF IInv, Counts, WithinQuotas, Making, RollingOn, Op
<1> QED
  BY <1>2, <1>3, <1>4, <1>5, <1>6, <1>7, <1>8 DEF IInv

(* Every step keeps it.                                                    *)
LEMMA StepKeeps ==
  ASSUME IInv, [Next]_vars
  PROVE  IInv'
<1>1. ASSUME NEW c \in Tools, Start(c) \/ Opened(c) \/ PresetUnread(c) PROVE IInv'
  BY <1>1, StartStep, OpenedStep, PresetUnreadStep
<1>2. ASSUME NEW c \in Tools, WorldRead(c) \/ ModelRead(c) \/ FirstRead(c) \/ Projected(c) \/ Checked(c)
      PROVE  IInv'
  BY <1>2, WorldReadStep, ModelReadStep, FirstReadStep, ProjectedStep, CheckedStep
<1>3. ASSUME NEW c \in Tools, Mutated(c) \/ Refused(c) \/ Uncertain(c) \/ ClaimsRead(c)
      PROVE  IInv'
  BY <1>3, MutatedStep, RefusedStep, UncertainStep, ClaimsReadStep
<1>4. CASE EngineFails
  BY <1>4, EngineFailsStep
<1>5. CASE UNCHANGED vars
  BY <1>5, StutterStep
<1> QED
  BY <1>1, <1>2, <1>3, <1>4, <1>5 DEF Next, EngineAnswers

(* So the invariant holds throughout.                                      *)
LEMMA Invariance == Spec => []IInv
BY InitHolds, StepKeeps, PTL DEF Spec

-----------------------------------------------------------------------------
(* The theorems.                                                           *)

(* The type invariant of the service: what it holds for its calls, handles *)
(* and quotas has its type, the queue holds each waiting call once, and a  *)
(* call has a verdict exactly when it is done.                             *)
THEOREM TypeInvariant == Spec => []TypeOK
<1>1. ASSUME IInv PROVE TypeOK
  <2>1. CallsTyped /\ Typed /\ QueueHolds /\ Counts
    BY <1>1 DEF IInv
  <2>2. pendingWorlds \in Nat /\ receiptBytes \in Nat
    <3>1. Making \subseteq Tools /\ {c \in receipts : told[c] # "ok"} \subseteq Tools /\ {c \in receipts : told[c] = "ok"} \subseteq Tools
      BY <2>1 DEF Making, CallsTyped
    <3>2. \A m, n \in Nat : Reserved * m + Retained * n \in Nat
      BY DEF Reserved, Retained
    <3> QED
      BY <2>1, <3>1, <3>2, CallsFinite DEF Counts
  <2>3. /\ \A w \in DOMAIN head : head[w] \in Heads
        /\ Range(status) \subseteq Statuses /\ Range(worlds) \subseteq Tools
    BY <2>1 DEF Typed, Range
  <2>4. ToSet(queue) = {c \in Tools : pc[c] \in Pcs \ {"idle", "preset", "join", "done"}}
    BY <2>1 DEF QueueHolds, Waiting
  <2> QED
    BY <2>1, <2>2, <2>3, <2>4 DEF TypeOK, CallsTyped, Typed, QueueHolds, Counts
<1> QED
  BY <1>1, Invariance, PTL

(* However often a request is sent, the engine is asked for its mutation   *)
(* once by each handle of a world, and a world this server made has one.   *)
THEOREM RequestsExecuteOnce == Spec => []ExecutedOnce
<1>1. ASSUME IInv PROVE ExecutedOnce
  <2> SUFFICES ASSUME NEW c \in executed, NEW d \in executed, Twice(c, d)
               PROVE  handle[c] # handle[d] /\ (World(c) \in Stored \/ World(c) # World(d))
    BY DEF ExecutedOnce
  <2>1. c \in receipts /\ d \in receipts /\ Op(c) \notin Estimation /\ Op(d) = Op(c) /\ Handled(c) /\ Handled(d)
    BY <1>1 DEF IInv, ReceiptsKept, HandlesFit, Twice
  <2>2. StoreOf(Op(c), handle[c]) # StoreOf(Op(d), handle[d])
    BY <1>1, <2>1 DEF IInv, ReceiptsDiffer
  <2>3. Op(c) # "create" /\ handle[c] # handle[d]
    BY <2>1, <2>2 DEF StoreOf
  <2>4. NeedsHandle(req[c]) /\ NeedsHandle(req[d])
    BY <2>1, <2>3 DEF NeedsHandle, Estimation, Op
  <2>5. World(c) \notin Stored => handle[c] = World(c)
    BY <2>1, <2>4 DEF Handled
  <2>6. World(d) \notin Stored => handle[d] = World(d)
    BY <2>1, <2>4 DEF Handled
  <2> QED
    BY <2>3, <2>5, <2>6
<1> QED
  BY <1>1, Invariance, PTL

(* The model an estimate names is that of the head it names, and so are    *)
(* those of its proposals and reviews, although a revision may be made     *)
(* between the reads of the two.                                           *)
THEOREM EstimatesAreFrozen == Spec => []EstimatesFrozen
<1>1. ASSUME IInv PROVE EstimatesFrozen
  BY <1>1 DEF IInv
<1> QED
  BY <1>1, Invariance, PTL

(* The handle of a world this server made names the model of its accepted  *)
(* head, unless a revision of it ended in doubt.                           *)
THEOREM HandlesFollow == Spec => []HandleFollowsHead
<1>1. ASSUME IInv PROVE HandleFollowsHead
  BY <1>1 DEF IInv, ModelsFit
<1> QED
  BY <1>1, Invariance, PTL

(* The counters of the quotas are what is open, being made or kept, and    *)
(* neither the candidates of a handle nor the worlds this server made pass *)
(* their quota, however calls overlap.                                     *)
THEOREM QuotasAreKept == Spec => []QuotasHold
<1>1. ASSUME IInv PROVE QuotasHold
  <2>1. Making = {c \in receipts : Op(c) = "create" /\ handle[c] = Own /\ pc[c] # "done"}
    <3>1. \A c \in receipts : Op(c) = "create" => handle[c] = Own
      BY <1>1 DEF IInv, HandlesFit, Handled, NeedsHandle, Op
    <3> QED
      BY <3>1 DEF Making
  <2>2. \A h \in Tools : RollingOn(h) = {c \in receipts : Op(c) = "roll" /\ handle[c] = h /\ pc[c] # "done"}
                                        \cup {c \in receipts : Op(c) = "reroll" /\ handle[c] = h /\ pc[c] # "done"}
    BY DEF RollingOn, Rolling
  <2>3. Cardinality(DOMAIN worlds \ Stored) <= MaxWorlds
    <3>1. IsFiniteSet(DOMAIN worlds \ Stored) /\ Making \subseteq Tools
      BY <1>1, FS_Subset DEF IInv, WithinQuotas, Making, CallsTyped
    <3>2. Cardinality(DOMAIN worlds \ Stored) \in Nat /\ pendingWorlds \in Nat /\ MaxWorlds \in Nat
      BY <1>1, <3>1, FS_CardinalityType, CallsFinite, ServiceAssumption DEF IInv, Counts
    <3>3. Cardinality(DOMAIN worlds \ Stored) + pendingWorlds <= MaxWorlds
      BY <1>1 DEF IInv, WithinQuotas
    <3> QED
      BY <3>2, <3>3
  <2>4. /\ receiptBytes = Reserved * Cardinality({c \in receipts : told[c] # "ok"})
                          + Retained * Cardinality({c \in receipts : told[c] = "ok"})
        /\ pendingWorlds = Cardinality(Making)
        /\ \A h \in Tools : rolling[h] = Cardinality(RollingOn(h)) /\ Cardinality(known[h]) + rolling[h] <= MaxCandidates
    BY <1>1 DEF IInv, Counts, WithinQuotas
  <2> HIDE DEF InFlight
  <2> QED
    BY <2>1, <2>2, <2>3, <2>4 DEF QuotasHold
<1> QED
  BY <1>1, Invariance, PTL

(* A candidate is accepted on the head its caller expected, and it is none *)
(* that some caller was told is rejected or rerolled.                      *)
THEOREM AcceptsAsExpected == Spec => AcceptedAsExpected
<1>1. IInv /\ [Next]_vars =>
        [\A c \in executed' \ executed :
           Op(c) = "accept" /\ head'[World(c)] # head[World(c)] =>
             /\ head[World(c)] = req[c].arg.expected
             /\ ~\E d \in Tools : /\ Op(d) \in {"reroll", "reject"} /\ told[d] = "ok"
                                  /\ World(d) = World(c) /\ req[d].arg = req[c].arg.candidate]_vars
  <2> SUFFICES ASSUME IInv, Next, NEW c \in executed' \ executed,
                      Op(c) = "accept", head'[World(c)] # head[World(c)]
               PROVE  /\ head[World(c)] = req[c].arg.expected
                      /\ ~\E d \in Tools : /\ Op(d) \in {"reroll", "reject"} /\ told[d] = "ok"
                                           /\ World(d) = World(c) /\ req[d].arg = req[c].arg.candidate
    OBVIOUS
  <2>1. PICK a \in Tools : Mutated(a) \/ Uncertain(a)
    BY DEF Next, EngineAnswers, Start, Opened, PresetUnread, WorldRead, ModelRead, FirstRead, Projected, Checked,
           Refused, ClaimsRead, EngineFails, engineVars, engineState
  <2>2. c = a /\ pc[c] = "mutate" /\ Applies(c) /\ c \in Tools
    BY <2>1 DEF Mutated, Uncertain, Answered
  <2> DEFINE w   == World(c)
             arg == req[c].arg
  <2>3. Pending(w, arg.candidate) /\ head[w] = arg.candidate.parent
    BY <2>2 DEF Applies
  <2>4. Below(arg.candidate.parent, arg.expected) /\ Below(arg.expected, head[w])
    BY <2>2 DEF IInv, StepsFit, AtStep
  <2>5. arg.expected \in Heads /\ head[w] \in Heads
    BY <2>2, Mutates DEF Fits, Asked, Op
  <2>6. head[w] = arg.expected
    <3> HIDE DEF w, arg
    <3> QED
      BY <2>3, <2>4, <2>5 DEF Below, Heads
  <2>7. ASSUME NEW d \in Tools, Op(d) \in {"reroll", "reject"}, told[d] = "ok", World(d) = w, req[d].arg = arg.candidate
        PROVE  FALSE
    <3>1. owner[d] \in receipts /\ Same(d, owner[d]) /\ told[owner[d]] = "ok"
      BY <2>7 DEF IInv, CallsLinked
    <3>2. Outcome(owner[d])
      BY <3>1 DEF IInv, OutcomesFit
    <3>3. status[<<w, arg.candidate>>] # "pending"
      BY <2>7, <3>1, <3>2 DEF Outcome, Same
    <3> QED
      BY <2>3, <3>3 DEF Pending
  <2> QED
    BY <2>6, <2>7
<1> QED
  BY <1>1, Invariance, PTL DEF Spec, AcceptedAsExpected
===============================================================================
