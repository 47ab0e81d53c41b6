---------------------------- MODULE EstimatorJobs ----------------------------
(***************************************************************************)
(* Estimates of an external provider, and what is written from them.       *)
(*                                                                         *)
(* The provider answers the same question differently each time, and an    *)
(* estimate may take several questions, each a call of its own.  A         *)
(* request that adopts an estimate therefore keeps a receipt in the        *)
(* process: checkpoints of what it has completed, and then its result.  It *)
(* is asked again with the same request id after a failure, by callers who *)
(* may do so at once, and writes in several calls, each with a receipt of  *)
(* its own in the service.  A preview keeps the estimate as a proposal,    *)
(* which a later request may name to adopt it.                             *)
(*                                                                         *)
(* "preview" and "build" are the two halves of a world build, "ingest" and *)
(* "shares" place estimated Cuts.  Values supplied by the caller need no   *)
(* estimate, and are left out.                                             *)
(***************************************************************************)
EXTENDS Naturals, Sequences, FiniteSets, FiniteSetsExt

CONSTANTS
  Ops,             \* of "preview", "build", "ingest" and "shares"
  Ids,             \* request ids
  Inputs,          \* what is to be estimated
  Targets,         \* by input, the questions that its estimate of Cuts asks
  None,
  MaxEntries,      \* MAX_ENTRIES, of requests and of proposals
  MaxBytes,        \* MAX_BYTES
  Reservation,     \* RESERVATION, kept for a request without a result
  ResultBytes,     \* of a result, and
  ProposalBytes,   \* of a proposal, as retained
  MaxAsks,         \* bound on the estimates asked for
  MaxFaults,       \* bound on the calls that fail, of the provider and of the engine
  MaxRestarts      \* bound on the restarts of the server

ASSUME SizesAssumption ==
  /\ {MaxEntries, MaxBytes, Reservation, ResultBytes, ProposalBytes, MaxAsks, MaxFaults, MaxRestarts} \subseteq Nat
  /\ ResultBytes <= Reservation /\ Reservation <= MaxBytes

ASSUME OpsAssumption == Ops \subseteq {"preview", "build", "ingest", "shares"}

ASSUME TargetsAssumption == Targets \in [Inputs -> Nat \ {0}]

ASSUME NoneAssumption ==
  None \notin 1..MaxAsks /\ None \notin {"applied", "rejected", "indeterminate"} /\ None \notin Ops \X Ids

VARIABLES
  requests,        \* the entries of the receipt store, by operation and request id
  proposals,       \* the estimates retained for adoption
  bytes,           \* reserved and retained by both
  receipts,        \* the service's, by operation and request id
  asks,            \* history: each estimate asked for, its questions answered so far
  stored,          \* history: what was written
  session,         \* of the server process
  faults

vars == <<requests, proposals, bytes, receipts, asks, stored, session, faults>>

-----------------------------------------------------------------------------
Estimates == 1..MaxAsks

Calls == {c \in [op : Ops, id : Ids, input : Inputs, from : Estimates \cup {None}] :
            /\ c.op = "preview" => c.from = None
            /\ c.op = "build" => c.from # None}

Key(c) == <<c.op, c.id>>

(* The operation that a proposal is retained under.                        *)
Family(op) == IF op \in {"preview", "build"} THEN "world" ELSE op

(* A world is estimated in one call of the provider, Cuts in one for each  *)
(* question and target, which are made one after the other.                *)
Questions(family, input) == IF family = "world" THEN 1 ELSE Targets[input]

(* The writes of an operation, in order, those it checkpoints, and the     *)
(* request id it hands to the service: a world build derives its own.      *)
Steps(op) ==
  CASE op = "preview" -> <<>>
    [] op = "build" -> <<"model", "graph", "world">>
    [] op = "ingest" -> <<"model", "rebind", "notes">>
    [] op = "shares" -> <<"model", "rebind">>

Checkpointed(op) == CASE op = "ingest" -> {"model", "rebind", "notes"} [] op = "shares" -> {"model"} [] OTHER -> {}

ServiceKey(c, step) == <<IF c.op = "build" THEN "general-build" ELSE "raw", c.id, step>>

NoMarks == [started |-> FALSE, estimate |-> None, done |-> {}]

Without(f, k) == [x \in DOMAIN f \ {k} |-> f[x]]
With(f, k, v) == [x \in DOMAIN f \cup {k} |-> IF x = k THEN v ELSE f[x]]

(* An execution that ends with a result, with a partial one, or by         *)
(* throwing.  A checkpoint keeps the entry of one that threw, and an       *)
(* outcome that is not known becomes its result.                           *)
Conclude(k, outcome) ==
  /\ requests' = [requests EXCEPT ![k].result = outcome, ![k].pc = "idle", ![k].marks = NoMarks, ![k].reserved = ResultBytes]
  /\ bytes' = bytes - (requests[k].reserved - ResultBytes)

Pause(k) == requests' = [requests EXCEPT ![k].pc = "idle"] /\ UNCHANGED bytes

(* Mutant: the reservation is released whether or not the entry goes.      *)
ThrowReleases(k) ==
  /\ requests' = IF requests[k].marks = NoMarks THEN Without(requests, k) ELSE [requests EXCEPT ![k].pc = "idle"]
  /\ bytes' = bytes - requests[k].reserved

Throw(k) ==
  IF requests[k].marks = NoMarks
  THEN requests' = Without(requests, k) /\ bytes' = bytes - requests[k].reserved
  ELSE Pause(k)

ThrowIndeterminate(k) ==
  requests' = [requests EXCEPT ![k].result = "indeterminate", ![k].pc = "idle"] /\ UNCHANGED bytes

Fault == faults < MaxFaults /\ faults' = faults + 1

-----------------------------------------------------------------------------
Init ==
  /\ requests = <<>> /\ proposals = <<>> /\ bytes = 0
  /\ receipts = <<>> /\ asks = <<>> /\ stored = {}
  /\ session = 0 /\ faults = 0

(* A call finds the entry of its request id, or makes one.  It is refused  *)
(* if that was made for another payload, answered if it has a result, and  *)
(* joins the execution under way if there is one.                          *)
NewEntry(c) ==
  [call |-> c, marks |-> NoMarks, result |-> None, pc |-> "resolve", estimate |-> None, reserved |-> Reservation]

Admitted == Cardinality(DOMAIN requests) < MaxEntries /\ bytes + Reservation <= MaxBytes

(* Mutant: an execution under way is not joined.                           *)
ResumableAnyTime(entry) == entry.result = None

Resumable(entry) == entry.result = None /\ entry.pc = "idle"

Submit(c) ==
  /\ \/ /\ Key(c) \notin DOMAIN requests
        /\ Admitted
        /\ requests' = With(requests, Key(c), NewEntry(c))
        /\ bytes' = bytes + Reservation
     \/ /\ Key(c) \in DOMAIN requests
        /\ requests[Key(c)].call = c
        /\ Resumable(requests[Key(c)])
        /\ requests' = [requests EXCEPT ![Key(c)].pc = "resolve"]
        /\ UNCHANGED bytes
  /\ UNCHANGED <<proposals, receipts, asks, stored, session, faults>>

(* The engine reads the bound model, or validates the one to be built, and *)
(* fails.                                                                  *)
ReadFails(k) ==
  /\ requests[k].pc = IF requests[k].call.op = "preview" THEN "conclude" ELSE "resolve"
  /\ Fault
  /\ Throw(k)
  /\ UNCHANGED <<proposals, receipts, asks, stored, session>>

(* Mutant: a proposal is adopted for other inputs.                         *)
BoundToOperation(c) == c.from \in DOMAIN proposals /\ proposals[c.from].family = Family(c.op)

Bound(c) ==
  /\ c.from \in DOMAIN proposals
  /\ proposals[c.from] = [family |-> Family(c.op), input |-> c.input]

(* The step that follows one, past those the checkpoints hold.             *)
FirstOf(c, marks, from) ==
  LET open == {i \in from..Len(Steps(c.op)) : Steps(c.op)[i] \notin marks.done}
  IN IF open = {} THEN "conclude" ELSE Steps(c.op)[Min(open)]

Proceed(k, estimate, marks) ==
  /\ requests' = [requests EXCEPT ![k].pc = FirstOf(requests[k].call, marks, 1), ![k].estimate = estimate, ![k].marks = marks]
  /\ UNCHANGED bytes

(* The estimate is the one checkpointed, that of the proposal named, or    *)
(* one to be asked for.  A preview notes that it asks before it does, and  *)
(* does not ask again.                                                     *)
Adopt(k) ==
  LET entry == requests[k]
  IN /\ entry.pc = "resolve"
     /\ \/ entry.marks.estimate # None /\ Proceed(k, entry.marks.estimate, entry.marks)
        \/ /\ entry.marks.estimate = None /\ entry.call.from # None
           /\ IF Bound(entry.call) THEN Proceed(k, entry.call.from, entry.marks) ELSE Throw(k)
     /\ UNCHANGED <<proposals, receipts, asks, stored, session, faults>>

Ask(k) ==
  LET entry == requests[k]
  IN /\ entry.pc = "resolve" /\ entry.marks.estimate = None /\ entry.call.from = None
     /\ IF entry.marks.started
        THEN Throw(k) /\ UNCHANGED asks
        ELSE /\ Len(asks) < MaxAsks
             /\ asks' = Append(asks, [by |-> k, session |-> session, family |-> Family(entry.call.op),
                                      input |-> entry.call.input, answered |-> 0, failed |-> FALSE])
             /\ requests' = [requests EXCEPT ![k].pc = "asking", ![k].estimate = Len(asks) + 1,
                                             ![k].marks.started = (entry.call.op = "preview")]
             /\ UNCHANGED bytes
     /\ UNCHANGED <<proposals, receipts, stored, session, faults>>

(* The provider answers a question, and is asked the next: what it         *)
(* answered is kept by no receipt before the last of them.                 *)
AskedOf(k) == asks[requests[k].estimate]

Answered(k) ==
  /\ requests[k].pc = "asking"
  /\ AskedOf(k).answered + 1 < Questions(AskedOf(k).family, AskedOf(k).input)
  /\ asks' = [asks EXCEPT ![requests[k].estimate].answered = @ + 1]
  /\ UNCHANGED <<requests, proposals, bytes, receipts, stored, session, faults>>

(* The last answer completes the estimate, which is checkpointed.          *)
Estimated(k) ==
  /\ requests[k].pc = "asking"
  /\ AskedOf(k).answered + 1 = Questions(AskedOf(k).family, AskedOf(k).input)
  /\ asks' = [asks EXCEPT ![requests[k].estimate].answered = @ + 1]
  /\ Proceed(k, requests[k].estimate, [requests[k].marks EXCEPT !.estimate = requests[k].estimate])
  /\ UNCHANGED <<proposals, receipts, stored, session, faults>>

(* No answer to one of the questions, and the answers before it are lost:  *)
(* the outcome is uncertain to a preview.                                  *)
AskFails(k) ==
  /\ requests[k].pc = "asking" /\ Fault
  /\ IF requests[k].call.op = "preview" THEN ThrowIndeterminate(k) ELSE Throw(k)
  /\ asks' = [asks EXCEPT ![requests[k].estimate].failed = TRUE]
  /\ UNCHANGED <<proposals, receipts, stored, session>>

(* An answer that does not fit the question: a preview keeps it, rejected. *)
AnswerRefused(k) ==
  /\ requests[k].pc = "asking" /\ Fault
  /\ IF requests[k].call.op = "preview" THEN Conclude(k, "rejected") ELSE Throw(k)
  /\ asks' = [asks EXCEPT ![requests[k].estimate].failed = TRUE]
  /\ UNCHANGED <<proposals, receipts, stored, session>>

CanRetain == Cardinality(DOMAIN proposals) < MaxEntries /\ bytes + ProposalBytes <= MaxBytes

(* A preview ends by retaining its estimate, if there is room for it.      *)
Preview(k) ==
  LET entry == requests[k]
  IN /\ entry.pc = "conclude" /\ entry.call.op = "preview"
     /\ IF CanRetain
        THEN /\ proposals' = With(proposals, entry.estimate, [family |-> "world", input |-> entry.call.input])
             /\ requests' = [requests EXCEPT ![k].result = "applied", ![k].pc = "idle", ![k].marks = NoMarks, ![k].reserved = ResultBytes]
             /\ bytes' = bytes + ProposalBytes - (entry.reserved - ResultBytes)
        ELSE Throw(k) /\ UNCHANGED proposals
     /\ UNCHANGED <<receipts, asks, stored, session, faults>>

(* Cuts are previewed without a receipt: an estimate that is not retained  *)
(* is lost.                                                                *)
Propose(op, input) ==
  /\ Len(asks) < MaxAsks
  /\ asks' = Append(asks, [by |-> None, session |-> session, family |-> op, input |-> input,
                           answered |-> Questions(op, input), failed |-> FALSE])
  /\ CanRetain
  /\ proposals' = With(proposals, Len(asks) + 1, [family |-> op, input |-> input])
  /\ bytes' = bytes + ProposalBytes
  /\ UNCHANGED <<requests, receipts, stored, session, faults>>

(* A step is written under a request id of the service, which answers the  *)
(* same payload with its receipt and refuses another; where the outcome of *)
(* the first is not known, it stays so.                                    *)
Payload(k) == [op |-> requests[k].call.op, input |-> requests[k].call.input, estimate |-> requests[k].estimate]

Record(k) == [key |-> k, step |-> requests[k].pc, call |-> requests[k].call, estimate |-> requests[k].estimate, session |-> session]

Written(k) ==
  LET entry == requests[k]
      marks == IF entry.pc \in Checkpointed(entry.call.op) THEN [entry.marks EXCEPT !.done = @ \cup {entry.pc}] ELSE entry.marks
      place == CHOOSE i \in 1..Len(Steps(entry.call.op)) : Steps(entry.call.op)[i] = entry.pc
  IN /\ requests' = [requests EXCEPT ![k].marks = marks, ![k].pc = FirstOf(entry.call, marks, place + 1)]
     /\ UNCHANGED bytes

(* Only a revision of a model that fails is thrown, the others leave a     *)
(* partial result.                                                         *)
StepFails(k) == IF requests[k].call.op # "build" /\ requests[k].pc = "model" THEN Throw(k) ELSE Pause(k)

StepUncertain(k) == IF requests[k].call.op # "build" /\ requests[k].pc = "model" THEN ThrowIndeterminate(k) ELSE Pause(k)

Write(k) ==
  LET at == ServiceKey(requests[k].call, requests[k].pc)
  IN /\ requests[k].pc \in {"model", "graph", "world", "rebind", "notes"}
     /\ IF at \in DOMAIN receipts
        THEN /\ UNCHANGED <<receipts, stored, faults>>
             /\ CASE receipts[at].payload # Payload(k) -> StepFails(k)
                  [] receipts[at].payload = Payload(k) /\ receipts[at].known -> Written(k)
                  [] OTHER -> StepUncertain(k)
        ELSE \/ /\ receipts' = With(receipts, at, [payload |-> Payload(k), known |-> TRUE])
                /\ stored' = stored \cup {Record(k)}
                /\ Written(k)
                /\ UNCHANGED faults
             \/ Fault /\ StepFails(k) /\ UNCHANGED <<receipts, stored>>
             \/ /\ Fault
                /\ receipts' = With(receipts, at, [payload |-> Payload(k), known |-> FALSE])
                /\ stored' \in {stored, stored \cup {Record(k)}}
                /\ StepUncertain(k)
     /\ UNCHANGED <<proposals, asks, session>>

Complete(k) ==
  /\ requests[k].pc = "conclude" /\ requests[k].call.op # "preview"
  /\ Conclude(k, "applied")
  /\ UNCHANGED <<proposals, receipts, asks, stored, session, faults>>

(* What the process kept ends with it; what was written stays.             *)
Restart ==
  /\ session < MaxRestarts
  /\ session' = session + 1
  /\ requests' = <<>> /\ proposals' = <<>> /\ bytes' = 0 /\ receipts' = <<>>
  /\ UNCHANGED <<asks, stored, faults>>

Run(k) == Adopt(k) \/ Ask(k) \/ Answered(k) \/ Estimated(k) \/ Preview(k) \/ Write(k) \/ Complete(k)

Fails(k) == ReadFails(k) \/ AskFails(k) \/ AnswerRefused(k)

Next ==
  \/ \E c \in Calls : Submit(c)
  \/ \E k \in DOMAIN requests : Run(k) \/ Fails(k)
  \/ \E op \in Ops \cap {"ingest", "shares"}, input \in Inputs : Propose(op, input)
  \/ Restart

Spec == Init /\ [][Next]_vars

-----------------------------------------------------------------------------
(* An estimate of which every question was answered.                       *)
Whole(n) == asks[n].answered = Questions(asks[n].family, asks[n].input)

Settled == {k \in DOMAIN requests : requests[k].result \in {"applied", "rejected"}}

(* The store holds no more than its quota, and every byte of it belongs to *)
(* a request or a proposal, whatever way its executions ended: to a        *)
(* request its reservation, or, once it has a result, what that takes.     *)
BytesAccount ==
  /\ bytes = Reservation * Cardinality(DOMAIN requests \ Settled) + ResultBytes * Cardinality(Settled)
              + ProposalBytes * Cardinality(DOMAIN proposals)
  /\ bytes <= MaxBytes

(* All that was written under a request id in one session comes from one   *)
(* estimate, which was made for just these inputs and this operation, of   *)
(* which every question was answered, and from the proposal that was       *)
(* reviewed, if it names one.  A request with a final result has done all  *)
(* its writes from it: none is skipped, and none is taken over from        *)
(* another operation that used the same request id.                        *)
OneEstimate ==
  /\ \A w \in stored :
       /\ asks[w.estimate].family = Family(w.call.op) /\ asks[w.estimate].input = w.call.input
       /\ Whole(w.estimate)
       /\ w.call.from # None => w.estimate = w.call.from
       /\ \A v \in stored : v.key = w.key /\ v.session = w.session => v.estimate = w.estimate
  /\ \A k \in DOMAIN requests : requests[k].result = "applied" =>
       LET entry == requests[k]
       IN \A i \in 1..Len(Steps(entry.call.op)) :
            \E w \in stored : w.key = k /\ w.session = session /\ w.step = Steps(entry.call.op)[i] /\ w.estimate = entry.estimate

(* A retry, however often and by however many callers, asks the provider   *)
(* anew only when it left a question of every earlier attempt without an   *)
(* answer that can be used (the questions it answered before that one are  *)
(* asked again), and for the preview of a world not even then.  A complete *)
(* estimate, adopted or disliked, or one still being answered, is never    *)
(* rolled again under its request id.                                      *)
NeverRerolled ==
  [][\A n \in DOMAIN asks' \ DOMAIN asks : asks'[n].by # None =>
       \A m \in DOMAIN asks : asks[m].by = asks'[n].by /\ asks[m].session = session =>
         asks[m].failed /\ ~Whole(m) /\ asks[m].by[1] # "preview"]_vars
=============================================================================
