------------------------- MODULE EstimatorJobs_proofs -------------------------
(***************************************************************************)
(* Proofs about the estimates of an external provider, for every set of    *)
(* requests and inputs, every quota, and every number of calls, failures   *)
(* and restarts.                                                           *)
(***************************************************************************)
EXTENDS EstimatorJobs, FiniteSetTheorems, TLAPS

-----------------------------------------------------------------------------
(* The invariant.                                                          *)

Keys == Ops \X Ids
Places == {"model", "graph", "world", "rebind", "notes"}
Final == {"applied", "rejected"}
Marks == [started : BOOLEAN, estimate : Estimates \cup {None}, done : SUBSET Places]
Entries ==
  [call : Calls, marks : Marks, result : {None, "indeterminate"} \cup Final,
   pc : {"idle", "resolve", "asking", "conclude"} \cup Places, estimate : Estimates \cup {None},
   reserved : {Reservation, ResultBytes}]
Asked == [by : Keys \cup {None}, session : Nat, family : {"world", "ingest", "shares"}, input : Inputs,
          answered : Nat, failed : BOOLEAN]
Payloads == [op : Ops, input : Inputs, estimate : Estimates]

RequestsTyped ==
  /\ IsFiniteSet(DOMAIN requests) /\ DOMAIN requests \subseteq Keys
  /\ \A k \in DOMAIN requests : requests[k] \in Entries /\ Key(requests[k].call) = k

(* No more questions are answered than are asked, and fewer if one failed. *)
Counts(a) ==
  /\ a.answered <= Questions(a.family, a.input)
  /\ a.failed => a.answered < Questions(a.family, a.input)

AsksTyped ==
  /\ asks \in Seq(Asked) /\ Len(asks) <= MaxAsks
  /\ \A n \in DOMAIN asks : asks[n].session <= session
  /\ \A n \in DOMAIN asks : Counts(asks[n])

ProposalsTyped ==
  /\ IsFiniteSet(DOMAIN proposals) /\ DOMAIN proposals \subseteq DOMAIN asks
  /\ \A p \in DOMAIN proposals : proposals[p] = [family |-> asks[p].family, input |-> asks[p].input]
  /\ \A p \in DOMAIN proposals : Whole(p)

WritesTyped ==
  /\ \A at \in DOMAIN receipts : receipts[at] \in [payload : Payloads, known : BOOLEAN]
  /\ stored \subseteq [key : Keys, step : Places, call : Calls, estimate : Estimates, session : Nat]
  /\ \A w \in stored : w.session <= session

TypeOK ==
  /\ RequestsTyped /\ AsksTyped /\ ProposalsTyped /\ WritesTyped
  /\ bytes \in Nat /\ session \in Nat /\ faults \in Nat

StepsOf(op) == {Steps(op)[i] : i \in 1..Len(Steps(op))}

(* An estimate that is made for a call, one that is complete, and one that *)
(* still waits for an answer; the one that a request is to use; and what   *)
(* it has written from one.                                                *)
Right(c, n) == n \in DOMAIN asks /\ asks[n].family = Family(c.op) /\ asks[n].input = c.input
Given(c, n) == Right(c, n) /\ Whole(n)
Open(n) == ~asks[n].failed /\ asks[n].answered < Questions(asks[n].family, asks[n].input)
Intended(e) == IF e.call.from # None THEN e.call.from ELSE e.marks.estimate
HasWritten(k, step, n) == \E w \in stored : w.key = k /\ w.session = session /\ w.step = step /\ w.estimate = n

(* A step stands before the place that a request has come to.              *)
Before(e, i) ==
  e.pc = "conclude" \/ \E j \in 1..Len(Steps(e.call.op)) : Steps(e.call.op)[j] = e.pc /\ i < j

(* An entry has the bytes its result leaves it, waits for the estimate it  *)
(* asked for, and has written every step before its place, and every step  *)
(* it checkpointed, from the one estimate it is to use.                    *)
Fits(k, e) ==
  /\ e.reserved = IF e.result \in Final THEN ResultBytes ELSE Reservation
  /\ e.result # None => e.pc = "idle"
  /\ e.pc \in Places => e.pc \in StepsOf(e.call.op)
  /\ e.pc = "asking" =>
       /\ e.call.from = None /\ e.marks.estimate = None /\ e.marks.started = (e.call.op = "preview")
       /\ Right(e.call, e.estimate) /\ asks[e.estimate].by = k /\ asks[e.estimate].session = session
       /\ Open(e.estimate)
  /\ e.marks.estimate # None =>
       e.call.from = None /\ Given(e.call, e.marks.estimate) /\ asks[e.marks.estimate].by = k
  /\ e.pc \in Places \cup {"conclude"} => e.estimate = Intended(e) /\ Given(e.call, e.estimate)
  /\ e.marks.done \subseteq StepsOf(e.call.op)
  /\ \A s \in e.marks.done : HasWritten(k, s, Intended(e)) /\ Given(e.call, Intended(e))
  /\ e.pc \in Places \cup {"conclude"} =>
       \A i \in 1..Len(Steps(e.call.op)) : Before(e, i) => HasWritten(k, Steps(e.call.op)[i], e.estimate)
  /\ e.result = "applied" => \A s \in StepsOf(e.call.op) : HasWritten(k, s, e.estimate)

EntriesFit == \A k \in DOMAIN requests : Fits(k, requests[k])

(* What was written has its estimate, and in this session the service's    *)
(* receipt of the first step names it.                                     *)
ModelReceipt(w) ==
  /\ ServiceKey(w.call, "model") \in DOMAIN receipts
  /\ receipts[ServiceKey(w.call, "model")].payload = [op |-> w.call.op, input |-> w.call.input, estimate |-> w.estimate]

StoredFits ==
  \A w \in stored :
    /\ w.key = Key(w.call) /\ Given(w.call, w.estimate)
    /\ w.call.from # None => w.estimate = w.call.from
    /\ w.session = session => ModelReceipt(w)

StoredOnce == \A v, w \in stored : v.key = w.key /\ v.session = w.session => v.estimate = w.estimate

ReceiptsTrue ==
  \A at \in DOMAIN receipts : receipts[at].known =>
    \E w \in stored : /\ w.session = session /\ at = ServiceKey(w.call, w.step)
                      /\ w.call.op = receipts[at].payload.op /\ w.estimate = receipts[at].payload.estimate

(* The estimate of a request is retained with its result, not before.      *)
Retained ==
  \A p \in DOMAIN proposals : asks[p].by # None =>
    asks[p].by \in DOMAIN requests /\ requests[asks[p].by].result # None

(* A request is not asked again but after one of its questions failed, and *)
(* a preview not even then.                                                *)
Binding(m) ==
  asks[m].by # None /\ asks[m].session = session /\ (~asks[m].failed \/ asks[m].by[1] = "preview")
Spent(e, m) == e.result # None \/ e.marks.started \/ e.marks.estimate # None \/ (e.pc = "asking" /\ e.estimate = m)
AsksSpent ==
  \A m \in DOMAIN asks : Binding(m) => asks[m].by \in DOMAIN requests /\ Spent(requests[asks[m].by], m)

IInv ==
  /\ TypeOK /\ BytesAccount /\ StoredFits /\ StoredOnce /\ ReceiptsTrue
  /\ Retained /\ AsksSpent /\ EntriesFit

(* The two halves of the invariant: of the entries of the store, and of    *)
(* all that they rely on.                                                  *)
EntrySide == RequestsTyped /\ bytes \in Nat /\ BytesAccount /\ Retained /\ AsksSpent /\ EntriesFit
WorldSide ==
  /\ AsksTyped /\ ProposalsTyped /\ WritesTyped /\ StoredFits /\ StoredOnce /\ ReceiptsTrue
  /\ session \in Nat /\ faults \in Nat

(* Nothing was taken from the history.                                     *)
Kept ==
  /\ session' = session /\ stored \subseteq stored'
  /\ \A n \in DOMAIN asks :
       /\ n \in DOMAIN asks' /\ asks'[n].by = asks[n].by /\ asks'[n].session = asks[n].session
       /\ asks'[n].family = asks[n].family /\ asks'[n].input = asks[n].input
       /\ Whole(n) => Whole(n)'

(* A step answers or fails the questions of one request only.              *)
Others(k) == \A n \in DOMAIN asks : asks[n].by # k => asks'[n] = asks[n]

(* The estimates that a step makes binding are those of one request.       *)
BindsOnly(k) ==
  /\ \A m \in DOMAIN asks' : Binding(m)' /\ asks'[m].by # k => m \in DOMAIN asks /\ Binding(m)
  /\ Others(k)

-----------------------------------------------------------------------------
(* Constants, numbers and steps.                                           *)

LEMMA Sizes ==
  /\ MaxEntries \in Nat /\ MaxBytes \in Nat /\ Reservation \in Nat /\ ResultBytes \in Nat /\ ProposalBytes \in Nat
  /\ MaxAsks \in Nat /\ MaxFaults \in Nat /\ MaxRestarts \in Nat /\ ResultBytes <= Reservation
BY SizesAssumption

LEMMA Times ==
  ASSUME NEW a \in Nat, NEW n \in Nat
  PROVE  a * n \in Nat /\ a * (n + 1) = a * n + a
OBVIOUS

LEMMA SomeQuestions ==
  ASSUME NEW family, NEW input \in Inputs
  PROVE  Questions(family, input) \in Nat /\ Questions(family, input) > 0
BY TargetsAssumption DEF Questions

LEMMA NoneApart ==
  /\ None \notin Estimates /\ None \notin Final /\ None # "indeterminate" /\ None \notin Keys
BY NoneAssumption DEF Estimates, Final, Keys

(* What the steps of an operation are: at most three, all different, and   *)
(* the first of them revises a model.                                      *)
LEMMA StepsFacts ==
  ASSUME NEW op \in Ops
  PROVE  /\ Len(Steps(op)) \in 0..3
         /\ \A i \in 1..Len(Steps(op)) : Steps(op)[i] \in Places
         /\ \A i, j \in 1..Len(Steps(op)) : Steps(op)[i] = Steps(op)[j] => i = j
         /\ StepsOf(op) \subseteq Places
         /\ Len(Steps(op)) > 0 => Steps(op)[1] = "model"
         /\ op = "preview" <=> Len(Steps(op)) = 0
<1>1. CASE op = "preview"
  BY <1>1 DEF Steps, Places, StepsOf
<1>2. CASE op = "build"
  BY <1>2 DEF Steps, Places, StepsOf
<1>3. CASE op = "ingest"
  BY <1>3 DEF Steps, Places, StepsOf
<1>4. CASE op = "shares"
  BY <1>4 DEF Steps, Places, StepsOf
<1> QED
  BY <1>1, <1>2, <1>3, <1>4, OpsAssumption

LEMMA CallFacts ==
  ASSUME NEW c \in Calls
  PROVE  /\ c.op \in Ops /\ c.id \in Ids /\ c.input \in Inputs /\ c.from \in Estimates \cup {None}
         /\ Key(c) \in Keys /\ Family(c.op) \in {"world", "ingest", "shares"}
         /\ c.op = "preview" => c.from = None
BY OpsAssumption DEF Calls, Key, Keys, Family

(* The least of at most three positions is one of them.                    *)
LEMMA LeastOf ==
  ASSUME NEW S, S \subseteq 1..3, S # {}
  PROVE  Min(S) \in S /\ \A y \in S : Min(S) <= y
<1>1. \E x \in S : \A y \in S : x <= y
  <2>1. CASE 1 \in S
    BY <2>1
  <2>2. CASE 1 \notin S /\ 2 \in S
    BY <2>2
  <2>3. CASE 1 \notin S /\ 2 \notin S
    <3>1. PICK x \in S : TRUE
      OBVIOUS
    <3>2. S \subseteq {3}
      BY <2>3
    <3> QED
      BY <3>1, <3>2
  <2> QED
    BY <2>1, <2>2, <2>3
<1> DEFINE P(x) == x \in S /\ \A y \in S : x <= y
<1>2. P(CHOOSE x : P(x))
  BY <1>1
<1>3. (CHOOSE x : P(x)) = Min(S)
  BY DEF Min
<1> QED
  BY <1>2, <1>3

(* Where a request goes on: past the steps it has checkpointed.            *)
LEMMA FirstOfFacts ==
  ASSUME NEW c \in Calls, NEW marks, NEW from \in 1..4
  PROVE  LET p == FirstOf(c, marks, from)
             n == Len(Steps(c.op))
         IN \/ p = "conclude" /\ \A i \in from..n : Steps(c.op)[i] \in marks.done
            \/ \E j \in from..n : /\ p = Steps(c.op)[j] /\ p \in Places /\ p \in StepsOf(c.op)
                                  /\ \A i \in from..n : i < j => Steps(c.op)[i] \in marks.done
<1> DEFINE n == Len(Steps(c.op))
           open == {i \in from..n : Steps(c.op)[i] \notin marks.done}
<1>0. c.op \in Ops /\ n \in 0..3
  BY CallFacts, StepsFacts
<1>1. CASE open = {}
  <2>1. FirstOf(c, marks, from) = "conclude"
    BY <1>1 DEF FirstOf
  <2> QED
    BY <1>1, <2>1
<1>2. CASE open # {}
  <2>1. FirstOf(c, marks, from) = Steps(c.op)[Min(open)]
    BY <1>2 DEF FirstOf
  <2>2. open \subseteq 1..3
    BY <1>0
  <2>3. Min(open) \in open /\ \A y \in open : Min(open) <= y
    <3> HIDE DEF open
    <3> QED
      BY <1>2, <2>2, LeastOf
  <2> DEFINE j == Min(open)
  <2>4. j \in from..n /\ j \in 1..n
    BY <2>3, <1>0
  <2>5. \A i \in from..n : i < j => Steps(c.op)[i] \in marks.done
    BY <2>3, <2>4, <1>0
  <2>6. Steps(c.op)[j] \in Places /\ Steps(c.op)[j] \in StepsOf(c.op)
    BY <2>4, <1>0, StepsFacts DEF StepsOf
  <2> HIDE DEF j
  <2> QED
    BY <2>1, <2>4, <2>5, <2>6 DEF j
<1> QED
  BY <1>1, <1>2

-----------------------------------------------------------------------------
(* What a step leaves as it was.                                           *)

LEMMA Halves == IInv <=> EntrySide /\ WorldSide
BY DEF IInv, EntrySide, WorldSide, TypeOK

LEMMA EntryFacts ==
  ASSUME RequestsTyped, NEW k \in DOMAIN requests
  PROVE  /\ requests[k] \in Entries /\ k \in Keys /\ Key(requests[k].call) = k /\ requests[k].call \in Calls
         /\ requests[k].call.op \in Ops /\ k[1] = requests[k].call.op
         /\ requests[k].marks \in Marks /\ requests[k].marks.done \subseteq Places
         /\ requests[k].marks.started \in BOOLEAN
         /\ requests[k].estimate \in Estimates \cup {None} /\ requests[k].marks.estimate \in Estimates \cup {None}
<1>1. requests[k] \in Entries /\ k \in Keys /\ Key(requests[k].call) = k
  BY DEF RequestsTyped
<1>2. requests[k].call \in Calls /\ requests[k].marks \in Marks /\ requests[k].estimate \in Estimates \cup {None}
  BY <1>1 DEF Entries
<1>3. requests[k].call.op \in Ops
  BY <1>2, CallFacts
<1>4. k[1] = requests[k].call.op
  BY <1>1 DEF Key
<1> QED
  BY <1>1, <1>2, <1>3, <1>4 DEF Marks

LEMMA NotNone == ASSUME AsksTyped PROVE None \notin DOMAIN asks /\ DOMAIN asks = 1..Len(asks) /\ Len(asks) \in Nat
BY NoneApart, Sizes DEF AsksTyped, Estimates

(* What was so of an estimate, or written from it, still is.               *)
LEMMA GivenKept ==
  ASSUME Kept
  PROVE  /\ \A c, n : (Right(c, n) => Right(c, n)') /\ (Given(c, n) => Given(c, n)')
         /\ \A k, s, n : HasWritten(k, s, n) => HasWritten(k, s, n)'
<1>1. \A c, n : Right(c, n) => Right(c, n)'
  BY DEF Kept, Right
<1>2. \A c, n : Given(c, n) => Given(c, n)'
  BY <1>1 DEF Kept, Given, Right
<1>3. \A k, s, n : HasWritten(k, s, n) => HasWritten(k, s, n)'
  BY DEF Kept, HasWritten
<1> QED
  BY <1>1, <1>2, <1>3

(* An entry that fits still does when the history only grew, but for the   *)
(* estimate that it waits for.                                             *)
LEMMA FitsKept ==
  ASSUME Kept, NEW k, NEW e, Fits(k, e), e.pc = "asking" => asks'[e.estimate] = asks[e.estimate]
  PROVE  Fits(k, e)'
<1>1. \A n : (Right(e.call, n) => Right(e.call, n)') /\ (Given(e.call, n) => Given(e.call, n)')
  BY GivenKept
<1>2. \A s, n : HasWritten(k, s, n) => HasWritten(k, s, n)'
  BY GivenKept
<1>3. \A n : Right(e.call, n) /\ asks[n].by = k => asks'[n].by = k
  BY DEF Kept, Right
<1>4. \A n : Right(e.call, n) /\ asks[n].session = session => asks'[n].session = session'
  BY DEF Kept, Right
<1>5. \A i : Before(e, i) <=> Before(e, i)'
  BY DEF Before
<1>14. e.pc = "asking" /\ Open(e.estimate) => Open(e.estimate)'
  BY DEF Open
<1> USE DEF Fits
<1>6. e.pc = "asking" =>
        /\ e.call.from = None /\ e.marks.estimate = None /\ e.marks.started = (e.call.op = "preview")
        /\ Right(e.call, e.estimate)' /\ asks'[e.estimate].by = k /\ asks'[e.estimate].session = session'
        /\ Open(e.estimate)'
  BY <1>1, <1>3, <1>4, <1>14
<1>7. e.marks.estimate # None =>
        e.call.from = None /\ Given(e.call, e.marks.estimate)' /\ asks'[e.marks.estimate].by = k
  BY <1>1, <1>3 DEF Given
<1>8. e.pc \in Places \cup {"conclude"} => e.estimate = Intended(e) /\ Given(e.call, e.estimate)'
  BY <1>1
<1>9. \A s \in e.marks.done : HasWritten(k, s, Intended(e))' /\ Given(e.call, Intended(e))'
  BY <1>1, <1>2
<1>10. e.pc \in Places \cup {"conclude"} =>
         \A i \in 1..Len(Steps(e.call.op)) : Before(e, i)' => HasWritten(k, Steps(e.call.op)[i], e.estimate)'
  BY <1>2, <1>5
<1>11. e.result = "applied" => \A s \in StepsOf(e.call.op) : HasWritten(k, s, e.estimate)'
  BY <1>2
<1>12. Intended(e)' = Intended(e)
  BY DEF Intended
<1> QED
  BY <1>6, <1>7, <1>8, <1>9, <1>10, <1>11, <1>12

(* A step that moves one request.                                          *)
LEMMA OthersFit ==
  ASSUME Kept, EntriesFit, NEW k, \A x \in DOMAIN requests' : x # k => x \in DOMAIN requests /\ requests'[x] = requests[x],
         Others(k), k \in DOMAIN requests' => Fits(k, requests[k])'
  PROVE  EntriesFit'
<1>1. SUFFICES ASSUME NEW x \in DOMAIN requests', x # k PROVE Fits(x, requests[x])'
  BY <1>1 DEF EntriesFit
<1>2. x \in DOMAIN requests /\ requests'[x] = requests[x]
  BY <1>1
<1>3. PICK e : e = requests[x]
  OBVIOUS
<1>4. Fits(x, e)
  BY <1>2, <1>3 DEF EntriesFit
<1>5. e.pc = "asking" => asks'[e.estimate] = asks[e.estimate]
  BY <1>1, <1>4 DEF Fits, Right, Others
<1>6. Fits(x, e)'
  BY <1>4, <1>5, FitsKept
<1> QED
  BY <1>2, <1>3, <1>6

(* What is settled, and what the store counts.                             *)
LEMMA Counted ==
  ASSUME RequestsTyped, ProposalsTyped
  PROVE  /\ IsFiniteSet(Settled) /\ IsFiniteSet(DOMAIN requests \ Settled)
         /\ Cardinality(Settled) \in Nat /\ Cardinality(DOMAIN requests \ Settled) \in Nat
         /\ Cardinality(DOMAIN proposals) \in Nat /\ Settled \subseteq DOMAIN requests
<1>1. Settled \subseteq DOMAIN requests
  BY DEF Settled
<1>2. IsFiniteSet(Settled) /\ IsFiniteSet(DOMAIN requests \ Settled)
  BY <1>1, FS_Subset, FS_Difference DEF RequestsTyped
<1> QED
  BY <1>1, <1>2, FS_CardinalityType DEF ProposalsTyped

LEMMA CountsSame ==
  ASSUME bytes \in Nat, BytesAccount, bytes' = bytes, DOMAIN requests' = DOMAIN requests, DOMAIN proposals' = DOMAIN proposals,
         \A x \in DOMAIN requests : requests'[x].result \in Final <=> requests[x].result \in Final
  PROVE  bytes' \in Nat /\ BytesAccount'
<1>1. Settled' = Settled
  BY DEF Settled, Final
<1>2. Cardinality(Settled') = Cardinality(Settled) /\ Cardinality(DOMAIN requests' \ Settled') = Cardinality(DOMAIN requests \ Settled)
      /\ Cardinality(DOMAIN proposals') = Cardinality(DOMAIN proposals)
  BY <1>1, Zenon
<1> QED
  BY <1>2 DEF BytesAccount

-----------------------------------------------------------------------------
(* How the entry of one request changes.                                   *)

(* It moves on, and its bytes stay.                                        *)
LEMMA Moved ==
  ASSUME IInv, Kept, NEW k \in DOMAIN requests, NEW e \in Entries, e.call = requests[k].call,
         requests' = [requests EXCEPT ![k] = e], bytes' = bytes, proposals' = proposals,
         e.result = requests[k].result \/ (requests[k].result = None /\ e.result = "indeterminate"),
         Fits(k, e)', BindsOnly(k), \A m \in DOMAIN asks' : Binding(m)' /\ asks'[m].by = k => Spent(e, m)
  PROVE  EntrySide'
<1> USE DEF IInv, TypeOK
<1>1. DOMAIN requests' = DOMAIN requests /\ requests'[k] = e /\ \A x \in DOMAIN requests : x # k => requests'[x] = requests[x]
  OBVIOUS
<1>2. RequestsTyped'
  BY <1>1 DEF RequestsTyped, Key
<1>3. \A x \in DOMAIN requests : requests'[x].result \in Final <=> requests[x].result \in Final
  BY <1>1, NoneApart DEF Final
<1>4. bytes' \in Nat /\ BytesAccount'
  BY <1>1, <1>3, CountsSame
<1>5. Retained'
  <2>1. SUFFICES ASSUME NEW p \in DOMAIN proposals', asks'[p].by # None
                 PROVE  asks'[p].by \in DOMAIN requests' /\ requests'[asks'[p].by].result # None
    BY <2>1 DEF Retained
  <2>2. p \in DOMAIN asks /\ asks'[p].by = asks[p].by
    BY <2>1 DEF Kept, ProposalsTyped
  <2>3. asks[p].by \in DOMAIN requests /\ requests[asks[p].by].result # None
    BY <2>1, <2>2 DEF Retained
  <2> QED
    BY <2>2, <2>3, <1>1, NoneApart
<1>6. AsksSpent'
  <2>1. SUFFICES ASSUME NEW m \in DOMAIN asks', Binding(m)'
                 PROVE  asks'[m].by \in DOMAIN requests' /\ Spent(requests'[asks'[m].by], m)
    BY <2>1 DEF AsksSpent, Spent
  <2>2. CASE asks'[m].by = k
    BY <2>1, <2>2, <1>1
  <2>3. CASE asks'[m].by # k
    <3>1. m \in DOMAIN asks /\ Binding(m) /\ asks'[m].by = asks[m].by
      BY <2>1, <2>3 DEF BindsOnly, Kept
    <3> QED
      BY <3>1, <1>1, <2>3 DEF AsksSpent
  <2> QED
    BY <2>2, <2>3
<1>7. EntriesFit'
  BY <1>1, OthersFit DEF BindsOnly, Others
<1> QED
  BY <1>2, <1>4, <1>5, <1>6, <1>7 DEF EntrySide

(* It ends, without a result: nothing that counts remains of it.           *)
LEMMA Dropped ==
  ASSUME IInv, Kept, NEW k \in DOMAIN requests, requests[k].result = None,
         requests' = Without(requests, k), bytes' = bytes - requests[k].reserved, proposals' = proposals,
         BindsOnly(k), \A m \in DOMAIN asks' : ~(Binding(m)' /\ asks'[m].by = k)
  PROVE  EntrySide'
<1> USE DEF IInv, TypeOK
<1>1. DOMAIN requests' = DOMAIN requests \ {k} /\ \A x \in DOMAIN requests' : requests'[x] = requests[x]
  BY DEF Without
<1>2. RequestsTyped'
  <2>1. IsFiniteSet(DOMAIN requests')
    BY <1>1, FS_RemoveElement DEF RequestsTyped
  <2> QED
    BY <1>1, <2>1 DEF RequestsTyped, Key
<1>3. bytes' \in Nat /\ BytesAccount'
  <2>1. Settled' = Settled
    BY <1>1, NoneApart DEF Settled, Final
  <2> DEFINE open == DOMAIN requests \ Settled
  <2>2. k \in open
    BY NoneApart DEF Settled, Final
  <2>3. DOMAIN requests' \ Settled' = open \ {k}
    BY <1>1, <2>1
  <2>4. IsFiniteSet(open) /\ Cardinality(open) \in Nat /\ Cardinality(Settled) \in Nat /\ Cardinality(DOMAIN proposals) \in Nat
    BY Counted
  <2>5. Cardinality(open \ {k}) = Cardinality(open) - 1 /\ Cardinality(open \ {k}) \in Nat
    <3>1. IsFiniteSet(open \ {k}) /\ Cardinality(open \ {k}) = Cardinality(open) - 1
      <4> HIDE DEF open
      <4> QED
        BY <2>2, <2>4, FS_RemoveElement
    <3> QED
      BY <3>1, FS_CardinalityType
  <2>6. requests[k].reserved = Reservation
    BY NoneApart DEF EntriesFit, Fits, Final
  <2>7. Cardinality(DOMAIN requests' \ Settled') = Cardinality(open \ {k}) /\ Cardinality(Settled') = Cardinality(Settled)
        /\ Cardinality(DOMAIN proposals') = Cardinality(DOMAIN proposals)
    BY <2>1, <2>3, Zenon
  <2>8. PICK n \in Nat, s \in Nat, q \in Nat : n = Cardinality(open \ {k}) /\ s = Cardinality(Settled) /\ q = Cardinality(DOMAIN proposals)
    BY <2>4, <2>5
  <2>9. bytes = Reservation * (n + 1) + ResultBytes * s + ProposalBytes * q /\ bytes <= MaxBytes
    <3>1. Cardinality(open) = n + 1
      BY <2>4, <2>5, <2>8
    <3> QED
      BY <3>1, <2>8 DEF BytesAccount
  <2>10. bytes' = Reservation * n + ResultBytes * s + ProposalBytes * q
    <3>1. Reservation * (n + 1) = Reservation * n + Reservation
      BY Times, Sizes
    <3>2. Reservation * n \in Nat /\ ResultBytes * s \in Nat /\ ProposalBytes * q \in Nat
      BY Times, Sizes
    <3> HIDE DEF open
    <3> QED
      BY <3>1, <3>2, <2>6, <2>9, Sizes
  <2>11. bytes' \in Nat /\ bytes' <= MaxBytes
    <3>1. Reservation * n \in Nat /\ ResultBytes * s \in Nat /\ ProposalBytes * q \in Nat
      BY Times, Sizes
    <3> QED
      BY <3>1, <2>10, <2>6, <2>9, Sizes
  <2> QED
    BY <2>7, <2>8, <2>10, <2>11 DEF BytesAccount
<1>4. Retained'
  <2>1. SUFFICES ASSUME NEW p \in DOMAIN proposals', asks'[p].by # None
                 PROVE  asks'[p].by \in DOMAIN requests' /\ requests'[asks'[p].by].result # None
    BY <2>1 DEF Retained
  <2>2. p \in DOMAIN asks /\ asks'[p].by = asks[p].by
    BY <2>1 DEF Kept, ProposalsTyped
  <2>3. asks[p].by \in DOMAIN requests /\ requests[asks[p].by].result # None
    BY <2>1, <2>2 DEF Retained
  <2> QED
    BY <2>2, <2>3, <1>1
<1>5. AsksSpent'
  <2>1. SUFFICES ASSUME NEW m \in DOMAIN asks', Binding(m)'
                 PROVE  asks'[m].by \in DOMAIN requests' /\ Spent(requests'[asks'[m].by], m)
    BY <2>1 DEF AsksSpent, Spent
  <2>2. asks'[m].by # k
    BY <2>1
  <2>3. m \in DOMAIN asks /\ Binding(m) /\ asks'[m].by = asks[m].by
    BY <2>1, <2>2 DEF BindsOnly, Kept
  <2> QED
    BY <2>2, <2>3, <1>1 DEF AsksSpent
<1>6. EntriesFit'
  BY <1>1, OthersFit DEF BindsOnly, Others
<1> QED
  BY <1>2, <1>3, <1>4, <1>5, <1>6 DEF EntrySide

(* It ends with a final result, and what it reserved is released; a        *)
(* preview retains its estimate with it.                                   *)
LEMMA Finished ==
  ASSUME IInv, Kept, NEW k \in DOMAIN requests, requests[k].result = None,
         NEW e \in Entries, e.call = requests[k].call, e.result \in Final, requests' = [requests EXCEPT ![k] = e],
         NEW kept, NEW room \in Nat, DOMAIN proposals' = DOMAIN proposals \cup kept, bytes + room <= MaxBytes,
         (kept = {} /\ room = 0) \/ \E p \in DOMAIN asks \ DOMAIN proposals : kept = {p} /\ asks[p].by = k /\ room = ProposalBytes,
         bytes' = bytes + room - (requests[k].reserved - ResultBytes),
         Fits(k, e)', BindsOnly(k)
  PROVE  EntrySide'
<1> USE DEF IInv, TypeOK
<1>1. DOMAIN requests' = DOMAIN requests /\ requests'[k] = e /\ \A x \in DOMAIN requests : x # k => requests'[x] = requests[x]
  OBVIOUS
<1>2. RequestsTyped'
  BY <1>1 DEF RequestsTyped, Key
<1>3. bytes' \in Nat /\ BytesAccount'
  <2> DEFINE open == DOMAIN requests \ Settled
  <2>1. k \in open
    BY NoneApart DEF Settled, Final
  <2>2. Settled' = Settled \cup {k} /\ k \notin Settled
    BY <1>1, NoneApart DEF Settled, Final
  <2>3. DOMAIN requests' \ Settled' = open \ {k}
    BY <1>1, <2>2
  <2>4. /\ IsFiniteSet(open) /\ IsFiniteSet(Settled) /\ IsFiniteSet(DOMAIN proposals)
        /\ Cardinality(open) \in Nat /\ Cardinality(Settled) \in Nat /\ Cardinality(DOMAIN proposals) \in Nat
    BY Counted DEF ProposalsTyped
  <2>5. Cardinality(open \ {k}) = Cardinality(open) - 1 /\ Cardinality(open \ {k}) \in Nat
    <3>1. IsFiniteSet(open \ {k}) /\ Cardinality(open \ {k}) = Cardinality(open) - 1
      <4> HIDE DEF open
      <4> QED
        BY <2>1, <2>4, FS_RemoveElement
    <3> QED
      BY <3>1, FS_CardinalityType
  <2>6. Cardinality(Settled \cup {k}) = Cardinality(Settled) + 1
    BY <2>2, <2>4, FS_AddElement
  <2>7. PICK r \in Nat : Cardinality(DOMAIN proposals \cup kept) = Cardinality(DOMAIN proposals) + r /\ room = ProposalBytes * r
    <3>1. CASE kept = {} /\ room = 0
      <4>1. DOMAIN proposals \cup kept = DOMAIN proposals
        BY <3>1
      <4>2. Cardinality(DOMAIN proposals \cup kept) = Cardinality(DOMAIN proposals)
        BY <4>1, Zenon
      <4>3. Cardinality(DOMAIN proposals) = Cardinality(DOMAIN proposals) + 0 /\ ProposalBytes * 0 = 0
        BY <2>4, Sizes
      <4> QED
        BY <4>2, <4>3, <3>1
    <3>2. CASE \E p \in DOMAIN asks \ DOMAIN proposals : kept = {p} /\ asks[p].by = k /\ room = ProposalBytes
      <4>1. PICK p \in DOMAIN asks \ DOMAIN proposals : kept = {p} /\ room = ProposalBytes
        BY <3>2
      <4>2. Cardinality(DOMAIN proposals \cup {p}) = Cardinality(DOMAIN proposals) + 1
        BY <2>4, FS_AddElement
      <4>3. Cardinality(DOMAIN proposals \cup kept) = Cardinality(DOMAIN proposals) + 1
        BY <4>1, <4>2
      <4> QED
        BY <4>1, <4>3, Sizes
    <3> QED
      BY <3>1, <3>2
  <2>8. requests[k].reserved = Reservation
    BY NoneApart DEF EntriesFit, Fits, Final
  <2>9. Cardinality(DOMAIN requests' \ Settled') = Cardinality(open \ {k}) /\ Cardinality(Settled') = Cardinality(Settled \cup {k})
        /\ Cardinality(DOMAIN proposals') = Cardinality(DOMAIN proposals \cup kept)
    BY <2>2, <2>3, Zenon
  <2>10. PICK n \in Nat, s \in Nat, q \in Nat :
           n = Cardinality(open \ {k}) /\ s = Cardinality(Settled) /\ q = Cardinality(DOMAIN proposals)
    BY <2>4, <2>5
  <2>11. bytes = Reservation * (n + 1) + ResultBytes * s + ProposalBytes * q /\ bytes <= MaxBytes
    <3>1. Cardinality(open) = n + 1
      BY <2>4, <2>5, <2>10
    <3> QED
      BY <3>1, <2>10 DEF BytesAccount
  <2>12. /\ Reservation * n \in Nat /\ ResultBytes * s \in Nat /\ ProposalBytes * q \in Nat
         /\ Reservation * (n + 1) = Reservation * n + Reservation /\ ResultBytes * (s + 1) = ResultBytes * s + ResultBytes
    BY Times, Sizes
  <2>13. ProposalBytes * (q + r) = ProposalBytes * q + room
    <3>1. \A a, b, c \in Nat : a * (b + c) = a * b + a * c
      OBVIOUS
    <3> QED
      BY <3>1, <2>7, Sizes
  <2> HIDE DEF open
  <2>14. bytes' = Reservation * n + ResultBytes * (s + 1) + ProposalBytes * (q + r)
    BY <2>8, <2>11, <2>12, <2>13, Sizes
  <2>15. bytes' \in Nat /\ bytes' <= MaxBytes
    BY <2>8, <2>11, <2>12, Sizes
  <2>16. Cardinality(Settled') = s + 1 /\ Cardinality(DOMAIN requests' \ Settled') = n /\ Cardinality(DOMAIN proposals') = q + r
    BY <2>6, <2>7, <2>9, <2>10
  <2> QED
    BY <2>14, <2>15, <2>16 DEF BytesAccount
<1>4. Retained'
  <2>1. SUFFICES ASSUME NEW p \in DOMAIN proposals', asks'[p].by # None
                 PROVE  asks'[p].by \in DOMAIN requests' /\ requests'[asks'[p].by].result # None
    BY <2>1 DEF Retained
  <2>2. CASE p \in DOMAIN proposals
    <3>1. p \in DOMAIN asks /\ asks'[p].by = asks[p].by
      BY <2>2 DEF Kept, ProposalsTyped
    <3>2. asks[p].by \in DOMAIN requests /\ requests[asks[p].by].result # None
      BY <2>1, <2>2, <3>1 DEF Retained
    <3> QED
      BY <3>1, <3>2, <1>1, NoneApart
  <2>3. CASE p \in kept
    <3>1. p \in DOMAIN asks /\ asks[p].by = k
      BY <2>3
    <3>2. asks'[p].by = k
      BY <3>1 DEF Kept
    <3> QED
      BY <3>2, <1>1, NoneApart
  <2> QED
    BY <2>1, <2>2, <2>3
<1>5. AsksSpent'
  <2>1. SUFFICES ASSUME NEW m \in DOMAIN asks', Binding(m)'
                 PROVE  asks'[m].by \in DOMAIN requests' /\ Spent(requests'[asks'[m].by], m)
    BY <2>1 DEF AsksSpent, Spent
  <2>2. CASE asks'[m].by = k
    BY <2>2, <1>1, NoneApart DEF Spent
  <2>3. CASE asks'[m].by # k
    <3>1. m \in DOMAIN asks /\ Binding(m) /\ asks'[m].by = asks[m].by
      BY <2>1, <2>3 DEF BindsOnly, Kept
    <3> QED
      BY <3>1, <1>1, <2>3 DEF AsksSpent
  <2> QED
    BY <2>2, <2>3
<1>6. EntriesFit'
  BY <1>1, OthersFit DEF BindsOnly, Others
<1> QED
  BY <1>2, <1>3, <1>4, <1>5, <1>6 DEF EntrySide

(* A request that is made is counted, with all that it may take.           *)
LEMMA Added ==
  ASSUME IInv, Kept, NEW k \in Keys \ DOMAIN requests, NEW e \in Entries, Key(e.call) = k, e.result = None,
         requests' = With(requests, k, e), bytes' = bytes + Reservation, bytes' <= MaxBytes,
         proposals' = proposals, Fits(k, e)', asks' = asks
  PROVE  EntrySide'
<1> USE DEF IInv, TypeOK
<1>1. DOMAIN requests' = DOMAIN requests \cup {k} /\ requests'[k] = e /\ \A x \in DOMAIN requests : requests'[x] = requests[x]
  BY DEF With
<1>2. RequestsTyped'
  <2>1. IsFiniteSet(DOMAIN requests')
    BY <1>1, FS_AddElement DEF RequestsTyped
  <2> QED
    BY <1>1, <2>1 DEF RequestsTyped, Key
<1>3. bytes' \in Nat /\ BytesAccount'
  <2> DEFINE open == DOMAIN requests \ Settled
  <2>1. Settled' = Settled /\ k \notin Settled
    BY <1>1, NoneApart DEF Settled, Final
  <2>2. DOMAIN requests' \ Settled' = open \cup {k} /\ k \notin open
    BY <1>1, <2>1
  <2>3. IsFiniteSet(open) /\ Cardinality(open) \in Nat /\ Cardinality(Settled) \in Nat /\ Cardinality(DOMAIN proposals) \in Nat
    BY Counted
  <2>4. Cardinality(open \cup {k}) = Cardinality(open) + 1
    <3> HIDE DEF open
    <3> QED
      BY <2>2, <2>3, FS_AddElement
  <2>5. Cardinality(DOMAIN requests' \ Settled') = Cardinality(open \cup {k}) /\ Cardinality(Settled') = Cardinality(Settled)
        /\ Cardinality(DOMAIN proposals') = Cardinality(DOMAIN proposals)
    BY <2>1, <2>2, Zenon
  <2>6. PICK n \in Nat, s \in Nat, q \in Nat :
          n = Cardinality(open) /\ s = Cardinality(Settled) /\ q = Cardinality(DOMAIN proposals)
    BY <2>3
  <2>7. bytes = Reservation * n + ResultBytes * s + ProposalBytes * q
    BY <2>6 DEF BytesAccount
  <2>8. /\ Reservation * n \in Nat /\ ResultBytes * s \in Nat /\ ProposalBytes * q \in Nat
        /\ Reservation * (n + 1) = Reservation * n + Reservation
    BY Times, Sizes
  <2> HIDE DEF open
  <2>9. bytes' = Reservation * (n + 1) + ResultBytes * s + ProposalBytes * q /\ bytes' \in Nat
    BY <2>7, <2>8, Sizes
  <2>10. Cardinality(Settled') = s /\ Cardinality(DOMAIN requests' \ Settled') = n + 1 /\ Cardinality(DOMAIN proposals') = q
    BY <2>4, <2>5, <2>6
  <2> QED
    BY <2>9, <2>10 DEF BytesAccount
<1>4. Retained'
  BY <1>1 DEF Retained
<1>5. AsksSpent'
  <2>1. SUFFICES ASSUME NEW m \in DOMAIN asks', Binding(m)'
                 PROVE  asks'[m].by \in DOMAIN requests' /\ Spent(requests'[asks'[m].by], m)
    BY <2>1 DEF AsksSpent, Spent
  <2>2. Binding(m) /\ m \in DOMAIN asks
    BY <2>1 DEF Binding, Kept
  <2>3. asks[m].by \in DOMAIN requests /\ Spent(requests[asks[m].by], m)
    BY <2>2 DEF AsksSpent
  <2> QED
    BY <2>3, <1>1
<1>6. EntriesFit'
  BY <1>1, OthersFit DEF BindsOnly, Others
<1> QED
  BY <1>2, <1>3, <1>4, <1>5, <1>6 DEF EntrySide

-----------------------------------------------------------------------------
(* How an execution stops.                                                 *)

LEMMA Ready ==
  ASSUME IInv, NEW k \in DOMAIN requests
  PROVE  /\ Fits(k, requests[k]) /\ requests[k] \in Entries /\ requests[k].call \in Calls
         /\ requests[k].pc # "idle" => requests[k].result = None
         /\ DOMAIN requests[k] = {"call", "marks", "result", "pc", "estimate", "reserved"}
<1>1. Fits(k, requests[k])
  BY DEF IInv, EntriesFit
<1>2. requests[k] \in Entries /\ requests[k].call \in Calls
  BY EntryFacts DEF IInv, TypeOK
<1>3. requests[k].pc # "idle" => requests[k].result = None
  BY <1>1 DEF Fits
<1> QED
  BY <1>1, <1>2, <1>3 DEF Entries

LEMMA FitsStopped ==
  ASSUME NEW k, NEW d \in Entries, Fits(k, d), d.result = None, NEW r \in {None, "indeterminate"}
  PROVE  LET e == [d EXCEPT !.result = r, !.pc = "idle"]
         IN  e \in Entries /\ Fits(k, e) /\ e.call = d.call /\ e.marks = d.marks /\ e.result = r /\ e.pc = "idle"
<1> DEFINE e == [d EXCEPT !.result = r, !.pc = "idle"]
<1>1. e \in Entries /\ e.call = d.call /\ e.marks = d.marks /\ e.result = r /\ e.pc = "idle" /\ e.reserved = d.reserved
  BY DEF Entries
<1> HIDE DEF e
<1>2. Intended(e) = Intended(d)
  BY <1>1 DEF Intended
<1>3. r \notin Final /\ d.result \notin Final
  BY NoneApart DEF Final
<1>4. e.reserved = IF e.result \in Final THEN ResultBytes ELSE Reservation
  BY <1>1, <1>3 DEF Fits
<1>5. Fits(k, e)
  BY <1>1, <1>2, <1>3, <1>4, NoneApart DEF Fits, Places, Final
<1> QED
  BY <1>1, <1>5 DEF e

LEMMA Uncertain ==
  ASSUME IInv, Kept, NEW k \in DOMAIN requests, requests[k].pc # "idle", ThrowIndeterminate(k), proposals' = proposals, BindsOnly(k)
  PROVE  EntrySide'
<1>1. PICK e : e = [requests[k] EXCEPT !.result = "indeterminate", !.pc = "idle"]
  OBVIOUS
<1>2. requests' = [requests EXCEPT ![k] = e] /\ bytes' = bytes
  BY <1>1, Ready DEF ThrowIndeterminate
<1>3. e \in Entries /\ Fits(k, e) /\ e.call = requests[k].call /\ e.result = "indeterminate" /\ e.pc = "idle"
      /\ requests[k].result = None
  BY <1>1, Ready, FitsStopped
<1>4. Fits(k, e)'
  BY <1>3, FitsKept
<1>5. \A m \in DOMAIN asks' : Spent(e, m)
  BY <1>3, NoneApart DEF Spent
<1> QED
  BY <1>2, <1>3, <1>4, <1>5, Moved

(* What was binding still is, but for the estimate that a request waits    *)
(* for, which it does not get.                                             *)
Unbinds(k) ==
  /\ \A m \in DOMAIN asks' : Binding(m)' =>
       /\ m \in DOMAIN asks /\ Binding(m)
       /\ asks[m].by = k => ~(requests[k].pc = "asking" /\ requests[k].estimate = m)
  /\ Others(k)

LEMMA Paused ==
  ASSUME IInv, Kept, NEW k \in DOMAIN requests, requests[k].pc # "idle", Pause(k), proposals' = proposals, Unbinds(k)
  PROVE  EntrySide'
<1>1. PICK e : e = [requests[k] EXCEPT !.result = None, !.pc = "idle"]
  OBVIOUS
<1>2. requests[k].result = None
  BY Ready
<1>3. requests' = [requests EXCEPT ![k] = e] /\ bytes' = bytes
  <2>1. e = [requests[k] EXCEPT !.pc = "idle"]
    BY <1>1, <1>2, Ready DEF Entries
  <2> QED
    BY <2>1 DEF Pause
<1>4. e \in Entries /\ Fits(k, e) /\ e.call = requests[k].call /\ e.result = None /\ e.pc = "idle"
      /\ e.marks = requests[k].marks
  BY <1>1, <1>2, Ready, FitsStopped
<1>5. Fits(k, e)'
  BY <1>4, FitsKept
<1>6. \A m \in DOMAIN asks' : Binding(m)' /\ asks'[m].by = k => Spent(e, m)
  <2>1. SUFFICES ASSUME NEW m \in DOMAIN asks', Binding(m)', asks'[m].by = k PROVE Spent(e, m)
    BY <2>1
  <2>2. m \in DOMAIN asks /\ Binding(m) /\ asks[m].by = k /\ ~(requests[k].pc = "asking" /\ requests[k].estimate = m)
    BY <2>1 DEF Unbinds, Kept
  <2>3. Spent(requests[k], m)
    BY <2>2 DEF IInv, AsksSpent
  <2> QED
    BY <2>2, <2>3, <1>2, <1>4 DEF Spent
<1>7. BindsOnly(k)
  BY DEF Unbinds, BindsOnly
<1> QED
  BY <1>2, <1>3, <1>4, <1>5, <1>6, <1>7, Moved

LEMMA Thrown ==
  ASSUME IInv, Kept, NEW k \in DOMAIN requests, requests[k].pc # "idle", Throw(k), proposals' = proposals, Unbinds(k)
  PROVE  EntrySide'
<1>1. CASE requests[k].marks = NoMarks
  <2>1. requests' = Without(requests, k) /\ bytes' = bytes - requests[k].reserved
    BY <1>1 DEF Throw
  <2>2. requests[k].result = None
    BY Ready
  <2>3. BindsOnly(k)
    BY DEF Unbinds, BindsOnly
  <2>4. ASSUME NEW m \in DOMAIN asks', Binding(m)', asks'[m].by = k PROVE FALSE
    <3>1. m \in DOMAIN asks /\ Binding(m) /\ asks[m].by = k /\ ~(requests[k].pc = "asking" /\ requests[k].estimate = m)
      BY <2>4 DEF Unbinds, Kept
    <3>2. Spent(requests[k], m)
      BY <3>1 DEF IInv, AsksSpent
    <3> QED
      BY <3>1, <3>2, <2>2, <1>1 DEF Spent, NoMarks
  <2> QED
    BY <2>1, <2>2, <2>3, <2>4, Dropped
<1>2. CASE requests[k].marks # NoMarks
  <2>1. Pause(k)
    BY <1>2 DEF Throw
  <2> QED
    BY <2>1, Paused
<1> QED
  BY <1>1, <1>2

-----------------------------------------------------------------------------
(* The history.                                                            *)

LEMMA KeptSame ==
  ASSUME UNCHANGED <<asks, session>>, stored \subseteq stored'
  PROVE  /\ Kept /\ (\A k : BindsOnly(k) /\ Others(k))
         /\ \A m \in DOMAIN asks' : Binding(m)' => m \in DOMAIN asks /\ Binding(m)
BY DEF Kept, BindsOnly, Binding, Others, Whole

(* The provider is asked, or answers, or does not.                         *)
LEMMA WorldAsks ==
  ASSUME WorldSide, Kept, UNCHANGED <<proposals, receipts, stored, session>>, AsksTyped', faults' \in Nat
  PROVE  WorldSide'
<1> USE DEF WorldSide
<1>1. ProposalsTyped'
  BY DEF ProposalsTyped, Kept
<1>2. WritesTyped'
  BY DEF WritesTyped
<1>3. \A c, n : Given(c, n) => Given(c, n)'
  BY GivenKept
<1>4. \A w : ModelReceipt(w) => ModelReceipt(w)'
  BY DEF ModelReceipt
<1>5. StoredFits'
  BY <1>3, <1>4 DEF StoredFits
<1>6. StoredOnce' /\ ReceiptsTrue'
  BY DEF StoredOnce, ReceiptsTrue
<1> QED
  BY <1>1, <1>2, <1>5, <1>6

LEMMA Updated ==
  ASSUME AsksTyped, NEW n \in DOMAIN asks, NEW a \in Asked, asks' = [asks EXCEPT ![n] = a], Open(n),
         a.by = asks[n].by, a.session = asks[n].session, a.family = asks[n].family, a.input = asks[n].input,
         Counts(a), UNCHANGED <<stored, session>>
  PROVE  /\ Kept /\ AsksTyped' /\ Others(asks[n].by) /\ asks'[n] = a
         /\ \A m \in DOMAIN asks' : Binding(m)' => m \in DOMAIN asks /\ Binding(m)
         /\ Binding(n)' /\ a.failed => asks[n].by[1] = "preview"
<1>1. asks \in Seq(Asked) /\ asks[n] \in Asked
  BY DEF AsksTyped
<1>2. DOMAIN asks' = DOMAIN asks /\ Len(asks') = Len(asks) /\ asks'[n] = a
  BY <1>1
<1>3. \A m \in DOMAIN asks : m # n => asks'[m] = asks[m]
  OBVIOUS
<1>4. ~Whole(n)
  BY <1>1, SomeQuestions DEF Open, Whole, Asked
<1>5. Kept
  <2>1. \A m \in DOMAIN asks : Whole(m) => Whole(m)'
    BY <1>3, <1>4 DEF Whole
  <2> QED
    BY <2>1, <1>2, <1>3 DEF Kept
<1>6. AsksTyped'
  <2>1. asks' \in Seq(Asked)
    BY <1>1
  <2>2. \A m \in DOMAIN asks' : Counts(asks'[m])
    BY <1>2, <1>3 DEF AsksTyped
  <2> QED
    BY <2>1, <2>2, <1>2, <1>3 DEF AsksTyped, Counts
<1>7. \A m \in DOMAIN asks' : Binding(m)' => m \in DOMAIN asks /\ Binding(m)
  BY <1>2, <1>3 DEF Binding, Open
<1>8. Binding(n)' /\ a.failed => asks[n].by[1] = "preview"
  BY <1>2 DEF Binding
<1>9. Others(asks[n].by)
  BY <1>3 DEF Others
<1> QED
  BY <1>2, <1>5, <1>6, <1>7, <1>8, <1>9

-----------------------------------------------------------------------------
(* The steps of a request, before it writes.                               *)

LEMMA FitsProceed ==
  ASSUME IInv, Kept, NEW k \in DOMAIN requests, requests[k].pc \in {"resolve", "asking"}, NEW d, d = requests[k],
         NEW marks \in Marks, marks.done = d.marks.done, NEW n, Right(d.call, n), Given(d.call, n)',
         d.call.from # None => n = d.call.from, d.call.from = None => n = marks.estimate,
         marks.estimate # None => d.call.from = None /\ asks'[marks.estimate].by = k,
         marks.done = {} \/ Intended(d) = n, Proceed(k, n, marks)
  PROVE  \E e \in Entries :
           /\ requests' = [requests EXCEPT ![k] = e] /\ bytes' = bytes
           /\ Fits(k, e)' /\ e.call = d.call /\ e.result = d.result /\ e.marks = marks
<1>0. RequestsTyped /\ AsksTyped
  BY DEF IInv, TypeOK
<1>1. d \in Entries /\ Fits(k, d) /\ d.call \in Calls /\ d.result = None /\ d.call.op \in Ops
  BY <1>0, Ready, EntryFacts
<1>2. n \in Estimates
  BY <1>0, NotNone, Sizes DEF Right, AsksTyped, Estimates
<1>3. PICK N \in 0..3 : N = Len(Steps(d.call.op))
  BY <1>1, StepsFacts
<1>19. PICK p : p = FirstOf(d.call, marks, 1)
  OBVIOUS
<1>4. \/ p = "conclude" /\ \A i \in 1..N : Steps(d.call.op)[i] \in marks.done
      \/ \E j \in 1..N : /\ p = Steps(d.call.op)[j] /\ p \in Places /\ p \in StepsOf(d.call.op)
                         /\ \A i \in 1..N : i < j => Steps(d.call.op)[i] \in marks.done
  <2>1. PICK c \in Calls : c = d.call
    BY <1>1
  <2>2. PICK from \in 1..4 : from = 1
    OBVIOUS
  <2>3. LET f == FirstOf(c, marks, from)
            m == Len(Steps(c.op))
        IN  \/ f = "conclude" /\ \A i \in from..m : Steps(c.op)[i] \in marks.done
            \/ \E j \in from..m : /\ f = Steps(c.op)[j] /\ f \in Places /\ f \in StepsOf(c.op)
                                  /\ \A i \in from..m : i < j => Steps(c.op)[i] \in marks.done
    BY FirstOfFacts, Zenon
  <2>4. p = FirstOf(c, marks, from) /\ N = Len(Steps(c.op))
    BY <1>3, <1>19, <2>1, <2>2
  <2> QED
    BY <2>1, <2>2, <2>3, <2>4
<1>5. p \in Places \cup {"conclude"} /\ (p \in Places => p \in StepsOf(d.call.op))
  BY <1>4 DEF Places
<1>20. PICK e : e = [d EXCEPT !.pc = p, !.estimate = n, !.marks = marks]
  OBVIOUS
<1>16. requests' = [requests EXCEPT ![k] = e] /\ bytes' = bytes
  BY <1>19, <1>20 DEF Proceed
<1>6. /\ e \in Entries /\ e.call = d.call /\ e.marks = marks /\ e.result = None /\ e.pc = p /\ e.reserved = d.reserved
      /\ e.estimate = n
  BY <1>1, <1>2, <1>5, <1>20 DEF Entries
<1>7. Intended(e) = n /\ Intended(e)' = n
  BY <1>6 DEF Intended
<1>17. \A s \in marks.done : HasWritten(k, s, n)
  BY <1>1 DEF Fits
<1>8. \A s \in marks.done : HasWritten(k, s, n)' /\ Given(d.call, n)'
  BY <1>17, GivenKept
<1>9. \A i \in 1..N : Before(e, i) => Steps(d.call.op)[i] \in marks.done
  <2>1. SUFFICES ASSUME NEW i \in 1..N, Before(e, i) PROVE Steps(d.call.op)[i] \in marks.done
    BY <2>1
  <2>2. p = "conclude" \/ \E j \in 1..N : Steps(d.call.op)[j] = p /\ i < j
    BY <2>1, <1>3, <1>6 DEF Before
  <2>3. CASE p = "conclude"
    BY <2>3, <1>4 DEF Places
  <2>4. CASE \E j \in 1..N : Steps(d.call.op)[j] = p /\ i < j
    <3>1. p # "conclude"
      BY <2>4, <1>1, <1>3, StepsFacts DEF Places
    <3> QED
      BY <2>4, <3>1, <1>1, <1>3, <1>4, StepsFacts
  <2> QED
    BY <2>2, <2>3, <2>4
<1>18. \A i : Before(e, i)' <=> Before(e, i)
  BY DEF Before
<1>10. \A i \in 1..N : Before(e, i)' => HasWritten(k, Steps(d.call.op)[i], n)'
  BY <1>8, <1>9, <1>18
<1>11. p # "asking" /\ p # "idle"
  BY <1>5 DEF Places
<1>12. marks.done \subseteq StepsOf(d.call.op)
  BY <1>1 DEF Fits
<1>13. e.reserved = IF e.result \in Final THEN ResultBytes ELSE Reservation
  BY <1>1, <1>6 DEF Fits
<1>21. Given(e.call, n)'
  BY <1>6
<1>14. e.marks.estimate # None => e.call.from = None /\ Given(e.call, e.marks.estimate)' /\ asks'[e.marks.estimate].by = k
  BY <1>6, <1>21
<1>15. Fits(k, e)'
  BY <1>3, <1>5, <1>6, <1>7, <1>8, <1>10, <1>11, <1>12, <1>13, <1>14, <1>21, NoneApart DEF Fits, Final
<1> QED
  BY <1>6, <1>15, <1>16, <1>1

LEMMA SubmitStep ==
  ASSUME IInv, NEW c \in Calls, Submit(c)
  PROVE  EntrySide' /\ Kept
<1>0. Kept /\ RequestsTyped /\ proposals' = proposals /\ asks' = asks
  BY KeptSame DEF Submit, IInv, TypeOK
<1>1. CASE Key(c) \notin DOMAIN requests /\ Admitted /\ requests' = With(requests, Key(c), NewEntry(c)) /\ bytes' = bytes + Reservation
  <2>1. PICK e : e = NewEntry(c)
    OBVIOUS
  <2>2. /\ e \in Entries /\ e.call = c /\ e.result = None /\ e.pc = "resolve" /\ e.reserved = Reservation
        /\ e.marks.done = {} /\ e.marks.estimate = None
    BY <2>1 DEF NewEntry, Entries, Marks, NoMarks
  <2>3. Fits(Key(c), e)
    BY <2>2, NoneApart DEF Fits, Places, Final
  <2>4. Fits(Key(c), e)'
    BY <2>3, <1>0, FitsKept
  <2>5. bytes' <= MaxBytes /\ Key(c) \in Keys \ DOMAIN requests
    BY <1>1, CallFacts DEF Admitted
  <2> QED
    BY <1>0, <1>1, <2>1, <2>2, <2>4, <2>5, Added
<1>2. CASE Key(c) \in DOMAIN requests /\ Resumable(requests[Key(c)]) /\ requests' = [requests EXCEPT ![Key(c)].pc = "resolve"] /\ bytes' = bytes
  <2>1. PICK k \in DOMAIN requests : k = Key(c)
    BY <1>2
  <2>2. PICK d : d = requests[k]
    OBVIOUS
  <2>3. PICK e : e = [d EXCEPT !.pc = "resolve"]
    OBVIOUS
  <2>4. d \in Entries /\ Fits(k, d) /\ d.result = None /\ d.pc = "idle"
    BY <1>2, <2>1, <2>2, Ready DEF Resumable
  <2>5. /\ e \in Entries /\ e.call = d.call /\ e.marks = d.marks /\ e.result = None /\ e.pc = "resolve"
        /\ e.reserved = d.reserved /\ e.estimate = d.estimate
    BY <2>3, <2>4 DEF Entries
  <2>6. Intended(e) = Intended(d)
    BY <2>5 DEF Intended
  <2>7. Fits(k, e)
    BY <2>4, <2>5, <2>6, NoneApart DEF Fits, Places, Final
  <2>8. Fits(k, e)'
    BY <2>7, <1>0, FitsKept
  <2>9. requests' = [requests EXCEPT ![k] = e]
    BY <1>2, <2>1, <2>2, <2>3
  <2>10. \A m \in DOMAIN asks' : Binding(m)' /\ asks'[m].by = k => Spent(e, m)
    <3>1. SUFFICES ASSUME NEW m \in DOMAIN asks', Binding(m)', asks'[m].by = k PROVE Spent(e, m)
      BY <3>1
    <3>2. m \in DOMAIN asks /\ Binding(m) /\ asks[m].by = k
      BY <3>1, <1>0, KeptSame DEF Submit
    <3>3. Spent(d, m)
      BY <3>2, <2>2 DEF IInv, AsksSpent
    <3> QED
      BY <3>3, <2>4, <2>5 DEF Spent
  <2>11. BindsOnly(k)
    BY KeptSame DEF Submit
  <2>12. e.call = requests[k].call /\ e.result = requests[k].result
    BY <2>2, <2>4, <2>5
  <2> QED
    BY <1>0, <1>2, <2>5, <2>8, <2>9, <2>10, <2>11, <2>12, Moved
<1> QED
  BY <1>0, <1>1, <1>2 DEF Submit

LEMMA ReadFailsStep ==
  ASSUME IInv, NEW k \in DOMAIN requests, ReadFails(k)
  PROVE  EntrySide' /\ Kept
<1>1. Kept /\ proposals' = proposals /\ requests[k].pc \notin {"idle", "asking"} /\ Throw(k)
  BY KeptSame DEF ReadFails
<1>2. Unbinds(k)
  BY <1>1, KeptSame DEF ReadFails, Unbinds
<1> QED
  BY <1>1, <1>2, Thrown

LEMMA AdoptStep ==
  ASSUME IInv, NEW k \in DOMAIN requests, Adopt(k)
  PROVE  EntrySide' /\ Kept
<1>0. Kept /\ proposals' = proposals /\ asks' = asks /\ requests[k].pc = "resolve"
  BY KeptSame DEF Adopt
<1>1. ASSUME NEW n, Given(requests[k].call, n), n = Intended(requests[k]), Proceed(k, n, requests[k].marks)
      PROVE  EntrySide'
  <2>1. PICK d : d = requests[k]
    OBVIOUS
  <2>0. d.marks \in Marks /\ Fits(k, d)
    BY <2>1, EntryFacts, Ready DEF IInv, TypeOK
  <2>2. d.marks.estimate # None => d.call.from = None /\ asks'[d.marks.estimate].by = k
    BY <2>0, <1>0 DEF Fits
  <2>3. n = Intended(d) /\ (d.call.from # None => n = d.call.from) /\ (d.call.from = None => n = d.marks.estimate)
    BY <1>1, <2>1 DEF Intended
  <2>5. Given(d.call, n) /\ Right(d.call, n) /\ Given(d.call, n)'
    BY <1>0, <1>1, <2>1, GivenKept DEF Given
  <2>7. Proceed(k, n, d.marks) /\ d.pc \in {"resolve", "asking"}
    BY <1>0, <1>1, <2>1
  <2>4. PICK e \in Entries :
          /\ requests' = [requests EXCEPT ![k] = e] /\ bytes' = bytes
          /\ Fits(k, e)' /\ e.call = requests[k].call /\ e.result = requests[k].result /\ e.marks = requests[k].marks
    BY <1>0, <2>0, <2>1, <2>2, <2>3, <2>5, <2>7, FitsProceed
  <2>6. \A m \in DOMAIN asks' : Binding(m)' /\ asks'[m].by = k => Spent(e, m)
    <3>1. SUFFICES ASSUME NEW m \in DOMAIN asks', Binding(m)', asks'[m].by = k PROVE Spent(e, m)
      BY <3>1
    <3>2. m \in DOMAIN asks /\ Binding(m) /\ asks[m].by = k
      BY <3>1, <1>0, KeptSame DEF Adopt
    <3>3. Spent(requests[k], m)
      BY <3>2 DEF IInv, AsksSpent
    <3> QED
      BY <3>3, <2>4, <1>0 DEF Spent
  <2>8. BindsOnly(k)
    BY KeptSame DEF Adopt
  <2> QED
    BY <1>0, <2>4, <2>6, <2>8, Moved
<1>2. CASE requests[k].marks.estimate # None /\ Proceed(k, requests[k].marks.estimate, requests[k].marks)
  <2>1. Given(requests[k].call, requests[k].marks.estimate) /\ requests[k].call.from = None
    BY <1>2, Ready DEF Fits
  <2>2. requests[k].marks.estimate = Intended(requests[k])
    BY <2>1 DEF Intended
  <2> QED
    BY <1>0, <1>1, <1>2, <2>1, <2>2
<1>3. CASE requests[k].call.from # None /\ Bound(requests[k].call) /\ Proceed(k, requests[k].call.from, requests[k].marks)
  <2>1. Given(requests[k].call, requests[k].call.from)
    BY <1>3 DEF Bound, Given, Right, IInv, TypeOK, ProposalsTyped
  <2>2. requests[k].call.from = Intended(requests[k])
    BY <1>3 DEF Intended
  <2> QED
    BY <1>0, <1>1, <1>3, <2>1, <2>2
<1>4. CASE Throw(k)
  <2>1. Unbinds(k)
    BY <1>0, KeptSame DEF Adopt, Unbinds
  <2> QED
    BY <1>0, <1>4, <2>1, Thrown
<1> QED
  BY <1>0, <1>2, <1>3, <1>4 DEF Adopt

LEMMA AskStep ==
  ASSUME IInv, NEW k \in DOMAIN requests, Ask(k)
  PROVE  EntrySide' /\ Kept /\ AsksTyped'
<1>0. /\ proposals' = proposals /\ stored' = stored /\ session' = session /\ requests[k].pc = "resolve"
      /\ requests[k].marks.estimate = None /\ requests[k].call.from = None
  BY DEF Ask
<1>1. CASE Throw(k) /\ asks' = asks
  <2>1. Kept /\ AsksTyped'
    BY <1>0, <1>1, KeptSame DEF IInv, TypeOK, AsksTyped
  <2>2. Unbinds(k)
    BY <1>0, <1>1, KeptSame DEF Unbinds
  <2> QED
    BY <1>0, <1>1, <2>1, <2>2, Thrown
<1>2. CASE ~requests[k].marks.started /\ ~(Throw(k) /\ asks' = asks)
  <2> DEFINE n == Len(asks) + 1
             a == [by |-> k, session |-> session, family |-> Family(requests[k].call.op),
                   input |-> requests[k].call.input, answered |-> 0, failed |-> FALSE]
             e == [requests[k] EXCEPT !.pc = "asking", !.estimate = n, !.marks.started = (requests[k].call.op = "preview")]
  <2>1. /\ Len(asks) < MaxAsks /\ asks' = Append(asks, a) /\ requests' = [requests EXCEPT ![k] = e] /\ bytes' = bytes
    BY <1>2 DEF Ask
  <2>2. /\ asks \in Seq(Asked) /\ Len(asks) \in Nat /\ DOMAIN asks = 1..Len(asks) /\ n \in Estimates
        /\ \A m \in DOMAIN asks : asks[m].session <= session /\ Counts(asks[m])
    BY <2>1, Sizes DEF IInv, TypeOK, AsksTyped, Estimates
  <2>3. requests[k] \in Entries /\ Fits(k, requests[k]) /\ requests[k].call \in Calls /\ k \in Keys /\ requests[k].marks \in Marks
    BY Ready, EntryFacts DEF IInv, TypeOK
  <2>4. a \in Asked
    BY <2>3, CallFacts DEF Asked, IInv, TypeOK
  <2>5. DOMAIN asks' = 1..n /\ asks'[n] = a /\ \A m \in DOMAIN asks : m # n /\ m \in DOMAIN asks' /\ asks'[m] = asks[m]
    BY <2>1, <2>2, <2>4
  <2>6. Kept /\ Others(k)
    <3>1. \A m \in DOMAIN asks : Whole(m) => Whole(m)'
      BY <2>5 DEF Whole
    <3> QED
      BY <1>0, <2>5, <3>1 DEF Kept, Others
  <2>21. Counts(a) /\ a.answered < Questions(a.family, a.input) /\ ~a.failed
    BY <2>3, CallFacts, SomeQuestions DEF Counts
  <2>7. AsksTyped'
    <3>1. asks' \in Seq(Asked) /\ Len(asks') = n
      BY <2>1, <2>2, <2>4
    <3>2. n <= MaxAsks
      BY <2>1, <2>2, Sizes
    <3>3. \A m \in DOMAIN asks' : asks'[m].session <= session' /\ Counts(asks'[m])
      BY <1>0, <2>2, <2>5, <2>21 DEF IInv, TypeOK
    <3> QED
      BY <3>1, <3>2, <3>3 DEF AsksTyped, Counts
  <2>8. /\ e \in Entries /\ e.call = requests[k].call /\ e.pc = "asking" /\ e.estimate = n /\ e.result = requests[k].result
        /\ e.reserved = requests[k].reserved /\ e.marks.estimate = None /\ e.marks.done = requests[k].marks.done
        /\ e.marks.started = (requests[k].call.op = "preview")
    BY <1>0, <2>2, <2>3 DEF Entries, Marks
  <2>9. PICK d : d = requests[k]
    OBVIOUS
  <2>10. PICK f \in Entries : f = e
    BY <2>8
  <2>11. Fits(k, d)'
    BY <1>0, <2>3, <2>6, <2>9, FitsKept
  <2>12. Right(f.call, f.estimate)' /\ asks'[f.estimate].by = k /\ asks'[f.estimate].session = session'
        /\ Open(f.estimate)'
    BY <1>0, <2>2, <2>5, <2>8, <2>9, <2>10, <2>21 DEF Right, Open
  <2>13. Intended(f) = Intended(d)
    BY <1>0, <2>8, <2>9, <2>10 DEF Intended
  <2>14. Intended(f)' = Intended(d)'
    BY <2>13 DEF Intended
  <2>15. /\ f.call = d.call /\ f.pc = "asking" /\ f.result = None /\ d.result = None /\ f.reserved = d.reserved
         /\ f.marks.estimate = None /\ d.call.from = None /\ f.marks.done = d.marks.done /\ f.marks.started = (d.call.op = "preview")
    BY <1>0, <2>8, <2>9, <2>10, Ready
  <2> HIDE DEF e, a, n
  <2>16. Fits(k, f)'
    BY <2>11, <2>12, <2>13, <2>14, <2>15, NoneApart DEF Fits, Places, Final
  <2>17. BindsOnly(k)
    <3>1. SUFFICES ASSUME NEW m \in DOMAIN asks', Binding(m)', asks'[m].by # k PROVE m \in DOMAIN asks /\ Binding(m)
      BY <2>6, <3>1 DEF BindsOnly
    <3>2. m # n
      BY <3>1, <2>5 DEF a
    <3>3. m \in DOMAIN asks
      BY <3>1, <3>2, <2>2, <2>5 DEF n
    <3> QED
      BY <3>1, <3>3, <2>5, <1>0 DEF Binding
  <2>18. \A m \in DOMAIN asks' : Binding(m)' /\ asks'[m].by = k => Spent(f, m)
    <3>1. SUFFICES ASSUME NEW m \in DOMAIN asks', Binding(m)', asks'[m].by = k PROVE Spent(f, m)
      BY <3>1
    <3>2. CASE m = n
      BY <3>2, <2>8, <2>10 DEF Spent
    <3>3. CASE m # n
      <4>1. m \in DOMAIN asks
        BY <3>3, <2>2, <2>5 DEF n
      <4>2. Binding(m) /\ asks[m].by = k
        BY <3>1, <4>1, <2>5, <1>0 DEF Binding
      <4>3. Spent(requests[k], m)
        BY <4>1, <4>2 DEF IInv, AsksSpent
      <4>4. FALSE
        BY <4>3, <1>0, <1>2, Ready DEF Spent
      <4> QED
        BY <4>4
    <3> QED
      BY <3>2, <3>3
  <2>19. f.call = requests[k].call /\ f.result = requests[k].result /\ requests' = [requests EXCEPT ![k] = f] /\ bytes' = bytes
    BY <2>1, <2>8, <2>10
  <2>20. EntrySide'
    BY <1>0, <2>6, <2>16, <2>17, <2>18, <2>19, Moved
  <2> QED
    BY <2>6, <2>7, <2>20
<1>3. requests[k].marks.started => Throw(k) /\ asks' = asks
  BY DEF Ask
<1> QED
  BY <1>1, <1>2, <1>3

LEMMA Asking ==
  ASSUME IInv, NEW k \in DOMAIN requests, requests[k].pc = "asking"
  PROVE  /\ requests[k].estimate \in DOMAIN asks /\ asks[requests[k].estimate].by = k /\ k # None
         /\ Right(requests[k].call, requests[k].estimate) /\ requests[k].call.from = None /\ requests[k].marks.estimate = None
         /\ requests[k].marks.done = {} /\ requests[k].call.op = k[1] /\ Open(requests[k].estimate)
         /\ asks[requests[k].estimate] \in Asked /\ Counts(asks[requests[k].estimate])
<1>1. Fits(k, requests[k]) /\ k # None /\ requests[k].call.op = k[1] /\ AsksTyped
  BY Ready, EntryFacts, NoneApart DEF IInv, TypeOK
<1>2. Right(requests[k].call, requests[k].estimate) /\ asks[requests[k].estimate].by = k /\ requests[k].call.from = None
      /\ requests[k].marks.estimate = None /\ Open(requests[k].estimate)
  BY <1>1 DEF Fits
<1>3. Intended(requests[k]) = None
  BY <1>2 DEF Intended
<1>4. \A s \in requests[k].marks.done : Right(requests[k].call, None)
  BY <1>1, <1>3 DEF Fits, Given
<1>5. requests[k].marks.done = {}
  BY <1>1, <1>4, NotNone DEF Right
<1>6. requests[k].estimate \in DOMAIN asks
  BY <1>2 DEF Right
<1>7. asks[requests[k].estimate] \in Asked /\ Counts(asks[requests[k].estimate])
  BY <1>1, <1>6 DEF AsksTyped
<1> QED
  BY <1>1, <1>2, <1>5, <1>6, <1>7

(* One more question of an estimate is answered.                           *)
LEMMA OneMore ==
  ASSUME IInv, NEW k \in DOMAIN requests, requests[k].pc = "asking", NEW n, n = requests[k].estimate,
         NEW a \in Asked, asks' = [asks EXCEPT ![n] = a], a.by = asks[n].by, a.session = asks[n].session,
         a.family = asks[n].family, a.input = asks[n].input, a.answered = asks[n].answered + 1, a.failed = asks[n].failed,
         UNCHANGED <<stored, session>>
  PROVE  /\ Kept /\ AsksTyped' /\ BindsOnly(k)
         /\ \A m \in DOMAIN asks' : Binding(m)' => m \in DOMAIN asks /\ Binding(m)
         /\ n \in DOMAIN asks /\ asks'[n].by = k /\ asks'[n].failed = FALSE
         /\ asks'[n].answered = asks[n].answered + 1
         /\ asks'[n].family = asks[n].family /\ asks'[n].input = asks[n].input
<1>1. n \in DOMAIN asks /\ asks[n] \in Asked /\ asks[n].by = k /\ Open(n)
  BY Asking
<1>2. a.failed = FALSE
  BY <1>1 DEF Open, Asked
<1>3. Counts(a)
  <2>1. PICK h \in Nat : h = Questions(a.family, a.input)
    BY SomeQuestions DEF Asked
  <2>2. asks[n].answered < h /\ asks[n].answered \in Nat
    BY <1>1, <2>1 DEF Open, Asked
  <2> QED
    BY <1>2, <2>1, <2>2 DEF Counts
<1>4. /\ Kept /\ AsksTyped' /\ Others(asks[n].by) /\ asks'[n] = a
      /\ \A m \in DOMAIN asks' : Binding(m)' => m \in DOMAIN asks /\ Binding(m)
  BY <1>1, <1>3, Updated DEF IInv, TypeOK
<1>5. BindsOnly(k)
  BY <1>1, <1>4 DEF BindsOnly
<1> QED
  BY <1>1, <1>2, <1>4, <1>5

LEMMA AnsweredStep ==
  ASSUME IInv, NEW k \in DOMAIN requests, Answered(k)
  PROVE  EntrySide' /\ Kept /\ AsksTyped'
<1>0. requests[k].pc = "asking" /\ UNCHANGED <<requests, proposals, bytes, stored, session>>
  BY DEF Answered
<1>1. PICK n, e : n = requests[k].estimate /\ e = requests[k]
  OBVIOUS
<1>2. asks[n].answered + 1 < Questions(asks[n].family, asks[n].input)
  BY <1>1 DEF Answered, AskedOf
<1>12. PICK a : a = [asks[n] EXCEPT !.answered = asks[n].answered + 1]
  OBVIOUS
<1>13. asks' = [asks EXCEPT ![n] = a]
  BY <1>0, <1>1, <1>12, Asking DEF Answered
<1>14. /\ a \in Asked /\ a.by = asks[n].by /\ a.session = asks[n].session /\ a.family = asks[n].family
       /\ a.input = asks[n].input /\ a.answered = asks[n].answered + 1 /\ a.failed = asks[n].failed
  BY <1>0, <1>1, <1>12, Asking DEF Asked
<1>3. /\ Kept /\ AsksTyped' /\ BindsOnly(k) /\ asks'[n].by = k /\ asks'[n].failed = FALSE
      /\ \A m \in DOMAIN asks' : Binding(m)' => m \in DOMAIN asks /\ Binding(m)
      /\ asks'[n].answered = asks[n].answered + 1
      /\ asks'[n].family = asks[n].family /\ asks'[n].input = asks[n].input
  BY <1>0, <1>1, <1>13, <1>14, OneMore
<1>4. Open(n)'
  BY <1>2, <1>3 DEF Open
<1>5. e \in Entries /\ Fits(k, e) /\ e.result = None /\ e.estimate = n /\ e.marks.estimate = None /\ e.marks.done = {}
  BY <1>0, <1>1, Ready, Asking
<1>6. Right(e.call, n)' /\ asks'[n].session = session'
  BY <1>0, <1>1, <1>3, <1>5, GivenKept DEF Fits, Kept, Right
<1>7. Fits(k, e)'
  BY <1>0, <1>1, <1>3, <1>4, <1>5, <1>6, NoneApart DEF Fits, Places, Final
<1>8. EntriesFit'
  <2>1. EntriesFit /\ Others(k)
    BY <1>3 DEF IInv, BindsOnly
  <2>2. \A x \in DOMAIN requests' : x # k => x \in DOMAIN requests /\ requests'[x] = requests[x]
    BY <1>0
  <2>3. Fits(k, requests[k])'
    BY <1>0, <1>1, <1>7
  <2> QED
    BY <1>3, <2>1, <2>2, <2>3, OthersFit
<1>9. RequestsTyped' /\ bytes' \in Nat /\ BytesAccount'
  <2>1. RequestsTyped'
    BY <1>0 DEF IInv, TypeOK, RequestsTyped, Key
  <2> QED
    BY <1>0, <2>1, CountsSame DEF IInv, TypeOK
<1>10. Retained'
  BY <1>0, <1>3 DEF IInv, TypeOK, Retained, ProposalsTyped, Kept
<1>11. AsksSpent'
  <2>1. SUFFICES ASSUME NEW m \in DOMAIN asks', Binding(m)'
                 PROVE  asks'[m].by \in DOMAIN requests' /\ Spent(requests'[asks'[m].by], m)
    BY <2>1 DEF AsksSpent, Spent
  <2>2. m \in DOMAIN asks /\ Binding(m) /\ asks'[m].by = asks[m].by
    BY <2>1, <1>3 DEF Kept
  <2> QED
    BY <2>2, <1>0 DEF IInv, AsksSpent
<1> QED
  BY <1>3, <1>8, <1>9, <1>10, <1>11 DEF EntrySide

LEMMA EstimatedStep ==
  ASSUME IInv, NEW k \in DOMAIN requests, Estimated(k)
  PROVE  EntrySide' /\ Kept /\ AsksTyped'
<1>1. PICK n : n = requests[k].estimate
  OBVIOUS
<1>11. PICK a : a = [asks[n] EXCEPT !.answered = asks[n].answered + 1]
  OBVIOUS
<1>0. /\ proposals' = proposals /\ stored' = stored /\ session' = session /\ requests[k].pc = "asking"
      /\ asks[n].answered + 1 = Questions(asks[n].family, asks[n].input)
      /\ Proceed(k, n, [requests[k].marks EXCEPT !.estimate = n])
  BY <1>1 DEF Estimated, AskedOf
<1>2. PICK marks : marks = [requests[k].marks EXCEPT !.estimate = n]
  OBVIOUS
<1>3. /\ n \in DOMAIN asks /\ Right(requests[k].call, n) /\ requests[k].call.from = None /\ requests[k].marks.done = {}
  BY <1>0, <1>1, Asking
<1>4. n \in Estimates
  BY <1>3, NotNone, Sizes DEF IInv, TypeOK, AsksTyped, Estimates
<1>5. marks \in Marks /\ marks.done = {} /\ marks.estimate = n
  BY <1>2, <1>3, <1>4, EntryFacts DEF Marks, IInv, TypeOK
<1>6. Proceed(k, n, marks)
  BY <1>0, <1>2
<1>8. /\ Kept /\ AsksTyped' /\ BindsOnly(k) /\ asks'[n].by = k /\ asks'[n].answered = asks[n].answered + 1
      /\ asks'[n].family = asks[n].family /\ asks'[n].input = asks[n].input
  <2>1. asks' = [asks EXCEPT ![n] = a]
    BY <1>0, <1>1, <1>11, Asking DEF Estimated
  <2>2. /\ a \in Asked /\ a.by = asks[n].by /\ a.session = asks[n].session /\ a.family = asks[n].family
        /\ a.input = asks[n].input /\ a.answered = asks[n].answered + 1 /\ a.failed = asks[n].failed
    BY <1>0, <1>1, <1>11, Asking DEF Asked
  <2> QED
    BY <1>0, <1>1, <2>1, <2>2, OneMore
<1>13. PICK d : d = requests[k]
  OBVIOUS
<1>9. Right(d.call, n) /\ Given(d.call, n)'
  <2>1. Right(d.call, n) /\ Right(d.call, n)'
    BY <1>3, <1>8, <1>13, GivenKept
  <2>2. Whole(n)'
    BY <1>0, <1>8 DEF Whole
  <2> QED
    BY <2>1, <2>2 DEF Given
<1>7. PICK e \in Entries :
        /\ requests' = [requests EXCEPT ![k] = e] /\ bytes' = bytes
        /\ Fits(k, e)' /\ e.call = requests[k].call /\ e.result = requests[k].result /\ e.marks = marks
  <2>1. requests[k].pc \in {"resolve", "asking"} /\ marks.done = d.marks.done
    BY <1>0, <1>3, <1>5, <1>13
  <2>2. (d.call.from # None => n = d.call.from) /\ (d.call.from = None => n = marks.estimate)
    BY <1>3, <1>5, <1>13
  <2>3. marks.estimate # None => d.call.from = None /\ asks'[marks.estimate].by = k
    BY <1>3, <1>5, <1>8, <1>13
  <2> QED
    BY <1>5, <1>6, <1>8, <1>9, <1>13, <2>1, <2>2, <2>3, FitsProceed
<1>10. \A m \in DOMAIN asks' : Spent(e, m)
  BY <1>4, <1>5, <1>7, NoneApart DEF Spent
<1>12. EntrySide'
  BY <1>0, <1>7, <1>8, <1>10, Moved
<1> QED
  BY <1>8, <1>12

(* The provider fails a request: all but a preview may ask it again.       *)
LEMMA Failing ==
  ASSUME IInv, NEW k \in DOMAIN requests, requests[k].pc = "asking",
         asks' = [asks EXCEPT ![requests[k].estimate].failed = TRUE], UNCHANGED <<stored, session>>
  PROVE  Kept /\ AsksTyped' /\ BindsOnly(k) /\ (requests[k].call.op # "preview" => Unbinds(k))
<1>1. PICK n \in DOMAIN asks : n = requests[k].estimate /\ asks[n].by = k /\ requests[k].call.op = k[1]
                               /\ asks[n] \in Asked /\ Open(n) /\ Counts(asks[n])
  BY Asking
<1>2. PICK a : a = [asks[n] EXCEPT !.failed = TRUE]
  OBVIOUS
<1>3. /\ a \in Asked /\ a.by = asks[n].by /\ a.session = asks[n].session /\ a.family = asks[n].family
      /\ a.input = asks[n].input /\ a.answered = asks[n].answered /\ a.failed
  BY <1>1, <1>2 DEF Asked
<1>4. asks' = [asks EXCEPT ![n] = a]
  BY <1>1, <1>2
<1>5. Counts(a)
  BY <1>1, <1>3 DEF Counts, Open
<1>9. /\ Kept /\ AsksTyped' /\ Others(asks[n].by)
      /\ \A m \in DOMAIN asks' : Binding(m)' => m \in DOMAIN asks /\ Binding(m)
      /\ Binding(n)' => asks[n].by[1] = "preview"
  BY <1>1, <1>3, <1>4, <1>5, Updated DEF IInv, TypeOK
<1>6. /\ Kept /\ AsksTyped' /\ Others(k)
      /\ \A m \in DOMAIN asks' : Binding(m)' => m \in DOMAIN asks /\ Binding(m)
      /\ Binding(n)' => asks[n].by[1] = "preview"
  BY <1>1, <1>9 DEF Others
<1>7. BindsOnly(k)
  BY <1>6 DEF BindsOnly
<1>8. ASSUME requests[k].call.op # "preview" PROVE Unbinds(k)
  BY <1>1, <1>6, <1>8 DEF Unbinds
<1> QED
  BY <1>6, <1>7, <1>8

LEMMA AskFailsStep ==
  ASSUME IInv, NEW k \in DOMAIN requests, AskFails(k)
  PROVE  EntrySide' /\ Kept /\ AsksTyped'
<1>1. /\ requests[k].pc = "asking" /\ proposals' = proposals
      /\ asks' = [asks EXCEPT ![requests[k].estimate].failed = TRUE] /\ UNCHANGED <<stored, session>>
  BY DEF AskFails
<1>2. Kept /\ AsksTyped' /\ BindsOnly(k) /\ (requests[k].call.op # "preview" => Unbinds(k))
  BY <1>1, Failing
<1>3. CASE requests[k].call.op = "preview"
  <2>1. ThrowIndeterminate(k)
    BY <1>3 DEF AskFails
  <2> QED
    BY <1>1, <1>2, <2>1, Uncertain
<1>4. CASE requests[k].call.op # "preview"
  <2>1. Throw(k)
    BY <1>4 DEF AskFails
  <2> QED
    BY <1>1, <1>2, <1>4, <2>1, Thrown
<1> QED
  BY <1>3, <1>4

-----------------------------------------------------------------------------
(* The steps that end a request.                                           *)

(* Its entry keeps its call, its estimate and a result.                    *)
LEMMA FitsEnded ==
  ASSUME IInv, NEW k \in DOMAIN requests, requests[k].pc # "idle", NEW r \in Final, r = "applied" => requests[k].pc = "conclude",
         requests' = [requests EXCEPT ![k].result = r, ![k].pc = "idle", ![k].marks = NoMarks, ![k].reserved = ResultBytes]
  PROVE  \E e \in Entries :
           requests' = [requests EXCEPT ![k] = e] /\ Fits(k, e) /\ e.call = requests[k].call /\ e.result = r /\ e.pc = "idle"
<1> DEFINE d == requests[k]
           e == [d EXCEPT !.result = r, !.pc = "idle", !.marks = NoMarks, !.reserved = ResultBytes]
<1>1. d \in Entries /\ Fits(k, d) /\ NoMarks \in Marks /\ NoMarks.estimate = None /\ NoMarks.done = {}
  BY Ready DEF NoMarks, Marks
<1>2. /\ e \in Entries /\ e.call = d.call /\ e.result = r /\ e.pc = "idle" /\ e.marks = NoMarks
      /\ e.reserved = ResultBytes /\ e.estimate = d.estimate
  BY <1>1 DEF Entries
<1>3. requests' = [requests EXCEPT ![k] = e]
  OBVIOUS
<1> HIDE DEF e
<1>4. r = "applied" => \A s \in StepsOf(d.call.op) : HasWritten(k, s, d.estimate)
  BY <1>1 DEF Fits, Before, StepsOf
<1>5. Fits(k, e)
  BY <1>1, <1>2, <1>4 DEF Fits, Places
<1> QED
  BY <1>2, <1>3, <1>5

LEMMA Concluded ==
  ASSUME IInv, NEW k \in DOMAIN requests, requests[k].pc # "idle", NEW r \in Final, r = "applied" => requests[k].pc = "conclude",
         Conclude(k, r), Kept, BindsOnly(k), proposals' = proposals
  PROVE  EntrySide'
<1>1. PICK e \in Entries :
        requests' = [requests EXCEPT ![k] = e] /\ Fits(k, e) /\ e.call = requests[k].call /\ e.result = r /\ e.pc = "idle"
  BY FitsEnded DEF Conclude
<1>2. Fits(k, e)'
  BY <1>1, FitsKept
<1>3. bytes \in Nat /\ bytes <= MaxBytes /\ requests[k].reserved \in Nat
  BY Sizes, EntryFacts DEF IInv, TypeOK, BytesAccount, Entries
<1>4. bytes' = bytes + 0 - (requests[k].reserved - ResultBytes) /\ bytes + 0 <= MaxBytes
  BY <1>3, Sizes DEF Conclude
<1>5. requests[k].result = None
  BY Ready
<1>6. DOMAIN proposals' = DOMAIN proposals \cup {}
  OBVIOUS
<1> QED
  BY <1>1, <1>2, <1>4, <1>5, <1>6, Finished

LEMMA AnswerRefusedStep ==
  ASSUME IInv, NEW k \in DOMAIN requests, AnswerRefused(k)
  PROVE  EntrySide' /\ Kept /\ AsksTyped'
<1>1. /\ requests[k].pc = "asking" /\ proposals' = proposals
      /\ asks' = [asks EXCEPT ![requests[k].estimate].failed = TRUE] /\ UNCHANGED <<stored, session>>
  BY DEF AnswerRefused
<1>2. Kept /\ AsksTyped' /\ BindsOnly(k) /\ (requests[k].call.op # "preview" => Unbinds(k))
  BY <1>1, Failing
<1>3. CASE requests[k].call.op = "preview"
  <2>1. Conclude(k, "rejected")
    BY <1>3 DEF AnswerRefused
  <2> QED
    BY <1>1, <1>2, <2>1, Concluded DEF Final
<1>4. CASE requests[k].call.op # "preview"
  <2>1. Throw(k)
    BY <1>4 DEF AnswerRefused
  <2> QED
    BY <1>1, <1>2, <1>4, <2>1, Thrown
<1> QED
  BY <1>3, <1>4

LEMMA CompleteStep ==
  ASSUME IInv, NEW k \in DOMAIN requests, Complete(k)
  PROVE  EntrySide' /\ Kept
<1>1. Kept /\ BindsOnly(k) /\ proposals' = proposals /\ requests[k].pc = "conclude" /\ Conclude(k, "applied")
  BY KeptSame DEF Complete
<1> QED
  BY <1>1, Concluded DEF Final

(* A preview has the estimate that it asked for.                           *)
LEMMA Previewed ==
  ASSUME IInv, NEW k \in DOMAIN requests, requests[k].pc = "conclude", requests[k].call.op = "preview"
  PROVE  /\ requests[k].estimate \in DOMAIN asks \ DOMAIN proposals /\ asks[requests[k].estimate].by = k
         /\ asks[requests[k].estimate].family = "world" /\ asks[requests[k].estimate].input = requests[k].call.input
         /\ Whole(requests[k].estimate)
<1>1. Fits(k, requests[k]) /\ requests[k].call.from = None /\ k # None /\ requests[k].result = None /\ AsksTyped
  BY Ready, EntryFacts, CallFacts, NoneApart DEF IInv, TypeOK
<1>2. requests[k].estimate = requests[k].marks.estimate /\ Right(requests[k].call, requests[k].estimate)
      /\ Whole(requests[k].estimate)
  BY <1>1 DEF Fits, Intended, Given
<1>3. requests[k].estimate # None
  BY <1>1, <1>2, NotNone DEF Right
<1>4. asks[requests[k].estimate].by = k
  BY <1>1, <1>2, <1>3 DEF Fits
<1>5. requests[k].estimate \notin DOMAIN proposals
  BY <1>1, <1>4 DEF IInv, Retained
<1> QED
  BY <1>2, <1>4, <1>5 DEF Right, Family

LEMMA PreviewStep ==
  ASSUME IInv, NEW k \in DOMAIN requests, Preview(k)
  PROVE  EntrySide' /\ Kept /\ ProposalsTyped'
<1>1. /\ Kept /\ BindsOnly(k) /\ Others(k) /\ asks' = asks /\ requests[k].pc = "conclude" /\ requests[k].call.op = "preview"
      /\ \A m \in DOMAIN asks' : Binding(m)' => m \in DOMAIN asks /\ Binding(m)
  BY KeptSame DEF Preview
<1>2. CASE CanRetain
  <2>1. PICK n : n = requests[k].estimate
    OBVIOUS
  <2>2. /\ proposals' = With(proposals, n, [family |-> "world", input |-> requests[k].call.input])
        /\ requests' = [requests EXCEPT ![k].result = "applied", ![k].pc = "idle", ![k].marks = NoMarks, ![k].reserved = ResultBytes]
        /\ bytes' = bytes + ProposalBytes - (requests[k].reserved - ResultBytes) /\ bytes + ProposalBytes <= MaxBytes
    BY <1>2, <2>1 DEF Preview, CanRetain
  <2>3. /\ n \in DOMAIN asks \ DOMAIN proposals /\ asks[n].by = k
        /\ asks[n].family = "world" /\ asks[n].input = requests[k].call.input /\ Whole(n)
    BY <1>1, <2>1, Previewed
  <2>4. PICK e \in Entries :
          requests' = [requests EXCEPT ![k] = e] /\ Fits(k, e) /\ e.call = requests[k].call /\ e.result = "applied"
          /\ e.pc = "idle"
    BY <1>1, <2>2, FitsEnded DEF Final
  <2>5. Fits(k, e)' /\ requests[k].result = None /\ e.result \in Final
    BY <1>1, <2>4, FitsKept, Ready DEF Final
  <2>6. DOMAIN proposals' = DOMAIN proposals \cup {n}
    BY <2>2 DEF With
  <2>7. EntrySide'
    BY <1>1, <2>2, <2>3, <2>4, <2>5, <2>6, Sizes, Finished
  <2>8. ProposalsTyped'
    <3>1. IsFiniteSet(DOMAIN proposals')
      BY <2>6, FS_AddElement DEF IInv, TypeOK, ProposalsTyped
    <3>2. proposals'[n] = [family |-> "world", input |-> requests[k].call.input] /\ \A p \in DOMAIN proposals : proposals'[p] = proposals[p]
      BY <2>2, <2>3 DEF With
    <3>3. \A p \in DOMAIN asks : Whole(p) => Whole(p)'
      BY <1>1 DEF Kept
    <3> QED
      BY <1>1, <2>3, <2>6, <3>1, <3>2, <3>3 DEF IInv, TypeOK, ProposalsTyped
  <2> QED
    BY <1>1, <2>7, <2>8
<1>3. CASE ~CanRetain
  <2>1. Throw(k) /\ proposals' = proposals
    BY <1>3 DEF Preview
  <2>2. Unbinds(k)
    BY <1>1 DEF Unbinds
  <2>3. ProposalsTyped'
    BY <1>1, <2>1 DEF IInv, TypeOK, ProposalsTyped, Kept
  <2> QED
    BY <1>1, <2>1, <2>2, <2>3, Thrown
<1> QED
  BY <1>2, <1>3

-----------------------------------------------------------------------------
(* The writes.                                                             *)

(* What was written of a key in this session names one operation and one   *)
(* request id, and so one receipt.                                         *)
LEMMA SameKey ==
  ASSUME NEW c \in Calls, NEW d \in Calls, Key(c) = Key(d)
  PROVE  c.op = d.op /\ c.id = d.id /\ \A s : ServiceKey(c, s) = ServiceKey(d, s)
BY DEF Key, ServiceKey

(* The receipt that a first write leaves, and any later one finds, names   *)
(* the estimate of the request.                                            *)
LEMMA FirstReceipt ==
  ASSUME IInv, NEW k \in DOMAIN requests, requests[k].pc \in Places, requests[k].pc # "model"
  PROVE  /\ ServiceKey(requests[k].call, "model") \in DOMAIN receipts
         /\ receipts[ServiceKey(requests[k].call, "model")].payload = Payload(k)
<1>1. /\ Fits(k, requests[k]) /\ requests[k].call \in Calls /\ requests[k].call.op \in Ops
      /\ Key(requests[k].call) = k /\ RequestsTyped
  BY Ready, EntryFacts DEF IInv, TypeOK
<1>2. PICK N \in 0..3 : N = Len(Steps(requests[k].call.op))
  BY <1>1, StepsFacts
<1>3. PICK j \in 1..N : Steps(requests[k].call.op)[j] = requests[k].pc
  BY <1>1, <1>2 DEF Fits, StepsOf
<1>4. Steps(requests[k].call.op)[1] = "model" /\ N > 0
  BY <1>1, <1>2, <1>3, StepsFacts
<1>5. 1 \in 1..N /\ 1 < j
  BY <1>3, <1>4
<1>6. Before(requests[k], 1)
  BY <1>2, <1>3, <1>5 DEF Before
<1>7. HasWritten(k, "model", requests[k].estimate)
  BY <1>1, <1>2, <1>4, <1>5, <1>6 DEF Fits
<1>8. PICK w \in stored : w.key = k /\ w.session = session /\ w.estimate = requests[k].estimate
  BY <1>7 DEF HasWritten
<1>9. /\ w.key = Key(w.call) /\ Given(w.call, w.estimate) /\ ModelReceipt(w) /\ w.call \in Calls
  BY <1>8 DEF IInv, TypeOK, StoredFits, WritesTyped
<1>10. w.call.op = requests[k].call.op /\ ServiceKey(w.call, "model") = ServiceKey(requests[k].call, "model")
  BY <1>1, <1>8, <1>9, SameKey
<1>11. w.call.input = requests[k].call.input
  BY <1>1, <1>8, <1>9 DEF Fits, Given, Right
<1> QED
  BY <1>8, <1>9, <1>10, <1>11 DEF ModelReceipt, Payload

LEMMA WorldWrites ==
  ASSUME IInv, NEW k \in DOMAIN requests, requests[k].pc \in Places, NEW known \in BOOLEAN,
         ServiceKey(requests[k].call, requests[k].pc) \notin DOMAIN receipts,
         receipts' = With(receipts, ServiceKey(requests[k].call, requests[k].pc), [payload |-> Payload(k), known |-> known]),
         stored' \in {stored, stored \cup {Record(k)}}, known => stored' = stored \cup {Record(k)},
         UNCHANGED <<asks, proposals, session>>, faults' \in Nat
  PROVE  WorldSide' /\ Kept
<1> DEFINE d == requests[k]
           at == ServiceKey(d.call, d.pc)
           r == [payload |-> Payload(k), known |-> known]
           w0 == Record(k)
<1>1. /\ Fits(k, d) /\ d.call \in Calls /\ d.call.op \in Ops /\ d.call.input \in Inputs
      /\ Key(d.call) = k /\ k \in Keys /\ AsksTyped /\ session \in Nat
  BY Ready, EntryFacts, CallFacts DEF IInv, TypeOK
<1>2. d.estimate \in Estimates /\ Given(d.call, d.estimate) /\ d.estimate = Intended(d)
  <2>1. Given(d.call, d.estimate) /\ d.estimate = Intended(d)
    BY <1>1 DEF Fits
  <2> QED
    BY <1>1, <2>1, NotNone, Sizes DEF Given, Right, AsksTyped, Estimates
<1>3. /\ w0.key = k /\ w0.step = d.pc /\ w0.call = d.call /\ w0.estimate = d.estimate /\ w0.session = session
      /\ w0 \in [key : Keys, step : Places, call : Calls, estimate : Estimates, session : Nat]
  BY <1>1, <1>2 DEF Record
<1>4. /\ DOMAIN receipts' = DOMAIN receipts \cup {at} /\ receipts'[at] = r
      /\ \A x \in DOMAIN receipts : x # at /\ receipts'[x] = receipts[x]
  BY DEF With
<1>5. /\ r.known = known /\ r.payload = [op |-> d.call.op, input |-> d.call.input, estimate |-> d.estimate]
      /\ r \in [payload : Payloads, known : BOOLEAN]
  BY <1>1, <1>2 DEF Payload, Payloads
<1>6. \A w \in stored' : w \in stored \/ w = w0
  OBVIOUS
<1> HIDE DEF w0, r
<1>7. Kept
  BY KeptSame
<1>8. AsksTyped' /\ ProposalsTyped' /\ session' \in Nat
  BY <1>7 DEF IInv, TypeOK, AsksTyped, ProposalsTyped, Kept
<1>9. WritesTyped'
  <2>1. \A x \in DOMAIN receipts' : receipts'[x] \in [payload : Payloads, known : BOOLEAN]
    BY <1>4, <1>5 DEF IInv, TypeOK, WritesTyped
  <2>2. \A w \in stored' : w \in [key : Keys, step : Places, call : Calls, estimate : Estimates, session : Nat] /\ w.session <= session'
    <3>1. SUFFICES ASSUME NEW w \in stored'
                   PROVE  w \in [key : Keys, step : Places, call : Calls, estimate : Estimates, session : Nat] /\ w.session <= session'
      BY <3>1
    <3>2. CASE w \in stored
      BY <3>2 DEF IInv, TypeOK, WritesTyped
    <3>3. CASE w = w0
      BY <3>3, <1>1, <1>3
    <3> QED
      BY <3>2, <3>3, <1>6
  <2> QED
    BY <2>1, <2>2 DEF WritesTyped
<1>10. StoredFits'
  <2>1. SUFFICES ASSUME NEW w \in stored'
                 PROVE  /\ w.key = Key(w.call) /\ Given(w.call, w.estimate)'
                        /\ w.call.from # None => w.estimate = w.call.from
                        /\ w.session = session => ModelReceipt(w)'
    BY <2>1 DEF StoredFits, Key
  <2>2. CASE w \in stored
    <3>1. /\ w.key = Key(w.call) /\ Given(w.call, w.estimate) /\ (w.call.from # None => w.estimate = w.call.from)
          /\ w.session = session => ModelReceipt(w)
      BY <2>2 DEF IInv, StoredFits
    <3>2. Given(w.call, w.estimate)'
      BY <1>7, <3>1, GivenKept
    <3>3. ModelReceipt(w) => ModelReceipt(w)'
      BY <1>4 DEF ModelReceipt
    <3> QED
      BY <3>1, <3>2, <3>3
  <2>3. CASE w = w0
    <3>1. w.key = Key(w.call) /\ Given(w.call, w.estimate)'
      BY <2>3, <1>1, <1>2, <1>3, <1>7, GivenKept
    <3>2. w.call.from # None => w.estimate = w.call.from
      BY <2>3, <1>2, <1>3 DEF Intended
    <3>3. CASE d.pc = "model"
      <4>1. at = ServiceKey(w.call, "model")
        BY <3>3, <2>3, <1>3
      <4>2. r.payload = [op |-> w.call.op, input |-> w.call.input, estimate |-> w.estimate]
        BY <1>3, <1>5, <2>3
      <4>3. ModelReceipt(w)'
        BY <4>1, <4>2, <1>4 DEF ModelReceipt
      <4> QED
        BY <3>1, <3>2, <4>3
    <3>4. CASE d.pc # "model"
      <4>1. ServiceKey(d.call, "model") \in DOMAIN receipts /\ receipts[ServiceKey(d.call, "model")].payload = Payload(k)
        BY <3>4, FirstReceipt
      <4>2. Payload(k) = [op |-> w.call.op, input |-> w.call.input, estimate |-> w.estimate]
        BY <1>3, <2>3 DEF Payload
      <4>3. ServiceKey(w.call, "model") = ServiceKey(d.call, "model")
        BY <1>3, <2>3
      <4>4. ModelReceipt(w)'
        BY <4>1, <4>2, <4>3, <1>4 DEF ModelReceipt
      <4> QED
        BY <3>1, <3>2, <4>4
    <3> QED
      BY <3>3, <3>4
  <2> QED
    BY <2>2, <2>3, <1>6
<1>11. StoredOnce'
  <2>1. SUFFICES ASSUME NEW v \in stored', NEW w \in stored', v.key = w.key, v.session = w.session
                 PROVE  v.estimate = w.estimate
    BY <2>1 DEF StoredOnce
  <2>2. CASE v.session = session
    <3>1. v.key = Key(v.call) /\ w.key = Key(w.call) /\ ModelReceipt(v)' /\ ModelReceipt(w)'
      BY <1>10, <2>1, <2>2 DEF StoredFits, Key
    <3>2. v.call \in Calls /\ w.call \in Calls
      BY <1>9 DEF WritesTyped
    <3>3. ServiceKey(v.call, "model") = ServiceKey(w.call, "model")
      BY <2>1, <3>1, <3>2, SameKey
    <3>4. [op |-> v.call.op, input |-> v.call.input, estimate |-> v.estimate]
          = [op |-> w.call.op, input |-> w.call.input, estimate |-> w.estimate]
      BY <3>1, <3>3 DEF ModelReceipt
    <3> QED
      BY <3>4
  <2>3. CASE v.session # session
    <3>1. v \in stored /\ w \in stored
      BY <2>1, <2>3, <1>3, <1>6
    <3> QED
      BY <2>1, <3>1 DEF IInv, StoredOnce
  <2> QED
    BY <2>2, <2>3
<1>12. ReceiptsTrue'
  <2>1. SUFFICES ASSUME NEW x \in DOMAIN receipts', receipts'[x].known
                 PROVE  \E w \in stored' : /\ w.session = session' /\ x = ServiceKey(w.call, w.step)
                                           /\ w.call.op = receipts'[x].payload.op /\ w.estimate = receipts'[x].payload.estimate
    BY <2>1 DEF ReceiptsTrue, ServiceKey
  <2>2. CASE x \in DOMAIN receipts
    <3>1. receipts[x].known /\ receipts'[x] = receipts[x]
      BY <2>1, <2>2, <1>4
    <3>2. PICK w \in stored : /\ w.session = session /\ x = ServiceKey(w.call, w.step)
                              /\ w.call.op = receipts[x].payload.op /\ w.estimate = receipts[x].payload.estimate
      BY <2>2, <3>1 DEF IInv, ReceiptsTrue
    <3> QED
      BY <3>1, <3>2
  <2>3. CASE x = at
    <3>1. w0 \in stored'
      BY <2>1, <2>3, <1>4, <1>5 DEF w0
    <3>2. x = ServiceKey(w0.call, w0.step) /\ w0.session = session'
      BY <2>3, <1>3
    <3>3. w0.call.op = receipts'[x].payload.op /\ w0.estimate = receipts'[x].payload.estimate
      BY <2>3, <1>3, <1>4, <1>5
    <3> QED
      BY <3>1, <3>2, <3>3
  <2> QED
    BY <2>2, <2>3, <1>4
<1> QED
  BY <1>7, <1>8, <1>9, <1>10, <1>11, <1>12 DEF WorldSide

(* A request goes on once its step is known to be written.                 *)
LEMMA FitsWritten ==
  ASSUME IInv, Kept, NEW k \in DOMAIN requests, NEW d, d = requests[k], d.pc \in Places,
         HasWritten(k, d.pc, d.estimate)', Written(k)
  PROVE  \E e \in Entries :
           /\ requests' = [requests EXCEPT ![k] = e] /\ bytes' = bytes /\ Fits(k, e)'
           /\ e.call = d.call /\ e.result = d.result /\ e.pc # "asking"
           /\ e.marks.estimate = d.marks.estimate /\ e.marks.started = d.marks.started
<1> DEFINE Entry == requests[k]
           NewMarks == IF Entry.pc \in Checkpointed(Entry.call.op) THEN [Entry.marks EXCEPT !.done = @ \cup {Entry.pc}] ELSE Entry.marks
           Place == CHOOSE i \in 1..Len(Steps(Entry.call.op)) : Steps(Entry.call.op)[i] = Entry.pc
<1>19. requests' = [requests EXCEPT ![k].marks = NewMarks, ![k].pc = FirstOf(Entry.call, NewMarks, Place + 1)] /\ bytes' = bytes
  BY DEF Written
<1>20. PICK marks : marks = NewMarks
  OBVIOUS
<1>21. PICK place : place = Place
  OBVIOUS
<1>1. /\ d \in Entries /\ Fits(k, d) /\ d.call \in Calls /\ d.call.op \in Ops /\ d.marks \in Marks /\ d.result = None
  BY Ready, EntryFacts DEF IInv, TypeOK, Places
<1>2. Fits(k, d)'
  BY <1>1, FitsKept DEF Places
<1>3. PICK N \in 0..3 : N = Len(Steps(d.call.op))
  BY <1>1, StepsFacts
<1>4. place \in 1..N /\ Steps(d.call.op)[place] = d.pc
  <2>1. \E i \in 1..N : Steps(d.call.op)[i] = d.pc
    BY <1>1, <1>3 DEF Fits, StepsOf
  <2>2. Place \in 1..N /\ Steps(Entry.call.op)[Place] = Entry.pc
    BY <2>1, <1>3
  <2> HIDE DEF Place
  <2> QED
    BY <2>2, <1>21
<1>6. /\ marks \in Marks /\ marks.estimate = d.marks.estimate /\ marks.started = d.marks.started
      /\ d.marks.done \subseteq marks.done /\ marks.done \subseteq d.marks.done \cup {d.pc}
  BY <1>1, <1>20 DEF Marks, Places
<1> HIDE DEF NewMarks, Place
<1>22. PICK p : p = FirstOf(d.call, marks, place + 1)
  OBVIOUS
<1>23. FirstOf(Entry.call, NewMarks, Place + 1) = p
  BY <1>20, <1>21, <1>22, Zenon
<1>24. PICK e : e = [d EXCEPT !.marks = marks, !.pc = p]
  OBVIOUS
<1>5. requests' = [requests EXCEPT ![k] = e] /\ bytes' = bytes
  BY <1>19, <1>20, <1>23, <1>24
<1>7. \/ p = "conclude" /\ \A i \in (place + 1)..N : Steps(d.call.op)[i] \in marks.done
      \/ \E j \in (place + 1)..N : /\ p = Steps(d.call.op)[j] /\ p \in Places /\ p \in StepsOf(d.call.op)
                                   /\ \A i \in (place + 1)..N : i < j => Steps(d.call.op)[i] \in marks.done
  <2>1. place + 1 \in 1..4
    BY <1>4
  <2> QED
    BY <2>1, <1>1, <1>3, <1>22, FirstOfFacts
<1>8. p \in Places \cup {"conclude"} /\ (p \in Places => p \in StepsOf(d.call.op)) /\ p # "asking" /\ p # "idle"
  BY <1>7 DEF Places
<1>9. /\ e \in Entries /\ e.call = d.call /\ e.marks = marks /\ e.result = None /\ e.pc = p
      /\ e.reserved = d.reserved /\ e.estimate = d.estimate
  BY <1>1, <1>6, <1>8, <1>24 DEF Entries
<1>10. Intended(e) = Intended(d) /\ Intended(e)' = Intended(d)' /\ Intended(d)' = Intended(d)
  BY <1>6, <1>9 DEF Intended
<1>11. d.estimate = Intended(d) /\ Given(d.call, d.estimate)'
  BY <1>2, <1>10 DEF Fits
<1>12. \A s \in marks.done : HasWritten(k, s, d.estimate)'
  <2>1. \A s \in d.marks.done : HasWritten(k, s, d.estimate)'
    BY <1>2, <1>10, <1>11 DEF Fits
  <2>2. PICK c : c = d.pc
    OBVIOUS
  <2>3. HasWritten(k, c, d.estimate)'
    BY <2>2
  <2> QED
    BY <2>1, <2>2, <2>3, <1>6
<1>13. \A i \in 1..N : Before(e, i) => HasWritten(k, Steps(d.call.op)[i], d.estimate)'
  <2>1. SUFFICES ASSUME NEW i \in 1..N, Before(e, i) PROVE HasWritten(k, Steps(d.call.op)[i], d.estimate)'
    BY <2>1
  <2>2. p = "conclude" \/ \E j \in 1..N : Steps(d.call.op)[j] = p /\ i < j
    BY <2>1, <1>3, <1>9 DEF Before
  <2>3. CASE i < place
    <3>1. Before(d, i)'
      BY <2>3, <1>3, <1>4 DEF Before
    <3> QED
      BY <3>1, <1>2, <1>3 DEF Fits
  <2>4. CASE i = place
    <3>1. Steps(d.call.op)[i] = d.pc
      BY <2>4, <1>4
    <3> QED
      BY <3>1
  <2>5. CASE i > place
    <3>1. i \in (place + 1)..N
      BY <2>5, <1>3, <1>4
    <3>2. Steps(d.call.op)[i] \in marks.done
      <4>1. CASE p = "conclude"
        BY <4>1, <3>1, <1>7 DEF Places
      <4>2. CASE p # "conclude"
        <5>1. PICK j \in 1..N : Steps(d.call.op)[j] = p /\ i < j
          BY <2>2, <4>2
        <5>2. PICK h \in (place + 1)..N : p = Steps(d.call.op)[h] /\ \A g \in (place + 1)..N : g < h => Steps(d.call.op)[g] \in marks.done
          BY <4>2, <1>7
        <5>3. h \in 1..N
          BY <5>2, <1>3, <1>4
        <5>4. j = h
          BY <5>1, <5>2, <5>3, <1>1, <1>3, StepsFacts
        <5> QED
          BY <5>1, <5>2, <5>4, <3>1
      <4> QED
        BY <4>1, <4>2
    <3> QED
      BY <3>2, <1>12
  <2> QED
    BY <2>3, <2>4, <2>5, <1>3, <1>4
<1>14. marks.done \subseteq StepsOf(d.call.op)
  BY <1>1, <1>6 DEF Fits
<1>15. e.reserved = IF e.result \in Final THEN ResultBytes ELSE Reservation
  BY <1>1, <1>9 DEF Fits
<1>16. e.marks.estimate # None => e.call.from = None /\ Given(e.call, e.marks.estimate)' /\ asks'[e.marks.estimate].by = k
  BY <1>2, <1>6, <1>9 DEF Fits
<1>17. \A i : Before(e, i)' <=> Before(e, i)
  BY DEF Before
<1>18. Fits(k, e)'
  BY <1>3, <1>6, <1>8, <1>9, <1>10, <1>11, <1>12, <1>13, <1>14, <1>15, <1>16, <1>17, NoneApart DEF Fits, Final
<1> QED
  BY <1>1, <1>5, <1>6, <1>8, <1>9, <1>18

LEMMA WroteOn ==
  ASSUME IInv, UNCHANGED <<asks, proposals, session>>, stored \subseteq stored', NEW k \in DOMAIN requests, requests[k].pc \in Places,
         \E w \in stored' : w.key = k /\ w.session = session' /\ w.step = requests[k].pc /\ w.estimate = requests[k].estimate,
         Written(k)
  PROVE  EntrySide'
<1>1. PICK d : d = requests[k]
  OBVIOUS
<1>2. Kept /\ BindsOnly(k) /\ \A m \in DOMAIN asks' : Binding(m)' => m \in DOMAIN asks /\ Binding(m)
  BY KeptSame
<1>3. HasWritten(k, d.pc, d.estimate)'
  BY <1>1 DEF HasWritten
<1>4. PICK e \in Entries :
        /\ requests' = [requests EXCEPT ![k] = e] /\ bytes' = bytes /\ Fits(k, e)'
        /\ e.call = d.call /\ e.result = d.result /\ e.pc # "asking"
        /\ e.marks.estimate = d.marks.estimate /\ e.marks.started = d.marks.started
  BY <1>1, <1>2, <1>3, FitsWritten
<1>5. \A m \in DOMAIN asks' : Binding(m)' /\ asks'[m].by = k => Spent(e, m)
  <2>1. SUFFICES ASSUME NEW m \in DOMAIN asks', Binding(m)', asks'[m].by = k PROVE Spent(e, m)
    BY <2>1
  <2>2. m \in DOMAIN asks /\ Binding(m) /\ asks[m].by = k
    BY <2>1, <1>2
  <2>3. Spent(d, m)
    BY <2>2, <1>1 DEF IInv, AsksSpent
  <2> QED
    BY <2>3, <1>1, <1>4 DEF Spent, Places
<1> QED
  BY <1>1, <1>2, <1>4, <1>5, Moved

LEMMA StepFailed ==
  ASSUME IInv, UNCHANGED <<asks, proposals, session>>, stored \subseteq stored', NEW k \in DOMAIN requests, requests[k].pc \in Places,
         StepFails(k) \/ StepUncertain(k)
  PROVE  EntrySide'
<1>1. Kept /\ BindsOnly(k) /\ Unbinds(k) /\ requests[k].pc # "idle"
  BY KeptSame DEF Unbinds, Places
<1>2. Throw(k) \/ Pause(k) \/ ThrowIndeterminate(k)
  BY DEF StepFails, StepUncertain
<1> QED
  BY <1>1, <1>2, Thrown, Paused, Uncertain

LEMMA WriteStep ==
  ASSUME IInv, NEW k \in DOMAIN requests, Write(k)
  PROVE  EntrySide' /\ WorldSide'
<1> DEFINE at == ServiceKey(requests[k].call, requests[k].pc)
<1>0. /\ requests[k].pc \in Places /\ UNCHANGED <<proposals, asks, session>> /\ WorldSide
      /\ requests[k].call \in Calls /\ Key(requests[k].call) = k /\ RequestsTyped
  BY Halves, Ready DEF Write, Places, IInv, TypeOK, RequestsTyped
<1>1. CASE at \in DOMAIN receipts
  <2>1. UNCHANGED <<receipts, stored, faults>>
    BY <1>1 DEF Write
  <2>2. Kept
    BY <1>0, <2>1, KeptSame
  <2>3. WorldSide'
    <3>1. AsksTyped' /\ faults' \in Nat
      BY <1>0, <2>1 DEF WorldSide, AsksTyped
    <3> QED
      BY <1>0, <2>1, <2>2, <3>1, WorldAsks
  <2>4. \/ StepFails(k) \/ StepUncertain(k)
        \/ receipts[at].payload = Payload(k) /\ receipts[at].known /\ Written(k)
    BY <1>1 DEF Write
  <2>5. CASE receipts[at].payload = Payload(k) /\ receipts[at].known /\ Written(k)
    <3>1. PICK w \in stored : /\ w.session = session /\ at = ServiceKey(w.call, w.step)
                              /\ w.call.op = receipts[at].payload.op /\ w.estimate = receipts[at].payload.estimate
      BY <1>1, <2>5 DEF IInv, ReceiptsTrue
    <3>2. w.call.op = requests[k].call.op /\ w.estimate = requests[k].estimate
      BY <2>5, <3>1 DEF Payload
    <3>3. w.step = requests[k].pc /\ w.call.id = requests[k].call.id
      BY <3>1 DEF ServiceKey
    <3>4. w.key = Key(w.call)
      BY DEF IInv, StoredFits
    <3>5. w.key = k
      BY <1>0, <3>2, <3>3, <3>4 DEF Key
    <3>6. \E v \in stored' : v.key = k /\ v.session = session' /\ v.step = requests[k].pc /\ v.estimate = requests[k].estimate
      BY <1>0, <2>1, <3>1, <3>2, <3>3, <3>5
    <3> QED
      BY <1>0, <2>1, <2>3, <2>5, <3>6, WroteOn
  <2> QED
    BY <1>0, <2>1, <2>3, <2>4, <2>5, StepFailed
<1>2. CASE at \notin DOMAIN receipts
  <2>1. CASE /\ receipts' = With(receipts, at, [payload |-> Payload(k), known |-> TRUE])
             /\ stored' = stored \cup {Record(k)} /\ Written(k) /\ UNCHANGED faults
    <3>1. faults' \in Nat /\ stored' \in {stored, stored \cup {Record(k)}}
      BY <1>0, <2>1 DEF WorldSide
    <3>2. WorldSide'
      BY <1>0, <1>2, <2>1, <3>1, WorldWrites
    <3>3. /\ Record(k) \in stored' /\ Record(k).key = k /\ Record(k).session = session'
          /\ Record(k).step = requests[k].pc /\ Record(k).estimate = requests[k].estimate
      BY <1>0, <2>1 DEF Record
    <3>4. \E v \in stored' : v.key = k /\ v.session = session' /\ v.step = requests[k].pc /\ v.estimate = requests[k].estimate
      BY <3>3
    <3> QED
      BY <1>0, <2>1, <3>2, <3>4, WroteOn
  <2>2. CASE Fault /\ StepFails(k) /\ UNCHANGED <<receipts, stored>>
    <3>1. AsksTyped' /\ faults' \in Nat /\ Kept
      BY <1>0, <2>2, KeptSame DEF WorldSide, AsksTyped, Fault
    <3>2. WorldSide'
      BY <1>0, <2>2, <3>1, WorldAsks
    <3> QED
      BY <1>0, <2>2, <3>2, StepFailed
  <2>3. CASE /\ Fault /\ receipts' = With(receipts, at, [payload |-> Payload(k), known |-> FALSE])
             /\ stored' \in {stored, stored \cup {Record(k)}} /\ StepUncertain(k)
    <3>1. faults' \in Nat /\ stored \subseteq stored'
      BY <1>0, <2>3 DEF WorldSide, Fault
    <3>2. WorldSide'
      BY <1>0, <1>2, <2>3, <3>1, WorldWrites
    <3> QED
      BY <1>0, <2>3, <3>1, <3>2, StepFailed
  <2> QED
    BY <1>2, <2>1, <2>2, <2>3 DEF Write
<1> QED
  BY <1>1, <1>2

-----------------------------------------------------------------------------
(* The other steps.                                                        *)

LEMMA ProposeStep ==
  ASSUME IInv, NEW op \in Ops \cap {"ingest", "shares"}, NEW input \in Inputs, Propose(op, input)
  PROVE  EntrySide' /\ WorldSide'
<1> DEFINE n == Len(asks) + 1
           a == [by |-> None, session |-> session, family |-> op, input |-> input,
                 answered |-> Questions(op, input), failed |-> FALSE]
<1> USE DEF IInv, TypeOK
<1>1. /\ asks \in Seq(Asked) /\ Len(asks) \in Nat /\ DOMAIN asks = 1..Len(asks) /\ Len(asks) < MaxAsks
      /\ asks' = Append(asks, a) /\ a \in Asked /\ UNCHANGED <<requests, receipts, stored, session, faults>>
  BY SomeQuestions DEF Propose, AsksTyped, Asked
<1>2. DOMAIN asks' = 1..n /\ Len(asks') = n /\ asks'[n] = a /\ n \notin DOMAIN asks /\ \A m \in DOMAIN asks : m \in DOMAIN asks' /\ asks'[m] = asks[m]
  BY <1>1
<1>14. /\ Counts(a) /\ asks'[n].answered = Questions(asks'[n].family, asks'[n].input)
       /\ \A m \in DOMAIN asks : Whole(m) => Whole(m)'
  <2>1. PICK h \in Nat : h = Questions(op, input)
    BY SomeQuestions
  <2>2. Counts(a)
    BY <2>1 DEF Counts
  <2>3. asks'[n].answered = Questions(op, input) /\ asks'[n].family = op /\ asks'[n].input = input
    BY <1>2
  <2> HIDE DEF n, a
  <2>4. ASSUME NEW m \in DOMAIN asks, Whole(m) PROVE Whole(m)'
    <3>1. asks'[m] = asks[m]
      BY <1>2
    <3> QED
      BY <2>4, <3>1 DEF Whole
  <2> QED
    BY <2>2, <2>3, <2>4
<1>3. Kept /\ \A k : Others(k)
  BY <1>1, <1>2, <1>14 DEF Kept, Others
<1>4. AsksTyped'
  <2>1. asks' \in Seq(Asked) /\ n <= MaxAsks
    BY <1>1, Sizes
  <2>2. \A m \in DOMAIN asks' : asks'[m].session <= session' /\ Counts(asks'[m])
    BY <1>1, <1>2, <1>14 DEF AsksTyped
  <2> QED
    BY <1>2, <2>1, <2>2 DEF AsksTyped, Counts
<1>5. /\ DOMAIN proposals' = DOMAIN proposals \cup {n} /\ n \notin DOMAIN proposals
      /\ proposals'[n] = [family |-> op, input |-> input] /\ \A p \in DOMAIN proposals : proposals'[p] = proposals[p]
      /\ bytes' = bytes + ProposalBytes /\ bytes' <= MaxBytes
  BY <1>2 DEF Propose, With, CanRetain, ProposalsTyped
<1> HIDE DEF n
<1>6. ProposalsTyped'
  <2>1. IsFiniteSet(DOMAIN proposals')
    BY <1>5, FS_AddElement DEF ProposalsTyped
  <2>2. DOMAIN proposals \subseteq DOMAIN asks /\ a.family = op /\ a.input = input
    BY DEF ProposalsTyped
  <2>3. DOMAIN proposals' \subseteq DOMAIN asks'
    BY <1>2, <1>5, <2>2 DEF n
  <2>4. ASSUME NEW p \in DOMAIN proposals' PROVE proposals'[p] = [family |-> asks'[p].family, input |-> asks'[p].input]
    <3>1. CASE p = n
      BY <3>1, <1>2, <1>5, <2>2
    <3>2. CASE p # n
      <4>1. p \in DOMAIN proposals
        BY <3>2, <1>5
      <4>2. asks'[p] = asks[p] /\ proposals'[p] = proposals[p]
        BY <4>1, <1>2, <1>5, <2>2
      <4> QED
        BY <4>1, <4>2 DEF ProposalsTyped
    <3> QED
      BY <3>1, <3>2
  <2>5. ASSUME NEW p \in DOMAIN proposals' PROVE Whole(p)'
    <3>1. CASE p = n
      BY <3>1, <1>14 DEF Whole
    <3>2. CASE p # n
      <4>1. p \in DOMAIN proposals /\ p \in DOMAIN asks
        BY <3>2, <1>5, <2>2
      <4>2. Whole(p)
        BY <4>1 DEF ProposalsTyped
      <4> QED
        BY <4>1, <4>2, <1>14
    <3> QED
      BY <3>1, <3>2
  <2> QED
    BY <2>1, <2>3, <2>4, <2>5 DEF ProposalsTyped
<1>7. WritesTyped' /\ StoredOnce' /\ ReceiptsTrue'
  BY <1>1 DEF WritesTyped, StoredOnce, ReceiptsTrue
<1>8. StoredFits'
  <2>1. \A c, m : Given(c, m) => Given(c, m)'
    BY <1>3, GivenKept
  <2>2. \A w : ModelReceipt(w) => ModelReceipt(w)'
    BY <1>1 DEF ModelReceipt
  <2> QED
    BY <1>1, <2>1, <2>2 DEF StoredFits
<1>9. RequestsTyped'
  BY <1>1 DEF RequestsTyped
<1>10. bytes' \in Nat /\ BytesAccount'
  <2>1. Settled' = Settled
    BY <1>1 DEF Settled
  <2>2. /\ Cardinality(DOMAIN requests' \ Settled') = Cardinality(DOMAIN requests \ Settled) /\ Cardinality(Settled') = Cardinality(Settled)
        /\ Cardinality(DOMAIN proposals') = Cardinality(DOMAIN proposals \cup {n})
    BY <1>1, <1>5, <2>1, Zenon
  <2>3. Cardinality(DOMAIN proposals \cup {n}) = Cardinality(DOMAIN proposals) + 1
    BY <1>5, FS_AddElement DEF ProposalsTyped
  <2>4. PICK h \in Nat, s \in Nat, q \in Nat :
          h = Cardinality(DOMAIN requests \ Settled) /\ s = Cardinality(Settled) /\ q = Cardinality(DOMAIN proposals)
    BY Counted
  <2>5. bytes = Reservation * h + ResultBytes * s + ProposalBytes * q
    BY <2>4 DEF BytesAccount
  <2>6. /\ Reservation * h \in Nat /\ ResultBytes * s \in Nat /\ ProposalBytes * q \in Nat
        /\ ProposalBytes * (q + 1) = ProposalBytes * q + ProposalBytes
    BY Times, Sizes
  <2>7. bytes' = Reservation * h + ResultBytes * s + ProposalBytes * (q + 1) /\ bytes' \in Nat
    BY <1>5, <2>5, <2>6, Sizes
  <2> QED
    BY <1>5, <2>2, <2>3, <2>4, <2>7 DEF BytesAccount
<1>11. Retained'
  BY <1>1, <1>2, <1>5 DEF Retained, ProposalsTyped
<1>12. AsksSpent'
  <2>1. SUFFICES ASSUME NEW m \in DOMAIN asks', Binding(m)'
                 PROVE  asks'[m].by \in DOMAIN requests' /\ Spent(requests'[asks'[m].by], m)
    BY <2>1 DEF AsksSpent, Spent
  <2>2. m # n
    BY <2>1, <1>2 DEF Binding
  <2>3. m \in DOMAIN asks
    BY <2>1, <2>2, <1>1, <1>2 DEF n
  <2>4. Binding(m) /\ asks'[m] = asks[m]
    BY <2>1, <2>3, <1>1, <1>2 DEF Binding
  <2> QED
    BY <1>1, <2>3, <2>4 DEF AsksSpent
<1>13. EntriesFit'
  <2>1. SUFFICES ASSUME NEW x \in DOMAIN requests PROVE Fits(x, requests[x])'
    BY <2>1, <1>1 DEF EntriesFit
  <2>2. PICK e : e = requests[x]
    OBVIOUS
  <2>4. Fits(x, e) /\ (e.pc = "asking" => asks'[e.estimate] = asks[e.estimate])
    BY <2>2, <1>2 DEF EntriesFit, Fits, Right
  <2>3. Fits(x, e)'
    BY <2>4, <1>3, FitsKept
  <2> QED
    BY <1>1, <2>2, <2>3
<1> QED
  BY <1>1, <1>4, <1>6, <1>7, <1>8, <1>9, <1>10, <1>11, <1>12, <1>13 DEF EntrySide, WorldSide

(* An empty store is in order.                                             *)
Empty == requests = <<>> /\ proposals = <<>> /\ bytes = 0
InOrder == RequestsTyped /\ IsFiniteSet(DOMAIN proposals) /\ bytes \in Nat /\ BytesAccount /\ EntriesFit

LEMMA EmptyAccount == Empty => InOrder
<1> SUFFICES ASSUME Empty PROVE InOrder
  OBVIOUS
<1>1. DOMAIN requests = {} /\ DOMAIN proposals = {} /\ Settled = {} /\ DOMAIN requests \ Settled = {}
  BY DEF Settled, Empty
<1>2. Cardinality(DOMAIN requests \ Settled) = 0 /\ Cardinality(Settled) = 0 /\ Cardinality(DOMAIN proposals) = 0 /\ IsFiniteSet({})
  BY <1>1, FS_EmptySet
<1>3. Reservation * 0 + ResultBytes * 0 + ProposalBytes * 0 = 0 /\ 0 <= MaxBytes
  BY Sizes
<1>4. BytesAccount
  BY <1>2, <1>3 DEF BytesAccount, Empty
<1> QED
  BY <1>1, <1>2, <1>4 DEF RequestsTyped, EntriesFit, Empty, InOrder

LEMMA InitHolds == Init => IInv
<1> SUFFICES ASSUME Init PROVE IInv
  OBVIOUS
<1>1. RequestsTyped /\ IsFiniteSet(DOMAIN proposals) /\ bytes \in Nat /\ BytesAccount /\ EntriesFit
  BY EmptyAccount DEF Init, Empty, InOrder
<1>2. DOMAIN requests = {} /\ DOMAIN proposals = {} /\ DOMAIN receipts = {} /\ DOMAIN asks = {} /\ Len(asks) = 0
      /\ asks \in Seq(Asked)
  BY DEF Init
<1>3. AsksTyped /\ ProposalsTyped /\ WritesTyped /\ session \in Nat /\ faults \in Nat
  BY <1>1, <1>2, Sizes DEF Init, AsksTyped, ProposalsTyped, WritesTyped
<1>4. StoredFits /\ StoredOnce /\ ReceiptsTrue /\ Retained /\ AsksSpent
  BY <1>2 DEF Init, StoredFits, StoredOnce, ReceiptsTrue, Retained, AsksSpent
<1> QED
  BY <1>1, <1>3, <1>4 DEF IInv, TypeOK

LEMMA RestartStep ==
  ASSUME IInv, Restart
  PROVE  EntrySide' /\ WorldSide'
<1> USE DEF IInv, TypeOK
<1>1. requests' = <<>> /\ proposals' = <<>> /\ bytes' = 0 /\ receipts' = <<>> /\ session' = session + 1 /\ UNCHANGED <<asks, stored, faults>>
  BY DEF Restart
<1>2. RequestsTyped' /\ IsFiniteSet(DOMAIN proposals') /\ bytes' \in Nat /\ BytesAccount' /\ EntriesFit'
  <2>1. Empty'
    BY <1>1 DEF Empty
  <2>2. InOrder'
    BY <2>1, EmptyAccount, PTL
  <2> QED
    BY <2>2 DEF InOrder
<1>3. DOMAIN requests' = {} /\ DOMAIN proposals' = {} /\ DOMAIN receipts' = {}
  BY <1>1
<1>10. \A n \in DOMAIN asks : asks[n].session \in Nat /\ asks[n].session <= session
  <2>1. \A n \in DOMAIN asks : asks[n] \in Asked
    BY DEF AsksTyped
  <2> QED
    BY <2>1 DEF AsksTyped, Asked
<1>4. AsksTyped' /\ ProposalsTyped' /\ session' \in Nat /\ faults' \in Nat
  BY <1>1, <1>2, <1>3, <1>10 DEF AsksTyped, ProposalsTyped
<1>5. \A w \in stored : w.session \in Nat /\ w.session <= session /\ w.session # session'
  <2>1. \A w \in stored : w.session \in Nat /\ w.session <= session
    BY DEF WritesTyped
  <2> QED
    BY <1>1, <2>1
<1>6. WritesTyped'
  <2>1. \A w \in stored : w.session <= session'
    BY <1>1, <1>5
  <2> QED
    BY <1>1, <1>3, <2>1 DEF WritesTyped
<1>7. StoredFits'
  <2>1. \A c, n : Given(c, n) => Given(c, n)'
    BY <1>1 DEF Given, Right, Whole
  <2> QED
    BY <1>1, <1>5, <2>1 DEF StoredFits, Key
<1>8. StoredOnce' /\ ReceiptsTrue' /\ Retained'
  BY <1>1, <1>3 DEF StoredOnce, ReceiptsTrue, Retained
<1>9. AsksSpent'
  <2>1. \A m \in DOMAIN asks' : ~Binding(m)'
    BY <1>1, <1>10 DEF Binding
  <2> QED
    BY <2>1 DEF AsksSpent
<1> QED
  BY <1>2, <1>4, <1>6, <1>7, <1>8, <1>9 DEF EntrySide, WorldSide

-----------------------------------------------------------------------------
(* The theorems.                                                           *)

LEMMA NextHolds == IInv /\ [Next]_vars => IInv'
<1> SUFFICES ASSUME IInv, [Next]_vars PROVE EntrySide' /\ WorldSide'
  BY Halves, PTL
<1>0. EntrySide /\ WorldSide
  BY Halves
<1>1. CASE UNCHANGED vars
  <2>1. Kept
    BY <1>1, KeptSame DEF vars
  <2>2. WorldSide'
    <3>1. AsksTyped' /\ faults' \in Nat
      BY <1>0, <1>1 DEF WorldSide, AsksTyped, vars
    <3> QED
      BY <1>0, <1>1, <2>1, <3>1, WorldAsks DEF vars
  <2>3. RequestsTyped' /\ Retained' /\ bytes' \in Nat
    BY <1>0, <1>1 DEF EntrySide, RequestsTyped, Retained, vars, Key
  <2>4. BytesAccount'
    BY <1>0, <1>1, CountsSame DEF EntrySide, vars
  <2>5. AsksSpent'
    BY <1>0, <1>1 DEF EntrySide, AsksSpent, Binding, Spent, vars
  <2>6. EntriesFit'
    <3>1. SUFFICES ASSUME NEW x \in DOMAIN requests PROVE Fits(x, requests[x])'
      BY <3>1, <1>1 DEF EntriesFit, vars
    <3>2. PICK e : e = requests[x]
      OBVIOUS
    <3>3. Fits(x, e)'
      BY <1>0, <1>1, <3>2, <2>1, FitsKept DEF EntrySide, EntriesFit, vars
    <3> QED
      BY <1>1, <3>2, <3>3 DEF vars
  <2> QED
    BY <2>2, <2>3, <2>4, <2>5, <2>6 DEF EntrySide
<1>2. ASSUME NEW c \in Calls, Submit(c) PROVE EntrySide' /\ WorldSide'
  <2>1. EntrySide' /\ Kept /\ AsksTyped' /\ faults' \in Nat
    BY <1>0, <1>2, SubmitStep DEF Submit, WorldSide, AsksTyped
  <2> QED
    BY <1>0, <1>2, <2>1, WorldAsks DEF Submit
<1>3. ASSUME NEW k \in DOMAIN requests, Adopt(k) PROVE EntrySide' /\ WorldSide'
  <2>1. EntrySide' /\ Kept /\ AsksTyped' /\ faults' \in Nat
    BY <1>0, <1>3, AdoptStep DEF Adopt, WorldSide, AsksTyped
  <2> QED
    BY <1>0, <1>3, <2>1, WorldAsks DEF Adopt
<1>4. ASSUME NEW k \in DOMAIN requests, Ask(k) PROVE EntrySide' /\ WorldSide'
  <2>1. EntrySide' /\ Kept /\ AsksTyped' /\ faults' \in Nat
    BY <1>0, <1>4, AskStep DEF Ask, WorldSide
  <2> QED
    BY <1>0, <1>4, <2>1, WorldAsks DEF Ask
<1>5. ASSUME NEW k \in DOMAIN requests, Answered(k) PROVE EntrySide' /\ WorldSide'
  <2>1. EntrySide' /\ Kept /\ AsksTyped' /\ faults' \in Nat
    BY <1>0, <1>5, AnsweredStep DEF Answered, WorldSide
  <2> QED
    BY <1>0, <1>5, <2>1, WorldAsks DEF Answered
<1>12. ASSUME NEW k \in DOMAIN requests, Estimated(k) PROVE EntrySide' /\ WorldSide'
  <2>1. EntrySide' /\ Kept /\ AsksTyped' /\ faults' \in Nat
    BY <1>0, <1>12, EstimatedStep DEF Estimated, WorldSide
  <2> QED
    BY <1>0, <1>12, <2>1, WorldAsks DEF Estimated
<1>6. ASSUME NEW k \in DOMAIN requests, Preview(k) PROVE EntrySide' /\ WorldSide'
  <2>1. EntrySide' /\ ProposalsTyped' /\ UNCHANGED <<receipts, asks, stored, session, faults>>
    BY <1>6, PreviewStep DEF Preview
  <2>2. AsksTyped' /\ WritesTyped' /\ StoredOnce' /\ ReceiptsTrue'
    BY <1>0, <2>1 DEF WorldSide, AsksTyped, WritesTyped, StoredOnce, ReceiptsTrue
  <2>3. StoredFits'
    BY <1>0, <2>1 DEF WorldSide, StoredFits, Given, Right, Whole, ModelReceipt, Key
  <2> QED
    BY <1>0, <2>1, <2>2, <2>3 DEF WorldSide
<1>7. ASSUME NEW k \in DOMAIN requests, Write(k) PROVE EntrySide' /\ WorldSide'
  BY <1>7, WriteStep
<1>8. ASSUME NEW k \in DOMAIN requests, Complete(k) PROVE EntrySide' /\ WorldSide'
  <2>1. EntrySide' /\ Kept /\ AsksTyped' /\ faults' \in Nat
    BY <1>0, <1>8, CompleteStep DEF Complete, WorldSide, AsksTyped
  <2> QED
    BY <1>0, <1>8, <2>1, WorldAsks DEF Complete
<1>9. ASSUME NEW k \in DOMAIN requests, ReadFails(k) PROVE EntrySide' /\ WorldSide'
  <2>1. EntrySide' /\ Kept /\ AsksTyped' /\ faults' \in Nat
    BY <1>0, <1>9, ReadFailsStep DEF ReadFails, Fault, WorldSide, AsksTyped
  <2> QED
    BY <1>0, <1>9, <2>1, WorldAsks DEF ReadFails
<1>10. ASSUME NEW k \in DOMAIN requests, AskFails(k) PROVE EntrySide' /\ WorldSide'
  <2>1. EntrySide' /\ Kept /\ AsksTyped'
    BY <1>10, AskFailsStep
  <2>2. UNCHANGED <<proposals, receipts, stored, session>> /\ faults' \in Nat
    BY <1>0, <1>10 DEF AskFails, Fault, WorldSide
  <2> QED
    BY <1>0, <2>1, <2>2, WorldAsks
<1>11. ASSUME NEW k \in DOMAIN requests, AnswerRefused(k) PROVE EntrySide' /\ WorldSide'
  <2>1. EntrySide' /\ Kept /\ AsksTyped'
    BY <1>11, AnswerRefusedStep
  <2>2. UNCHANGED <<proposals, receipts, stored, session>> /\ faults' \in Nat
    BY <1>0, <1>11 DEF AnswerRefused, Fault, WorldSide
  <2> QED
    BY <1>0, <2>1, <2>2, WorldAsks
<1> QED
  BY <1>1, <1>2, <1>3, <1>4, <1>5, <1>6, <1>7, <1>8, <1>9, <1>10, <1>11, <1>12, ProposeStep, RestartStep DEF Next, Run, Fails

(* Whatever the requests do, and however their executions end: the entries *)
(* of the receipt store, its proposals, the service's receipts and what    *)
(* was written agree with one another.                                     *)
THEOREM InvHolds == Spec => []IInv
<1>1. Init => IInv
  BY InitHolds
<1>2. IInv /\ [Next]_vars => IInv'
  BY NextHolds
<1> QED
  BY <1>1, <1>2, PTL DEF Spec

(* Every request, proposal, receipt, estimate and write has its type, and  *)
(* what is retained is an estimate that was given.                         *)
THEOREM TypeInvariant == Spec => []TypeOK
<1>1. IInv => TypeOK
  BY DEF IInv
<1> QED
  BY <1>1, InvHolds, PTL

(* What the receipt store counts is what its entries hold: no way that an  *)
(* execution ends leaks its reservation or releases it twice.              *)
THEOREM BytesHold == Spec => []BytesAccount
<1>1. IInv => BytesAccount
  BY DEF IInv
<1> QED
  BY <1>1, InvHolds, PTL

(* All that is written under a request id comes from the one estimate that *)
(* was made, or reviewed, for it, with every question of it answered, and  *)
(* a final result covers every write.                                      *)
THEOREM EstimatesHold == Spec => []OneEstimate
<1>1. IInv => OneEstimate
  <2> SUFFICES ASSUME IInv PROVE OneEstimate
    OBVIOUS
  <2>1. ASSUME NEW w \in stored
        PROVE  /\ asks[w.estimate].family = Family(w.call.op) /\ asks[w.estimate].input = w.call.input
               /\ Whole(w.estimate)
               /\ w.call.from # None => w.estimate = w.call.from
               /\ \A v \in stored : v.key = w.key /\ v.session = w.session => v.estimate = w.estimate
    BY DEF IInv, StoredFits, StoredOnce, Given, Right
  <2>2. ASSUME NEW k \in DOMAIN requests, requests[k].result = "applied",
               NEW i \in 1..Len(Steps(requests[k].call.op))
        PROVE  \E w \in stored : w.key = k /\ w.session = session /\ w.step = Steps(requests[k].call.op)[i]
                                 /\ w.estimate = requests[k].estimate
    BY <2>2, Ready DEF Fits, HasWritten, StepsOf
  <2> QED
    BY <2>1, <2>2 DEF OneEstimate
<1> QED
  BY <1>1, InvHolds, PTL

(* A request begins an estimate anew only after a question of each earlier *)
(* one of its session was left without a usable answer, and the preview of *)
(* a world that was asked at all never does.                               *)
THEOREM RerollsNever == Spec => NeverRerolled
<1> DEFINE Step == \A n \in DOMAIN asks' \ DOMAIN asks : asks'[n].by # None =>
                     \A m \in DOMAIN asks : asks[m].by = asks'[n].by /\ asks[m].session = session =>
                       asks[m].failed /\ ~Whole(m) /\ asks[m].by[1] # "preview"
<1>1. IInv /\ [Next]_vars => [Step]_vars
  <2> SUFFICES ASSUME IInv, Next PROVE Step
    BY DEF vars
  <2>1. AsksTyped
    BY DEF IInv, TypeOK
  <2>2. CASE DOMAIN asks' = DOMAIN asks
    BY <2>2
  <2>3. ASSUME NEW k \in DOMAIN requests, Ask(k), asks' # asks PROVE Step
    <3>1. /\ requests[k].pc = "resolve" /\ requests[k].marks.estimate = None /\ ~requests[k].marks.started
          /\ asks' = Append(asks, [by |-> k, session |-> session, family |-> Family(requests[k].call.op),
                                   input |-> requests[k].call.input, answered |-> 0, failed |-> FALSE])
      BY <2>3 DEF Ask
    <3>2. requests[k].result = None
      BY <3>1, Ready
    <3>3. ASSUME NEW n \in DOMAIN asks' \ DOMAIN asks PROVE asks'[n].by = k
      <4>1. n = Len(asks) + 1
        BY <3>1, <2>1 DEF AsksTyped
      <4> QED
        BY <3>1, <4>1, <2>1 DEF AsksTyped
    <3>4. ASSUME NEW m \in DOMAIN asks, asks[m].by = k, asks[m].session = session
          PROVE  asks[m].failed /\ ~Whole(m) /\ asks[m].by[1] # "preview"
      <4>1. ~Spent(requests[k], m)
        BY <3>1, <3>2 DEF Spent
      <4>2. k # None
        BY EntryFacts, NoneApart DEF IInv, TypeOK
      <4>3. ~Binding(m)
        BY <3>4, <4>1 DEF IInv, AsksSpent
      <4>4. asks[m].failed /\ asks[m].by[1] # "preview"
        BY <3>4, <4>2, <4>3 DEF Binding
      <4>7. asks[m] \in Asked /\ Counts(asks[m])
        BY <2>1 DEF AsksTyped
      <4>8. PICK h \in Nat : h = Questions(asks[m].family, asks[m].input)
        BY <4>7, SomeQuestions DEF Asked
      <4>5. asks[m].answered \in Nat /\ asks[m].answered < Questions(asks[m].family, asks[m].input)
        BY <4>4, <4>7, <4>8 DEF Asked, Counts
      <4>6. ~Whole(m)
        BY <4>5, <4>8 DEF Whole
      <4> QED
        BY <4>4, <4>6
    <3> QED
      BY <3>3, <3>4
  <2>4. ASSUME NEW op \in Ops \cap {"ingest", "shares"}, NEW input \in Inputs, Propose(op, input) PROVE Step
    <3>1. asks' = Append(asks, [by |-> None, session |-> session, family |-> op, input |-> input,
                                 answered |-> Questions(op, input), failed |-> FALSE])
      BY <2>4 DEF Propose
    <3>2. ASSUME NEW n \in DOMAIN asks' \ DOMAIN asks PROVE asks'[n].by = None
      <4>1. n = Len(asks) + 1
        BY <3>1, <2>1 DEF AsksTyped
      <4> QED
        BY <3>1, <4>1, <2>1 DEF AsksTyped
    <3> QED
      BY <3>2
  <2>5. ASSUME NEW k \in DOMAIN requests, Answered(k) \/ Estimated(k) \/ AskFails(k) \/ AnswerRefused(k) PROVE DOMAIN asks' = DOMAIN asks
    BY <2>5 DEF Answered, Estimated, AskFails, AnswerRefused
  <2>6. ASSUME NEW k \in DOMAIN requests, Adopt(k) \/ Preview(k) \/ Write(k) \/ Complete(k) \/ ReadFails(k) PROVE asks' = asks
    BY <2>6 DEF Adopt, Preview, Write, Complete, ReadFails
  <2>7. (\E c \in Calls : Submit(c)) \/ Restart => asks' = asks
    BY DEF Submit, Restart
  <2> HIDE DEF Step
  <2>8. asks' = asks => DOMAIN asks' = DOMAIN asks
    OBVIOUS
  <2> QED
    BY <2>2, <2>3, <2>4, <2>5, <2>6, <2>7, <2>8 DEF Next, Run, Fails
<1> QED
  BY <1>1, InvHolds, PTL DEF Spec, NeverRerolled
=============================================================================
