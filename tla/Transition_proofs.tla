-------------------------- MODULE Transition_proofs --------------------------
(***************************************************************************)
(* Proofs about a roll, for every model, head and query, every number of   *)
(* steps and whatever the boundaries are rounded to.                       *)
(***************************************************************************)
EXTENDS Transition, FiniteSetTheorems, WellFoundedInduction, TLAPS

-----------------------------------------------------------------------------
(* What the actions do, without the values they compute.                   *)

(* A refusal and a failing expression leave everything but the outcome.    *)
Stopped == UNCHANGED <<step, state, held, marks, claims, trail>> /\ outcome' = "refused"

(* The laws that fire when hazards fire as drawn.                          *)
Fired(drawn) == {l \in compiled.occurrence : Fires(l, drawn)}

(* The marks of a step in which the laws of `fired` fire.                  *)
StepMarks(fired) ==
  Marks({l.id : l \in fired}, step + 1, "law_occurrence")
    \cup Marks({i.id : i \in Due}, step + 1, "intervention")
    \cup Marks({o.id : o \in DueObservations}, step + 1, "observation")

Stepped(fired) ==
  /\ outcome' = outcome
  /\ step' = step + 1
  /\ trail' = Append(trail, state')
  /\ held' = HeldIn(state)
  /\ marks' = marks \cup StepMarks(fired)
  /\ claims' = Inserted(ObservedClaims, claims)

Frame == UNCHANGED <<model, head, query, boundary>>

(* A step is refused, or numbers, marks and claims go on as described.     *)
LEMMA StepFacts ==
  ASSUME Step
  PROVE  /\ outcome = "rolling" /\ step < query.steps /\ Frame
         /\ Stopped \/ \E drawn : Stepped(Fired(drawn)) /\ DOMAIN ObservedClaims \cap DOMAIN claims = {}
<1>1. outcome = "rolling" /\ step < query.steps /\ Frame
  BY DEF Step, Frame
<1>2. PICK drawn \in SUBSET {l \in compiled.occurrence : l.trigger = "hazard"} :
        \/ Clash(Fired(drawn)) /\ Refuse
        \/ \E noise \in [{l \in compiled.evolution : l.noisy} -> Noise] :
             ~Clash(Fired(drawn)) /\ Advance(Fired(drawn), noise)
  BY DEF Step, Fired
<1>3. CASE Refuse
  <2>1. Stopped
    BY <1>3 DEF Refuse, rolled, Stopped
  <2> QED BY <1>1, <2>1
<1>4. CASE \E noise \in [{l \in compiled.evolution : l.noisy} -> Noise] :
             ~Clash(Fired(drawn)) /\ Advance(Fired(drawn), noise)
  <2>1. PICK noise : ~Clash(Fired(drawn)) /\ Advance(Fired(drawn), noise)
    BY <1>4
  <2>2. Stepped(Fired(drawn))
    BY <2>1, Zenon DEF Advance, Stepped, StepMarks
  <2>3. DOMAIN ObservedClaims \cap DOMAIN claims = {}
    BY <2>1 DEF Clash
  <2> QED BY <1>1, <2>2, <2>3
<1> QED BY <1>2, <1>3, <1>4

(* The initial boundary is refused, or leaves its marks and one state.     *)
LEMMA BeginFacts ==
  ASSUME Begin
  PROVE  /\ outcome = "asked" /\ Frame /\ claims' = claims
         /\ \/ Stopped
            \/ /\ outcome' = "rolling" /\ step' = step
               /\ held' = HeldIn(state) /\ trail' = <<state'>>
               /\ marks' = Marks({i.id : i \in Initial(query)}, 0, "intervention")
<1>1. outcome = "asked" /\ Frame
  BY DEF Begin, Frame
<1>2. CASE Refuse
  BY <1>1, <1>2 DEF Refuse, rolled, Stopped
<1>3. CASE ~Refuse
  BY <1>1, <1>3, Zenon DEF Begin
<1> QED BY <1>2, <1>3

(* What the claims of the successor are.                                   *)
Settled ==
  LET end  == Sign(query) * query.steps
      kept == Causal(claims, end)
      made == {l.claim : l \in {e \in compiled.epistemic : ~e.gated \/ e.id \in activatedEver}}
  IN  /\ ~Overwrites(kept)
      /\ claims' = Inserted([c \in made |-> [cutoff |-> end, mode |-> "derived"]], kept)

(* The end is refused, or settles the claims.                              *)
LEMMA FinishFacts ==
  ASSUME Finish
  PROVE  /\ outcome = "rolling" /\ step = query.steps /\ Frame
         /\ UNCHANGED <<step, state, held, marks, trail>>
         /\ Stopped \/ (outcome' = "rolled" /\ Settled)
<1>1. outcome = "rolling" /\ step = query.steps /\ Frame
  BY DEF Finish, Frame
<1>2. CASE Refuse
  BY <1>1, <1>2 DEF Refuse, rolled, Stopped
<1>3. CASE ~Refuse
  BY <1>1, <1>3, Zenon DEF Finish, Settled
<1> QED BY <1>2, <1>3

(* A failing expression stops the roll.                                    *)
LEMMA FailsFacts ==
  ASSUME Fails
  PROVE  Stopped /\ Frame
BY DEF Fails, Refuse, rolled, Stopped, Frame

(* A step of the roll that is none of its actions changes nothing.         *)
LEMMA StutterFacts ==
  ASSUME UNCHANGED vars
  PROVE  Frame /\ UNCHANGED <<outcome, step, state, held, marks, claims, trail>>
BY DEF vars, rolled, Frame

-----------------------------------------------------------------------------
(* Interventions.                                                          *)

(* What is known of the numbers of a roll.                                 *)
Numbered ==
  /\ query \in Queries /\ head \in Heads /\ model \in DOMAIN Models
  /\ step \in Nat /\ step <= query.steps
  /\ outcome \in {"asked", "rolling", "rolled", "refused"}
  /\ outcome = "asked" => step = 0

(* A roll begins with its numbers in order.                                *)
LEMMA NumberedInit == Init => Numbered
BY QueriesAssumption DEF Init, Numbered

(* Every step keeps the numbers of a roll in order.                        *)
LEMMA NumberedNext ==
  ASSUME Numbered, [Next]_vars
  PROVE  Numbered'
<1>1. ASSUME Begin PROVE Numbered'
  BY <1>1, BeginFacts DEF Numbered, Frame, Stopped
<1>2. ASSUME Step PROVE Numbered'
  <2>1. CASE Stopped
    BY <1>2, <2>1, StepFacts DEF Numbered, Frame, Stopped
  <2>2. ASSUME NEW drawn, Stepped(Fired(drawn)) PROVE Numbered'
    <3>1. step' = step + 1 /\ outcome' = outcome
      BY <2>2 DEF Stepped
    <3> QED BY <1>2, <3>1, StepFacts, QueriesAssumption DEF Numbered, Frame
  <2> QED BY <1>2, <2>1, <2>2, StepFacts
<1>3. ASSUME Finish PROVE Numbered'
  BY <1>3, FinishFacts DEF Numbered, Frame, Stopped
<1>4. ASSUME Fails PROVE Numbered'
  BY <1>4, FailsFacts DEF Numbered, Frame, Stopped
<1>5. CASE UNCHANGED vars
  BY <1>5, StutterFacts DEF Numbered, Frame
<1> QED BY <1>1, <1>2, <1>3, <1>4, <1>5 DEF Next

(* No two interventions of a query share an id, and one that some step     *)
(* reaches has landed: with this, landing in time is inductive.            *)
Landings ==
  /\ Numbered
  /\ \A i, j \in query.interventions : i.id = j.id => i = j
  /\ outcome = "asked" => marks = {}
  /\ InterventionsTimely
  /\ \A i \in Scheduled(query) : Reaching(i) # {} => LandedIn(i) # {}

(* Where an intervention lands after the marks of a step are added.        *)
LEMMA LandsWhenDue ==
  ASSUME Landings, NEW drawn, Stepped(Fired(drawn)), Frame, NEW i \in Scheduled(query)
  PROVE  LandedIn(i)' = LandedIn(i) \cup (IF i \in Due THEN {step + 1} ELSE {})
<1> DEFINE Of(m) == m.kind = "intervention" /\ m.source = i.id
<1>1. marks' = marks \cup StepMarks(Fired(drawn))
  BY DEF Stepped
<1>2. ASSUME NEW m \in StepMarks(Fired(drawn)), Of(m)
      PROVE  m.step = step + 1 /\ i \in Due
  <2>1. PICK j \in Due : m = [source |-> j.id, step |-> step + 1, kind |-> "intervention"]
    BY <1>2 DEF StepMarks, Marks
  <2>2. j \in query.interventions /\ i \in query.interventions
    BY <2>1 DEF Due, Scheduled
  <2>3. j.id = i.id
    BY <1>2, <2>1
  <2> QED BY <2>1, <2>2, <2>3 DEF Landings
<1>3. ASSUME i \in Due
      PROVE  \E m \in StepMarks(Fired(drawn)) : Of(m) /\ m.step = step + 1
  <2>1. [source |-> i.id, step |-> step + 1, kind |-> "intervention"] \in StepMarks(Fired(drawn))
    BY <1>3 DEF StepMarks, Marks
  <2> QED BY <2>1
<1>4. LandedIn(i)' = {m.step : m \in {n \in marks' : Of(n)}}
  BY DEF LandedIn
<1>5. LandedIn(i) = {m.step : m \in {n \in marks : Of(n)}}
  BY DEF LandedIn
<1> HIDE DEF Of
<1> QED BY <1>1, <1>2, <1>3, <1>4, <1>5

(* Due is what the next boundary reaches and no step before landed.        *)
LEMMA DueUnlanded ==
  ASSUME NEW i \in Scheduled(query)
  PROVE  i \in Due <=> boundary[step + 1] >= i.offset /\ LandedIn(i) = {}
BY DEF Due, LandedIn

(* Before the roll nothing has landed.                                     *)
LEMMA LandingsInit == Init => Landings
<1> SUFFICES ASSUME Init PROVE Landings
  OBVIOUS
<1>1. Numbered
  BY NumberedInit
<1>2. marks = {} /\ step = 0 /\ \A i, j \in query.interventions : i.id = j.id => i = j
  BY DEF Init, Accepted
<1>3. ASSUME NEW i \in Scheduled(query) PROVE LandedIn(i) = {} /\ Reaching(i) = {}
  BY <1>2 DEF LandedIn, Reaching
<1> QED BY <1>1, <1>2, <1>3 DEF Landings, InterventionsTimely

(* What leaves the marks and the step alone leaves the landings alone.     *)
LEMMA LandingsKept ==
  ASSUME Landings, Numbered', Frame, marks' = marks, step' = step, outcome' # "asked" \/ outcome' = outcome
  PROVE  Landings'
<1>1. \A i \in Scheduled(query) : LandedIn(i)' = LandedIn(i) /\ Reaching(i)' = Reaching(i)
  BY DEF LandedIn, Reaching, Frame
<1>2. query' = query
  BY DEF Frame
<1> QED BY <1>1, <1>2 DEF Landings, InterventionsTimely

(* The initial boundary marks none that is scheduled.                      *)
LEMMA LandingsBegin ==
  ASSUME Landings, Numbered', Begin
  PROVE  Landings'
<1>1. Frame /\ query' = query
  BY BeginFacts DEF Frame
<1>2. CASE Stopped
  BY <1>1, <1>2, LandingsKept DEF Stopped
<1>3. CASE ~Stopped
  <2>1. /\ outcome' = "rolling" /\ step' = 0
        /\ marks' = Marks({i.id : i \in Initial(query)}, 0, "intervention")
    BY <1>3, BeginFacts DEF Landings, Numbered
  <2>2. ASSUME NEW i \in Scheduled(query) PROVE LandedIn(i)' = {} /\ Reaching(i)' = {}
    <3>1. ASSUME NEW m \in marks', m.source = i.id PROVE FALSE
      <4>1. PICK j \in Initial(query) : m = [source |-> j.id, step |-> 0, kind |-> "intervention"]
        BY <2>1, <3>1 DEF Marks
      <4>2. j.id = i.id
        BY <3>1, <4>1
      <4> QED BY <4>1, <4>2 DEF Landings, Initial, Scheduled
    <3>2. Reaching(i)' = {}
      BY <2>1 DEF Reaching
    <3> QED BY <3>1, <3>2 DEF LandedIn
  <2> QED BY <1>1, <2>1, <2>2 DEF Landings, InterventionsTimely
<1> QED BY <1>2, <1>3

(* A step lands what has not landed and what its boundary reaches.         *)
LEMMA LandingsStep ==
  ASSUME Landings, Numbered', NEW drawn, Stepped(Fired(drawn)), Frame, outcome = "rolling"
  PROVE  Landings'
<1>1. step' = step + 1 /\ outcome' # "asked" /\ query' = query /\ boundary' = boundary /\ step \in Nat
  BY DEF Stepped, Frame, Landings, Numbered
<1>2. ASSUME NEW i \in Scheduled(query)
      PROVE  /\ LandedIn(i)' = {k \in Reaching(i)' : \A n \in Reaching(i)' : k <= n}
             /\ Reaching(i)' # {} => LandedIn(i)' # {}
  <2> DEFINE L == LandedIn(i)
             R == Reaching(i)
             new == IF boundary[step + 1] >= i.offset THEN {step + 1} ELSE {}
  <2>1. Reaching(i)' = R \cup new
    BY <1>1 DEF Reaching
  <2>2. R \subseteq 1..step
    BY DEF Reaching
  <2>3. L = {k \in R : \A n \in R : k <= n} /\ (R # {} => L # {})
    BY DEF Landings, InterventionsTimely
  <2>4. LandedIn(i)' = L \cup (IF L = {} THEN new ELSE {})
    BY LandsWhenDue, DueUnlanded
  <2> HIDE DEF L, R
  <2>5. CASE L = {}
    <3>1. R = {}
      BY <2>3, <2>5
    <3> QED BY <1>1, <2>1, <2>4, <2>5, <3>1
  <2>6. CASE L # {}
    <3>1. \A k \in new : k = step + 1
      OBVIOUS
    <3> HIDE DEF new
    <3>2. PICK first \in R : first \in L
      BY <2>3, <2>6
    <3>3. ASSUME NEW k \in L PROVE k \in R /\ \A n \in R \cup new : k <= n
      BY <1>1, <2>2, <2>3, <3>1, <3>3
    <3>4. ASSUME NEW k \in R \cup new, \A n \in R \cup new : k <= n PROVE k \in L
      BY <1>1, <2>2, <2>3, <3>1, <3>2, <3>4
    <3>5. LandedIn(i)' = L
      BY <2>4, <2>6
    <3>6. L = {k \in R \cup new : \A n \in R \cup new : k <= n}
      BY <3>3, <3>4
    <3> QED BY <2>1, <2>6, <3>5, <3>6
  <2> QED BY <2>5, <2>6
<1>3. \A i, j \in query'.interventions : i.id = j.id => i = j
  BY <1>1 DEF Landings
<1>4. Scheduled(query') = Scheduled(query)
  BY <1>1
<1> QED BY <1>1, <1>2, <1>3, <1>4 DEF Landings, InterventionsTimely

(* Every scheduled intervention lands once, in the first step whose        *)
(* boundary reaches its offset, however the boundaries are rounded.        *)
THEOREM InterventionsLand == Spec => []InterventionsTimely
<1>1. Landings /\ [Next]_vars => Landings'
  <2> SUFFICES ASSUME Landings, [Next]_vars PROVE Landings'
    OBVIOUS
  <2>1. Numbered'
    BY NumberedNext DEF Landings
  <2>2. CASE Begin
    BY <2>1, <2>2, LandingsBegin
  <2>3. CASE Step
    <3>1. CASE Stopped
      BY <2>1, <2>3, <3>1, StepFacts, LandingsKept DEF Stopped
    <3> QED BY <2>1, <2>3, <3>1, StepFacts, LandingsStep
  <2>4. CASE Finish
    BY <2>1, <2>4, FinishFacts, LandingsKept DEF Stopped
  <2>5. CASE Fails
    BY <2>1, <2>5, FailsFacts, LandingsKept DEF Stopped
  <2>6. CASE UNCHANGED vars
    BY <2>1, <2>6, StutterFacts, LandingsKept
  <2> QED BY <2>2, <2>3, <2>4, <2>5, <2>6 DEF Next
<1>2. Landings => InterventionsTimely
  BY DEF Landings
<1> QED BY LandingsInit, <1>1, <1>2, PTL DEF Spec

-----------------------------------------------------------------------------
(* Claims.                                                                 *)

(* During a roll no claim rests on evidence from after the step reached.   *)
Dated ==
  /\ Numbered
  /\ outcome \in {"asked", "rolling"} =>
       \A c \in DOMAIN claims : claims[c].cutoff \in Int /\ claims[c].cutoff <= step
  /\ CausalClaims

(* A roll begins with the claims of its head.                              *)
LEMMA DatedInit == Init => Dated
BY NumberedInit, HeadsAssumption DEF Dated, Init, CausalClaims

(* An observation is dated to the step it is made in.                      *)
LEMMA DatedStep ==
  ASSUME Dated, outcome = "rolling", Numbered', NEW drawn, Stepped(Fired(drawn))
  PROVE  Dated'
<1>1. outcome' = "rolling" /\ step' = step + 1 /\ claims' = Inserted(ObservedClaims, claims) /\ step \in Nat
  BY DEF Stepped, Dated, Numbered
<1>2. \A c \in DOMAIN ObservedClaims : ObservedClaims[c].cutoff = step + 1
  BY DEF ObservedClaims
<1>3. \A c \in DOMAIN claims : claims[c].cutoff \in Int /\ claims[c].cutoff <= step
  BY DEF Dated
<1>4. ASSUME NEW c \in DOMAIN claims' PROVE claims'[c].cutoff \in Int /\ claims'[c].cutoff <= step + 1
  <2>1. CASE c \in DOMAIN ObservedClaims
    <3>1. claims'[c] = ObservedClaims[c]
      BY <1>1, <1>4, <2>1 DEF Inserted
    <3> QED BY <1>1, <1>2, <2>1, <3>1
  <2>2. CASE c \notin DOMAIN ObservedClaims
    <3>1. c \in DOMAIN claims /\ claims'[c] = claims[c]
      BY <1>1, <1>4, <2>2 DEF Inserted
    <3> QED BY <1>1, <1>3, <3>1
  <2> QED BY <2>1, <2>2
<1> QED BY <1>1, <1>4 DEF Dated, CausalClaims

(* What settles is as old as the end, or was kept as no younger.           *)
LEMMA SettledIsCausal ==
  ASSUME Dated, outcome = "rolling", step = query.steps, Frame, Settled
  PROVE  \A c \in DOMAIN claims' : claims'[c].cutoff <= Sign(query) * query.steps
<1> DEFINE end  == Sign(query) * query.steps
           kept == Causal(claims, end)
           made == {l.claim : l \in {e \in compiled.epistemic : ~e.gated \/ e.id \in activatedEver}}
           derived == [c \in made |-> [cutoff |-> end, mode |-> "derived"]]
<1>1. claims' = Inserted(derived, kept)
  BY DEF Settled
<1>2. query.steps \in Nat /\ end \in Int
  BY QueriesAssumption DEF Dated, Numbered, Sign
<1>3. \A c \in DOMAIN kept : kept[c].cutoff <= end
  <2>1. CASE query.direction = "forward"
    <3>1. kept = claims /\ end = query.steps
      BY <1>2, <2>1 DEF Causal, Sign
    <3> QED BY <3>1 DEF Dated
  <2>2. CASE query.direction # "forward"
    BY <2>2 DEF Causal, Restrict
  <2> QED BY <2>1, <2>2
<1>4. \A c \in DOMAIN derived : derived[c].cutoff = end
  OBVIOUS
<1> HIDE DEF end, kept, derived
<1>5. ASSUME NEW c \in DOMAIN claims' PROVE claims'[c].cutoff <= end
  <2>1. CASE c \in DOMAIN derived
    <3>1. claims'[c] = derived[c]
      BY <1>1, <1>5, <2>1 DEF Inserted
    <3> QED BY <1>2, <1>4, <2>1, <3>1
  <2>2. CASE c \notin DOMAIN derived
    <3>1. c \in DOMAIN kept /\ claims'[c] = kept[c]
      BY <1>1, <1>5, <2>2 DEF Inserted
    <3> QED BY <1>3, <3>1
  <2> QED BY <2>1, <2>2
<1> QED BY <1>5 DEF end

(* Every step keeps the claims dated.                                      *)
LEMMA DatedNext ==
  ASSUME Dated, [Next]_vars
  PROVE  Dated'
<1>1. Numbered'
  BY NumberedNext DEF Dated
<1>2. CASE Stopped
  BY <1>1, <1>2 DEF Stopped, Dated, CausalClaims
<1>3. ASSUME Begin, ~Stopped PROVE Dated'
  BY <1>1, <1>3, BeginFacts DEF Dated, CausalClaims
<1>4. ASSUME Step, ~Stopped PROVE Dated'
  BY <1>1, <1>4, StepFacts, DatedStep
<1>5. ASSUME Finish, ~Stopped PROVE Dated'
  <2>1. outcome = "rolling" /\ step = query.steps /\ Frame /\ outcome' = "rolled" /\ Settled
    BY <1>5, FinishFacts
  <2>2. \A c \in DOMAIN claims' : claims'[c].cutoff <= Sign(query) * query.steps
    BY <2>1, SettledIsCausal
  <2>3. query' = query
    BY <2>1 DEF Frame
  <2> QED BY <1>1, <2>1, <2>2, <2>3 DEF Dated, CausalClaims
<1>6. ASSUME Fails PROVE Dated'
  BY <1>2, <1>6, FailsFacts
<1>7. CASE UNCHANGED vars
  BY <1>1, <1>7, StutterFacts DEF Dated, CausalClaims, Frame
<1> QED BY <1>2, <1>3, <1>4, <1>5, <1>6, <1>7 DEF Next

(* The successor of a roll, forward or backward, rests on no evidence from *)
(* after its time, so it passes the validation of a world head.            *)
THEOREM SuccessorIsCausal == Spec => []CausalClaims
<1>1. Dated => CausalClaims
  BY DEF Dated
<1>2. Dated /\ [Next]_vars => Dated'
  BY DatedNext
<1> QED BY DatedInit, <1>1, <1>2, PTL DEF Spec

(* One step of the roll keeps every observed claim that its end may keep.  *)
LEMMA ObservedKept ==
  ASSUME Dated, [Next]_vars, NEW c \in DOMAIN claims,
         claims[c].mode = "observed", claims[c].cutoff <= Sign(query) * query.steps
  PROVE  c \in DOMAIN claims' /\ claims'[c] = claims[c]
<1>1. CASE claims' = claims
  BY <1>1
<1>2. ASSUME Step, ~Stopped PROVE c \in DOMAIN claims' /\ claims'[c] = claims[c]
  <2>1. claims' = Inserted(ObservedClaims, claims) /\ c \notin DOMAIN ObservedClaims
    BY <1>2, StepFacts DEF Stepped
  <2> QED BY <2>1 DEF Inserted
<1>3. ASSUME Finish, ~Stopped PROVE c \in DOMAIN claims' /\ claims'[c] = claims[c]
  <2> DEFINE end  == Sign(query) * query.steps
             kept == Causal(claims, end)
             made == {l.claim : l \in {e \in compiled.epistemic : ~e.gated \/ e.id \in activatedEver}}
             derived == [x \in made |-> [cutoff |-> end, mode |-> "derived"]]
  <2>1. claims' = Inserted(derived, kept) /\ ~Overwrites(kept)
    BY <1>3, FinishFacts DEF Settled
  <2>2. c \in DOMAIN kept /\ kept[c] = claims[c]
    BY DEF Causal, Restrict
  <2>3. c \notin made
    BY <2>1, <2>2 DEF Overwrites
  <2>4. c \notin DOMAIN derived
    BY <2>3
  <2> HIDE DEF kept, derived
  <2> QED BY <2>1, <2>2, <2>4 DEF Inserted
<1>4. Stopped => claims' = claims
  BY DEF Stopped
<1> QED BY <1>1, <1>2, <1>3, <1>4, BeginFacts, FailsFacts, StutterFacts DEF Next

(* A roll never replaces an observed claim, and drops one only by going    *)
(* back before its evidence.                                               *)
THEOREM ObservationsStay == Spec => ObservedClaimsStay
<1>1. Dated /\ [Next]_vars =>
        [\A c \in DOMAIN claims :
           claims[c].mode = "observed" /\ claims[c].cutoff <= Sign(query) * query.steps =>
             c \in DOMAIN claims' /\ claims'[c] = claims[c]]_vars
  BY ObservedKept
<1>2. Dated /\ [Next]_vars => Dated'
  BY DatedNext
<1> QED BY DatedInit, <1>1, <1>2, PTL DEF Spec, ObservedClaimsStay

-----------------------------------------------------------------------------
(* Thresholds.                                                             *)

Entering == {l \in compiled.occurrence : l.trigger = "threshold" /\ l.onEnter}

(* The state a threshold was evaluated in before step k.                   *)
Before(k) == IF k = 1 THEN head.state ELSE trail[k - 1]

(* What is held is what the state before the last one showed: with this,   *)
(* firing on entering is inductive.                                        *)
Watched ==
  /\ Numbered
  /\ outcome = "asked" => state = head.state /\ marks = {}
  /\ DOMAIN held = {l.id : l \in {o \in compiled.occurrence : o.trigger = "threshold"}}
  /\ outcome = "rolling" =>
       /\ \E S : trail \in Seq(S)
       /\ Len(trail) = step + 1
       /\ state = trail[step + 1]
       /\ \A l \in Entering : held[l.id] <=> l.cond[Before(step + 1)]
  /\ \A m \in marks : m.kind = "law_occurrence" => m.step \in 1..step
  /\ EnteringFires

(* Appending to a sequence keeps what it had and adds one element.         *)
LEMMA AppendKeeps ==
  ASSUME NEW S, NEW s \in Seq(S), NEW x
  PROVE  /\ \E T : Append(s, x) \in Seq(T)
         /\ Len(Append(s, x)) = Len(s) + 1
         /\ Append(s, x)[Len(s) + 1] = x
         /\ \A k \in 1..Len(s) : Append(s, x)[k] = s[k]
<1> DEFINE T == S \cup {x}
<1>1. s \in Seq(T) /\ x \in T
  OBVIOUS
<1>2. Append(s, x) \in Seq(T)
  BY <1>1
<1> QED BY <1>1, <1>2

(* A law is known by its id, so what is held for it is its own condition.  *)
LEMMA HeldIsCond ==
  ASSUME Watched, NEW s, NEW l \in Entering
  PROVE  HeldIn(s)[l.id] <=> l.cond[s]
<1>1. l.id \in DOMAIN held
  BY DEF Watched, Entering
<1>2. \A o \in compiled.occurrence : o.id = l.id => o = l
  BY ModelsAssumption DEF Watched, Numbered, compiled, Entering
<1>3. HeldIn(s)[l.id] <=> \E o \in compiled.occurrence : o.id = l.id /\ o.cond[s]
  BY <1>1, Zenon DEF HeldIn
<1>4. l \in compiled.occurrence
  BY DEF Entering
<1> QED BY <1>2, <1>3, <1>4, Zenon

(* A roll begins with nothing watched.                                     *)
LEMMA WatchedInit == Init => Watched
<1> SUFFICES ASSUME Init PROVE Watched
  OBVIOUS
<1>1. Numbered
  BY NumberedInit
<1>2. step = 0 /\ marks = {} /\ state = head.state /\ outcome = "asked"
  BY DEF Init
<1>3. DOMAIN held = {l.id : l \in {o \in compiled.occurrence : o.trigger = "threshold"}}
  BY DEF Init
<1>4. EnteringFires
  BY <1>2 DEF EnteringFires
<1> QED BY <1>1, <1>2, <1>3, <1>4 DEF Watched

(* What leaves states and marks alone leaves the watch alone.              *)
LEMMA WatchedKept ==
  ASSUME Watched, Numbered', Frame, UNCHANGED <<step, state, held, marks, trail>>,
         outcome' = outcome \/ outcome' \in {"rolled", "refused"}
  PROVE  Watched'
<1>1. compiled' = compiled /\ Entering' = Entering /\ head' = head
  BY DEF Frame, compiled, Entering
<1>2. EnteringFires'
  BY <1>1 DEF Watched, EnteringFires
<1>3. \A k : Before(k)' = Before(k)
  BY <1>1 DEF Before
<1> QED BY <1>1, <1>2, <1>3 DEF Watched

(* The watch begins with the parent, before the initial boundary.          *)
LEMMA WatchedBegin ==
  ASSUME Watched, Numbered', Begin, ~Stopped
  PROVE  Watched'
<1>1. Frame /\ compiled' = compiled /\ Entering' = Entering /\ head' = head
  BY BeginFacts DEF Frame, compiled, Entering
<1>2. /\ outcome' = "rolling" /\ step' = 0 /\ state = head.state
      /\ held' = HeldIn(state) /\ trail' = <<state'>>
      /\ marks' = Marks({i.id : i \in Initial(query)}, 0, "intervention")
  BY BeginFacts DEF Watched, Numbered
<1>3. DOMAIN held' = DOMAIN held
  BY <1>2 DEF HeldIn
<1>4. /\ \E S : trail' \in Seq(S)
      /\ Len(trail') = step' + 1
      /\ state' = trail'[step' + 1]
  <2>1. trail' \in Seq({state'}) /\ Len(trail') = 1 /\ trail'[1] = state'
    BY <1>2
  <2>2. \E S : trail' \in Seq(S)
    BY <2>1, Zenon
  <2> QED BY <1>2, <2>1, <2>2
<1>5. \A l \in Entering : held'[l.id] <=> l.cond[head.state]
  BY <1>2, HeldIsCond
<1>6. Before(step + 1)' = head.state
  BY <1>1, <1>2 DEF Before
<1>7. \A m \in marks' : m.kind # "law_occurrence"
  BY <1>2 DEF Marks
<1>8. EnteringFires'
  BY <1>2 DEF EnteringFires
<1>9. \A l \in Entering' : held'[l.id] <=> l.cond[Before(step + 1)']
  BY <1>1, <1>5, <1>6
<1> QED BY <1>1, <1>2, <1>3, <1>4, <1>7, <1>8, <1>9 DEF Watched

(* The law marks of a step are those of the laws that fired.               *)
LEMMA LawMarks ==
  ASSUME NEW fired, step \in Nat, NEW m \in StepMarks(fired), m.kind = "law_occurrence"
  PROVE  m.step = step + 1 /\ \E f \in fired : m.source = f.id
BY DEF StepMarks, Marks

(* A law that fires on entering is marked in this step exactly when its    *)
(* condition holds and did not before.                                     *)
LEMMA EntersNow ==
  ASSUME Watched, outcome = "rolling", NEW drawn, Stepped(Fired(drawn)), NEW l \in Entering
  PROVE  (\E m \in marks' : m.kind = "law_occurrence" /\ m.source = l.id /\ m.step = step + 1)
           <=> l.cond[state] /\ ~l.cond[Before(step + 1)]
<1>1. marks' = marks \cup StepMarks(Fired(drawn)) /\ step \in Nat
  BY DEF Stepped, Watched, Numbered
<1>2. \A m \in marks : m.kind = "law_occurrence" => m.step # step + 1
  BY <1>1 DEF Watched
<1>3. \A f \in Fired(drawn) : f.id = l.id => f = l
  BY ModelsAssumption DEF Watched, Numbered, compiled, Entering, Fired
<1>4. ASSUME NEW m \in marks', m.kind = "law_occurrence", m.source = l.id, m.step = step + 1
      PROVE  l \in Fired(drawn)
  <2>1. m \in StepMarks(Fired(drawn))
    BY <1>1, <1>2, <1>4
  <2>2. PICK f \in Fired(drawn) : m.source = f.id
    BY <1>1, <1>4, <2>1, LawMarks
  <2> QED BY <1>3, <1>4, <2>2
<1>5. ASSUME l \in Fired(drawn)
      PROVE  \E m \in marks' : m.kind = "law_occurrence" /\ m.source = l.id /\ m.step = step + 1
  <2>1. [source |-> l.id, step |-> step + 1, kind |-> "law_occurrence"] \in StepMarks(Fired(drawn))
    BY <1>5 DEF StepMarks, Marks
  <2> QED BY <1>1, <2>1
<1>6. l \in Fired(drawn) <=> Fires(l, drawn)
  BY DEF Fired, Entering
<1>7. Fires(l, drawn) <=> l.cond[state] /\ ~held[l.id]
  <2>1. l.trigger = "threshold" /\ l.onEnter
    BY DEF Entering
  <2>2. l.trigger # "always" /\ l.trigger # "hazard"
    BY <2>1
  <2> QED BY <2>1, <2>2 DEF Fires
<1>8. held[l.id] <=> l.cond[Before(step + 1)]
  BY DEF Watched
<1> QED BY <1>4, <1>5, <1>6, <1>7, <1>8, Zenon

(* Every step passes the watch on to its own state.                        *)
LEMMA WatchedStep ==
  ASSUME Watched, outcome = "rolling", Numbered', NEW drawn, Stepped(Fired(drawn)), Frame
  PROVE  Watched'
<1>1. compiled' = compiled /\ Entering' = Entering /\ head' = head
  BY DEF Frame, compiled, Entering
<1>2. /\ step \in Nat /\ step' = step + 1 /\ outcome' = "rolling"
      /\ held' = HeldIn(state) /\ trail' = Append(trail, state')
      /\ marks' = marks \cup StepMarks(Fired(drawn))
  BY DEF Stepped, Watched, Numbered
<1>3. /\ \E S : trail' \in Seq(S)
      /\ Len(trail') = step' + 1
      /\ state' = trail'[step' + 1]
      /\ \A k \in 1..(step + 1) : trail'[k] = trail[k]
  <2>1. PICK S : trail \in Seq(S)
    BY DEF Watched
  <2>2. Len(trail) = step + 1
    BY DEF Watched
  <2>3. /\ \E T : Append(trail, state') \in Seq(T)
        /\ Len(Append(trail, state')) = Len(trail) + 1
        /\ Append(trail, state')[Len(trail) + 1] = state'
        /\ \A k \in 1..Len(trail) : Append(trail, state')[k] = trail[k]
    BY <2>1, AppendKeeps, Zenon
  <2>4. \E T : trail' \in Seq(T)
    BY <1>2, <2>3, Zenon
  <2> QED BY <1>2, <2>2, <2>3, <2>4
<1>4. \A k \in 1..(step + 1) : Before(k)' = Before(k)
  <2>1. ASSUME NEW k \in 1..(step + 1), k # 1 PROVE trail'[k - 1] = trail[k - 1]
    BY <1>2, <1>3, <2>1
  <2> QED BY <1>1, <2>1 DEF Before
<1>5. Before(step + 1)' = state
  <2>1. step' + 1 # 1 /\ (step' + 1) - 1 = step + 1
    BY <1>2
  <2>2. trail'[step + 1] = state
    BY <1>2, <1>3 DEF Watched
  <2> QED BY <2>1, <2>2 DEF Before
<1>6. DOMAIN held' = DOMAIN held
  BY <1>2 DEF HeldIn
<1>7. \A l \in Entering' : held'[l.id] <=> l.cond[Before(step + 1)']
  BY <1>1, <1>2, <1>5, HeldIsCond
<1>8. \A m \in marks' : m.kind = "law_occurrence" => m.step \in 1..step'
  BY <1>2, LawMarks DEF Watched
<1>9. EnteringFires'
  <2> DEFINE Marked(l, k) == \E m \in marks : m.kind = "law_occurrence" /\ m.source = l.id /\ m.step = k
             MarkedNext(l, k) == \E m \in marks' : m.kind = "law_occurrence" /\ m.source = l.id /\ m.step = k
  <2>1. ASSUME NEW l \in Entering, NEW k \in 1..step
        PROVE  MarkedNext(l, k) <=> l.cond[trail'[k]] /\ ~l.cond[Before(k)']
    <3>1. MarkedNext(l, k) <=> Marked(l, k)
      <4>1. \A m \in StepMarks(Fired(drawn)) : m.kind = "law_occurrence" => m.step # k
        BY <1>2, <2>1, LawMarks
      <4> QED BY <1>2, <4>1
    <3>2. Marked(l, k) <=> l.cond[trail[k]] /\ ~l.cond[Before(k)]
      BY DEF Watched, EnteringFires, Entering, Before
    <3>3. trail'[k] = trail[k] /\ Before(k)' = Before(k)
      BY <1>2, <1>3, <1>4
    <3> QED BY <3>1, <3>2, <3>3
  <2>2. ASSUME NEW l \in Entering
        PROVE  MarkedNext(l, step + 1) <=> l.cond[trail'[step + 1]] /\ ~l.cond[Before(step + 1)]
    <3>1. trail'[step + 1] = state
      BY <1>2, <1>3 DEF Watched
    <3> QED BY <3>1, EntersNow
  <2>3. ASSUME NEW l \in Entering, NEW k \in 1..step'
        PROVE  MarkedNext(l, k) <=> l.cond[trail'[k]] /\ ~l.cond[IF k = 1 THEN head'.state ELSE trail'[k - 1]]
    <3>1. (IF k = 1 THEN head'.state ELSE trail'[k - 1]) = Before(k)
      BY <1>2, <1>4 DEF Before
    <3>2. k \in 1..step \/ k = step + 1
      BY <1>2
    <3>3. CASE k \in 1..step
      <4>1. Before(k)' = Before(k)
        BY <1>2, <1>4, <3>3
      <4> QED BY <2>1, <3>1, <3>3, <4>1
    <3>4. CASE k = step + 1
      BY <2>2, <3>1, <3>4
    <3> QED BY <3>2, <3>3, <3>4
  <2> QED BY <1>1, <2>3 DEF EnteringFires, Entering
<1> QED BY <1>1, <1>2, <1>3, <1>6, <1>7, <1>8, <1>9 DEF Watched

(* A law that fires on entering fires in exactly the steps that start with *)
(* its condition newly true, for any number of laws and steps.             *)
THEOREM ThresholdsFireOnEntering == Spec => []EnteringFires
<1>1. Watched /\ [Next]_vars => Watched'
  <2> SUFFICES ASSUME Watched, [Next]_vars PROVE Watched'
    OBVIOUS
  <2>1. Numbered'
    BY NumberedNext DEF Watched
  <2>2. ASSUME Stopped, Frame PROVE Watched'
    BY <2>1, <2>2, WatchedKept DEF Stopped
  <2>3. CASE Begin
    BY <2>1, <2>2, <2>3, BeginFacts, WatchedBegin
  <2>4. CASE Step
    BY <2>1, <2>2, <2>4, StepFacts, WatchedStep
  <2>5. CASE Finish
    BY <2>1, <2>5, FinishFacts, WatchedKept DEF Stopped
  <2>6. CASE Fails
    BY <2>2, <2>6, FailsFacts
  <2>7. CASE UNCHANGED vars
    BY <2>1, <2>7, StutterFacts, WatchedKept
  <2> QED BY <2>3, <2>4, <2>5, <2>6, <2>7 DEF Next
<1>2. Watched => EnteringFires
  BY DEF Watched
<1> QED BY WatchedInit, <1>1, <1>2, PTL DEF Spec

-----------------------------------------------------------------------------
(* What is retained.                                                       *)

(* A number is its quotient times the divisor, and the remainder.          *)
LEMMA DivisionOf ==
  ASSUME NEW k \in Nat, NEW n \in Nat \ {0}
  PROVE  /\ k \div n \in Nat /\ k % n \in 0..(n - 1) /\ k = n * (k \div n) + (k % n)
BY SMT

(* Quotient and remainder are determined.                                  *)
LEMMA DivisionIsUnique ==
  ASSUME NEW n \in Nat \ {0}, NEW p \in Nat, NEW q \in Nat, NEW r \in 0..(n-1), NEW s \in 0..(n-1),
         n * p + r = n * q + s
  PROVE  p = q /\ r = s
<1>1. \A a, b \in Nat : a >= b + 1 => n * a >= n * b + n
  <2>1. SUFFICES ASSUME NEW a \in Nat, NEW b \in Nat, a >= b + 1 PROVE n * a >= n * b + n
    OBVIOUS
  <2>2. PICK d \in Nat : a = b + 1 + d
    <3>1. a - b - 1 \in Nat /\ a = b + 1 + (a - b - 1)
      BY <2>1
    <3> QED BY <3>1
  <2>3. n * a = n * b + n + n * d /\ n * d \in Nat
    BY <2>2, SMT
  <2> QED BY <2>3, SMT
<1>2. ~ (p >= q + 1)
  <2>1. SUFFICES ASSUME p >= q + 1 PROVE FALSE OBVIOUS
  <2>2. n * p >= n * q + n BY <1>1, <2>1
  <2> QED BY <2>2, SMT
<1>3. ~ (q >= p + 1)
  <2>1. SUFFICES ASSUME q >= p + 1 PROVE FALSE OBVIOUS
  <2>2. n * q >= n * p + n BY <1>1, <2>1
  <2> QED BY <2>2, SMT
<1>4. p = q BY <1>2, <1>3, SMT
<1> QED BY <1>4, SMT

(* The quotient grows by one exactly where the remainder is zero.          *)
LEMMA NextDivision ==
  ASSUME NEW k \in Nat, NEW n \in Nat \ {0}
  PROVE  /\ (k + 1) % n = 0 => (k + 1) \div n = (k \div n) + 1
         /\ (k + 1) % n # 0 => (k + 1) \div n = k \div n
<1>1. k \div n \in Nat /\ k % n \in 0..(n - 1) /\ k = n * (k \div n) + (k % n) BY DivisionOf
<1>0. k + 1 \in Nat OBVIOUS
<1>2. ((k + 1) \div n) \in Nat /\ ((k + 1) % n) \in 0..(n - 1) /\ k + 1 = n * (((k + 1) \div n)) + ((k + 1) % n) BY <1>0, DivisionOf
<1>3. CASE k % n = n - 1
  <2>1. n * ((k \div n) + 1) + 0 = n * (((k + 1) \div n)) + ((k + 1) % n)
    BY <1>1, <1>2, <1>3, SMT
  <2>2. (k \div n) + 1 = ((k + 1) \div n) /\ 0 = ((k + 1) % n)
    <3>1. (k \div n) + 1 \in Nat /\ 0 \in 0..(n-1) BY <1>1
    <3>2. \A p, q \in Nat : \A r, s \in 0..(n-1) : n * p + r = n * q + s => p = q /\ r = s
      BY DivisionIsUnique
    <3>3. PICK p, q, r, s : p = (k \div n) + 1 /\ q = (k + 1) \div n /\ r = 0 /\ s = (k + 1) % n
      OBVIOUS
    <3>4. p \in Nat /\ q \in Nat /\ r \in 0..(n-1) /\ s \in 0..(n-1) /\ n * p + r = n * q + s
      BY <2>1, <3>1, <1>2, <3>3
    <3>5. p = q /\ r = s
      BY <3>4, <3>2
    <3> QED BY <3>3, <3>5, Zenon
  <2> QED BY <2>2
<1>4. CASE k % n # n - 1
  <2>1. n * (k \div n) + ((k % n) + 1) = n * (((k + 1) \div n)) + ((k + 1) % n)
    BY <1>1, <1>2, <1>4, SMT
  <2>2. k \div n = ((k + 1) \div n) /\ (k % n) + 1 = ((k + 1) % n)
    <3>1. (k % n) + 1 \in 0..(n-1) BY <1>1, <1>4, SMT
    <3> QED BY <2>1, <3>1, <1>1, <1>2, DivisionIsUnique
  <2> QED BY <2>2, <1>1
<1> QED BY <1>3, <1>4

(* How many of the samples 0..k are kept.                                  *)
KeptUpTo(path, k, total) ==
  CASE path.kind = "endpoint"  -> IF k = total THEN 1 ELSE 0
    [] path.kind = "full"      -> k + 1
    [] path.kind = "decimated" -> (k \div path.every) + (IF k = total /\ k % path.every # 0 THEN 2 ELSE 1)

(* It is a number, one where the sample zero is kept and otherwise zero.   *)
LEMMA KeptAtFirst ==
  ASSUME NEW path \in PathSpec, NEW total \in Nat \ {0}
  PROVE  KeptUpTo(path, 0, total) = IF Retain(path, 0, total) THEN 1 ELSE 0
<1>1. CASE path = Endpoint
  BY <1>1 DEF Endpoint, KeptUpTo, Retain
<1>2. CASE path = Full
  BY <1>2 DEF Full, KeptUpTo, Retain
<1>3. ASSUME NEW n \in Cadences, path = Decimated(n) PROVE KeptUpTo(path, 0, total) = IF Retain(path, 0, total) THEN 1 ELSE 0
  <2>1. n \in Nat \ {0} /\ 0 \div n = 0 /\ 0 % n = 0
    <3>1. n \in Nat \ {0}
      BY CadencesAssumption
    <3> QED BY <3>1, SMT
  <2> QED BY <1>3, <2>1 DEF Decimated, KeptUpTo, Retain
<1> QED BY <1>1, <1>2, <1>3 DEF PathSpec

(* It grows by one with every sample that is kept.                         *)
LEMMA KeptGrows ==
  ASSUME NEW path \in PathSpec, NEW total \in Nat, NEW k \in Nat, k < total
  PROVE  /\ KeptUpTo(path, k, total) \in Nat
         /\ Retain(path, k + 1, total) => KeptUpTo(path, k + 1, total) = KeptUpTo(path, k, total) + 1
         /\ ~Retain(path, k + 1, total) => KeptUpTo(path, k + 1, total) = KeptUpTo(path, k, total)
<1> DEFINE Goal ==
      /\ KeptUpTo(path, k, total) \in Nat
      /\ Retain(path, k + 1, total) => KeptUpTo(path, k + 1, total) = KeptUpTo(path, k, total) + 1
      /\ ~Retain(path, k + 1, total) => KeptUpTo(path, k + 1, total) = KeptUpTo(path, k, total)
<1>1. CASE path = Endpoint
  BY <1>1 DEF Endpoint, KeptUpTo, Retain
<1>2. CASE path = Full
  BY <1>2 DEF Full, KeptUpTo, Retain
<1>3. ASSUME NEW n \in Cadences, path = Decimated(n) PROVE Goal
  <2>1. n \in Nat \ {0}
    BY CadencesAssumption
  <2>2. k \div n \in Nat
    BY <2>1, DivisionOf
  <2>3. /\ (k + 1) % n = 0 => (k + 1) \div n = (k \div n) + 1
        /\ (k + 1) % n # 0 => (k + 1) \div n = k \div n
    BY <2>1, NextDivision
  <2>4. path.kind = "decimated" /\ path.every = n
    BY <1>3 DEF Decimated
  <2>5. KeptUpTo(path, k, total) = (k \div n) + 1
    BY <2>4 DEF KeptUpTo
  <2>6. KeptUpTo(path, k + 1, total) = ((k + 1) \div n) + (IF k + 1 = total /\ (k + 1) % n # 0 THEN 2 ELSE 1)
    BY <2>4 DEF KeptUpTo
  <2>7. Retain(path, k + 1, total) <=> k + 1 = total \/ (k + 1) % n = 0
    BY <2>4 DEF Retain
  <2> QED BY <2>2, <2>3, <2>5, <2>6, <2>7
<1> QED BY <1>1, <1>2, <1>3 DEF PathSpec

(* At the end it is what validation expects, and fits.                     *)
LEMMA KeptAtEnd ==
  ASSUME NEW path \in PathSpec, NEW total \in Nat \ {0}
  PROVE  /\ KeptUpTo(path, total, total) = ExpectedRetainedSampleCount(path, total)
         /\ KeptUpTo(path, total, total) <= PathCapacity(path, total)
<1>1. CASE path = Endpoint
  BY <1>1 DEF Endpoint, KeptUpTo, ExpectedRetainedSampleCount, PathCapacity
<1>2. CASE path = Full
  BY <1>2 DEF Full, KeptUpTo, ExpectedRetainedSampleCount, PathCapacity
<1>3. ASSUME NEW n \in Cadences, path = Decimated(n)
      PROVE  /\ KeptUpTo(path, total, total) = ExpectedRetainedSampleCount(path, total)
             /\ KeptUpTo(path, total, total) <= PathCapacity(path, total)
  <2>1. n \in Nat \ {0} /\ total - 1 \in Nat /\ (total - 1) + 1 = total
    BY CadencesAssumption
  <2>2. (total - 1) \div n \in Nat
    BY <2>1, DivisionOf
  <2>3. /\ total % n = 0 => total \div n = ((total - 1) \div n) + 1
        /\ total % n # 0 => total \div n = (total - 1) \div n
    <3>1. PICK k \in Nat : k = total - 1 /\ k + 1 = total
      BY <2>1
    <3>2. /\ (k + 1) % n = 0 => (k + 1) \div n = (k \div n) + 1
          /\ (k + 1) % n # 0 => (k + 1) \div n = k \div n
      BY <2>1, <3>1, NextDivision
    <3> QED BY <3>1, <3>2
  <2>4. path.kind = "decimated" /\ path.every = n
    BY <1>3 DEF Decimated
  <2>5. KeptUpTo(path, total, total) = (total \div n) + (IF total % n # 0 THEN 2 ELSE 1)
    BY <2>4 DEF KeptUpTo
  <2>6. ExpectedRetainedSampleCount(path, total) = ((total - 1) \div n) + 2
    BY <2>4 DEF ExpectedRetainedSampleCount
  <2>7. PathCapacity(path, total) = (total \div n) + 2
    BY <2>4 DEF PathCapacity
  <2> QED BY <2>2, <2>3, <2>5, <2>6, <2>7
<1> QED BY <1>1, <1>2, <1>3 DEF PathSpec

(* The samples so far are those that are kept of the steps so far, and a   *)
(* roll ends at its last step.                                             *)
Retaining ==
  /\ samples \in Seq(Nat)
  /\ outcome \in {"rolling", "rolled"} => Len(samples) = KeptUpTo(query.path, step, query.steps)
  /\ outcome = "rolled" => step = query.steps

(* The first sample is the parent.                                         *)
LEMMA RetainingBegin ==
  ASSUME Numbered, Retaining, Begin
  PROVE  Retaining'
<1>1. query \in Queries /\ query' = query /\ outcome = "asked" /\ step = 0
  BY BeginFacts DEF Numbered, Frame
<1>2. CASE Refuse
  BY <1>1, <1>2 DEF Retaining, Refuse, rolled
<1>3. CASE ~Refuse
  <2>1. /\ outcome' = "rolling" /\ step' = step
        /\ samples' = IF Retain(query.path, 0, query.steps) THEN <<0>> ELSE <<>>
    BY <1>3, Zenon DEF Begin
  <2>2. query.path \in PathSpec /\ query.steps \in Nat \ {0}
    BY <1>1, QueriesAssumption
  <2>3. KeptUpTo(query.path, 0, query.steps) = IF Retain(query.path, 0, query.steps) THEN 1 ELSE 0
    BY <2>2, KeptAtFirst
  <2>4. samples' \in Seq(Nat) /\ Len(samples') = KeptUpTo(query.path, 0, query.steps)
    BY <2>1, <2>3
  <2> QED BY <1>1, <2>1, <2>4 DEF Retaining
<1> QED BY <1>2, <1>3

(* A step adds the sample it is to keep.                                   *)
LEMMA RetainingStep ==
  ASSUME Numbered, Retaining, Step
  PROVE  Retaining'
<1>1. query \in Queries /\ query' = query /\ outcome = "rolling" /\ step \in Nat /\ step < query.steps
  BY StepFacts DEF Numbered, Frame
<1>2. CASE Refuse
  BY <1>1, <1>2 DEF Retaining, Refuse, rolled
<1>3. ASSUME NEW fired, NEW noise, Advance(fired, noise) PROVE Retaining'
  <2>1. /\ outcome' = outcome /\ step' = step + 1
        /\ samples' = IF Retain(query.path, step + 1, query.steps) THEN Append(samples, step + 1) ELSE samples
    BY <1>3, Zenon DEF Advance
  <2>2. query.path \in PathSpec /\ query.steps \in Nat
    BY <1>1, QueriesAssumption
  <2>3. /\ KeptUpTo(query.path, step, query.steps) \in Nat
        /\ Retain(query.path, step + 1, query.steps) =>
              KeptUpTo(query.path, step + 1, query.steps) = KeptUpTo(query.path, step, query.steps) + 1
        /\ ~Retain(query.path, step + 1, query.steps) =>
              KeptUpTo(query.path, step + 1, query.steps) = KeptUpTo(query.path, step, query.steps)
    BY <1>1, <2>2, KeptGrows
  <2>4. samples \in Seq(Nat) /\ Len(samples) = KeptUpTo(query.path, step, query.steps)
    BY <1>1 DEF Retaining
  <2>5. samples' \in Seq(Nat) /\ Len(samples') = KeptUpTo(query.path, step + 1, query.steps)
    BY <1>1, <2>1, <2>3, <2>4
  <2> QED BY <1>1, <2>1, <2>5 DEF Retaining
<1> QED BY <1>2, <1>3, Zenon DEF Step

(* Every step keeps the samples counted.                                   *)
LEMMA RetainingNext ==
  ASSUME Numbered, Retaining, [Next]_vars
  PROVE  Retaining'
<1>1. CASE Finish
  <2>1. step = query.steps /\ Frame /\ UNCHANGED <<step, samples>> /\ outcome = "rolling"
    BY <1>1 DEF Finish, Frame, Refuse, rolled
  <2> QED BY <2>1 DEF Retaining, Frame
<1>2. CASE Fails
  BY <1>2 DEF Fails, Refuse, rolled, Retaining
<1>3. CASE UNCHANGED vars
  BY <1>3 DEF vars, rolled, Retaining
<1> QED BY <1>1, <1>2, <1>3, RetainingBegin, RetainingStep DEF Next

(* What a roll retains is what validation of the candidate counts          *)
(* (validate_retained_candidate_path) and fits in what the roll reserved   *)
(* (path_capacity), for every number of steps and every cadence: the       *)
(* candidate it makes passes that check.                                   *)
THEOREM PathsAsExpected == Spec => []RetainedAsExpected
<1>1. Init => Numbered /\ Retaining
  <2>1. Init => Retaining
    BY DEF Init, Retaining
  <2> QED BY <2>1, NumberedInit
<1>2. Numbered /\ Retaining /\ [Next]_vars => (Numbered /\ Retaining)'
  BY NumberedNext, RetainingNext
<1>3. Numbered /\ Retaining => RetainedAsExpected
  <2>1. SUFFICES ASSUME Numbered, Retaining, outcome = "rolled"
                 PROVE  /\ Len(samples) = ExpectedRetainedSampleCount(query.path, query.steps)
                        /\ Len(samples) <= PathCapacity(query.path, query.steps)
    BY DEF RetainedAsExpected
  <2>2. Len(samples) = KeptUpTo(query.path, query.steps, query.steps)
    BY <2>1 DEF Retaining
  <2>3. query.path \in PathSpec /\ query.steps \in Nat \ {0}
    BY <2>1, QueriesAssumption DEF Numbered
  <2> QED BY <2>2, <2>3, KeptAtEnd
<1> QED BY <1>1, <1>2, <1>3, PTL DEF Spec

-----------------------------------------------------------------------------
(* Folds.                                                                  *)

(* A nonempty set of numbers has a least one.                              *)
LEMMA Least ==
  ASSUME NEW T, T \subseteq Nat, T # {}
  PROVE  \E x \in T : \A y \in T : x <= y
<1> DEFINE R == {p \in Nat \X Nat : p[1] < p[2]}
<1>1. IsWellFoundedOn(R, Nat)
  BY NatLessThanWellFounded, Zenon DEF OpToRel
<1>2. PICK x \in T : \A y \in T : ~(<<y, x>> \in R)
  BY <1>1, WFMin
<1>3. \A y \in T : ~(y < x)
  BY <1>2
<1> QED
  BY <1>3

(* A nonempty finite set of numbers has a greatest one.                    *)
LEMMA Greatest ==
  ASSUME NEW n \in Nat, NEW T, T \subseteq 1..n, T # {}
  PROVE  \E x \in T : \A y \in T : x >= y
<1>1. {n - x : x \in T} \subseteq Nat /\ {n - x : x \in T} # {}
  <2>1. PICK x \in T : TRUE
    OBVIOUS
  <2>2. n - x \in {n - y : y \in T}
    BY <2>1
  <2>3. {n - y : y \in T} \subseteq Nat
    OBVIOUS
  <2> QED BY <2>2, <2>3
<1>2. PICK d \in {n - x : x \in T} : \A e \in {n - x : x \in T} : d <= e
  BY <1>1, Least
<1>3. PICK x \in T : d = n - x
  OBVIOUS
<1>4. ASSUME NEW y \in T PROVE x >= y
  <2>1. d <= n - y
    BY <1>2
  <2> QED BY <1>3, <2>1
<1> QED BY <1>4

(* What it is to take the elements of a set one by one, each time the one  *)
(* that c chooses and with it the step g, beginning with `base`.           *)
FoldsBy(h, S, base, c, g) ==
  \A s \in SUBSET S : h[s] = IF s = {} THEN base ELSE g[<<c[s], h[s \ {c[s]}]>>]

Chooses(c, S) == \A s \in SUBSET S : s # {} => c[s] \in s

StepsWithin(h, S, V, c, g) ==
  \A s \in SUBSET S : s # {} /\ h[s \ {c[s]}] \in V => h[s] = g[<<c[s], h[s \ {c[s]}]>>]

(* There is a function of the subsets that does so, with its values in V.  *)
LEMMA FoldDefined ==
  ASSUME NEW S, IsFiniteSet(S), NEW V, NEW base \in V, NEW c, Chooses(c, S), NEW g \in [S \X V -> V]
  PROVE  \E h \in [SUBSET S -> V] : FoldsBy(h, S, base, c, g)
<1> DEFINE UpTo(k)   == {s \in SUBSET S : Cardinality(s) <= k}
           Folds(h, k) == \A s \in UpTo(k) : h[s] = IF s = {} THEN base ELSE g[<<c[s], h[s \ {c[s]}]>>]
           T == {k \in Nat : ~ \E h \in [SUBSET S -> V] : Folds(h, k)}
<1>1. \A s \in SUBSET S : Cardinality(s) \in Nat /\ Cardinality(s) <= Cardinality(S) /\ IsFiniteSet(s)
  BY FS_Subset, FS_CardinalityType
<1>2. \A s \in SUBSET S : s # {} => /\ c[s] \in S /\ s \ {c[s]} \in SUBSET S
                                    /\ Cardinality(s \ {c[s]}) = Cardinality(s) - 1
  BY <1>1, FS_RemoveElement DEF Chooses
<1>3. \A s \in SUBSET S : Cardinality(s) = 0 => s = {}
  BY <1>1, FS_EmptySet
<1>4. 0 \notin T
  <2>1. [s \in SUBSET S |-> base] \in [SUBSET S -> V]
    OBVIOUS
  <2>2. Folds([s \in SUBSET S |-> base], 0)
    BY <1>1, <1>3
  <2> QED BY <2>1, <2>2
<1>5. ASSUME NEW k \in Nat, k \notin T PROVE k + 1 \notin T
  <2>1. PICK h \in [SUBSET S -> V] : Folds(h, k)
    BY <1>5
  <2> DEFINE w == [s \in SUBSET S |-> IF s = {} THEN base ELSE g[<<c[s], h[s \ {c[s]}]>>]]
  <2>2. w \in [SUBSET S -> V]
    BY <1>2
  <2>3. \A s \in UpTo(k) : w[s] = h[s]
    BY <2>1
  <2>4. ASSUME NEW s \in UpTo(k + 1) PROVE w[s] = IF s = {} THEN base ELSE g[<<c[s], w[s \ {c[s]}]>>]
    <3>1. CASE s = {}
      BY <3>1
    <3>2. CASE s # {}
      <4>1. s \ {c[s]} \in UpTo(k)
        BY <1>1, <1>2, <3>2
      <4>2. w[s \ {c[s]}] = h[s \ {c[s]}]
        BY <2>3, <4>1
      <4>3. w[s] = g[<<c[s], h[s \ {c[s]}]>>]
        BY <3>2
      <4> QED BY <3>2, <4>2, <4>3
    <3> QED BY <3>1, <3>2
  <2>5. Folds(w, k + 1)
    BY <2>4
  <2> QED BY <2>2, <2>5
<1>6. T = {}
  <2>1. SUFFICES ASSUME T # {} PROVE FALSE
    OBVIOUS
  <2>2. PICK k \in T : \A l \in T : k <= l
    BY <2>1, Least
  <2>3. k # 0
    BY <1>4
  <2>4. k - 1 \in Nat /\ (k - 1) + 1 = k /\ ~(k <= k - 1)
    BY <2>3
  <2>5. k - 1 \notin T
    BY <2>2, <2>4
  <2> HIDE DEF T
  <2>6. (k - 1) + 1 \notin T
    BY <1>5, <2>4, <2>5
  <2> QED BY <2>4, <2>6
<1>7. PICK h \in [SUBSET S -> V] : Folds(h, Cardinality(S))
  BY <1>6, <1>1
<1>8. UpTo(Cardinality(S)) = SUBSET S
  BY <1>1
<1> QED BY <1>7, <1>8 DEF FoldsBy

(* What does so has its values in V, also if it is only known that g is    *)
(* the step from values in V.                                              *)
LEMMA FoldTyped ==
  ASSUME NEW S, IsFiniteSet(S), NEW V, NEW base \in V, NEW c, Chooses(c, S), NEW g \in [S \X V -> V], NEW h,
         h[{}] = base, StepsWithin(h, S, V, c, g)
  PROVE  \A s \in SUBSET S : h[s] \in V
<1> DEFINE Bad == {s \in SUBSET S : h[s] \notin V}
           T   == {Cardinality(s) : s \in Bad}
<1>1. \A s \in SUBSET S : Cardinality(s) \in Nat /\ IsFiniteSet(s)
  BY FS_Subset, FS_CardinalityType
<1>2. \A s \in SUBSET S : s # {} => /\ c[s] \in S /\ s \ {c[s]} \in SUBSET S
                                    /\ Cardinality(s \ {c[s]}) = Cardinality(s) - 1
  BY <1>1, FS_RemoveElement DEF Chooses
<1>3. SUFFICES ASSUME Bad # {} PROVE FALSE
  OBVIOUS
<1>4. T \subseteq Nat /\ T # {}
  BY <1>1, <1>3
<1>5. PICK k \in T : \A l \in T : k <= l
  BY <1>4, Least
<1>6. PICK s \in Bad : k = Cardinality(s)
  OBVIOUS
<1>7. s # {} /\ s \in SUBSET S /\ h[s] \notin V
  BY <1>6
<1>8. h[s \ {c[s]}] \in V
  <2>1. SUFFICES ASSUME h[s \ {c[s]}] \notin V PROVE FALSE
    OBVIOUS
  <2>2. s \ {c[s]} \in Bad
    BY <1>2, <1>7, <2>1
  <2>3. Cardinality(s \ {c[s]}) \in T
    BY <2>2
  <2>4. k <= Cardinality(s \ {c[s]})
    BY <1>5, <2>3
  <2> QED BY <1>1, <1>2, <1>6, <1>7, <2>4
<1>9. h[s] = g[<<c[s], h[s \ {c[s]}]>>] /\ <<c[s], h[s \ {c[s]}]>> \in S \X V
  BY <1>2, <1>7, <1>8 DEF StepsWithin
<1> QED BY <1>7, <1>9

(* What effects add up to is a number.                                     *)
LEMMA AddedIsInt ==
  ASSUME NEW S, IsFiniteSet(S), NEW frozen, \A x \in S : x.effect.value[frozen] \in Int
  PROVE  Added(S, frozen) \in Int
<1> DEFINE c == [s \in SUBSET S |-> CHOOSE x \in s : TRUE]
           g == [z \in S \X Int |-> z[1].effect.value[frozen] + z[2]]
           Is(a) == a = [s \in SUBSET S |->
                           IF s = {} THEN 0
                           ELSE (CHOOSE x \in s : TRUE).effect.value[frozen] + a[s \ {CHOOSE x \in s : TRUE}]]
<1>1. Chooses(c, S)
  BY DEF Chooses
<1>2. g \in [S \X Int -> Int]
  OBVIOUS
<1>3. PICK f \in [SUBSET S -> Int] : FoldsBy(f, S, 0, c, g)
  <2>1. 0 \in Int
    OBVIOUS
  <2> HIDE DEF c, g
  <2> QED BY <1>1, <1>2, <2>1, FoldDefined, Zenon
<1>4. Is(f)
  <2>1. ASSUME NEW s \in SUBSET S, s # {}
        PROVE  f[s] = (CHOOSE x \in s : TRUE).effect.value[frozen] + f[s \ {CHOOSE x \in s : TRUE}]
    <3>1. c[s] = (CHOOSE x \in s : TRUE) /\ c[s] \in s /\ s \ {c[s]} \in SUBSET S
      BY <2>1
    <3>2. f[s \ {c[s]}] \in Int /\ <<c[s], f[s \ {c[s]}]>> \in S \X Int
      BY <1>3, <3>1
    <3>3. f[s] = g[<<c[s], f[s \ {c[s]}]>>]
      BY <1>3, <2>1, Zenon DEF FoldsBy
    <3>4. g[<<c[s], f[s \ {c[s]}]>>] = c[s].effect.value[frozen] + f[s \ {c[s]}]
      BY <3>2
    <3> QED BY <3>1, <3>3, <3>4
  <2>2. f[{}] = 0
    BY <1>3, Zenon DEF FoldsBy
  <2> QED BY <1>3, <2>1, <2>2
<1>5. PICK h : h = (CHOOSE a : Is(a)) /\ Is(h)
  <2> HIDE DEF Is
  <2>1. Is(CHOOSE a : Is(a))
    BY <1>4
  <2> QED BY <2>1
<1>6. Added(S, frozen) = h[S]
  BY <1>5, Zenon DEF Added, MapThenSumSet, MapThenFoldSet
<1>7. h[{}] = 0
  BY <1>5
<1>8. ASSUME NEW s \in SUBSET S, s # {}, h[s \ {c[s]}] \in Int
      PROVE  h[s] = g[<<c[s], h[s \ {c[s]}]>>]
  <2>1. c[s] = (CHOOSE x \in s : TRUE) /\ c[s] \in S
    BY <1>8
  <2>2. h[s] = (CHOOSE x \in s : TRUE).effect.value[frozen] + h[s \ {CHOOSE x \in s : TRUE}]
    BY <1>5, <1>8
  <2>3. g[<<c[s], h[s \ {c[s]}]>>] = c[s].effect.value[frozen] + h[s \ {c[s]}]
    BY <1>8, <2>1
  <2> QED BY <2>1, <2>2, <2>3
<1>9. h[S] \in Int
  <2>1. StepsWithin(h, S, Int, c, g)
    BY <1>8 DEF StepsWithin
  <2>3. 0 \in Int
    OBVIOUS
  <2> HIDE DEF c, g, Is
  <2>2. \A s \in SUBSET S : h[s] \in Int
    BY <1>1, <1>2, <1>7, <2>1, <2>3, FoldTyped, Zenon
  <2> QED BY <2>2
<1> QED BY <1>6, <1>9

(* What rates add up to is a number.                                       *)
LEMMA RatesIsInt ==
  ASSUME NEW S, IsFiniteSet(S), NEW frozen, \A x \in S : x.rate[frozen] \in Int
  PROVE  Rates(S, frozen) \in Int
<1> DEFINE c == [s \in SUBSET S |-> CHOOSE x \in s : TRUE]
           g == [z \in S \X Int |-> z[1].rate[frozen] + z[2]]
           Is(a) == a = [s \in SUBSET S |->
                           IF s = {} THEN 0
                           ELSE (CHOOSE x \in s : TRUE).rate[frozen] + a[s \ {CHOOSE x \in s : TRUE}]]
<1>1. Chooses(c, S)
  BY DEF Chooses
<1>2. g \in [S \X Int -> Int]
  OBVIOUS
<1>3. PICK f \in [SUBSET S -> Int] : FoldsBy(f, S, 0, c, g)
  <2>1. 0 \in Int
    OBVIOUS
  <2> HIDE DEF c, g
  <2> QED BY <1>1, <1>2, <2>1, FoldDefined, Zenon
<1>4. Is(f)
  <2>1. ASSUME NEW s \in SUBSET S, s # {}
        PROVE  f[s] = (CHOOSE x \in s : TRUE).rate[frozen] + f[s \ {CHOOSE x \in s : TRUE}]
    <3>1. c[s] = (CHOOSE x \in s : TRUE) /\ c[s] \in s /\ s \ {c[s]} \in SUBSET S
      BY <2>1
    <3>2. f[s \ {c[s]}] \in Int /\ <<c[s], f[s \ {c[s]}]>> \in S \X Int
      BY <1>3, <3>1
    <3>3. f[s] = g[<<c[s], f[s \ {c[s]}]>>]
      BY <1>3, <2>1, Zenon DEF FoldsBy
    <3>4. g[<<c[s], f[s \ {c[s]}]>>] = c[s].rate[frozen] + f[s \ {c[s]}]
      BY <3>2
    <3> QED BY <3>1, <3>3, <3>4
  <2>2. f[{}] = 0
    BY <1>3, Zenon DEF FoldsBy
  <2> QED BY <1>3, <2>1, <2>2
<1>5. PICK h : h = (CHOOSE a : Is(a)) /\ Is(h)
  <2> HIDE DEF Is
  <2>1. Is(CHOOSE a : Is(a))
    BY <1>4
  <2> QED BY <2>1
<1>6. Rates(S, frozen) = h[S]
  BY <1>5, Zenon DEF Rates, MapThenSumSet, MapThenFoldSet
<1>7. h[{}] = 0
  BY <1>5
<1>8. ASSUME NEW s \in SUBSET S, s # {}, h[s \ {c[s]}] \in Int
      PROVE  h[s] = g[<<c[s], h[s \ {c[s]}]>>]
  <2>1. c[s] = (CHOOSE x \in s : TRUE) /\ c[s] \in S
    BY <1>8
  <2>2. h[s] = (CHOOSE x \in s : TRUE).rate[frozen] + h[s \ {CHOOSE x \in s : TRUE}]
    BY <1>5, <1>8
  <2>3. g[<<c[s], h[s \ {c[s]}]>>] = c[s].rate[frozen] + h[s \ {c[s]}]
    BY <1>8, <2>1
  <2> QED BY <2>1, <2>2, <2>3
<1>9. h[S] \in Int
  <2>1. StepsWithin(h, S, Int, c, g)
    BY <1>8 DEF StepsWithin
  <2>3. 0 \in Int
    OBVIOUS
  <2> HIDE DEF c, g, Is
  <2>2. \A s \in SUBSET S : h[s] \in Int
    BY <1>1, <1>2, <1>7, <2>1, <2>3, FoldTyped, Zenon
  <2> QED BY <2>2
<1> QED BY <1>6, <1>9

(* What draws add up to is a number.                                       *)
LEMMA DrawnIsInt ==
  ASSUME NEW S, IsFiniteSet(S), NEW noise, \A x \in S : noise[x] \in Int
  PROVE  Drawn(S, noise) \in Int
<1> DEFINE c == [s \in SUBSET S |-> CHOOSE x \in s : TRUE]
           g == [z \in S \X Int |-> noise[z[1]] + z[2]]
           Is(a) == a = [s \in SUBSET S |->
                           IF s = {} THEN 0
                           ELSE noise[CHOOSE x \in s : TRUE] + a[s \ {CHOOSE x \in s : TRUE}]]
<1>1. Chooses(c, S)
  BY DEF Chooses
<1>2. g \in [S \X Int -> Int]
  OBVIOUS
<1>3. PICK f \in [SUBSET S -> Int] : FoldsBy(f, S, 0, c, g)
  <2>1. 0 \in Int
    OBVIOUS
  <2> HIDE DEF c, g
  <2> QED BY <1>1, <1>2, <2>1, FoldDefined, Zenon
<1>4. Is(f)
  <2>1. ASSUME NEW s \in SUBSET S, s # {}
        PROVE  f[s] = noise[CHOOSE x \in s : TRUE] + f[s \ {CHOOSE x \in s : TRUE}]
    <3>1. c[s] = (CHOOSE x \in s : TRUE) /\ c[s] \in s /\ s \ {c[s]} \in SUBSET S
      BY <2>1
    <3>2. f[s \ {c[s]}] \in Int /\ <<c[s], f[s \ {c[s]}]>> \in S \X Int
      BY <1>3, <3>1
    <3>3. f[s] = g[<<c[s], f[s \ {c[s]}]>>]
      BY <1>3, <2>1, Zenon DEF FoldsBy
    <3>4. g[<<c[s], f[s \ {c[s]}]>>] = noise[c[s]] + f[s \ {c[s]}]
      BY <3>2
    <3> QED BY <3>1, <3>3, <3>4
  <2>2. f[{}] = 0
    BY <1>3, Zenon DEF FoldsBy
  <2> QED BY <1>3, <2>1, <2>2
<1>5. PICK h : h = (CHOOSE a : Is(a)) /\ Is(h)
  <2> HIDE DEF Is
  <2>1. Is(CHOOSE a : Is(a))
    BY <1>4
  <2> QED BY <2>1
<1>6. Drawn(S, noise) = h[S]
  BY <1>5, Zenon DEF Drawn, MapThenSumSet, MapThenFoldSet
<1>7. h[{}] = 0
  BY <1>5
<1>8. ASSUME NEW s \in SUBSET S, s # {}, h[s \ {c[s]}] \in Int
      PROVE  h[s] = g[<<c[s], h[s \ {c[s]}]>>]
  <2>1. c[s] = (CHOOSE x \in s : TRUE) /\ c[s] \in S
    BY <1>8
  <2>2. h[s] = noise[CHOOSE x \in s : TRUE] + h[s \ {CHOOSE x \in s : TRUE}]
    BY <1>5, <1>8
  <2>3. g[<<c[s], h[s \ {c[s]}]>>] = noise[c[s]] + h[s \ {c[s]}]
    BY <1>8, <2>1
  <2> QED BY <2>1, <2>2, <2>3
<1>9. h[S] \in Int
  <2>1. StepsWithin(h, S, Int, c, g)
    BY <1>8 DEF StepsWithin
  <2>3. 0 \in Int
    OBVIOUS
  <2> HIDE DEF c, g, Is
  <2>2. \A s \in SUBSET S : h[s] \in Int
    BY <1>1, <1>2, <1>7, <2>1, <2>3, FoldTyped, Zenon
  <2> QED BY <2>2
<1> QED BY <1>6, <1>9

-----------------------------------------------------------------------------
(* Running the exact laws.                                                 *)

(* A clamped number is a value.                                            *)
LEMMA ClampIsValue ==
  ASSUME NEW v \in Int
  PROVE  Clamp(v) \in 0..Top
BY ValuesAssumption DEF Clamp

(* The order of a model's exact laws holds each of them once.              *)
LEMMA OrderFacts ==
  ASSUME model \in DOMAIN Models
  PROVE  /\ Cardinality(compiled.exact) \in Nat
         /\ DerivedOrder(compiled) \in [1..Cardinality(compiled.exact) -> compiled.exact]
         /\ \A law \in compiled.exact : \E k \in 1..Cardinality(compiled.exact) : DerivedOrder(compiled)[k] = law
         /\ \A i, j \in 1..Cardinality(compiled.exact) :
              i # j => DerivedOrder(compiled)[i].target # DerivedOrder(compiled)[j].target
         /\ Topological(DerivedOrder(compiled))
<1> DEFINE S == compiled.exact
           n == Cardinality(S)
           order == DerivedOrder(compiled)
<1>1. IsFiniteSet(S) /\ (\A k, l \in S : k.target = l.target => k = l) /\ \E o \in SetToSeqs(S) : Topological(o)
  BY ModelsAssumption DEF compiled
<1>2. n \in Nat
  BY <1>1, FS_CardinalityType
<1>3. order \in SetToSeqs(S) /\ Topological(order)
  BY <1>1 DEF DerivedOrder
<1>4. order \in [1..n -> S] /\ \A i, j \in 1..n : i # j => order[i] # order[j]
  BY <1>3 DEF SetToSeqs
<1>5. \A law \in S : \E k \in 1..n : order[k] = law
  <2>1. order \in Injection(1..n, S)
    BY <1>4, Zenon DEF Injection, IsInjective
  <2> HIDE DEF order, n
  <2>2. Cardinality(1..n) = n /\ IsFiniteSet(1..n)
    BY <1>2, FS_Interval
  <2>3. order \in Surjection(1..n, S)
    BY <2>1, <2>2, <1>1, FS_Injection DEF n
  <2> QED BY <2>3, Zenon DEF Surjection
<1>6. \A i, j \in 1..n : i # j => order[i].target # order[j].target
  <2> HIDE DEF order, n, S
  <2> QED BY <1>1, <1>4
<1> QED BY <1>2, <1>3, <1>4, <1>5, <1>6

(* A law in force maps states to states.                                   *)
LEMMA DerivedTyped ==
  ASSUME model \in DOMAIN Models, NEW x \in States, NEW law \in compiled.exact, NEW ids
  PROVE  Derived(x, law, ids) \in States
<1>1. law.target \in Processes /\ law.value \in [States -> Int]
  BY ModelsAssumption, Zenon DEF compiled, Expressions
<1>2. Clamp(law.value[x]) \in 0..Top
  BY <1>1, ClampIsValue
<1>3. CASE law.id \in ids /\ Applies(law)
  <2>1. Derived(x, law, ids) = [x EXCEPT ![law.target] = Clamp(law.value[x])]
    BY <1>3 DEF Derived
  <2> QED BY <1>1, <1>2, <2>1 DEF States
<1>4. CASE ~(law.id \in ids /\ Applies(law))
  BY <1>4 DEF Derived
<1> QED BY <1>3, <1>4

(* Closing a state runs through one state per exact law, in their order.   *)
LEMMA CloseRuns ==
  ASSUME model \in DOMAIN Models, NEW s \in States, NEW ids
  PROVE  \E r \in [0..Cardinality(compiled.exact) -> States] :
           /\ r[0] = s /\ r[Cardinality(compiled.exact)] = Close(s, ids)
           /\ \A k \in 1..Cardinality(compiled.exact) : r[k] = Derived(r[k - 1], DerivedOrder(compiled)[k], ids)
<1> DEFINE n == Cardinality(compiled.exact)
           order == DerivedOrder(compiled)
           D == DOMAIN order
           c == [t \in SUBSET D |-> Max(t)]
           g == [z \in D \X States |-> Derived(z[2], order[z[1]], ids)]
           Is(a) == a = [t \in SUBSET D |-> IF t = {} THEN s ELSE Derived(a[t \ {Max(t)}], order[Max(t)], ids)]
<1>1. n \in Nat /\ order \in [1..n -> compiled.exact] /\ D = 1..n
  BY OrderFacts
<1>2. \A t \in SUBSET D : t # {} => Max(t) \in t
  <2>1. SUFFICES ASSUME NEW t \in SUBSET D, t # {} PROVE Max(t) \in t
    OBVIOUS
  <2>2. \E x \in t : \A y \in t : x >= y
    BY <1>1, <2>1, Greatest
  <2> QED BY <2>2 DEF Max
<1>3. Chooses(c, D)
  BY <1>2 DEF Chooses
<1>4. g \in [D \X States -> States]
  <2>1. ASSUME NEW z \in D \X States PROVE Derived(z[2], order[z[1]], ids) \in States
    <3>1. z[2] \in States /\ order[z[1]] \in compiled.exact
      BY <1>1
    <3> QED BY <3>1, DerivedTyped
  <2> QED BY <2>1
<1>5. IsFiniteSet(D)
  BY <1>1, FS_Interval
<1>6. PICK f \in [SUBSET D -> States] : FoldsBy(f, D, s, c, g)
  <2> HIDE DEF c, g, D
  <2> QED BY <1>3, <1>4, <1>5, FoldDefined, Zenon
<1>7. Is(f)
  <2>1. ASSUME NEW t \in SUBSET D, t # {}
        PROVE  f[t] = Derived(f[t \ {Max(t)}], order[Max(t)], ids)
    <3>1. c[t] = Max(t) /\ c[t] \in D /\ t \ {c[t]} \in SUBSET D
      BY <1>2, <2>1
    <3>2. f[t \ {c[t]}] \in States /\ <<c[t], f[t \ {c[t]}]>> \in D \X States
      BY <1>6, <3>1
    <3>3. f[t] = g[<<c[t], f[t \ {c[t]}]>>]
      BY <1>6, <2>1, Zenon DEF FoldsBy
    <3>4. g[<<c[t], f[t \ {c[t]}]>>] = Derived(f[t \ {c[t]}], order[c[t]], ids)
      BY <3>2
    <3> QED BY <3>1, <3>3, <3>4
  <2>2. f[{}] = s
    BY <1>6, Zenon DEF FoldsBy
  <2>3. f = [t \in SUBSET D |-> f[t]]
    BY <1>6
  <2>4. \A t \in SUBSET D :
          f[t] = IF t = {} THEN s ELSE Derived(f[t \ {Max(t)}], order[Max(t)], ids)
    BY <2>1, <2>2
  <2> HIDE DEF D
  <2> QED BY <2>3, <2>4, Zenon
<1>8. PICK h : h = (CHOOSE a : Is(a)) /\ Is(h)
  <2> HIDE DEF Is
  <2>1. Is(CHOOSE a : Is(a))
    BY <1>7
  <2> QED BY <2>1
<1>9. Close(s, ids) = h[D]
  BY <1>8, Zenon DEF Close, FoldLeft, MapThenFoldSet
<1>10. h[{}] = s /\ \A t \in SUBSET D : t # {} => h[t] = Derived(h[t \ {Max(t)}], order[Max(t)], ids)
  BY <1>8
<1>11. StepsWithin(h, D, States, c, g)
  <2>1. SUFFICES ASSUME NEW t \in SUBSET D, t # {}, h[t \ {c[t]}] \in States
                 PROVE  h[t] = g[<<c[t], h[t \ {c[t]}]>>]
    BY DEF StepsWithin
  <2>2. c[t] = Max(t) /\ c[t] \in D
    BY <1>2, <2>1
  <2>3. g[<<c[t], h[t \ {c[t]}]>>] = Derived(h[t \ {c[t]}], order[c[t]], ids)
    BY <2>1, <2>2
  <2> QED BY <1>10, <2>1, <2>2, <2>3
<1>12. \A t \in SUBSET D : h[t] \in States
  <2>1. h[{}] = s
    BY <1>10
  <2> HIDE DEF c, g, Is, D
  <2> QED BY <1>3, <1>4, <1>5, <1>11, <2>1, FoldTyped, Zenon
<1> DEFINE r == [k \in 0..n |-> h[1..k]]
<1>13. r \in [0..n -> States]
  <2>1. \A k \in 0..n : 1..k \in SUBSET D
    BY <1>1
  <2> QED BY <1>12, <2>1
<1>14. r[0] = s /\ r[n] = Close(s, ids)
  <2>1. 1..0 = {} /\ 0 \in 0..n /\ n \in 0..n
    BY <1>1
  <2>2. r[0] = h[{}] /\ r[n] = h[D]
    BY <1>1, <2>1
  <2> HIDE DEF r, D
  <2> QED BY <1>9, <1>10, <2>2
<1>15. ASSUME NEW k \in 1..n PROVE r[k] = Derived(r[k - 1], order[k], ids)
  <2>1. 1..k \in SUBSET D /\ 1..k # {} /\ (1..k) \ {k} = 1..(k - 1) /\ k \in 0..n /\ k - 1 \in 0..n
    <3>1. k \in Nat /\ k <= n /\ 1 <= k /\ k \in 1..k
      BY <1>1
    <3>2. 1..k \subseteq D
      BY <1>1, <3>1
    <3>3. (1..k) \ {k} = 1..(k - 1)
      BY <3>1
    <3> QED BY <1>1, <3>1, <3>2, <3>3
  <2>2. Max(1..k) = k
    <3>1. Max(1..k) \in 1..k
      BY <1>2, <2>1
    <3>2. k \in 1..k /\ \A y \in 1..k : k >= y
      OBVIOUS
    <3>3. \A y \in 1..k : Max(1..k) >= y
      BY <3>2, Zenon DEF Max
    <3> QED BY <3>1, <3>2, <3>3
  <2>3. h[1..k] = Derived(h[1..(k - 1)], order[k], ids)
    BY <1>10, <2>1, <2>2
  <2> QED BY <2>1, <2>3
<1> HIDE DEF r
<1> QED BY <1>13, <1>14, <1>15

-----------------------------------------------------------------------------
(* Values stay in bounds.                                                  *)

(* The image of a finite set is finite.                                    *)
LEMMA ImageIsFinite ==
  ASSUME NEW f, IsFiniteSet(DOMAIN f)
  PROVE  IsFiniteSet({f[x] : x \in DOMAIN f})
<1> DEFINE T == {f[x] : x \in DOMAIN f}
           g == [x \in DOMAIN f |-> f[x]]
<1>1. g \in Surjection(DOMAIN f, T)
  BY Zenon DEF Surjection
<1> HIDE DEF g, T
<1>2. IsFiniteSet(T)
  BY <1>1, FS_Surjection
<1> QED BY <1>2 DEF T

(* Effects that may land: finitely many, with expressions for values.      *)
Lands(effects) == IsFiniteSet(effects) /\ \A e \in effects : e.effect.value \in Expressions

(* What lands on a state leaves a state, and what no effect targets stays. *)
LEMMA LandingTyped ==
  ASSUME NEW effects, Lands(effects), NEW frozen \in States, NEW base \in States
  PROVE  /\ Landing(effects, frozen, base) \in States
         /\ \A p \in Processes : (\A e \in effects : e.effect.target # p) => Landing(effects, frozen, base)[p] = base[p]
<1>1. \A e \in effects : e.effect.value[frozen] \in Int
  BY DEF Lands, Expressions
<1>2. ASSUME NEW p \in Processes PROVE Landing(effects, frozen, base)[p] \in 0..Top
  <2>1. base[p] \in 0..Top /\ base[p] \in Int
    BY ValuesAssumption DEF States
  <2>2. CASE Sets(effects, p) \cup Adds(effects, p) = {}
    BY <2>1, <2>2 DEF Landing
  <2>3. CASE Sets(effects, p) \cup Adds(effects, p) # {}
    <3>1. Adds(effects, p) \subseteq effects /\ IsFiniteSet(Adds(effects, p))
      <4>1. Adds(effects, p) \in SUBSET effects
        BY DEF Adds
      <4> QED BY <4>1, FS_Subset DEF Lands
    <3>2. Added(Adds(effects, p), frozen) \in Int
      BY <1>1, <3>1, AddedIsInt
    <3>3. PICK start : start = IF Sets(effects, p) = {} THEN base[p]
                               ELSE (CHOOSE e \in Sets(effects, p) : TRUE).effect.value[frozen]
      OBVIOUS
    <3>4. start \in Int
      <4>1. CASE Sets(effects, p) = {}
        BY <2>1, <3>3, <4>1
      <4>2. CASE Sets(effects, p) # {}
        <5>1. (CHOOSE e \in Sets(effects, p) : TRUE) \in effects
          BY <4>2 DEF Sets
        <5> QED BY <1>1, <3>3, <4>2, <5>1
      <4> QED BY <4>1, <4>2
    <3>5. Landing(effects, frozen, base)[p] = Clamp(start + Added(Adds(effects, p), frozen))
      BY <2>3, <3>3 DEF Landing
    <3>6. start + Added(Adds(effects, p), frozen) \in Int
      BY <3>2, <3>4
    <3> QED BY <3>5, <3>6, ClampIsValue
  <2> QED BY <2>2, <2>3
<1>3. Landing(effects, frozen, base) \in States
  <2>1. Landing(effects, frozen, base) = [p \in Processes |-> Landing(effects, frozen, base)[p]]
    BY DEF Landing
  <2> QED BY <1>2, <2>1 DEF States
<1>4. ASSUME NEW p \in Processes, \A e \in effects : e.effect.target # p
      PROVE  Landing(effects, frozen, base)[p] = base[p]
  <2>1. Sets(effects, p) \cup Adds(effects, p) = {}
    BY <1>4 DEF Sets, Adds
  <2> QED BY <2>1 DEF Landing
<1> QED BY <1>3, <1>4

(* Interventions land.                                                     *)
LEMMA InterventionsLandable ==
  ASSUME query \in Queries, NEW T \in SUBSET query.interventions
  PROVE  Lands(EffectsOf(T))
<1>1. IsFiniteSet(query.interventions) /\ \A i \in query.interventions : i.effect.value \in Expressions
  BY QueriesAssumption
<1> DEFINE f == [i \in T |-> [source |-> i.id, effect |-> i.effect]]
<1>2. IsFiniteSet(DOMAIN f)
  BY <1>1, FS_Subset
<1>3. IsFiniteSet({f[i] : i \in DOMAIN f})
  BY <1>2, ImageIsFinite
<1>4. EffectsOf(T) = {f[i] : i \in DOMAIN f}
  BY DEF EffectsOf
<1>5. \A e \in EffectsOf(T) : e.effect.value \in Expressions
  BY <1>1 DEF EffectsOf
<1> QED BY <1>3, <1>4, <1>5 DEF Lands

(* All that is done in a step lands.                                       *)
LEMMA EffectsLandable ==
  ASSUME query \in Queries, model \in DOMAIN Models, NEW fired \in SUBSET compiled.occurrence
  PROVE  Lands(Effects(fired))
<1>1. /\ IsFiniteSet(compiled.occurrence)
      /\ \A l \in compiled.occurrence : IsFiniteSet(l.effects) /\ \A e \in l.effects : e.value \in Expressions
  BY ModelsAssumption DEF compiled
<1>2. IsFiniteSet(fired)
  BY <1>1, FS_Subset
<1> DEFINE by == [l \in fired |-> {[source |-> l.id, effect |-> e] : e \in l.effects}]
           U == {by[l] : l \in DOMAIN by}
<1>3. IsFiniteSet(U)
  BY <1>2, ImageIsFinite
<1>4. ASSUME NEW l \in fired PROVE IsFiniteSet({[source |-> l.id, effect |-> e] : e \in l.effects})
  <2> DEFINE f == [e \in l.effects |-> [source |-> l.id, effect |-> e]]
  <2>1. IsFiniteSet(DOMAIN f)
    BY <1>1
  <2>2. IsFiniteSet({f[e] : e \in DOMAIN f})
    BY <2>1, ImageIsFinite
  <2>3. {f[e] : e \in DOMAIN f} = {[source |-> l.id, effect |-> e] : e \in l.effects}
    OBVIOUS
  <2> QED BY <2>2, <2>3
<1>5. \A V \in U : IsFiniteSet(V)
  BY <1>4
<1>6. IsFiniteSet(UNION U)
  <2> HIDE DEF U
  <2> QED BY <1>3, <1>5, FS_UNION
<1>7. Lands(EffectsOf(Due))
  BY InterventionsLandable DEF Due, Scheduled
<1>8. UNION U = UNION {{[source |-> l.id, effect |-> e] : e \in l.effects} : l \in fired}
  <2>1. U = {{[source |-> l.id, effect |-> e] : e \in l.effects} : l \in fired}
    OBVIOUS
  <2> QED BY <2>1
<1>9. Effects(fired) = (UNION U) \cup EffectsOf(Due)
  BY <1>8, Zenon DEF Effects
<1>10. IsFiniteSet(Effects(fired))
  <2> HIDE DEF U
  <2> QED BY <1>6, <1>7, <1>9, FS_Union DEF Lands
<1>11. ASSUME NEW e \in Effects(fired) PROVE e.effect.value \in Expressions
  <2>1. CASE e \in EffectsOf(Due)
    BY <1>7, <2>1 DEF Lands
  <2>2. CASE e \notin EffectsOf(Due)
    <3>1. PICK l \in fired : \E d \in l.effects : e = [source |-> l.id, effect |-> d]
      BY <1>11, <2>2 DEF Effects
    <3> QED BY <1>1, <3>1
  <2> QED BY <2>1, <2>2
<1> QED BY <1>10, <1>11 DEF Lands

(* Evolution leaves a state, and what no law evolves stays.                *)
LEMMA EvolvedTyped ==
  ASSUME query \in Queries, model \in DOMAIN Models, state \in States, NEW ids,
         NEW noise \in [{l \in compiled.evolution : l.noisy} -> Noise]
  PROVE  /\ Evolved(ids, noise) \in States
         /\ \A p \in Processes : (\A l \in compiled.evolution : l.target # p) => Evolved(ids, noise)[p] = state[p]
<1> DEFINE On(p) == {l \in compiled.evolution : l.id \in ids /\ l.target = p}
<1>1. IsFiniteSet(compiled.evolution) /\ \A l \in compiled.evolution : l.rate[state] \in Int
  BY ModelsAssumption, Zenon DEF compiled, Expressions
<1>2. ASSUME NEW p \in Processes PROVE Evolved(ids, noise)[p] \in 0..Top
  <2>1. state[p] \in 0..Top /\ state[p] \in Int
    BY ValuesAssumption DEF States
  <2>2. CASE On(p) = {}
    BY <2>1, <2>2 DEF Evolved
  <2>3. CASE On(p) # {}
    <3>1. On(p) \in SUBSET compiled.evolution /\ {l \in On(p) : l.noisy} \in SUBSET compiled.evolution
      OBVIOUS
    <3>2. IsFiniteSet(On(p)) /\ IsFiniteSet({l \in On(p) : l.noisy})
      <4> HIDE DEF On
      <4> QED BY <1>1, <3>1, FS_Subset
    <3>3. \A l \in On(p) : l.rate[state] \in Int
      BY <1>1
    <3>4. Rates(On(p), state) \in Int
      <4> HIDE DEF On
      <4> QED BY <3>2, <3>3, RatesIsInt
    <3>5. \A l \in {k \in On(p) : k.noisy} : noise[l] \in Int
      BY ValuesAssumption
    <3>6. Drawn({l \in On(p) : l.noisy}, noise) \in Int
      <4> HIDE DEF On
      <4> QED BY <3>2, <3>5, DrawnIsInt
    <3>7. Sign(query) * Rates(On(p), state) \in Int
      <4>1. Sign(query) = 1 \/ Sign(query) = -1
        BY DEF Sign
      <4> HIDE DEF On
      <4> QED BY <3>4, <4>1
    <3>8. state[p] + Sign(query) * Rates(On(p), state) + Drawn({l \in On(p) : l.noisy}, noise) \in Int
      <4> HIDE DEF On
      <4> QED BY <2>1, <3>6, <3>7
    <3>9. Evolved(ids, noise)[p]
            = Clamp(state[p] + Sign(query) * Rates(On(p), state) + Drawn({l \in On(p) : l.noisy}, noise))
      BY <2>3, Zenon DEF Evolved
    <3> QED BY <3>8, <3>9, ClampIsValue
  <2> QED BY <2>2, <2>3
<1>3. Evolved(ids, noise) \in States
  <2>1. Evolved(ids, noise) = [p \in Processes |-> Evolved(ids, noise)[p]]
    BY DEF Evolved
  <2> QED BY <1>2, <2>1 DEF States
<1>4. ASSUME NEW p \in Processes, \A l \in compiled.evolution : l.target # p
      PROVE  Evolved(ids, noise)[p] = state[p]
  <2>1. {l \in compiled.evolution : l.id \in ids /\ l.target = p} = {}
    BY <1>4
  <2> QED BY <2>1, Zenon DEF Evolved
<1> QED BY <1>3, <1>4

(* Observation leaves a state.                                             *)
LEMMA ObserveTyped ==
  ASSUME query \in Queries, NEW s \in States
  PROVE  Observe(s) \in States
<1>1. \A o \in query.observations : o.value \in 0..Top
  BY QueriesAssumption
<1>2. ASSUME NEW p \in Processes PROVE Observe(s)[p] \in 0..Top
  <2>1. CASE \E o \in DueObservations : o.target = p
    <3>1. PICK d : d = (CHOOSE o \in DueObservations : o.target = p)
      OBVIOUS
    <3>2. d \in query.observations
      BY <2>1, <3>1 DEF DueObservations
    <3>3. Observe(s)[p] = d.value
      BY <2>1, <3>1, Zenon DEF Observe
    <3> QED BY <1>1, <3>2, <3>3
  <2>2. CASE ~\E o \in DueObservations : o.target = p
    <3>1. Observe(s)[p] = s[p]
      BY <2>2, Zenon DEF Observe
    <3> QED BY <3>1 DEF States
  <2> QED BY <2>1, <2>2
<1>3. Observe(s) = [p \in Processes |-> Observe(s)[p]]
  BY Zenon DEF Observe
<1> QED BY <1>2, <1>3, Zenon DEF States

(* Closing leaves a state, and what no law derives stays.                  *)
LEMMA CloseTyped ==
  ASSUME model \in DOMAIN Models, NEW s \in States, NEW ids
  PROVE  /\ Close(s, ids) \in States
         /\ \A p \in Processes : (\A l \in compiled.exact : l.target # p) => Close(s, ids)[p] = s[p]
<1> DEFINE n == Cardinality(compiled.exact)
           order == DerivedOrder(compiled)
<1>1. n \in Nat /\ order \in [1..n -> compiled.exact]
  BY OrderFacts
<1>2. PICK r \in [0..n -> States] :
        /\ r[0] = s /\ r[n] = Close(s, ids)
        /\ \A k \in 1..n : r[k] = Derived(r[k - 1], order[k], ids)
  BY CloseRuns
<1>3. Close(s, ids) \in States
  BY <1>1, <1>2
<1>4. ASSUME NEW p \in Processes, \A l \in compiled.exact : l.target # p
      PROVE  Close(s, ids)[p] = s[p]
  <2> DEFINE T == {k \in 0..n : r[k][p] # s[p]}
  <2>1. SUFFICES ASSUME T # {} PROVE FALSE
    BY <1>1, <1>2
  <2>2. PICK k \in T : \A l \in T : k <= l
    <3>1. T \subseteq Nat
      BY <1>1
    <3> HIDE DEF T
    <3> QED BY <2>1, <3>1, Least
  <2>3. k \in 1..n /\ k - 1 \in 0..n /\ k - 1 \notin T
    BY <1>1, <1>2, <2>2
  <2>4. r[k - 1][p] = s[p] /\ r[k - 1] \in States
    BY <1>2, <2>3
  <2>5. order[k].target # p
    BY <1>1, <1>4, <2>3
  <2>6. r[k] = Derived(r[k - 1], order[k], ids)
    BY <1>2, <2>3
  <2>7. Derived(r[k - 1], order[k], ids)[p] = r[k - 1][p]
    <3> HIDE DEF order
    <3> QED BY <2>4, <2>5 DEF Derived, States
  <2>8. r[k][p] # s[p]
    BY <2>2
  <2> QED BY <2>4, <2>6, <2>7, <2>8
<1> QED BY <1>3, <1>4

-----------------------------------------------------------------------------
(* The values of a roll.                                                   *)

(* What is only observed and written by no law.                            *)
Carried(p) == p \in Observed /\ ~Written(compiled, p)

(* The values of a roll are in bounds, its query was accepted, and no law  *)
(* is active before the first step.                                        *)
Valued ==
  /\ Numbered
  /\ Accepted(compiled, query)
  /\ state \in States
  /\ outcome = "asked" => active = {} /\ state = head.state

(* What no intervention and no law writes stays through a landing, an      *)
(* evolution and a closing.                                                *)
LEMMA CarriedIsUntouched ==
  ASSUME Valued, NEW p, Carried(p)
  PROVE  /\ p \in Processes
         /\ \A T \in SUBSET query.interventions : \A e \in EffectsOf(T) : e.effect.target # p
         /\ \A fired \in SUBSET compiled.occurrence : \A e \in Effects(fired) : e.effect.target # p
         /\ \A l \in compiled.evolution \cup compiled.exact : l.target # p
<1>1. p \in Processes
  BY ValuesAssumption DEF Carried
<1>2. \A i \in query.interventions : i.effect.target # p
  BY DEF Valued, Accepted, Carried
<1>3. \A T \in SUBSET query.interventions : \A e \in EffectsOf(T) : e.effect.target # p
  BY <1>2 DEF EffectsOf
<1>4. \A l \in compiled.occurrence : \A e \in l.effects : e.target # p
  BY DEF Carried, Written
<1>5. Due \in SUBSET query.interventions
  BY DEF Due, Scheduled
<1>6. ASSUME NEW fired \in SUBSET compiled.occurrence, NEW e \in Effects(fired)
      PROVE  e.effect.target # p
  <2>1. CASE e \in EffectsOf(Due)
    BY <1>3, <1>5, <2>1
  <2>2. CASE e \notin EffectsOf(Due)
    <3>1. PICK l \in fired : \E d \in l.effects : e = [source |-> l.id, effect |-> d]
      BY <1>6, <2>2 DEF Effects
    <3> QED BY <1>4, <3>1
  <2> QED BY <2>1, <2>2
<1>7. \A l \in compiled.evolution \cup compiled.exact : l.target # p
  BY DEF Carried, Written
<1> QED BY <1>1, <1>3, <1>6, <1>7

(* A step observes and closes a state that differs from the one before     *)
(* only in what is not carried.                                            *)
LEMMA StepValues ==
  ASSUME Valued, Step
  PROVE  \/ Refuse
         \/ \E y \in States : \E ids :
              /\ state' = Close(Observe(y), ids) /\ active' = ids /\ step' = step + 1 /\ outcome' = outcome
              /\ \A p \in Observed : Carried(p) => y[p] = state[p]
<1>1. query \in Queries /\ model \in DOMAIN Models /\ state \in States
  BY DEF Valued, Numbered
<1>2. ASSUME NEW drawn, NEW noise \in [{l \in compiled.evolution : l.noisy} -> Noise],
             Advance(Fired(drawn), noise)
      PROVE  \E y \in States : \E ids :
               /\ state' = Close(Observe(y), ids) /\ active' = ids /\ step' = step + 1 /\ outcome' = outcome
               /\ \A p \in Observed : Carried(p) => y[p] = state[p]
  <2> DEFINE fired == Fired(drawn)
             ids == Always(compiled) \cup UNION {l.activates : l \in fired}
             y == Landing(Effects(fired), state, Evolved(ids, noise))
  <2>1. fired \in SUBSET compiled.occurrence
    BY DEF Fired
  <2>2. Lands(Effects(fired))
    <3> HIDE DEF fired
    <3> QED BY <1>1, <2>1, EffectsLandable
  <2>3. Evolved(ids, noise) \in States
    <3> HIDE DEF ids
    <3> QED BY <1>1, EvolvedTyped
  <2>4. y \in States
    <3> HIDE DEF fired, ids
    <3> QED BY <1>1, <2>2, <2>3, LandingTyped
  <2>5. ASSUME NEW p \in Observed, Carried(p) PROVE y[p] = state[p]
    <3>1. /\ p \in Processes
          /\ \A e \in Effects(fired) : e.effect.target # p
          /\ \A l \in compiled.evolution : l.target # p
      <4> HIDE DEF fired
      <4> QED BY <2>1, <2>5, CarriedIsUntouched
    <3> HIDE DEF fired, ids
    <3>2. Evolved(ids, noise)[p] = state[p]
      BY <1>1, <3>1, EvolvedTyped
    <3>3. y[p] = Evolved(ids, noise)[p]
      BY <1>1, <2>2, <2>3, <3>1, LandingTyped
    <3> QED BY <3>2, <3>3
  <2>6. state' = Close(Observe(y), ids) /\ active' = ids /\ step' = step + 1 /\ outcome' = outcome
    BY <1>2, Zenon DEF Advance
  <2> HIDE DEF y, ids
  <2> QED BY <2>4, <2>5, <2>6
<1>3. PICK drawn \in SUBSET {l \in compiled.occurrence : l.trigger = "hazard"} :
        \/ Clash(Fired(drawn)) /\ Refuse
        \/ \E noise \in [{l \in compiled.evolution : l.noisy} -> Noise] :
             ~Clash(Fired(drawn)) /\ Advance(Fired(drawn), noise)
  BY DEF Step, Fired
<1> QED BY <1>2, <1>3

(* The boundary leaves the parent, or a closed state that differs from it  *)
(* only in what is not carried.                                            *)
LEMMA BeginValues ==
  ASSUME Valued, Begin
  PROVE  \/ Refuse
         \/ /\ state' \in States /\ UNCHANGED <<active, step>> /\ outcome' = "rolling"
            /\ \A p \in Observed : Carried(p) => state'[p] = state[p]
<1>1. query \in Queries /\ model \in DOMAIN Models /\ state \in States
  BY DEF Valued, Numbered
<1> SUFFICES ASSUME ~Refuse
             PROVE  /\ state' \in States /\ UNCHANGED <<active, step>> /\ outcome' = "rolling"
                    /\ \A p \in Observed : Carried(p) => state'[p] = state[p]
  OBVIOUS
<1> DEFINE effects == EffectsOf(Initial(query))
           landed  == Landing(effects, state, state)
<1>2. /\ UNCHANGED <<active, step>> /\ outcome' = "rolling"
      /\ state' = IF effects = {} THEN state ELSE Close(landed, Always(compiled))
  BY Zenon DEF Begin
<1>3. CASE effects = {}
  BY <1>1, <1>2, <1>3
<1>4. CASE effects # {}
  <2>1. Initial(query) \in SUBSET query.interventions
    BY DEF Initial
  <2>2. Lands(effects)
    BY <1>1, <2>1, InterventionsLandable
  <2>3. landed \in States
    <3> HIDE DEF effects
    <3> QED BY <1>1, <2>2, LandingTyped
  <2>4. state' = Close(landed, Always(compiled))
    BY <1>2, <1>4
  <2>5. Close(landed, Always(compiled)) \in States
    <3> HIDE DEF landed
    <3> QED BY <1>1, <2>3, CloseTyped
  <2>6. ASSUME NEW p \in Observed, Carried(p) PROVE state'[p] = state[p]
    <3>1. p \in Processes /\ (\A e \in effects : e.effect.target # p) /\ \A l \in compiled.exact : l.target # p
      <4> HIDE DEF effects
      <4>1. \A e \in EffectsOf(Initial(query)) : e.effect.target # p
        BY <2>1, <2>6, CarriedIsUntouched
      <4> QED BY <2>6, <4>1, CarriedIsUntouched DEF effects
    <3>2. landed[p] = state[p]
      <4> HIDE DEF effects
      <4> QED BY <1>1, <2>2, <3>1, LandingTyped
    <3>3. Close(landed, Always(compiled))[p] = landed[p]
      <4> HIDE DEF landed
      <4> QED BY <1>1, <2>3, <3>1, CloseTyped
    <3> QED BY <2>4, <3>2, <3>3
  <2> QED BY <1>2, <2>4, <2>5, <2>6
<1> QED BY <1>3, <1>4

(* A roll begins with the values of its head.                              *)
LEMMA ValuedInit == Init => Valued
<1>1. Init => Numbered /\ Accepted(compiled, query) /\ active = {} /\ state = head.state /\ head \in Heads
  BY NumberedInit DEF Init
<1> QED BY <1>1, HeadsAssumption DEF Valued

(* Every step keeps the values in bounds.                                  *)
LEMMA ValuedNext ==
  ASSUME Valued, [Next]_vars
  PROVE  Valued'
<1>1. Numbered'
  BY NumberedNext DEF Valued
<1>2. model \in DOMAIN Models
  BY DEF Valued, Numbered
<1>3. UNCHANGED <<model, head, query>>
  BY BeginFacts, StepFacts, FinishFacts, FailsFacts, StutterFacts DEF Next, Frame
<1>4. Accepted(compiled, query)'
  BY <1>3, Zenon DEF Valued, compiled, Accepted, Written
<1>5. (outcome' # "asked" \/ UNCHANGED <<outcome, active, state>>) /\ state' \in States
  <2>1. CASE Begin
    BY <2>1, BeginValues DEF Valued, Refuse, rolled
  <2>2. CASE Step
    <3>1. CASE Refuse
      BY <3>1 DEF Refuse, rolled, Valued
    <3>2. ASSUME NEW y \in States, NEW ids, state' = Close(Observe(y), ids), outcome' = outcome
          PROVE  state' \in States /\ outcome' # "asked"
      <4>1. Observe(y) \in States
        BY ObserveTyped DEF Valued, Numbered
      <4>2. Close(Observe(y), ids) \in States
        BY <1>2, <4>1, CloseTyped
      <4> QED BY <2>2, <3>2, <4>2, StepFacts
    <3> QED BY <2>2, <3>1, <3>2, StepValues
  <2>3. CASE Finish
    BY <2>3, FinishFacts DEF Stopped, Valued
  <2>4. CASE Fails
    BY <2>4, FailsFacts DEF Stopped, Valued
  <2>5. CASE UNCHANGED vars
    BY <2>5 DEF vars, rolled, Valued
  <2> QED BY <2>1, <2>2, <2>3, <2>4, <2>5 DEF Next
<1> QED BY <1>1, <1>3, <1>4, <1>5 DEF Valued

-----------------------------------------------------------------------------
(* Observations.                                                           *)

(* The observations of a process as far as a step, and the value that is   *)
(* to stand after them.                                                    *)
Past(p, k)     == {o \in query.observations : o.target = p /\ o.step <= k}
LatestOf(S, p) == IF S = {} THEN head.state[p] ELSE (CHOOSE o \in S : \A n \in S : n.step <= o.step).value
Latest(p, k)   == LatestOf(Past(p, k), p)

(* What stands is what the step observes, and without an observation what  *)
(* stood before.                                                           *)
LEMMA LatestMoves ==
  ASSUME Valued, step < query.steps, NEW p
  PROVE  Latest(p, step + 1) = IF \E o \in DueObservations : o.target = p
                               THEN (CHOOSE o \in DueObservations : o.target = p).value
                               ELSE Latest(p, step)
<1>1. step \in Nat /\ \A o \in query.observations : o.step \in Nat
  <2>1. query.steps \in Nat
    BY QueriesAssumption DEF Valued, Numbered
  <2>2. \A o \in query.observations : o.step \in 1..query.steps
    BY DEF Valued, Accepted
  <2> QED BY <2>1, <2>2 DEF Valued, Numbered
<1>2. \A o, u \in query.observations : o.target = u.target /\ o.step = u.step => o = u
  BY DEF Valued, Accepted
<1>3. CASE \E o \in DueObservations : o.target = p
  <2>1. PICK d : d = (CHOOSE o \in DueObservations : o.target = p) /\ d \in DueObservations /\ d.target = p
    <3>1. (CHOOSE o \in DueObservations : o.target = p) \in {o \in DueObservations : o.target = p}
      BY <1>3
    <3> QED BY <3>1
  <2>2. d \in query.observations /\ d.step = step + 1 /\ d \in Past(p, step + 1)
    BY <1>1, <2>1 DEF DueObservations, Past
  <2>3. \A n \in Past(p, step + 1) : n.step <= d.step
    BY <2>2 DEF Past
  <2>4. \A o \in Past(p, step + 1) : (\A n \in Past(p, step + 1) : n.step <= o.step) => o = d
    <3>1. SUFFICES ASSUME NEW o \in Past(p, step + 1), \A n \in Past(p, step + 1) : n.step <= o.step
                   PROVE  o = d
      OBVIOUS
    <3>2. o \in query.observations /\ o.target = p /\ o.step <= d.step /\ d.step <= o.step
      BY <2>2, <2>3, <3>1 DEF Past
    <3>3. o.step = d.step
      BY <1>1, <2>2, <3>2
    <3> QED BY <1>2, <2>1, <2>2, <3>2, <3>3
  <2>5. (CHOOSE o \in Past(p, step + 1) : \A n \in Past(p, step + 1) : n.step <= o.step) = d
    BY <2>2, <2>3, <2>4
  <2>6. Latest(p, step + 1) = d.value
    BY <2>2, <2>5 DEF Latest, LatestOf
  <2> QED BY <1>3, <2>1, <2>6
<1>4. CASE ~\E o \in DueObservations : o.target = p
  <2>1. Past(p, step + 1) = Past(p, step)
    <3>1. \A o \in query.observations : o.target = p => (o.step <= step + 1 <=> o.step <= step)
      BY <1>1, <1>4 DEF DueObservations
    <3> QED BY <3>1 DEF Past
  <2>2. Latest(p, step + 1) = Latest(p, step)
    BY <2>1, Zenon DEF Latest
  <2> QED BY <1>4, <2>2
<1> QED BY <1>3, <1>4

(* ObservedCarries with its parts named.                                   *)
Standing == outcome # "asked" => \A p \in {o.target : o \in query.observations} : state[p] = Latest(p, step)

LEMMA StandingIsCarried == Standing <=> ObservedCarries
BY Zenon DEF Standing, ObservedCarries, Latest, LatestOf, Past

(* What is observed in a roll is carried.                                  *)
LEMMA ObservedAreCarried ==
  ASSUME Valued, NEW p \in {o.target : o \in query.observations}
  PROVE  p \in Observed /\ Carried(p)
BY DEF Valued, Accepted, Carried

(* After the boundary the values of the parent stand.                      *)
LEMMA StandingBegin ==
  ASSUME Valued, Standing, Begin
  PROVE  Standing'
<1>1. outcome = "asked" /\ UNCHANGED <<query, head>> /\ step = 0 /\ state = head.state
  BY BeginFacts DEF Valued, Numbered, Frame
<1>2. \A p : Past(p, 0) = {}
  <2>1. query.steps \in Nat
    BY QueriesAssumption DEF Valued, Numbered
  <2>2. \A o \in query.observations : ~(o.step <= 0)
    BY <2>1 DEF Valued, Accepted
  <2> QED BY <2>2 DEF Past
<1>3. \A p : Latest(p, 0) = head.state[p] /\ Latest(p, step)' = Latest(p, step')
  BY <1>1, <1>2 DEF Latest, LatestOf, Past
<1>4. step' = 0
  BY <1>1, BeginValues DEF Refuse, rolled
<1>5. ASSUME NEW p \in {o.target : o \in query.observations} PROVE state'[p] = state[p]
  BY <1>5, BeginValues, ObservedAreCarried DEF Refuse, rolled
<1>6. \A p \in {o.target : o \in query.observations} : state'[p] = Latest(p, step')
  BY <1>1, <1>3, <1>4, <1>5
<1> QED BY <1>1, <1>3, <1>6 DEF Standing

(* After a step the values it observes stand, and the others as before.    *)
LEMMA StandingStep ==
  ASSUME Valued, Standing, Step
  PROVE  Standing'
<1>1. outcome = "rolling" /\ step < query.steps /\ UNCHANGED <<query, head, model>>
  BY StepFacts DEF Frame
<1>2. \A p : Latest(p, step)' = Latest(p, step')
  BY <1>1 DEF Latest, LatestOf, Past
<1>3. CASE Refuse
  <2>1. state' = state /\ step' = step
    BY <1>3 DEF Refuse, rolled
  <2>2. \A p \in {o.target : o \in query.observations} : state[p] = Latest(p, step)
    BY <1>1 DEF Standing
  <2> QED BY <1>1, <1>2, <2>1, <2>2 DEF Standing
<1>4. ASSUME NEW y \in States, NEW ids,
             state' = Close(Observe(y), ids), step' = step + 1,
             \A p \in Observed : Carried(p) => y[p] = state[p]
      PROVE  Standing'
  <2>1. ASSUME NEW p \in {o.target : o \in query.observations}
        PROVE  state'[p] = Latest(p, step + 1)
    <3>1. p \in Observed /\ Carried(p)
      BY <2>1, ObservedAreCarried
    <3>2. p \in Processes /\ \A l \in compiled.exact : l.target # p
      BY <3>1, CarriedIsUntouched
    <3>3. Observe(y) \in States
      BY ObserveTyped DEF Valued, Numbered
    <3>4. Close(Observe(y), ids)[p] = Observe(y)[p]
      BY <3>2, <3>3, CloseTyped DEF Valued, Numbered
    <3>5. Observe(y)[p] = IF \E o \in DueObservations : o.target = p
                          THEN (CHOOSE o \in DueObservations : o.target = p).value ELSE y[p]
      BY <3>2, Zenon DEF Observe
    <3>6. y[p] = state[p] /\ state[p] = Latest(p, step)
      BY <1>1, <1>4, <2>1, <3>1 DEF Standing
    <3>7. Latest(p, step + 1) = IF \E o \in DueObservations : o.target = p
                                THEN (CHOOSE o \in DueObservations : o.target = p).value ELSE Latest(p, step)
      BY <1>1, LatestMoves
    <3> QED BY <1>4, <3>4, <3>5, <3>6, <3>7
  <2>2. \A p \in {o.target : o \in query.observations} : state'[p] = Latest(p, step')
    BY <1>4, <2>1
  <2> QED BY <1>1, <1>2, <2>2 DEF Standing
<1> QED BY <1>3, <1>4, StepValues

(* Every step keeps what stands.                                           *)
LEMMA StandingNext ==
  ASSUME Valued, Standing, [Next]_vars
  PROVE  Standing'
<1>1. ASSUME UNCHANGED <<query, head, step, state>>, outcome' = "asked" => outcome = "asked", 
             outcome = "asked" => outcome' = "asked"
      PROVE  Standing'
  <2>1. \A p : Latest(p, step)' = Latest(p, step)
    BY <1>1 DEF Latest, LatestOf, Past
  <2> QED BY <1>1, <2>1 DEF Standing
<1>2. CASE Finish
  <2>1. UNCHANGED <<query, head, step, state>> /\ outcome = "rolling" /\ outcome' # "asked"
    BY <1>2, FinishFacts DEF Frame, Stopped
  <2> QED BY <1>1, <2>1
<1>3. CASE Fails
  <2>1. UNCHANGED <<query, head, step, state>> /\ outcome' = "refused"
    BY <1>3, FailsFacts DEF Frame, Stopped
  <2>2. \A p : Latest(p, step)' = Latest(p, step)
    BY <2>1 DEF Latest, LatestOf, Past
  <2>3. CASE outcome = "asked"
    <3>1. step = 0 /\ state = head.state /\ query.steps \in Nat
      BY <2>3, QueriesAssumption DEF Valued, Numbered
    <3>2. \A o \in query.observations : ~(o.step <= 0)
      BY <3>1 DEF Valued, Accepted
    <3>3. \A p : Latest(p, step) = state[p]
      BY <3>1, <3>2 DEF Latest, LatestOf, Past
    <3> QED BY <2>1, <2>2, <3>3 DEF Standing
  <2>4. CASE outcome # "asked"
    BY <2>1, <2>2, <2>4 DEF Standing
  <2> QED BY <2>3, <2>4
<1>4. CASE UNCHANGED vars
  <2>1. UNCHANGED <<query, head, step, state, outcome>>
    BY <1>4 DEF vars, rolled
  <2> QED BY <1>1, <2>1
<1> QED BY <1>2, <1>3, <1>4, StandingBegin, StandingStep DEF Next

(* An observed value stands from the boundary of its step to the next      *)
(* observation of its process, and before the first one the value of the   *)
(* head: jumps, occurrences, interventions, evolution and exact laws       *)
(* (validate_query, set_observed_value) leave it alone in every model.     *)
THEOREM ObservationsCarry == Spec => []ObservedCarries
<1>1. Init => Valued /\ Standing
  <2>1. Init => outcome = "asked"
    BY DEF Init
  <2> QED BY <2>1, ValuedInit DEF Standing
<1>2. Valued /\ Standing /\ [Next]_vars => (Valued /\ Standing)'
  BY ValuedNext, StandingNext
<1>3. Valued /\ Standing => ObservedCarries
  BY StandingIsCarried
<1> QED BY <1>1, <1>2, <1>3, PTL DEF Spec

-----------------------------------------------------------------------------
(* Exact laws.                                                             *)

(* A law leaves alone what it does not derive.                             *)
LEMMA DerivedKeeps ==
  ASSUME NEW x \in States, NEW law, NEW ids, NEW p \in Processes, law.target # p
  PROVE  Derived(x, law, ids)[p] = x[p]
BY DEF Derived, States

(* The states a closing runs through.                                      *)
Runs(r, n, order, ids) ==
  r \in [0..n -> States] /\ \A k \in 1..n : r[k] = Derived(r[k - 1], order[k], ids)

(* What none of the laws from one place to another derives, stays.         *)
LEMMA RunKeeps ==
  ASSUME NEW n \in Nat, NEW order, NEW ids, NEW r, Runs(r, n, order, ids),
         NEW p \in Processes, NEW j \in 0..n, \A k \in (j + 1)..n : order[k].target # p
  PROVE  \A k \in j..n : r[k][p] = r[j][p]
<1> DEFINE T == {k \in j..n : r[k][p] # r[j][p]}
<1>1. SUFFICES ASSUME T # {} PROVE FALSE
  OBVIOUS
<1>2. PICK k \in T : \A l \in T : k <= l
  <2>1. T \subseteq Nat
    OBVIOUS
  <2> HIDE DEF T
  <2> QED BY <1>1, <2>1, Least
<1>3. k \in j..n /\ r[k][p] # r[j][p]
  BY <1>2
<1>4. k # j
  BY <1>3
<1>5. k \in (j + 1)..n /\ k \in 1..n /\ k - 1 \in j..n /\ k - 1 \in 0..n
  BY <1>3, <1>4
<1>6. k - 1 \notin T
  BY <1>2, <1>5
<1>7. r[k - 1][p] = r[j][p] /\ r[k - 1] \in States
  BY <1>5, <1>6 DEF Runs
<1>8. Derived(r[k - 1], order[k], ids)[p] = r[k - 1][p]
  BY <1>5, <1>7, DerivedKeeps
<1>9. r[k] = Derived(r[k - 1], order[k], ids)
  BY <1>5 DEF Runs
<1> QED BY <1>3, <1>7, <1>8, <1>9

(* After a closing each law in force holds of the state: the laws it reads *)
(* have run before it, and no other law derives what it derives.           *)
LEMMA ClosedHolds ==
  ASSUME model \in DOMAIN Models, NEW s \in States, NEW ids,
         NEW law \in compiled.exact, law.id \in ids, Applies(law)
  PROVE  Close(s, ids)[law.target] = Clamp(law.value[Close(s, ids)])
<1>1. PICK n : n \in Nat /\ n = Cardinality(compiled.exact)
  BY OrderFacts
<1>2. PICK order : order = DerivedOrder(compiled)
  OBVIOUS
<1>3. PICK r \in [0..n -> States] :
        /\ r[0] = s /\ r[n] = Close(s, ids)
        /\ \A k \in 1..n : r[k] = Derived(r[k - 1], order[k], ids)
  BY <1>1, <1>2, CloseRuns
<1>4. /\ order \in [1..n -> compiled.exact] /\ Topological(order)
      /\ \A i, j \in 1..n : i # j => order[i].target # order[j].target
  BY <1>1, <1>2, OrderFacts
<1>5. PICK j \in 1..n : order[j] = law
  BY <1>1, <1>2, OrderFacts
<1>6. /\ law.target \in Processes /\ law.reads \subseteq Processes
      /\ \A x, y \in States : (\A p \in law.reads : x[p] = y[p]) => law.value[x] = law.value[y]
  BY ModelsAssumption, Zenon DEF compiled
<1>7. j - 1 \in 0..n /\ j \in 0..n /\ n \in j..n /\ n \in (j - 1)..n /\ (j - 1) + 1 = j /\ n \in 0..n
  BY <1>1
<1>8. Runs(r, n, order, ids)
  BY <1>3 DEF Runs
<1>9. \A p \in Processes, i \in 0..n :
        (\A k \in (i + 1)..n : order[k].target # p) => \A k \in i..n : r[k][p] = r[i][p]
  BY <1>1, <1>8, RunKeeps
<1>10. r[n][law.target] = r[j][law.target]
  <2>1. \A k \in (j + 1)..n : order[k].target # law.target
    BY <1>1, <1>4, <1>5
  <2>2. \A k \in j..n : r[k][law.target] = r[j][law.target]
    BY <1>6, <1>7, <1>9, <2>1, Zenon
  <2> QED BY <1>7, <2>2
<1>11. \A p \in law.reads : r[n][p] = r[j - 1][p]
  <2>1. SUFFICES ASSUME NEW p \in law.reads PROVE r[n][p] = r[j - 1][p]
    OBVIOUS
  <2>2. \A k \in ((j - 1) + 1)..n : order[k].target # p
    <3>1. SUFFICES ASSUME NEW k \in j..n, order[k].target \in order[j].reads PROVE FALSE
      BY <1>5, <1>7, <2>1
    <3>2. k \in 1..n /\ ~(k < j) /\ DOMAIN order = 1..n
      BY <1>1, <1>4
    <3> QED BY <1>4, <3>1, <3>2 DEF Topological
  <2>3. p \in Processes
    BY <1>6
  <2>4. \A k \in (j - 1)..n : r[k][p] = r[j - 1][p]
    BY <1>7, <1>9, <2>2, <2>3, Zenon
  <2> QED BY <1>7, <2>4
<1>12. r[j - 1] \in States /\ r[n] \in States
  BY <1>3, <1>7
<1>13. law.value[r[n]] = law.value[r[j - 1]]
  BY <1>6, <1>11, <1>12
<1>14. r[j] = [r[j - 1] EXCEPT ![law.target] = Clamp(law.value[r[j - 1]])]
  BY <1>3, <1>5 DEF Derived
<1>15. r[j][law.target] = Clamp(law.value[r[j - 1]])
  BY <1>6, <1>12, <1>14 DEF States
<1> QED BY <1>3, <1>10, <1>13, <1>15

(* A step leaves the laws it activated in force.                           *)
LEMMA LawsHoldStep ==
  ASSUME Valued, ExactLawsHold, Step
  PROVE  ExactLawsHold'
<1>1. UNCHANGED <<model, query>> /\ model \in DOMAIN Models
  BY StepFacts DEF Frame, Valued, Numbered
<1>2. compiled' = compiled /\ \A law : Applies(law)' <=> Applies(law)
  BY <1>1 DEF compiled, Applies
<1>3. CASE Refuse
  <2>1. UNCHANGED <<state, active>>
    BY <1>3 DEF Refuse, rolled
  <2> QED BY <1>2, <2>1 DEF ExactLawsHold
<1>4. ASSUME NEW y \in States, NEW ids, state' = Close(Observe(y), ids), active' = ids
      PROVE  ExactLawsHold'
  <2>1. Observe(y) \in States
    BY ObserveTyped DEF Valued, Numbered
  <2>2. ASSUME NEW law \in compiled.exact, law.id \in ids, Applies(law)
        PROVE  state'[law.target] = Clamp(law.value[state'])
    BY <1>1, <1>4, <2>1, <2>2, ClosedHolds
  <2> QED BY <1>2, <1>4, <2>2 DEF ExactLawsHold
<1> QED BY <1>3, <1>4, StepValues

(* Before the first step no law is in force, and only steps change what    *)
(* the laws are about.                                                     *)
LEMMA LawsHoldNext ==
  ASSUME Valued, ExactLawsHold, [Next]_vars
  PROVE  ExactLawsHold'
<1>1. UNCHANGED <<model, query>>
  BY BeginFacts, StepFacts, FinishFacts, FailsFacts, StutterFacts DEF Next, Frame
<1>2. compiled' = compiled /\ \A law : Applies(law)' <=> Applies(law)
  BY <1>1 DEF compiled, Applies
<1>3. ASSUME UNCHANGED <<state, active>> PROVE ExactLawsHold'
  BY <1>2, <1>3 DEF ExactLawsHold
<1>4. CASE Begin
  <2>1. active = {}
    BY <1>4, BeginFacts DEF Valued
  <2>2. active' = active
    BY <1>4, BeginValues DEF Refuse, rolled
  <2> QED BY <2>1, <2>2 DEF ExactLawsHold
<1>5. CASE Finish
  <2>1. UNCHANGED <<state, active>>
    BY <1>5 DEF Finish, Refuse, rolled
  <2> QED BY <1>3, <2>1
<1>6. CASE Fails
  <2>1. UNCHANGED <<state, active>>
    BY <1>6 DEF Fails, Refuse, rolled
  <2> QED BY <1>3, <2>1
<1>7. CASE UNCHANGED vars
  <2>1. UNCHANGED <<state, active>>
    BY <1>7 DEF vars, rolled
  <2> QED BY <1>3, <2>1
<1> QED BY <1>4, <1>5, <1>6, <1>7, LawsHoldStep DEF Next

(* After every step each relation and resolution in force holds of the     *)
(* state (apply_exact_state_laws), also of what the others derived, for    *)
(* every model whose laws compilation can order                            *)
(* (derived_topological_order), in every precedence.                       *)
THEOREM LawsHold == Spec => []ExactLawsHold
<1>1. Init => Valued /\ ExactLawsHold
  <2>1. Init => active = {}
    BY DEF Init
  <2> QED BY <2>1, ValuedInit DEF ExactLawsHold
<1>2. Valued /\ ExactLawsHold /\ [Next]_vars => (Valued /\ ExactLawsHold)'
  BY ValuedNext, LawsHoldNext
<1> QED BY <1>1, <1>2, PTL DEF Spec
===============================================================================
