------------------------------ MODULE Transition -------------------------------
(***************************************************************************)
(* Rolling a frozen world head forward (or backward) under its model's     *)
(* laws: the jump at the initial boundary, then step by step occurrences,  *)
(* interventions, evolution, simultaneous effects, observations and exact  *)
(* laws, and at the end the claims of the successor.                       *)
(*                                                                         *)
(* Values are small integers, clamped like the scalars they stand for, and *)
(* an expression is a function of the state (the time it may read too is   *)
(* left out).  Random draws are choices.  Offsets are in ticks, far finer  *)
(* than a step: the boundary of step k is computed in floating point as    *)
(* k times the step, so it may lie beside the exact product.               *)
(***************************************************************************)
EXTENDS Retention, Sequences, SequencesExt, FiniteSetsExt, Functions

CONSTANTS
  Processes,
  Top,             \* a value is in 0..Top
  Observed,        \* the processes that are only observed
  Models,          \* compiled models, by name: the laws of each kind
  Heads,           \* the heads a roll may start from: state and claims
  Queries,
  Ticks,           \* the exact length of a step
  Roundings,       \* how far a computed boundary may lie from the exact one
  Noise            \* the innovations a law may draw

States      == [Processes -> 0..Top]
Expressions == [States -> Int]

ASSUME ValuesAssumption == Top \in Nat /\ Noise \subseteq Int /\ Observed \subseteq Processes

(* validate_world: a head has a value in bounds for every process and      *)
(* rests on no evidence from after its time.                               *)
ASSUME HeadsAssumption ==
  \A h \in Heads :
    /\ h.state \in States
    /\ \A c \in DOMAIN h.claims : h.claims[c].cutoff \in Int /\ h.claims[c].cutoff <= 0

(* transition_identity and validate_query: a roll takes at least one step, *)
(* no cadence is zero, and values and expressions are of their process.    *)
ASSUME QueriesAssumption ==
  \A q \in Queries :
    /\ q.steps \in Nat \ {0} /\ q.path \in PathSpec /\ q.direction \in {"forward", "backward"}
    /\ IsFiniteSet(q.interventions) /\ \A i \in q.interventions : i.effect.value \in Expressions
    /\ \A o \in q.observations : o.value \in 0..Top

(* A law comes after those that derive what it reads.                      *)
Topological(order) ==
  \A i, j \in DOMAIN order : order[i].target \in order[j].reads => i < j

(* validate_laws: no two laws of one id, none that derive one process, and *)
(* no circle of exact laws.  The value of an exact law depends on the      *)
(* processes its expression names.                                         *)
ASSUME ModelsAssumption ==
  \A m \in DOMAIN Models :
    /\ IsFiniteSet(Models[m].occurrence) /\ IsFiniteSet(Models[m].evolution) /\ IsFiniteSet(Models[m].exact)
    /\ \A k, l \in Models[m].occurrence : k.id = l.id => k = l
    /\ \A l \in Models[m].occurrence : IsFiniteSet(l.effects) /\ \A e \in l.effects : e.value \in Expressions
    /\ \A l \in Models[m].evolution : l.rate \in Expressions
    /\ \A l \in Models[m].exact :
         /\ l.target \in Processes /\ l.reads \subseteq Processes /\ l.value \in Expressions
         /\ \A s, t \in States : (\A p \in l.reads : s[p] = t[p]) => l.value[s] = l.value[t]
    /\ \A k, l \in Models[m].exact : k.target = l.target => k = l
    /\ \E order \in SetToSeqs(Models[m].exact) : Topological(order)

VARIABLES
  model, head, query, boundary,     \* what is rolled, and its step boundaries
  outcome,         \* "asked", "rolling", "rolled" or "refused"
  step, state,
  held,            \* threshold_previous: the conditions held when last looked at
  activatedEver, marks, samples, claims,
  active, trail    \* history: the laws active in the last step; the states steps started from

compiled == Models[model]

rolled == <<step, state, held, activatedEver, marks, samples, claims, active, trail>>
vars   == <<model, head, query, boundary, outcome, rolled>>

Ungated(S)   == {law.id : law \in {l \in S : ~l.gated}}
Always(m)    == Ungated(m.evolution) \cup Ungated(m.exact)
Scheduled(q) == {i \in q.interventions : ~i.initial}
Initial(q)   == {i \in q.interventions : i.initial}
Sign(q)      == IF q.direction = "forward" THEN 1 ELSE -1
Clamp(v)     == IF v < 0 THEN 0 ELSE IF v > Top THEN Top ELSE v

TypeOK ==
  /\ outcome \in {"asked", "rolling", "rolled", "refused"}
  /\ step \in 0..query.steps /\ state \in States
  /\ held \in [{l.id : l \in {o \in compiled.occurrence : o.trigger = "threshold"}} -> BOOLEAN]
  /\ trail \in Seq(States) /\ Len(trail) \in {0, step + 1}
  /\ samples \in Seq(0..query.steps) /\ IsInjective(samples)
  /\ \A k \in marks : k.step \in 0..step
  /\ \A c \in DOMAIN claims : claims[c].cutoff \in Int /\ claims[c].mode \in {"observed", "derived", "estimated"}

-----------------------------------------------------------------------------
(* What is asked.                                                          *)

(* process_state_writer: no law may write the target.                      *)
Written(m, p) ==
  \/ \E l \in m.evolution \cup m.exact : l.target = p
  \/ \E l \in m.occurrence : \E e \in l.effects : e.target = p

(* Mutant: a law may write what is observed.                               *)
AcceptedOverWriters(m, q) ==
  /\ \A i, j \in q.interventions : i.id = j.id => i = j
  /\ \A i \in q.interventions : i.initial => i.offset = 0
  /\ \A i \in q.interventions : i.offset \in 0..(q.steps * Ticks) /\ i.effect.target \notin Observed
  /\ q.observations # {} => q.direction = "forward"
  /\ \A o \in q.observations : o.target \in Observed /\ o.step \in 1..q.steps
  /\ \A o, p \in q.observations : o.target = p.target /\ o.step = p.step => o = p

(* An observation is moved to its step's boundary; one is due per process  *)
(* and step.                                                               *)
Accepted(m, q) ==
  /\ \A i, j \in q.interventions : i.id = j.id => i = j
  /\ \A i \in q.interventions : i.initial => i.offset = 0
  /\ \A i \in q.interventions : i.offset \in 0..(q.steps * Ticks) /\ i.effect.target \notin Observed
  /\ q.observations # {} => q.direction = "forward"
  /\ \A o \in q.observations : o.target \in Observed /\ o.step \in 1..q.steps /\ ~Written(m, o.target)
  /\ \A o, p \in q.observations : o.target = p.target /\ o.step = p.step => o = p

(* One step or two divide a duration exactly; other counts may round, and  *)
(* the last boundary may then lie before the duration that was asked for.  *)
Boundaries(q) ==
  {b \in [0..q.steps -> -Ticks..(q.steps + 1) * Ticks] :
     /\ b[0] = 0
     /\ \A k \in 1..q.steps : b[k] - k * Ticks \in (IF q.steps <= 2 THEN {0} ELSE Roundings)}

Init ==
  /\ model \in DOMAIN Models /\ head \in Heads /\ query \in Queries /\ Accepted(compiled, query)
  /\ boundary \in Boundaries(query)
  /\ outcome = "asked" /\ step = 0 /\ state = head.state /\ claims = head.claims
  /\ held = [l \in {o.id : o \in {p \in compiled.occurrence : p.trigger = "threshold"}} |-> FALSE]
  /\ activatedEver = {} /\ marks = {} /\ samples = <<>> /\ active = {} /\ trail = <<>>

-----------------------------------------------------------------------------
(* Effects and exact laws.                                                 *)

Sets(effects, p) == {e \in effects : e.effect.target = p /\ e.effect.mode = "set"}
Adds(effects, p) == {e \in effects : e.effect.target = p /\ e.effect.mode = "add"}

Conflict(effects) == \E p \in Processes : Cardinality(Sets(effects, p)) > 1

Added(effects, frozen) == MapThenSumSet(LAMBDA e : e.effect.value[frozen], effects)

(* Effects, each with its source, read the frozen state and land on        *)
(* another: at most one set per target, then all that is added.            *)
Landing(effects, frozen, base) ==
  [p \in Processes |->
     IF Sets(effects, p) \cup Adds(effects, p) = {} THEN base[p]
     ELSE LET start == IF Sets(effects, p) = {} THEN base[p]
                       ELSE (CHOOSE e \in Sets(effects, p) : TRUE).effect.value[frozen]
          IN Clamp(start + Added(Adds(effects, p), frozen))]

(* Coarse precedence leaves out what aggregates, fine what refines.        *)
Applies(law) ==
  CASE query.precedence = "coarse" -> law.direction # "aggregate"
    [] query.precedence = "fine"   -> law.direction # "refine"
    [] OTHER -> TRUE

(* The order compilation derived.                                          *)
DerivedOrder(m) == CHOOSE order \in SetToSeqs(m.exact) : Topological(order)

(* A law in force writes what it derives from the state as it is now.      *)
Derived(s, law, ids) ==
  IF law.id \in ids /\ Applies(law) THEN [s EXCEPT ![law.target] = Clamp(law.value[s])] ELSE s

(* Mutant: laws run in whatever order they were written.                   *)
CloseUnordered(s, ids) ==
  FoldLeft(LAMBDA x, law : Derived(x, law, ids), s, Reverse(DerivedOrder(compiled)))

Close(s, ids) ==
  FoldLeft(LAMBDA x, law : Derived(x, law, ids), s, DerivedOrder(compiled))

Marks(sources, k, kind) == {[source |-> s, step |-> k, kind |-> kind] : s \in sources}

EffectsOf(interventions) == {[source |-> i.id, effect |-> i.effect] : i \in interventions}

-----------------------------------------------------------------------------
(* The roll.                                                               *)

Refuse == outcome' = "refused" /\ UNCHANGED rolled

(* Any expression may fail to evaluate.                                    *)
Fails == outcome \in {"asked", "rolling"} /\ Refuse /\ UNCHANGED <<model, head, query, boundary>>

HeldIn(s) == [l \in DOMAIN held |-> \E o \in compiled.occurrence : o.id = l /\ o.cond[s]]

(* The parent is sample zero.  What is due at the initial boundary lands   *)
(* after it, closed by the laws that are always active.                    *)
Begin ==
  /\ outcome = "asked"
  /\ LET effects == EffectsOf(Initial(query))
         jumped  == IF effects = {} THEN state
                    ELSE Close(Landing(effects, state, state), Always(compiled))
     IN \/ Conflict(effects) /\ Refuse
        \/ /\ ~Conflict(effects)
           /\ outcome' = "rolling"
           /\ held' = HeldIn(state)
           /\ samples' = IF Retain(query.path, 0, query.steps) THEN <<0>> ELSE <<>>
           /\ marks' = Marks({i.id : i \in Initial(query)}, 0, "intervention")
           /\ state' = jumped /\ trail' = <<jumped>>
           /\ UNCHANGED <<step, activatedEver, claims, active>>
  /\ UNCHANGED <<model, head, query, boundary>>

(* Mutant: a threshold fires in every step that starts beyond it.          *)
FiresWhileTrue(law, drawn) ==
  CASE law.trigger = "always"    -> TRUE
    [] law.trigger = "hazard"    -> law \in drawn
    [] law.trigger = "threshold" -> law.cond[state]

(* A hazard fires by its draw, a threshold when its condition begins to    *)
(* hold or while it holds.                                                 *)
Fires(law, drawn) ==
  CASE law.trigger = "always"    -> TRUE
    [] law.trigger = "hazard"    -> law \in drawn
    [] law.trigger = "threshold" -> law.cond[state] /\ (law.onEnter => ~held[law.id])

(* Mutant: what is due exactly at the end of the step waits for the next.  *)
DueBefore == {i \in Scheduled(query) : i.offset < boundary[step + 1] /\ \A m \in marks : ~(m.kind = "intervention" /\ m.source = i.id)}

(* Scheduled interventions are consumed in order of their offsets, as far  *)
(* as the step reaches.                                                    *)
Due == {i \in Scheduled(query) : i.offset <= boundary[step + 1] /\ \A m \in marks : ~(m.kind = "intervention" /\ m.source = i.id)}

DueObservations == {o \in query.observations : o.step = step + 1}

Rates(laws, frozen) == MapThenSumSet(LAMBDA l : l.rate[frozen], laws)
Drawn(laws, noise)  == MapThenSumSet(LAMBDA l : noise[l], laws)

(* Evolution laws read the same frozen state, and their rates add up.      *)
Evolved(ids, noise) ==
  LET On(p) == {l \in compiled.evolution : l.id \in ids /\ l.target = p}
  IN  [p \in Processes |->
         IF On(p) = {} THEN state[p]
         ELSE Clamp(state[p] + Sign(query) * Rates(On(p), state) + Drawn({l \in On(p) : l.noisy}, noise))]

Observe(s) ==
  [p \in Processes |->
     IF \E o \in DueObservations : o.target = p
     THEN (CHOOSE o \in DueObservations : o.target = p).value ELSE s[p]]

(* Claims inserted among others take the place of those of the same id.    *)
Inserted(new, cs) == [c \in DOMAIN new \cup DOMAIN cs |-> IF c \in DOMAIN new THEN new[c] ELSE cs[c]]

ObservedClaims ==
  [c \in {o.claim : o \in DueObservations} |-> [cutoff |-> step + 1, mode |-> "observed"]]

(* All that is done to values at once in a step.                           *)
Effects(fired) ==
  (UNION {{[source |-> l.id, effect |-> e] : e \in l.effects} : l \in fired}) \cup EffectsOf(Due)

(* Two sets of one target, or a claim that is already there, end the roll. *)
Clash(fired) == Conflict(Effects(fired)) \/ DOMAIN ObservedClaims \cap DOMAIN claims # {}

(* One step in which the laws of `fired` fire and `noise` is drawn.        *)
Advance(fired, noise) ==
  LET opened == UNION {l.activates : l \in fired}
      ids    == Always(compiled) \cup opened
  IN  /\ step' = step + 1
      /\ state' = Close(Observe(Landing(Effects(fired), state, Evolved(ids, noise))), ids)
      /\ trail' = Append(trail, state')
      /\ held' = HeldIn(state)
      /\ active' = ids
      /\ activatedEver' = activatedEver \cup {l.id : l \in fired} \cup opened
      /\ marks' = marks \cup Marks({l.id : l \in fired}, step + 1, "law_occurrence")
                        \cup Marks({i.id : i \in Due}, step + 1, "intervention")
                        \cup Marks({o.id : o \in DueObservations}, step + 1, "observation")
      /\ claims' = Inserted(ObservedClaims, claims)
      /\ samples' = IF Retain(query.path, step + 1, query.steps) THEN Append(samples, step + 1) ELSE samples
      /\ UNCHANGED outcome

Step ==
  /\ outcome = "rolling" /\ step < query.steps
  /\ \E drawn \in SUBSET {l \in compiled.occurrence : l.trigger = "hazard"} :
       LET fired == {l \in compiled.occurrence : Fires(l, drawn)}
       IN  \/ Clash(fired) /\ Refuse
           \/ \E noise \in [{l \in compiled.evolution : l.noisy} -> Noise] : ~Clash(fired) /\ Advance(fired, noise)
  /\ UNCHANGED <<model, head, query, boundary>>

(* Mutant: evidence from after the reconstructed time stays.               *)
CausalAlways(cs, end) == cs

(* A reconstruction drops the evidence of later times.                     *)
Causal(cs, end) ==
  IF query.direction = "forward" THEN cs
  ELSE Restrict(cs, {c \in DOMAIN cs : cs[c].cutoff <= end})

(* Mutant: an epistemic law overwrites any claim.                          *)
OverwritesNothing(cs) == FALSE

Overwrites(cs) ==
  \E l \in compiled.epistemic : (~l.gated \/ l.id \in activatedEver) /\ l.claim \in DOMAIN cs /\ cs[l.claim].mode = "observed"

Finish ==
  /\ outcome = "rolling" /\ step = query.steps
  /\ LET end  == Sign(query) * query.steps
         kept == Causal(claims, end)
         made == {l.claim : l \in {e \in compiled.epistemic : ~e.gated \/ e.id \in activatedEver}}
     IN \/ Overwrites(kept) /\ Refuse
        \/ /\ ~Overwrites(kept)
           /\ outcome' = "rolled"
           /\ claims' = Inserted([c \in made |-> [cutoff |-> end, mode |-> "derived"]], kept)
           /\ UNCHANGED <<step, state, held, activatedEver, marks, samples, active, trail>>
  /\ UNCHANGED <<model, head, query, boundary>>

Next == Begin \/ Step \/ Finish \/ Fails

Spec == Init /\ [][Next]_vars

-----------------------------------------------------------------------------
(* Properties.                                                             *)

(* After every step each relation or resolution in force holds of the      *)
(* state, also of what the others derived.                                 *)
ExactLawsHold ==
  \A law \in compiled.exact :
    law.id \in active /\ Applies(law) => state[law.target] = Clamp(law.value[state])

(* An observed value stands from its boundary to the next observation.     *)
ObservedCarries ==
  outcome # "asked" =>
    \A p \in {o.target : o \in query.observations} :
      LET past == {o \in query.observations : o.target = p /\ o.step <= step}
      IN  state[p] = IF past = {} THEN head.state[p]
                     ELSE (CHOOSE o \in past : \A n \in past : n.step <= o.step).value

(* A law that fires on entering fires in exactly the steps that start with *)
(* its condition newly true: of the first, newly true since the parent,    *)
(* before the initial boundary.                                            *)
EnteringFires ==
  \A law \in {l \in compiled.occurrence : l.trigger = "threshold" /\ l.onEnter}, k \in 1..step :
    (\E m \in marks : m.kind = "law_occurrence" /\ m.source = law.id /\ m.step = k) <=>
      law.cond[trail[k]] /\ ~law.cond[IF k = 1 THEN head.state ELSE trail[k - 1]]

(* No claim of the successor rests on evidence from after its time.        *)
CausalClaims ==
  outcome = "rolled" => \A c \in DOMAIN claims : claims[c].cutoff <= Sign(query) * query.steps

(* Observed evidence is never replaced, and only dropped by going back     *)
(* before it.                                                              *)
ObservedClaimsStay ==
  [][\A c \in DOMAIN claims :
       claims[c].mode = "observed" /\ claims[c].cutoff <= Sign(query) * query.steps =>
         c \in DOMAIN claims' /\ claims'[c] = claims[c]]_vars

(* The steps an intervention landed in, and those whose boundary is not    *)
(* before its offset.                                                      *)
LandedIn(i) == {m.step : m \in {n \in marks : n.kind = "intervention" /\ n.source = i.id}}
Reaching(i) == {k \in 1..step : boundary[k] >= i.offset}

(* A scheduled intervention lands once, in the first step whose boundary   *)
(* reaches its offset.                                                     *)
InterventionsTimely ==
  \A i \in Scheduled(query) : LandedIn(i) = {k \in Reaching(i) : \A n \in Reaching(i) : k <= n}

(* What a roll retains is what validation of the candidate counts, and     *)
(* fits in what was reserved.                                              *)
RetainedAsExpected ==
  outcome = "rolled" =>
    /\ Len(samples) = ExpectedRetainedSampleCount(query.path, query.steps)
    /\ Len(samples) <= PathCapacity(query.path, query.steps)
===============================================================================
