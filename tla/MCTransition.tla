----------------------------- MODULE MCTransition -----------------------------
(***************************************************************************)
(* Three small models: x evolves or is pushed, d and e are derived from it *)
(* one after the other, y is only observed.                                *)
(***************************************************************************)
EXTENDS Transition

MCProcesses == {"x", "y", "d", "e"}
MCStates == [MCProcesses -> 0..2]

Const(n) == [s \in MCStates |-> n]
Of(p)    == [s \in MCStates |-> s[p]]
High(p)  == [s \in MCStates |-> s[p] >= 1]

Add(p, v) == [target |-> p, mode |-> "add", value |-> v]
Put(p, v) == [target |-> p, mode |-> "set", value |-> v]

Grows(gated, noisy) ==
  [id |-> "grow", gated |-> gated, target |-> "x", rate |-> Const(1), noisy |-> noisy]
Exact(id, gated, target, source, direction) ==
  [id |-> id, gated |-> gated, target |-> target, reads |-> {source},
   value |-> Of(source), direction |-> direction]
Occurrence(id, trigger, onEnter, effects, activates) ==
  [id |-> id, trigger |-> trigger, cond |-> High("x"), onEnter |-> onEnter,
   effects |-> effects, activates |-> activates]
Claims(id, gated, claim) == [id |-> id, gated |-> gated, claim |-> claim]

MCModels ==
  [noisy |->
    [evolution  |-> {Grows(FALSE, TRUE)},
     exact      |-> {Exact("a", FALSE, "e", "d", "refine"), Exact("b", FALSE, "d", "x", "aggregate")},
     occurrence |-> {Occurrence("enter", "threshold", TRUE, {Put("x", Const(0))}, {})},
     epistemic  |-> {Claims("believe", FALSE, "belief")}],
   marked |->
    [evolution  |-> {Grows(TRUE, FALSE)},
     exact      |-> {Exact("a", FALSE, "e", "d", "relation"), Exact("b", TRUE, "d", "x", "relation")},
     occurrence |-> {Occurrence("chance", "hazard", FALSE, {Put("x", Const(2))}, {"b", "grow", "believe"}),
                     Occurrence("while", "threshold", FALSE, {Put("x", Const(0)), Add("x", Of("d"))}, {})},
     epistemic  |-> {Claims("believe", TRUE, "seen1")}],
   derived |->
    [evolution  |-> {},
     exact      |-> {Exact("a", FALSE, "y", "x", "relation")},
     occurrence |-> {},
     epistemic  |-> {}]]

MCHeads ==
  { [state |-> [p \in MCProcesses |-> 0],
     claims |-> [c \in {"old", "new"} |->
                   IF c = "old" THEN [cutoff |-> -5, mode |-> "observed"] ELSE [cutoff |-> 0, mode |-> "estimated"]]],
    [state |-> [p \in MCProcesses |-> IF p = "x" THEN 1 ELSE 0],
     claims |-> [c \in {"belief"} |-> [cutoff |-> 0, mode |-> "observed"]]] }

Intervention(id, offset, initial, effect) ==
  [id |-> id, offset |-> offset, initial |-> initial, effect |-> effect]
Observation(id, k, v, claim) == [id |-> id, step |-> k, target |-> "y", value |-> v, claim |-> claim]

MCTicks == 3
MCRoundings == {-1, 0, 1}

(* At the start, within the first step, and at the very end of the query.  *)
MCInterventions(n) ==
  { {}, {Intervention("jump", 0, TRUE, Put("x", Const(2)))},
    {Intervention("start", 0, FALSE, Add("x", Const(1))), Intervention("end", n * MCTicks, FALSE, Put("x", Const(2)))},
    {Intervention("mid", MCTicks - 1, FALSE, Put("d", Const(2))), Intervention("jump", 0, TRUE, Add("x", Const(1)))} }

MCObservations == { {}, {Observation("o1", 1, 2, "seen1")}, {Observation("o1", 1, 2, "seen1"), Observation("o2", 2, 1, "seen2")} }

MCQueries ==
  UNION { {[steps |-> n, interventions |-> is, observations |-> os, direction |-> d, precedence |-> r[1], path |-> r[2]] :
            is \in MCInterventions(n), os \in MCObservations, d \in {"forward", "backward"},
            r \in {<<"balanced", Full>>, <<"coarse", Endpoint>>, <<"fine", Decimated(2)>>}} : n \in 1..3 }
===============================================================================
