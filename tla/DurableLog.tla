------------------------------ MODULE DurableLog ------------------------------
(***************************************************************************)
(* What a durable session promises its caller about one state file: the    *)
(* writes it holds form a log that only grows, and what the caller was     *)
(* told of a write stays true of that log for ever.                        *)
(***************************************************************************)
EXTENDS Sequences

CONSTANT Writes        \* one mutating command each

VARIABLES
  log,        \* the commits of the state file, each a set of writes
  verdict     \* write -> what its caller was told

lvars == <<log, verdict>>

(* "unknown" is a caller that was told nothing: the engine was killed.     *)
Verdicts == {"unasked", "running", "ok", "persistence_error",
             "persistence_uncertain", "error", "unknown"}

Logged == UNION {log[i] : i \in DOMAIN log}

LInit ==
  /\ log = <<>>
  /\ verdict = [w \in Writes |-> "unasked"]

Ask(w) ==
  /\ verdict[w] = "unasked"
  /\ verdict' = [verdict EXCEPT ![w] = "running"]
  /\ UNCHANGED log

(* A commit adds the one write it was made for, once.                      *)
CommitWrite(w) ==
  /\ verdict[w] = "running"
  /\ w \notin Logged
  /\ log' = Append(log, {w})
  /\ UNCHANGED verdict

(* Success is said of a logged write, refusal of one that is not and, being *)
(* answered, never will be; doubt may be said of either.                    *)
Tell(w, v) ==
  /\ verdict[w] = "running"
  /\ v = "ok" => w \in Logged
  /\ v \in {"persistence_error", "error"} => w \notin Logged
  /\ verdict' = [verdict EXCEPT ![w] = v]
  /\ UNCHANGED log

LNext == \E w \in Writes :
  Ask(w) \/ CommitWrite(w) \/ \E v \in Verdicts \ {"unasked", "running"} : Tell(w, v)

LSpec == LInit /\ [][LNext]_lvars
===============================================================================
