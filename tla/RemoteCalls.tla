----------------------------- MODULE RemoteCalls ------------------------------
(***************************************************************************)
(* What the engine process promises to those who call it: a call is        *)
(* executed at most once, its answer is told only after that, and a        *)
(* mutating call refused without doubt never is.                           *)
(***************************************************************************)
CONSTANTS
  Calls,        \* each made once
  Mutating      \* the calls whose execution may store something

VARIABLES
  executed,     \* the calls the engine has executed
  told          \* call -> what its caller knows

rvars == <<executed, told>>

Final == {"answered", "refused", "indeterminate"}

RInit ==
  /\ executed = {}
  /\ told = [c \in Calls |-> "idle"]

Ask(c) ==
  /\ told[c] = "idle"
  /\ told' = [told EXCEPT ![c] = "asked"]
  /\ UNCHANGED executed

(* A call may be executed while its caller waits, and also after the       *)
(* caller gave it up, unless it was a mutation that was refused.           *)
Execute(c) ==
  /\ c \notin executed
  /\ told[c] # "idle"
  /\ ~(c \in Mutating /\ told[c] = "refused")
  /\ executed' = executed \cup {c}
  /\ UNCHANGED told

Truthful(c, v) ==
  /\ v = "answered" => c \in executed
  /\ v = "refused" /\ c \in Mutating => c \notin executed
  /\ v = "indeterminate" => c \in Mutating

(* One event may settle every call that waits, and one that is made can be *)
(* refused at once.                                                        *)
Settle ==
  /\ told' \in [Calls -> {"idle", "asked"} \cup Final]
  /\ \A c \in Calls :
       \/ told'[c] = told[c]
       \/ told[c] \in {"idle", "asked"} /\ told'[c] \in Final /\ Truthful(c, told'[c])
  /\ UNCHANGED executed

RNext == (\E c \in Calls : Ask(c) \/ Execute(c)) \/ Settle

RSpec == RInit /\ [][RNext]_rvars
===============================================================================
