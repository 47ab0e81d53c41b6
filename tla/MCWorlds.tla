------------------------------- MODULE MCWorlds -------------------------------
EXTENDS Narratives, TLC

CONSTANTS m0, m1, m2, mb, mx

(* One model line m0 -> m1 -> m2 with a sibling mb of m1, and another      *)
(* model mx that claims m0's id.                                           *)
MCModels == {m0, m1, m2, mb, mx}
MCIdOf == [m \in MCModels |-> "a"]
MCNumberOf == (m0 :> 0) @@ (m1 :> 1) @@ (m2 :> 2) @@ (mb :> 1) @@ (mx :> 0)
MCPreviousOf == (m0 :> NoModel) @@ (m1 :> m0) @@ (m2 :> m1) @@ (mb :> m0) @@ (mx :> NoModel)
MCChangeOf == (m0 :> "additive") @@ (m1 :> "additive") @@ (m2 :> "compatible")
              @@ (mb :> "breaking") @@ (mx :> "additive")

(* The second model has one process more.  A status is as long as its word *)
(* and a path costs what it keeps.                                         *)
MCHeadBytes == [m \in MCModels |-> 1 + NumberOf[m]]
MCStatusBytes == ("Pending" :> 7) @@ ("Rejected" :> 8) @@ ("Committed" :> 9) @@ ("Superseded" :> 10)
MCQueryWork == [q \in Queries |-> 1]
MCPathsBesideGraphs == {Endpoint}
MCPathBytes == [p \in PathSpec |-> IF p = Full THEN 4 ELSE IF p = Endpoint THEN 0 ELSE 2]
===============================================================================
