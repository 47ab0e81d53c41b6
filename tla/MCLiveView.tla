------------------------------ MODULE MCLiveView ------------------------------
(***************************************************************************)
(* One live view of a model that is revised, forked once and written on.   *)
(***************************************************************************)
EXTENDS LiveView

CONSTANTS e1, e2, s1, k1
===============================================================================
