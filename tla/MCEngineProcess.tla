---------------------------- MODULE MCEngineProcess ---------------------------
(***************************************************************************)
(* Two mutations and a read that share one engine process, more than its   *)
(* queue holds, for each way to bound their time.                          *)
(***************************************************************************)
EXTENDS EngineProcess

CONSTANTS m1, m2, r1
===============================================================================
