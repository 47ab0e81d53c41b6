------------------------------- MODULE MCService ------------------------------
(***************************************************************************)
(* Concurrent tool calls on worlds this server creates, and on worlds an   *)
(* earlier one left in the state file.                                     *)
(***************************************************************************)
EXTENDS Service

CONSTANTS w1

(* Worlds and rolls are made under two request ids, these with a query and *)
(* without, the rest is asked under one.                                   *)
MCRequests ==
  {<<"create", 1>>, <<"create", 2>>, <<"refine", 1>>, <<"revise", 1>>,
   <<"roll", 1>>, <<"roll", 2>>, <<"reroll", 1>>, <<"reject", 1>>, <<"accept", 1>>,
   <<"estimate", 1>>, <<"submit", 1>>, <<"review", 1>>}

MCRollOf == <<"query", "default">>

(* The first head of a world, and the one a refinement leaves.             *)
MCNamedHeads == {[version |-> 0, model |-> 0], [version |-> 0, model |-> 1]}
===============================================================================
