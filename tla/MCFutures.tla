------------------------------- MODULE MCFutures -------------------------------
(***************************************************************************)
(* Two stages, one of which may be forked inside a branch of the other.    *)
(***************************************************************************)
EXTENDS Futures, TLC

CONSTANTS e1, e2, s1, s2, k1, k2

Symmetry == Permutations(Edits) \cup Permutations(Stages) \cup Permutations(Keys)
===============================================================================
