----------------------------- MODULE MCStateFile ------------------------------
(***************************************************************************)
(* Small instances of StateFile for TLC.                                   *)
(***************************************************************************)
EXTENDS StateFile, TLC

CONSTANTS s1, s2, w1, w2, w3

(* Sessions differ only in name, and so do writes.                         *)
Symmetry == Permutations({s1, s2}) \cup Permutations({w1, w2, w3})
===============================================================================
