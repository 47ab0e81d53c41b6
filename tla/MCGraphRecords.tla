---------------------------- MODULE MCGraphRecords ----------------------------
(***************************************************************************)
(* Calls of the recording tools on one graph, with exact retries.          *)
(***************************************************************************)
EXTENDS GraphRecords, TLC

CONSTANTS c1, c2, c3

MCMixes == {{"carve", "note"}, {"breadth", "review"}, {"carve", "breadth"},
            {"carve", "prune", "rebind"}, {"note", "memory"}, {"configure", "capture"}}

Symmetry == Permutations(Calls)
===============================================================================
