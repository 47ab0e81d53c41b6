--------------------------- MODULE MCRevisionStore ---------------------------
(***************************************************************************)
(* A model with two revisions of its first, and a graph of two revisions.  *)
(***************************************************************************)
EXTENDS RevisionStore, TLC

CONSTANTS m1, m2, m3, g1, g2, a, b

MCPrevious == (m1 :> Nothing) @@ (m2 :> m1) @@ (m3 :> m1) @@ (g1 :> Nothing) @@ (g2 :> g1)
MCSource == (g1 :> m1) @@ (g2 :> m1)

Symmetry == Permutations(Sessions)
===============================================================================
