----------------------------- MODULE MCPrimGroup -----------------------------
(* Every assignment of a few distances to the pairs of a small group, with *)
(* ties, negative distances and unusable ones.                             *)
EXTENDS PrimGroup

MCDistances == [Pairs -> {-1, 1, 2, Infinity}]
===============================================================================
