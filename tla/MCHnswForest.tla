----------------------------- MODULE MCHnswForest -----------------------------
(* Every graph of links over a small group, under a few distances: points  *)
(* on a line with near numbers near, or far; a star around query 0; and    *)
(* distances some of which have no square root.                            *)
EXTENDS HnswForest

MCLinks == {l \in [Queries -> SUBSET Queries] : \A v \in Queries : v \notin l[v]}

Gap(p) == Max(p) - Min(p)

MCDistances ==
  {[p \in Pairs |-> Gap(p)],
   [p \in Pairs |-> N - Gap(p)],
   [p \in Pairs |-> IF 0 \in p THEN 1 ELSE 1 + Max(p)],
   [p \in Pairs |-> IF Gap(p) = 2 THEN NaN ELSE Gap(p)]}

MCGraphs == [links : MCLinks, dist : MCDistances]
===============================================================================
