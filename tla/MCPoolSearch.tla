----------------------------- MODULE MCPoolSearch -----------------------------
(* Every graph of four nodes with lists of at most two links, double links *)
(* included, from every starting point; distances grow with the number,    *)
(* with ties or without.  As the pool has two places, the order of a list  *)
(* makes no difference.                                                    *)
EXTENDS PoolSearch

MCLists(x) ==
  {<< >>} \cup {<<y>> : y \in Nodes \ {x}}
          \cup {l \in (Nodes \ {x}) \X (Nodes \ {x}) : l[1] <= l[2]}

MCLinks == {l \in [Nodes -> UNION {MCLists(x) : x \in Nodes}] :
              \A x \in Nodes : l[x] \in MCLists(x)}

MCInputs ==
  [links : MCLinks, dist : {[x \in Nodes |-> x], [x \in Nodes |-> x \div 2]}, start : Nodes]
===============================================================================
