--------------------------- MODULE MCSeededSearch ---------------------------
(* Small graphs with at most two links per node.  The graphs are taken in  *)
(* all numberings, so the distances need to grow with the number only,     *)
(* with ties or without.                                                   *)
EXTENDS SeededSearch

MCLinks ==
  {l \in [Nodes -> SUBSET Nodes] :
     \A x \in Nodes : x \notin l[x] /\ Cardinality(l[x]) <= 2}

MCDist == {[x \in Nodes |-> x], [x \in Nodes |-> x \div 2]}

Entry == 1

(* Searches that start from one node.                                      *)
MCSeeded ==
  [links : MCLinks, upper : {<< >>}, dist : MCDist,
   entry : {Entry}, seeds : {{x} : x \in Nodes}]

(* Searches that start from two nodes.                                     *)
MCTwoSeeds ==
  [links : MCLinks, upper : {<< >>}, dist : MCDist,
   entry : {Entry}, seeds : {{x, y} : x, y \in Nodes} \ {{x} : x \in Nodes}]

(* Searches without a starting point: every first upper layer, a second    *)
(* one that joins the entry point to one more node, and at the bottom a    *)
(* ring or no links at all.                                                *)
Ring == [x \in Nodes |-> {(x + 1) % Cardinality(Nodes)}]

MCTop ==
  {[x \in Nodes |-> IF x \in {Entry, y} THEN {Entry, y} \ {x} ELSE {}] : y \in Nodes}

MCRoot ==
  [links : {Ring, [x \in Nodes |-> {}]}, upper : {<<l, t>> : l \in MCLinks, t \in MCTop}, dist : MCDist,
   entry : {Entry}, seeds : {{}}]

(* Every way to start.                                                     *)
MCStarts == MCSeeded \cup MCTwoSeeds \cup MCRoot
=============================================================================
