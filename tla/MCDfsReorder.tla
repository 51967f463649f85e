---------------------------- MODULE MCDfsReorder ----------------------------
(* Every sequence of N edges in which each query is the child of exactly   *)
(* one edge and no query is its own parent: all the forests in every       *)
(* order, and all the inputs whose parents form cycles.                    *)
EXTENDS DfsReorder

MCInputs ==
  {t \in [1 .. N -> {e \in Edges : e.child # e.parent}] : EachChildOnce(t)}
=============================================================================
