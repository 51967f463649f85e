------------------------------ MODULE Trajectory ------------------------------
(***************************************************************************)
(* Vocabulary shared by every module of the pipeline: queries, the edges   *)
(* {child, parent} that the optimizers return, and the three assertions    *)
(* of mqo/checker.hpp.                                                     *)
(*                                                                         *)
(* The C++ code keeps an edge in a pair<int, int>; here it is a record so  *)
(* that child and parent are told apart by name.                           *)
(***************************************************************************)
EXTENDS Integers, Sequences, FiniteSets

CONSTANT N                       \* n_query, the number of queries

ASSUME NAssumption == N \in Nat \ {0}

Queries == 0 .. N - 1

Root == -1                       \* parent of the root of a tree

Edges == [child : Queries, parent : Queries \cup {Root}]

Edge(c, p) == [child |-> c, parent |-> p]

(* The queries a sequence of edges mentions as children.                   *)
Children(t) == {t[i].child : i \in DOMAIN t}

(***************************************************************************)
(* checkTrajectory: the three asserts, in the order the code makes them.   *)
(***************************************************************************)
SizeAssert(t) == Len(t) = N

CoverAssert(t) == Children(t) = Queries

OrderAssert(t) ==
  \A i \in DOMAIN t :
    t[i].parent # Root => \E j \in 1 .. i - 1 : t[j].child = t[i].parent

(* A faulty form that trusts the order and never counts.                   *)
CheckTrajectoryOrderOnly(t) == OrderAssert(t)

CheckTrajectory(t) == SizeAssert(t) /\ CoverAssert(t) /\ OrderAssert(t)

(***************************************************************************)
(* Facts about inputs that the properties are conditioned on.              *)
(***************************************************************************)

(* No two edges have the same child.                                       *)
EachChildOnce(t) ==
  \A i, j \in DOMAIN t : t[i].child = t[j].child => i = j

(* A new tree starts at the least query that no tree before it holds.      *)
RootsAscend(t) ==
  \A i \in DOMAIN t :
    t[i].parent = Root =>
      \A q \in 0 .. t[i].child - 1 : \E j \in 1 .. i - 1 : t[j].child = q

(* Following parents always ends in a root: a rank decreases towards it.   *)
IsForest(t) ==
  \E rank \in [Queries -> Queries] :
    \A i \in DOMAIN t :
      t[i].parent # Root => rank[t[i].parent] < rank[t[i].child]
===============================================================================
