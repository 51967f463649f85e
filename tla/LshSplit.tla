------------------------------- MODULE LshSplit -------------------------------
(***************************************************************************)
(* mqo/lsh_mst_opt.hpp, split and splitgroup: the queries are divided into *)
(* groups by B - 1 hyperplanes, each of which cuts the group that is       *)
(* largest at that moment.                                                 *)
(*                                                                         *)
(* The sign of an inner product is data: below[h] is the set of queries    *)
(* for which it is negative at hyperplane h.  A group is a set, because    *)
(* its vector is always sorted: the initial one is, and splitgroup keeps   *)
(* the order.  The queue is a set of groups, because no group is in it     *)
(* twice; a heap orders groups of one size in any way it likes.            *)
(***************************************************************************)
EXTENDS Trajectory

CONSTANT B                       \* number of groups asked for, params["B"]

ASSUME BAssumption == B \in Nat \ {0}

Hyperplanes == 0 .. B - 2

VARIABLES
  pq,          \* the queue of groups
  splitNum,    \* index of the next hyperplane
  below        \* the queries below each hyperplane

splitVars == <<pq, splitNum, below>>

SplitInit ==
  /\ pq = {Queries}
  /\ splitNum = 0
  /\ below \in [Hyperplanes -> SUBSET Queries]

(* What pq.top() may return.                                               *)
Largest == {g \in pq : \A h \in pq : Cardinality(h) <= Cardinality(g)}

(* A faulty form: top() without pop().                                     *)
SplitWithoutPop ==
  /\ splitNum < B - 1
  /\ \E g \in Largest :
       pq' = pq \cup ({g \cap below[splitNum], g \ below[splitNum]} \ {{}})
  /\ splitNum' = splitNum + 1
  /\ UNCHANGED below

(* One iteration of the loop: pop a largest group, push its nonempty parts *)
(* on the two sides of the hyperplane.                                     *)
Split ==
  /\ splitNum < B - 1
  /\ \E g \in Largest :
       pq' = (pq \ {g}) \cup
             ({g \cap below[splitNum], g \ below[splitNum]} \ {{}})
  /\ splitNum' = splitNum + 1
  /\ UNCHANGED below

-------------------------------------------------------------------------------
SplitTypeOK ==
  /\ pq \in SUBSET ((SUBSET Queries) \ {{}})
  /\ splitNum \in 0 .. B - 1
  /\ below \in [Hyperplanes -> SUBSET Queries]

(* Queries that no hyperplane used so far tells apart stay in one group:   *)
(* the cuts depend on the hyperplanes alone, not on the order of the heap. *)
SameSideTogether ==
  \A q, r \in Queries :
    (\A h \in 0 .. splitNum - 1 : q \in below[h] <=> r \in below[h])
      => \A g \in pq : q \in g <=> r \in g
===============================================================================
