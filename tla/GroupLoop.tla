------------------------------- MODULE GroupLoop -------------------------------
(***************************************************************************)
(* The LSH optimizers as a whole: computeMSTs of mqo/lsh_mst_opt.hpp and   *)
(* the loops of mqo/mixed_mst_opt.hpp.  After the queries have been split, *)
(* the groups leave the queue largest first; each is given to an optimizer *)
(* that numbers its queries from 0, and the edges that come back are       *)
(* renumbered and appended to the trajectory.  Last, the weight of a root  *)
(* is estimated from pairs of different queries drawn at random.           *)
(*                                                                         *)
(* What the optimizer of one group returns is any sequence that PrimGroup  *)
(* and HnswForest allow: every query of the group once, parents first,     *)
(* roots in ascending order.                                               *)
(***************************************************************************)
EXTENDS LshSplit

VARIABLES
  grp,         \* the group in work, as the function from local numbers
  local,       \* edges of the group that are still to be appended
  trajectory,  \* fullTrajectory
  sumEdges,    \* edges with a parent, for the average weight
  pc           \* "groups" until the root weight is known, then "done"

loopVars == <<grp, local, trajectory, sumEdges, pc>>

vars == <<pq, splitNum, below, grp, local, trajectory, sumEdges, pc>>

Init ==
  /\ SplitInit
  /\ grp = << >>
  /\ local = << >>
  /\ trajectory = << >>
  /\ sumEdges = 0
  /\ pc = "groups"

(* Local number i stands for the i-th query of the group.                  *)
Numberings(g) ==
  {f \in [0 .. Cardinality(g) - 1 -> g] :
     \A i, j \in DOMAIN f : i < j => f[i] < f[j]}

LocalTrajectories(n) ==
  {t \in [1 .. n -> [child : 0 .. n - 1, parent : -1 .. n - 1]] :
     EachChildOnce(t) /\ OrderAssert(t) /\ RootsAscend(t)}

SplitGroup ==
  /\ Split
  /\ UNCHANGED loopVars

(* The head of the loop: pop a group and run its optimizer.                *)
PopGroup ==
  /\ splitNum = B - 1
  /\ local = << >>
  /\ \E g \in Largest :
       /\ pq' = pq \ {g}
       /\ grp' \in Numberings(g)
       /\ local' \in LocalTrajectories(Cardinality(g))
  /\ UNCHANGED <<splitNum, below, trajectory, sumEdges, pc>>

(* A faulty form: parents left in local numbers.                           *)
GlobalKeepsParent(e) == Edge(grp[e.child], e.parent)

(* gni and gpi                                                             *)
Global(e) ==
  Edge(grp[e.child], IF e.parent >= 0 THEN grp[e.parent] ELSE Root)

(* A faulty form: the first edge of every later group is lost.             *)
AppendEdgeLosesRoot ==
  /\ local # << >>
  /\ trajectory' = IF Head(local).parent >= 0 \/ trajectory = << >>
                   THEN Append(trajectory, Global(Head(local)))
                   ELSE trajectory
  /\ sumEdges' = sumEdges + (IF Head(local).parent >= 0 THEN 1 ELSE 0)
  /\ local' = Tail(local)
  /\ UNCHANGED <<splitVars, grp, pc>>

(* One iteration of the loop over locTraj.                                 *)
AppendEdge ==
  /\ local # << >>
  /\ trajectory' = Append(trajectory, Global(Head(local)))
  /\ sumEdges' = sumEdges + (IF Head(local).parent >= 0 THEN 1 ELSE 0)
  /\ local' = Tail(local)
  /\ UNCHANGED <<splitVars, grp, pc>>

(* get_weight_for_root: sample_two draws until it has two queries that     *)
(* differ, so it returns only if there are two.                            *)
RootWeight ==
  /\ pc = "groups"
  /\ splitNum = B - 1
  /\ pq = {}
  /\ local = << >>
  /\ \E a, b \in Queries : a # b
  /\ pc' = "done"
  /\ UNCHANGED <<splitVars, grp, local, trajectory, sumEdges>>

Next == SplitGroup \/ PopGroup \/ AppendEdge \/ RootWeight

Spec == Init /\ [][Next]_vars /\ WF_vars(Next)

-------------------------------------------------------------------------------
TypeOK ==
  /\ SplitTypeOK
  /\ grp \in UNION {Numberings(g) : g \in SUBSET Queries}
  /\ local \in Seq([child : Queries, parent : -1 .. N - 1])
  /\ trajectory \in Seq(Edges)
  /\ sumEdges \in 0 .. N
  /\ pc \in {"groups", "done"}

(* Every query is in exactly one place, from the first cut to the last     *)
(* edge: in one group of the queue, in one edge of the group in work, or   *)
(* in one edge of the trajectory.  No cut, empty half or repeated cut of a *)
(* singleton loses or doubles a query, and top() is never called on an     *)
(* empty queue.                                                            *)
Pending == {grp[local[i].child] : i \in DOMAIN local}

EveryQueryInOnePlace ==
  /\ (UNION pq) \cup Pending \cup Children(trajectory) = Queries
  /\ \A g, h \in pq : g # h => g \cap h = {}
  /\ (UNION pq) \cap (Pending \cup Children(trajectory)) = {}
  /\ Pending \cap Children(trajectory) = {}
  /\ EachChildOnce(local) /\ EachChildOnce(trajectory)

(* The edges still to be appended are numbered within the group, and the   *)
(* parent of each is further ahead in the list or in the trajectory.       *)
LocalOK ==
  \A i \in DOMAIN local :
    /\ local[i].child \in DOMAIN grp
    /\ local[i].parent # Root =>
         /\ local[i].parent \in DOMAIN grp
         /\ \/ \E j \in 1 .. i - 1 : local[j].child = local[i].parent
            \/ grp[local[i].parent] \in Children(trajectory)

WithParent == {i \in DOMAIN trajectory : trajectory[i].parent # Root}

(* Whoever is done has emptied the queue.                                  *)
DoneIsEmpty == pc = "done" => splitNum = B - 1 /\ pq = {} /\ local = << >>

IInv ==
  /\ TypeOK /\ SameSideTogether /\ EveryQueryInOnePlace
  /\ LocalOK /\ OrderAssert(trajectory) /\ sumEdges = Cardinality(WithParent)
  /\ DoneIsEmpty

(* What the optimizer returns meets what reorder_multiple_DFS assumes of   *)
(* it: it would pass checkTrajectory even before the reordering, as a      *)
(* query of a later group is never the parent of one of an earlier group.  *)
(* The average weight charges one root weight for every tree: n_query -    *)
(* sumEdges is the number of trees.                                        *)
ResultIsForest ==
  /\ EachChildOnce(trajectory) /\ CheckTrajectory(trajectory)
  /\ N - sumEdges = Cardinality({i \in DOMAIN trajectory : trajectory[i].parent = Root})

(* The optimizer returns, and returns that.                                *)
ReturnsForest == <>(pc = "done" /\ ResultIsForest)

(* An edge joins two queries of the group in work: renumbering never leads *)
(* into another group.                                                     *)
EdgesStayInGroup ==
  [][trajectory' # trajectory =>
       LET e == trajectory'[Len(trajectory')]
           members == {grp[i] : i \in DOMAIN grp}
       IN  e.child \in members /\ e.parent \in members \cup {Root}]_vars
===============================================================================
