------------------------------- MODULE PrimGroup -------------------------------
(***************************************************************************)
(* Prim's algorithm on the complete graph of one group, as it stands in    *)
(* computeMSTs (mqo/lsh_mst_opt.hpp) and in the branch for groups of at    *)
(* most 500 queries of mqo/mixed_mst_opt.hpp.  The queries are the local   *)
(* numbers of the group, so N is the size of the group.                    *)
(*                                                                         *)
(* Distances are integers up to Infinity.  They may be negative: the inner *)
(* product distance 1 - <q, r> is.  A distance that no comparison ever     *)
(* finds smaller than a key, an overflow to infinity or a NaN, is          *)
(* Infinity.                                                               *)
(***************************************************************************)
EXTENDS Trajectory, FiniteSetsExt

CONSTANTS
  Infinity,    \* numeric_limits<float>::infinity()
  Distances    \* the distance functions considered

Pairs == {{u, v} : u, v \in Queries} \ {{q} : q \in Queries}

ASSUME DistancesAssumption ==
  /\ Infinity \in Nat \ {0}
  /\ \A d \in Distances : d \in [Pairs -> {w \in Int : w <= Infinity}]

VARIABLES
  dist,        \* distance of every pair of queries
  key,         \* key[v].first, the distance to the tree
  from,        \* key[v].second, the query of the tree it is measured from
  inMST,       \* the queries of the tree
  trajectory,  \* the edges in the order of their selection
  weight,      \* groupMSTWeight
  pc           \* "grow", "done", or "overrun": inMST[-1] has been written

vars == <<dist, key, from, inMST, trajectory, weight, pc>>

Init ==
  /\ dist \in Distances
  /\ key = [v \in Queries |-> IF v = 0 THEN 0 ELSE Infinity]
  /\ from = [v \in Queries |-> Root]
  /\ inMST = {}
  /\ trajectory = << >>
  /\ weight = 0
  /\ pc = "grow"

(* What the search for the nearest query can find.                         *)
Candidates == {v \in Queries \ inMST : key[v] < Infinity}

(* A faulty form: the search stops at the first candidate.                 *)
NearestIsFirst == CHOOSE v \in Candidates : \A u \in Candidates : v <= u

(* The first of the nearest ones.                                          *)
Nearest ==
  CHOOSE v \in Candidates :
    \A u \in Candidates : key[v] < key[u] \/ (key[v] = key[u] /\ v <= u)

(* A faulty form: the key is the length of a path, as in Dijkstra's        *)
(* algorithm.                                                              *)
NearerByPath(c, v) == v \notin inMST \cup {c} /\ key[c] + dist[{c, v}] < key[v]

(* The test of the loop over the queries outside the tree.                 *)
Nearer(c, v) == v \notin inMST \cup {c} /\ dist[{c, v}] < key[v]

Selected(c) == Edge(c, from[c])

(* One iteration of the outer loop: take the nearest query into the tree   *)
(* and measure the others from it.                                         *)
Grow ==
  /\ pc = "grow"
  /\ Candidates # {}
  /\ LET c == Nearest
     IN  /\ inMST' = inMST \cup {c}
         /\ trajectory' = Append(trajectory, Selected(c))
         /\ weight' = weight + key[c]
         /\ key' = [v \in Queries |-> IF Nearer(c, v) THEN dist[{c, v}] ELSE key[v]]
         /\ from' = [v \in Queries |-> IF Nearer(c, v) THEN c ELSE from[v]]
         /\ pc' = IF inMST' = Queries THEN "done" ELSE "grow"
  /\ UNCHANGED dist

(* No key is finite: curr is still -1 when it is used as an index.         *)
Overrun ==
  /\ pc = "grow"
  /\ Candidates = {}
  /\ pc' = "overrun"
  /\ UNCHANGED <<dist, key, from, inMST, trajectory, weight>>

Next == Grow \/ Overrun

Safety == Init /\ [][Next]_vars

Spec == Init /\ [][Next]_vars /\ WF_vars(Next)

-------------------------------------------------------------------------------
TypeOK ==
  /\ dist \in Distances
  /\ key \in [Queries -> {w \in Int : w <= Infinity}]
  /\ from \in [Queries -> Queries \cup {Root}]
  /\ inMST \in SUBSET Queries
  /\ trajectory \in Seq(Edges)
  /\ weight \in Int
  /\ pc \in {"grow", "done", "overrun"}

Outside == Queries \ inMST

(* The key of a query outside the tree is its distance to the tree, and    *)
(* from names a query of the tree at that distance.                        *)
KeysExact ==
  inMST # {} =>
    \A v \in Outside :
      /\ \A u \in inMST : key[v] <= dist[{u, v}]
      /\ \/ from[v] \in inMST /\ key[v] = dist[{from[v], v}] /\ key[v] < Infinity
         \/ from[v] = Root /\ key[v] = Infinity

(* What GroupLoop expects of the optimizer of a group, at every step: no   *)
(* query twice, parents first, and the first query is the only root.       *)
GroupContract ==
  /\ EachChildOnce(trajectory) /\ OrderAssert(trajectory) /\ RootsAscend(trajectory)
  /\ \A i \in DOMAIN trajectory : trajectory[i].parent = Root <=> i = 1
  /\ pc = "done" => CheckTrajectory(trajectory)

(* The cut property, from which least weight follows: no pair that leads   *)
(* out of the tree as it was when an edge was added is lighter.            *)
Lightest(i) ==
  \A j \in 1 .. i - 1, v \in Queries :
    (\A m \in 1 .. i - 1 : v # trajectory[m].child) =>
      dist[{trajectory[i].child, trajectory[i].parent}] <= dist[{trajectory[j].child, v}]

CutsLightest == \A i \in DOMAIN trajectory : trajectory[i].parent # Root => Lightest(i)

IInv == TypeOK /\ KeysExact /\ GroupContract /\ CutsLightest

(* Reference: spanning trees, by their sets of pairs.                      *)
Joins(T, S) == \E p \in T : p \cap S # {} /\ p \ S # {}

Spans(T) == \A S \in (SUBSET Queries) \ {{}, Queries} : Joins(T, S)

WeightOf(T) == LET Distance(p) == dist[p] IN MapThenSumSet(Distance, T)

TreePairs ==
  {{trajectory[i].child, trajectory[i].parent} :
     i \in {j \in DOMAIN trajectory : trajectory[j].parent # Root}}

(* The tree is a spanning tree of least weight, and groupMSTWeight is its  *)
(* weight.                                                                 *)
LeastTree ==
  /\ Spans(TreePairs)
  /\ weight = WeightOf(TreePairs)
  /\ \A T \in kSubset(N - 1, Pairs) : Spans(T) => weight <= WeightOf(T)

(* If the finite distances connect the group, the index -1 is not used and *)
(* the loop ends with such a tree.                                         *)
Connected == Spans({p \in Pairs : dist[p] < Infinity})

MinimumTree == Connected => <>(pc = "done" /\ LeastTree)
===============================================================================
