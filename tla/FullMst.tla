-------------------------------- MODULE FullMst --------------------------------
(***************************************************************************)
(* mqo/fullmst/full_mst.hpp: Prim's algorithm over all queries, where the  *)
(* loop that measures the distances from the query just taken into the     *)
(* tree is shared out among the threads of an OpenMP team; and the way a   *)
(* tree built so takes into the pipeline: it is written to a file, read    *)
(* back, and mqo() appends the edge {0, -1} to it.                         *)
(*                                                                         *)
(* The weights are those of the inner product.  For the Euclidean distance *)
(* the keys are squares and the roots of them are added up.                *)
(***************************************************************************)
EXTENDS Trajectory, FiniteSetsExt

CONSTANTS
  Cores,       \* n_core, the number of threads of the team
  Infinity,    \* numeric_limits<double>::infinity()
  Distances    \* the distance functions considered

Pairs == {{u, v} : u, v \in Queries} \ {{q} : q \in Queries}

ASSUME FullMstAssumption ==
  /\ Cores \in Nat \ {0}
  /\ Infinity \in Nat \ {0}
  /\ \A d \in Distances : d \in [Pairs -> {w \in Int : w <= Infinity}]

Threads == 0 .. Cores - 1

VARIABLES
  cost,        \* distance of every pair of queries
  visited,     \* the queries of the tree
  dist,        \* best known distance to the tree
  parent,      \* the query of the tree it is measured from
  edges,       \* the edges of the tree; in the end, the trajectory
  totalWeight, \* the weight of these edges
  u,           \* the query taken last
  it,          \* iterations of the outer loop
  next,        \* next[t]: the query that thread t measures next
  pc           \* "select", "relax", "file", "done"

vars == <<cost, visited, dist, parent, edges, totalWeight, u, it, next, pc>>

(* A faulty form: the search starts from the last query.                   *)
StartDistanceLast == [v \in Queries |-> IF v = N - 1 THEN 0 ELSE Infinity]

StartDistance == [v \in Queries |-> IF v = 0 THEN 0 ELSE Infinity]

(* A faulty form: the remainder of the division is left to nobody.         *)
FirstFloor(t) == (N \div Cores) * t

(* schedule(static), as libgomp divides the iterations: thread t has those *)
(* from First(t) up to First(t + 1) - 1.                                   *)
First(t) ==
  (N \div Cores) * t + (IF t < N % Cores THEN t ELSE N % Cores)

Init ==
  /\ cost \in Distances
  /\ visited = {}
  /\ dist = StartDistance
  /\ parent = [v \in Queries |-> Root]
  /\ edges = << >>
  /\ totalWeight = 0
  /\ u = Root
  /\ it = 0
  /\ next = [t \in Threads |-> First(t)]
  /\ pc = "select"

(* What the search for the nearest query can find.                         *)
Candidates == {v \in Queries \ visited : dist[v] < Infinity}

(* The first of the nearest ones.                                          *)
Nearest ==
  CHOOSE v \in Candidates :
    \A w \in Candidates : dist[v] < dist[w] \/ (dist[v] = dist[w] /\ v <= w)

(* The head of the outer loop up to the parallel region; an edge and its   *)
(* weight are recorded unless the query is the root.                       *)
Select ==
  /\ pc = "select"
  /\ it < N
  /\ Candidates # {}
  /\ u' = Nearest
  /\ visited' = visited \cup {u'}
  /\ IF parent[u'] # Root
     THEN /\ edges' = Append(edges, Edge(u', parent[u']))
          /\ totalWeight' = totalWeight + dist[u']
     ELSE UNCHANGED <<edges, totalWeight>>
  /\ next' = [t \in Threads |-> First(t)]
  /\ pc' = "relax"
  /\ UNCHANGED <<cost, dist, parent, it>>

(* No query is at a finite distance, or all have been taken.               *)
Stop ==
  /\ pc = "select"
  /\ it = N \/ Candidates = {}
  /\ pc' = "file"
  /\ UNCHANGED <<cost, visited, dist, parent, edges, totalWeight, u, it, next>>

(* A faulty form: of two distances that are equal the later one counts.    *)
NearerOrEqual(j) == j \notin visited /\ cost[{u, j}] <= dist[j]

(* The test of the loop for a query that is not in the tree.               *)
Nearer(j) == j \notin visited /\ cost[{u, j}] < dist[j]

(* One iteration of the parallel loop, by the thread it belongs to.        *)
Relax(t) ==
  /\ pc = "relax"
  /\ next[t] < First(t + 1)
  /\ LET j == next[t]
     IN  IF Nearer(j)
         THEN /\ dist' = [dist EXCEPT ![j] = cost[{u, j}]]
              /\ parent' = [parent EXCEPT ![j] = u]
         ELSE UNCHANGED <<dist, parent>>
  /\ next' = [next EXCEPT ![t] = next[t] + 1]
  /\ UNCHANGED <<cost, visited, edges, totalWeight, u, it, pc>>

(* A faulty form: nowait, the first thread to finish goes on.              *)
JoinFirst ==
  /\ pc = "relax"
  /\ \E t \in Threads : next[t] >= First(t + 1)
  /\ it' = it + 1
  /\ pc' = "select"
  /\ UNCHANGED <<cost, visited, dist, parent, edges, totalWeight, u, next>>

(* The barrier at the end of the parallel region.                          *)
Join ==
  /\ pc = "relax"
  /\ \A t \in Threads : next[t] >= First(t + 1)
  /\ it' = it + 1
  /\ pc' = "select"
  /\ UNCHANGED <<cost, visited, dist, parent, edges, totalWeight, u, next>>

(* save_mst and read_mst hand the sequence of edges over; mqo() adds the   *)
(* root at the end of it.                                                  *)
AppendRoot ==
  /\ pc = "file"
  /\ edges' = Append(edges, Edge(0, Root))
  /\ pc' = "done"
  /\ UNCHANGED <<cost, visited, dist, parent, totalWeight, u, it, next>>

Work == \E t \in Threads : Relax(t)

Next == Select \/ Stop \/ Work \/ Join \/ AppendRoot

Spec ==
  /\ Init /\ [][Next]_vars
  /\ WF_vars(Select \/ Stop \/ Join \/ AppendRoot)
  /\ \A t \in Threads : WF_vars(Relax(t))

-------------------------------------------------------------------------------
TypeOK ==
  /\ cost \in Distances
  /\ visited \in SUBSET Queries
  /\ dist \in [Queries -> {w \in Int : w <= Infinity}]
  /\ parent \in [Queries -> Queries \cup {Root}]
  /\ edges \in Seq(Edges) /\ Len(edges) <= N
  /\ totalWeight \in Int
  /\ u \in Queries \cup {Root}
  /\ it = Cardinality(visited) - (IF pc = "relax" THEN 1 ELSE 0)
  /\ next \in [Threads -> Nat]
  /\ pc \in {"select", "relax", "file", "done"}

(* The queries in the order in which they were taken into the tree.        *)
Taken == <<0>> \o [i \in DOMAIN edges |-> edges[i].child]

(* After the barrier every query outside the tree knows its distance to    *)
(* the tree, and of the queries at that distance the one that was taken    *)
(* first: the outcome does not depend on how the threads are scheduled.    *)
KeysExact ==
  (pc = "select" /\ visited # {}) =>
    \A v \in Queries \ visited :
      LET near == {i \in DOMAIN Taken :
                     /\ cost[{Taken[i], v}] < Infinity
                     /\ \A w \in visited : cost[{Taken[i], v}] <= cost[{w, v}]}
      IN  IF near = {}
          THEN dist[v] = Infinity /\ parent[v] = Root
          ELSE LET p == Taken[CHOOSE i \in near : \A j \in near : i <= j]
               IN  parent[v] = p /\ dist[v] = cost[{p, v}]

(* What v knows of the first k queries of the tree: its distance to them,  *)
(* and the first of them at that distance.                                 *)
Measured(v, k) ==
  /\ \A i \in 1 .. k : dist[v] <= cost[{Taken[i], v}]
  /\ \/ parent[v] = Root /\ dist[v] = Infinity
     \/ \E i \in 1 .. k :
          /\ parent[v] = Taken[i] /\ dist[v] = cost[{Taken[i], v}] /\ dist[v] < Infinity
          /\ \A j \in 1 .. i - 1 : dist[v] < cost[{Taken[j], v}]

(* Inside the parallel region only those queries lag behind, by the query  *)
(* just taken, that some thread has still before it.                       *)
LagsOnly ==
  (visited # {} /\ pc # "done") =>
    /\ pc = "relax" => u = Taken[Len(Taken)]
    /\ \A v \in Queries \ visited :
         \/ Measured(v, Len(Taken))
         \/ /\ pc = "relax" /\ Measured(v, Len(Taken) - 1)
            /\ \E t \in Threads : next[t] <= v /\ v < First(t + 1)

(* The tree holds the queries taken, each once; every edge is finite and   *)
(* leads to a query taken before.                                          *)
TreeOK ==
  IF visited = {}
  THEN pc = "select" /\ edges = << >> /\ dist = StartDistance
         /\ parent = [v \in Queries |-> Root]
  ELSE pc # "done" =>
         /\ visited = {Taken[i] : i \in DOMAIN Taken}
         /\ \A i, j \in DOMAIN Taken : Taken[i] = Taken[j] => i = j
         /\ \A i \in DOMAIN edges : \E j \in 1 .. i :
              /\ edges[i].parent = Taken[j]
              /\ cost[{Taken[j], edges[i].child}] < Infinity

(* The cut property, from which least weight follows: no pair that leads   *)
(* out of the tree as it was when an edge was added is lighter.            *)
Lightest(i) ==
  \A j \in 1 .. i, r \in Queries :
    (\A m \in 1 .. i : r # Taken[m]) =>
      cost[{edges[i].child, edges[i].parent}] <= cost[{Taken[j], r}]

CutsLightest == \A i \in DOMAIN edges : edges[i].parent # Root => Lightest(i)

(* Reference: spanning trees, by their sets of pairs.                      *)
Spans(T) ==
  \A S \in (SUBSET Queries) \ {{}, Queries} : \E p \in T : p \cap S # {} /\ p \ S # {}

WeightOf(T) == LET Distance(p) == cost[p] IN MapThenSumSet(Distance, T)

TreePairs ==
  {{edges[i].child, edges[i].parent} : i \in {j \in DOMAIN edges : edges[j].parent # Root}}

(* With the root that mqo() appends the tree is what the reordering needs, *)
(* every query once and no cycle; the size assert of checkTrajectory tells *)
(* whether it reached every query.                                         *)
ResultIsForest ==
  /\ EachChildOnce(edges) /\ IsForest(edges)
  /\ SizeAssert(edges) <=> Spans({p \in Pairs : cost[p] < Infinity})

(* The loop ends with every query in the tree or none left to reach.       *)
EndOK ==
  /\ pc = "file" => visited = Queries \/ Candidates = {}
  /\ pc = "done" => ResultIsForest

IInv == TypeOK /\ KeysExact /\ LagsOnly /\ TreeOK /\ CutsLightest /\ EndOK

(* If the finite distances connect the queries, the tree is a spanning     *)
(* tree of least weight, and totalWeight is its weight.                    *)
LeastTree ==
  Spans({p \in Pairs : cost[p] < Infinity}) =>
    /\ Spans(TreePairs)
    /\ totalWeight = WeightOf(TreePairs)
    /\ \A T \in kSubset(N - 1, Pairs) : Spans(T) => totalWeight <= WeightOf(T)

(* Under every schedule the tree is finished, and is such a forest and     *)
(* such a tree.                                                            *)
MinimumTree == <>(pc = "done" /\ ResultIsForest /\ LeastTree)

(***************************************************************************)
(* The threads compute what the sequential algorithm of PrimGroup does,    *)
(* edge by edge and key by key.  Taking a query into the tree is its step; *)
(* what a thread has still to measure counts as measured, so the parallel  *)
(* region shows no step at all.  Where PrimGroup would write before the    *)
(* start of its array, this loop breaks off.                               *)
(***************************************************************************)
Lags(v) == pc = "relax" /\ Nearer(v)

Sequential ==
  INSTANCE PrimGroup WITH
    dist       <- cost,
    key        <- [v \in Queries |-> IF Lags(v) THEN cost[{u, v}] ELSE dist[v]],
    from       <- [v \in Queries |-> IF Lags(v) THEN u ELSE parent[v]],
    inMST      <- visited,
    trajectory <- [i \in 1 .. Cardinality(visited) |->
                     IF i = 1 THEN Edge(0, Root) ELSE edges[i - 1]],
    weight     <- totalWeight,
    pc         <- IF visited = Queries THEN "done"
                  ELSE IF pc \in {"file", "done"} THEN "overrun" ELSE "grow"

ImplementsPrim == Sequential!Safety
===============================================================================
