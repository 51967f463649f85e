------------------------------ MODULE HnswForest ------------------------------
(***************************************************************************)
(* mqo/ann/build_mst_from_ann.hpp: the spanning forest that is read off    *)
(* the bottom layer of an HNSW graph built over the queries.               *)
(*                                                                         *)
(* approximateMSTUsingHNSW follows the links of the graph as they are;     *)
(* approximateMSTUsingHNSW_undirected first collects them into adjacency   *)
(* lists, but keeps a link of v to u only if u > v.  Both run the same     *)
(* priority queue once from every query that is not visited yet.           *)
(*                                                                         *)
(* get_neighbors takes the square root of the distance of the space.  For  *)
(* the inner product space that distance can be negative: the root is NaN, *)
(* no comparison of the heap tells it from anything, and which element is  *)
(* on top of a heap that holds one is left open.                           *)
(***************************************************************************)
EXTENDS Trajectory, FiniteSetsExt

CONSTANTS
  NaN,         \* the square root of a negative distance
  Graphs       \* records [links, dist]: the neighbours the index lists for
               \* every query, and the distance of every pair

Pairs == {{u, v} : u, v \in Queries} \ {{q} : q \in Queries}

ASSUME GraphsAssumption ==
  /\ NaN \notin Nat
  /\ \A g \in Graphs :
       /\ g.links \in [Queries -> SUBSET Queries]
       /\ \A v \in Queries : v \notin g.links[v]
       /\ g.dist \in [Pairs -> Nat \cup {NaN}]

VARIABLES
  undirected,  \* which of the two functions is called
  graph,       \* the index and the distances
  adj,         \* the neighbours the search uses
  start,       \* the query the outer loop is at
  pq,          \* the heap, a set of items
  visited,     \* the queries in the forest
  trajectory,  \* mstEdges
  pc           \* "collect", "search", "done"

vars == <<undirected, graph, adj, start, pq, visited, trajectory, pc>>

(* Node v can be entered from p at distance w.                             *)
Item(w, v, p) == [w |-> w, v |-> v, p |-> p]

Items == [w : Nat \cup {NaN}, v : Queries, p : Queries \cup {Root}]

Init ==
  /\ undirected \in BOOLEAN
  /\ graph \in Graphs
  /\ adj = [v \in Queries |-> {}]
  /\ start = 0
  /\ pq = {}
  /\ visited = {}
  /\ trajectory = << >>
  /\ pc = "collect"

(* A faulty form: the second push_back is missing.                         *)
KeptOneWay == [v \in Queries |-> {u \in graph.links[v] : u > v}]

(* Links are kept in both directions if the smaller end lists the larger.  *)
Kept ==
  [v \in Queries |-> {u \in graph.links[v] : u > v}
                       \cup {u \in Queries : u < v /\ v \in graph.links[u]}]

Collect ==
  /\ pc = "collect"
  /\ adj' = IF undirected THEN Kept ELSE graph.links
  /\ pc' = "search"
  /\ UNCHANGED <<undirected, graph, start, pq, visited, trajectory>>

(* The pushes of the loop over the neighbours of v.                        *)
Pushes(v) == {Item(graph.dist[{u, v}], u, v) : u \in adj[v] \ (visited \cup {v})}

(* A faulty form: the outer loop ends one query too soon.                  *)
SkipStopsEarly ==
  /\ pc = "search"
  /\ pq = {}
  /\ start \in visited
  /\ start' = start + 1
  /\ pc' = IF start' >= N - 1 THEN "done" ELSE "search"
  /\ UNCHANGED <<undirected, graph, adj, pq, visited, trajectory>>

(* The outer loop passes over a query that is visited.                     *)
Skip ==
  /\ pc = "search"
  /\ pq = {}
  /\ start \in visited
  /\ start' = start + 1
  /\ pc' = IF start' = N THEN "done" ELSE "search"
  /\ UNCHANGED <<undirected, graph, adj, pq, visited, trajectory>>

(* The directed function enters the start itself, the other one pushes it. *)
StartDirected ==
  /\ pc = "search"
  /\ ~ undirected
  /\ pq = {}
  /\ start \notin visited
  /\ visited' = visited \cup {start}
  /\ trajectory' = Append(trajectory, Edge(start, Root))
  /\ pq' = Pushes(start)
  /\ UNCHANGED <<undirected, graph, adj, start, pc>>

StartUndirected ==
  /\ pc = "search"
  /\ undirected
  /\ pq = {}
  /\ start \notin visited
  /\ pq' = {Item(0, start, Root)}
  /\ UNCHANGED <<undirected, graph, adj, start, visited, trajectory, pc>>

(* A faulty form: a heap with its comparator turned round.                 *)
TopMax ==
  {i \in pq : \A j \in pq : NaN \in {i.w, j.w} \/ i.w >= j.w}

(* The items that may be on top of the heap.                               *)
Top ==
  IF \E i \in pq : i.w = NaN
  THEN pq
  ELSE {i \in pq : \A j \in pq : i.w <= j.w}

(* A faulty form: visited is tested only before a push.                    *)
PopUnchecked ==
  /\ pc = "search"
  /\ \E i \in Top :
       /\ visited' = visited \cup {i.v}
       /\ trajectory' = Append(trajectory, Edge(i.v, i.p))
       /\ pq' = (pq \ {i}) \cup Pushes(i.v)
  /\ UNCHANGED <<undirected, graph, adj, start, pc>>

(* One iteration of the inner loop.                                        *)
Pop ==
  /\ pc = "search"
  /\ \E i \in Top :
       \/ /\ i.v \in visited
          /\ pq' = pq \ {i}
          /\ UNCHANGED <<visited, trajectory>>
       \/ /\ i.v \notin visited
          /\ visited' = visited \cup {i.v}
          /\ trajectory' = Append(trajectory, Edge(i.v, i.p))
          /\ pq' = (pq \ {i}) \cup Pushes(i.v)
  /\ UNCHANGED <<undirected, graph, adj, start, pc>>

Next == Collect \/ Skip \/ StartDirected \/ StartUndirected \/ Pop

Spec == Init /\ [][Next]_vars /\ WF_vars(Next)

-------------------------------------------------------------------------------
TypeOK ==
  /\ undirected \in BOOLEAN
  /\ graph \in Graphs
  /\ adj \in [Queries -> SUBSET Queries]
  /\ start \in 0 .. N
  /\ pq \in SUBSET Items
  /\ visited \in SUBSET Queries
  /\ trajectory \in Seq(Edges)
  /\ pc \in {"collect", "search", "done"}

(* Reference: the links as the two functions are to take them, and paths   *)
(* along them, by closed sets.                                             *)
Linked(u, v) ==
  IF undirected
  THEN (u < v /\ v \in graph.links[u]) \/ (v < u /\ u \in graph.links[v])
  ELSE v \in graph.links[u]

Reaches(u, v) ==
  \A S \in SUBSET Queries :
    (u \in S /\ \A x \in S, y \in Queries : Linked(x, y) => y \in S) => v \in S

(* A query starts a new tree exactly if no query of lower number leads to  *)
(* it, directly or through others.                                         *)
RootsAreUnreachable ==
  \A i \in DOMAIN trajectory :
    trajectory[i].parent = Root <=>
      \A q \in 0 .. trajectory[i].child - 1 : ~ Reaches(q, trajectory[i].child)

(* The forest holds every query visited once, each after its parent.       *)
EmitsVisited ==
  /\ Children(trajectory) = visited
  /\ EachChildOnce(trajectory) /\ OrderAssert(trajectory)

AdjIsLinked ==
  IF pc = "collect"
  THEN start = 0 /\ visited = {}
  ELSE \A v \in Queries : adj[v] = {u \in Queries : Linked(v, u)}

(* The heap holds links that leave the tree of start, or start alone.      *)
ItemsOK ==
  \A i \in pq :
    IF i.p = Root
    THEN pq = {i} /\ i.v = start /\ start \notin visited
    ELSE /\ {start, i.p} \subseteq visited /\ Linked(i.p, i.v) /\ Reaches(start, i.p)
         /\ i.w = graph.dist[{i.v, i.p}]

(* A link that leaves the forest is in the heap: an empty heap means that  *)
(* the forest is closed.                                                   *)
FrontierQueued ==
  \A v \in visited, u \in Queries :
    Linked(v, u) => u \in visited \/ \E i \in pq : i.v = u /\ i.p = v

(* The cut property, from which least weight follows: no link that leads   *)
(* out of the forest as it was when an edge was added is shorter, unless a *)
(* distance without a square root has upset the heap.                      *)
Lightest(i) ==
  \A j \in 1 .. i - 1, r \in Queries :
    (Linked(trajectory[j].child, r) /\ \A m \in 1 .. i - 1 : r # trajectory[m].child) =>
      graph.dist[{trajectory[i].child, trajectory[i].parent}]
        <= graph.dist[{trajectory[j].child, r}]

NoNaN == \A u, v \in Queries : Linked(u, v) => graph.dist[{u, v}] # NaN

CutsLightest ==
  \A i \in DOMAIN trajectory :
    trajectory[i].parent # Root =>
      Linked(trajectory[i].parent, trajectory[i].child) /\ (NoNaN => Lightest(i))

(* The outer loop leaves no query behind.                                  *)
LoopOK ==
  /\ 0 .. start - 1 \subseteq visited
  /\ pc = "done" <=> start = N
  /\ pq # {} => pc = "search"

(* In its type, and what GroupLoop expects of the optimizer of a group.    *)
IInv ==
  /\ TypeOK /\ EmitsVisited /\ AdjIsLinked /\ ItemsOK /\ FrontierQueued /\ LoopOK
  /\ RootsAscend(trajectory) /\ RootsAreUnreachable /\ CutsLightest

WeightOf(T) ==
  LET Distance(p) == graph.dist[p] IN MapThenSumSet(Distance, T)

TreePairs ==
  {{trajectory[i].child, trajectory[i].parent} :
     i \in {j \in DOMAIN trajectory : trajectory[j].parent # Root}}

(* T joins the two sides of every cut that the graph joins.                *)
Spans(T, G) ==
  \A S \in SUBSET Queries :
    (\E p \in G : p \cap S # {} /\ p \ S # {}) =>
      \E p \in T : p \cap S # {} /\ p \ S # {}

(* Without a NaN among the links kept, the undirected function returns a   *)
(* spanning forest of least weight of the graph of these links.            *)
MinimumForest ==
  LET kept == {p \in Pairs : \E u, v \in p : u # v /\ Linked(u, v)}
  IN  (pc = "done" /\ undirected /\ \A p \in kept : graph.dist[p] # NaN) =>
        /\ TreePairs \subseteq kept /\ Spans(TreePairs, kept)
        /\ \A T \in SUBSET kept :
             Spans(T, kept) => WeightOf(TreePairs) <= WeightOf(T)

(* Every query is visited in the end, with a NaN or without.               *)
Completes == <>(pc = "done" /\ visited = Queries)

Abstract == INSTANCE TrajectorySpec

ImplementsTrajectory == Abstract!Safety
===============================================================================
