--------------------------- MODULE HnswForestProofs ---------------------------
(***************************************************************************)
(* Proofs about HnswForest, for every number of queries, every graph of    *)
(* links, whether the links are followed one way or kept both ways, and    *)
(* every distance, those without a square root included; about what it     *)
(* implements, TrajectorySpec; and about HnswBuild, which builds the graph *)
(* whose links it reads.                                                   *)
(***************************************************************************)
EXTENDS HnswForest, FiniteSetTheorems, FunctionTheorems, SequenceTheorems,
        WellFoundedInduction, TLAPS

-------------------------------------------------------------------------------
(* Sequences of edges.                                                     *)

(* The fields of an edge are a query and a query or Root.                  *)
LEMMA EdgeShape ==
  \A e \in Edges : /\ e.child \in Queries
                   /\ e.parent \in Queries \cup {Root}
                   /\ e = Edge(e.child, e.parent)
BY DEF Edges, Edge

(* What t \in Seq(Edges) says of the positions of t.                       *)
LEMMA EdgesAt ==
  ASSUME NEW t \in Seq(Edges)
  PROVE  /\ Len(t) \in Nat
         /\ DOMAIN t = 1 .. Len(t)
         /\ \A i \in 1 .. Len(t) : t[i] \in Edges /\ t[i].child \in Queries
<1>1. Len(t) \in Nat /\ DOMAIN t = 1 .. Len(t)
  BY LenProperties
<1>2. \A i \in 1 .. Len(t) : t[i] \in Edges
  BY <1>1, ElementOfSeq
<1> QED
  BY <1>1, <1>2, EdgeShape

LEMMA QueriesFinite ==
  IsFiniteSet(Queries) /\ Cardinality(Queries) = N
<1>1. 0 \in Int /\ N - 1 \in Int /\ ~ (0 > N - 1)
  BY NAssumption
<1> QED
  BY <1>1, NAssumption, FS_Interval DEF Queries

(* The children of t as a function of the position.                        *)
LEMMA ChildFunction ==
  ASSUME NEW t \in Seq(Edges), EachChildOnce(t),
         NEW f, f = [i \in 1 .. Len(t) |-> t[i].child]
  PROVE  /\ f \in Injection(1 .. Len(t), Queries)
         /\ IsFiniteSet(1 .. Len(t)) /\ Cardinality(1 .. Len(t)) = Len(t)
         /\ f \in Surjection(1 .. Len(t), Queries) <=> Children(t) = Queries
<1>1. f \in [1 .. Len(t) -> Queries]
  BY EdgesAt
<1>2. IsInjective(f)
  BY EdgesAt DEF IsInjective, EachChildOnce
<1>3. f \in Injection(1 .. Len(t), Queries)
  BY <1>1, <1>2 DEF Injection
<1>4. IsFiniteSet(1 .. Len(t)) /\ Cardinality(1 .. Len(t)) = Len(t)
  <2>1. 1 \in Int /\ Len(t) \in Int /\ Len(t) \in Nat
    BY EdgesAt
  <2>2. IF 1 > Len(t) THEN Len(t) = 0 ELSE Len(t) - 1 + 1 = Len(t)
    BY <2>1
  <2> QED
    BY <2>1, <2>2, FS_Interval
<1>5. f \in Surjection(1 .. Len(t), Queries) <=> Children(t) = Queries
  BY <1>1, EdgesAt DEF Surjection, Children
<1> QED
  BY <1>3, <1>4, <1>5

(* N edges with different children cover the queries, and a cover without  *)
(* repetition has N edges.                                                 *)
LEMMA Pigeonhole ==
  ASSUME NEW t \in Seq(Edges), EachChildOnce(t)
  PROVE  Len(t) = N <=> Children(t) = Queries
<1>1. PICK f : f = [i \in 1 .. Len(t) |-> t[i].child]
  OBVIOUS
<1>2. /\ f \in Injection(1 .. Len(t), Queries)
      /\ IsFiniteSet(1 .. Len(t)) /\ Cardinality(1 .. Len(t)) = Len(t)
      /\ f \in Surjection(1 .. Len(t), Queries) <=> Children(t) = Queries
  BY <1>1, ChildFunction
<1>3. Cardinality(1 .. Len(t)) = Cardinality(Queries)
        <=> f \in Surjection(1 .. Len(t), Queries)
  BY <1>2, QueriesFinite, FS_Injection
<1> QED
  BY <1>2, <1>3, QueriesFinite

(* What appending an edge does to the positions and to the children.       *)
LEMMA Appending ==
  ASSUME NEW t \in Seq(Edges), NEW e \in Edges, NEW s, s = Append(t, e)
  PROVE  /\ s \in Seq(Edges) /\ Len(s) = Len(t) + 1
         /\ Len(t) \in Nat /\ DOMAIN t = 1 .. Len(t) /\ DOMAIN s = 1 .. Len(t) + 1
         /\ \A i \in 1 .. Len(t) : s[i] = t[i]
         /\ s[Len(t) + 1] = e
BY EdgesAt, AppendProperties

LEMMA AppendingChildren ==
  ASSUME NEW t \in Seq(Edges), NEW e \in Edges, NEW s, s = Append(t, e)
  PROVE  Children(s) = Children(t) \cup {e.child}
<1> DEFINE n == Len(t)
<1>1. /\ n \in Nat /\ DOMAIN t = 1 .. n /\ DOMAIN s = 1 .. n + 1
      /\ \A i \in 1 .. n : s[i] = t[i]
      /\ s[n + 1] = e
  BY Appending
<1> HIDE DEF n
<1>2. \A i : i \in 1 .. n + 1 <=> i \in 1 .. n \/ i = n + 1
  BY <1>1
<1> QED
  BY <1>1, <1>2 DEF Children

(* A new query with a parent that has been emitted keeps a trajectory one. *)
LEMMA AppendingKeeps ==
  ASSUME NEW t \in Seq(Edges), EachChildOnce(t), OrderAssert(t),
         NEW e \in Edges, e.child \notin Children(t),
         e.parent = Root \/ e.parent \in Children(t),
         NEW s, s = Append(t, e)
  PROVE  EachChildOnce(s) /\ OrderAssert(s)
<1> DEFINE n == Len(t)
<1>1. /\ n \in Nat /\ DOMAIN t = 1 .. n /\ DOMAIN s = 1 .. n + 1
      /\ \A i \in 1 .. n : s[i] = t[i]
      /\ s[n + 1] = e
  BY Appending
<1> HIDE DEF n
<1>2. \A i \in 1 .. n : t[i].child # e.child
  BY <1>1 DEF Children
<1>3. EachChildOnce(s)
  BY <1>1, <1>2 DEF EachChildOnce
<1>4. OrderAssert(s)
  <2> SUFFICES ASSUME NEW i \in 1 .. n + 1, s[i].parent # Root
               PROVE  \E j \in 1 .. i - 1 : s[j].child = s[i].parent
    BY <1>1 DEF OrderAssert
  <2>1. CASE i \in 1 .. n
    <3>1. PICK j \in 1 .. i - 1 : t[j].child = t[i].parent
      BY <1>1, <2>1 DEF OrderAssert
    <3> QED
      BY <1>1, <2>1, <3>1
  <2>2. CASE i = n + 1
    <3>1. PICK j \in 1 .. n : t[j].child = e.parent
      BY <1>1, <2>2 DEF Children
    <3> QED
      BY <1>1, <2>2, <3>1
  <2> QED
    BY <1>1, <2>1, <2>2
<1> QED
  BY <1>3, <1>4

LEMMA LeastNumber ==
  ASSUME NEW T \in SUBSET Nat, T # {}
  PROVE  \E m \in T : \A x \in T : m <= x
<1> DEFINE R == OpToRel(<, Nat)
<1>1. PICK m \in T : \A x \in T : ~ (<<x, m>> \in R)
  <2>1. IsWellFoundedOn(R, Nat)
    BY NatLessThanWellFounded
  <2> HIDE DEF R
  <2> QED
    BY <2>1, WFMin
<1>2. \A x \in T : ~ (x < m)
  BY <1>1 DEF OpToRel
<1> QED
  BY <1>2

(* A finite set of numbers has a member of least rank, and of those of     *)
(* equal rank a least one.                                                 *)
LEMMA LeastByRank ==
  ASSUME NEW S, IsFiniteSet(S), S # {}, S \subseteq Int,
         NEW rank, \A v \in S : rank[v] \in Int
  PROVE  \E v \in S : \A w \in S : rank[v] < rank[w] \/ (rank[v] = rank[w] /\ v <= w)
<1> DEFINE Below(v) == {w \in S : rank[w] < rank[v] \/ (rank[w] = rank[v] /\ w < v)}
           F == {Below(v) : v \in S}
           R == StrictSubsetOrdering(S)
<1>1. IsWellFoundedOn(R, SUBSET S)
  BY FS_StrictSubsetOrderingWellFounded, FS_FiniteSubsetsOfFinite
<1>2. F \subseteq SUBSET S /\ F # {}
  OBVIOUS
<1>3. PICK B \in F : \A C \in F : <<C, B>> \notin R
  <2> HIDE DEF F, R
  <2> QED
    BY <1>1, <1>2, WFMin
<1>4. PICK v \in S : B = Below(v)
  BY <1>3
<1>5. \A w \in S : w \notin Below(v)
  <2> SUFFICES ASSUME NEW w \in S, w \in Below(v) PROVE FALSE
    OBVIOUS
  <2>1. /\ rank[w] \in Int /\ rank[v] \in Int /\ w \in Int /\ v \in Int
        /\ rank[w] < rank[v] \/ (rank[w] = rank[v] /\ w < v)
    OBVIOUS
  <2>2. Below(w) \subseteq Below(v)
    <3> SUFFICES ASSUME NEW x \in S, rank[x] < rank[w] \/ (rank[x] = rank[w] /\ x < w)
                 PROVE  rank[x] < rank[v] \/ (rank[x] = rank[v] /\ x < v)
      OBVIOUS
    <3>1. rank[x] \in Int /\ x \in Int
      OBVIOUS
    <3> QED
      BY <2>1, <3>1
  <2>3. w \notin Below(w)
    BY <2>1
  <2>4. Below(w) \in F /\ Below(w) # Below(v)
    BY <2>3
  <2>5. <<Below(w), Below(v)>> \in R
    BY <2>2, <2>4 DEF StrictSubsetOrdering
  <2> HIDE DEF Below, F, R
  <2> QED
    BY <1>3, <1>4, <2>4, <2>5
<1>6. \A w \in S : rank[v] < rank[w] \/ (rank[v] = rank[w] /\ v <= w)
  <2> SUFFICES ASSUME NEW w \in S
               PROVE  rank[v] < rank[w] \/ (rank[v] = rank[w] /\ v <= w)
    OBVIOUS
  <2>1. rank[w] \in Int /\ rank[v] \in Int /\ w \in Int /\ v \in Int
    OBVIOUS
  <2>2. ~ (rank[w] < rank[v] \/ (rank[w] = rank[v] /\ w < v))
    BY <1>5
  <2> QED
    BY <2>1, <2>2
<1> QED
  BY <1>6

-------------------------------------------------------------------------------
(* Links and paths.                                                        *)

LEMMA LinkedApart ==
  ASSUME graph \in Graphs
  PROVE  \A u, v \in Queries : Linked(u, v) => u # v
<1>1. \A v \in Queries : v \notin graph.links[v]
  BY GraphsAssumption
<1>2. \A v \in Queries : ~ (v < v)
  BY NAssumption DEF Queries
<1> QED
  BY <1>1, <1>2 DEF Linked

LEMMA ReachesItself ==
  \A u : Reaches(u, u)
BY DEF Reaches

LEMMA ReachesFurther ==
  ASSUME NEW u, NEW v \in Queries, NEW w \in Queries, Reaches(u, v), Linked(v, w)
  PROVE  Reaches(u, w)
BY DEF Reaches

LEMMA ClosedKeepsOut ==
  ASSUME NEW S \in SUBSET Queries, \A x \in S, y \in Queries : Linked(x, y) => y \in S,
         NEW u \in S, NEW v, v \notin S
  PROVE  ~ Reaches(u, v)
BY DEF Reaches

(* The graph does not change, nor does what can be reached in it.          *)
LEMMA SameReach ==
  ASSUME UNCHANGED <<undirected, graph>>
  PROVE  /\ \A u, v : Linked(u, v)' <=> Linked(u, v)
         /\ \A u, v : Reaches(u, v)' <=> Reaches(u, v)
<1>1. \A u, v : Linked(u, v)' <=> Linked(u, v)
  BY DEF Linked
<1> QED
  BY <1>1 DEF Reaches

(* Edges that stay where they are stay as short as they were.              *)
LEMMA CutsKeep ==
  ASSUME CutsLightest, UNCHANGED <<undirected, graph>>, NEW n \in Nat,
         DOMAIN trajectory = 1 .. n,
         \A i \in 1 .. n : trajectory'[i] = trajectory[i]
  PROVE  /\ NoNaN' <=> NoNaN
         /\ \A i \in 1 .. n :
              trajectory'[i].parent # Root =>
                /\ Linked(trajectory[i].parent, trajectory[i].child)'
                /\ NoNaN => Lightest(i)'
<1>1. \A u, v : Linked(u, v)' <=> Linked(u, v)
  BY SameReach
<1>2. NoNaN' <=> NoNaN
  BY <1>1 DEF NoNaN
<1>3. ASSUME NEW i \in 1 .. n, trajectory'[i].parent # Root
      PROVE  /\ Linked(trajectory[i].parent, trajectory[i].child)'
             /\ NoNaN => Lightest(i)'
  <2>1. /\ Linked(trajectory[i].parent, trajectory[i].child)
        /\ NoNaN => Lightest(i)
    BY <1>3 DEF CutsLightest
  <2>2. \A j \in 1 .. i - 1 : j \in 1 .. n
    OBVIOUS
  <2>3. trajectory'[i] = trajectory[i] /\ \A j \in 1 .. i - 1 : trajectory'[j] = trajectory[j]
    BY <2>2
  <2>4. Lightest(i) => Lightest(i)'
    BY <1>1, <2>3 DEF Lightest
  <2> QED
    BY <1>1, <2>1, <2>3, <2>4
<1> QED
  BY <1>2, <1>3

LEMMA CutsStay ==
  ASSUME CutsLightest, TypeOK, UNCHANGED <<undirected, graph, trajectory>>
  PROVE  CutsLightest'
<1>1. PICK n \in Nat : DOMAIN trajectory = 1 .. n
  BY EdgesAt DEF TypeOK
<1>2. /\ NoNaN' <=> NoNaN
      /\ \A i \in 1 .. n :
           trajectory'[i].parent # Root =>
             /\ Linked(trajectory[i].parent, trajectory[i].child)'
             /\ NoNaN => Lightest(i)'
  BY <1>1, CutsKeep
<1> QED
  BY <1>1, <1>2 DEF CutsLightest

(* The pushes from a query are the links from it that leave the forest.    *)
LEMMA PushesOK ==
  ASSUME TypeOK, AdjIsLinked, pc = "search", NEW v \in Queries
  PROVE  /\ Pushes(v) \subseteq Items
         /\ \A i \in Pushes(v) :
              i.p = v /\ i.p # Root /\ Linked(v, i.v) /\ i.w = graph.dist[{i.v, i.p}]
         /\ \A u \in Queries :
              Linked(v, u) => u \in visited \/ \E i \in Pushes(v) : i.v = u /\ i.p = v
<1>1. adj[v] = {u \in Queries : Linked(v, u)}
  BY DEF AdjIsLinked
<1>2. \A u \in Queries : Linked(v, u) => u # v
  BY LinkedApart DEF TypeOK
<1>3. \A u \in Queries : u # v => graph.dist[{u, v}] \in Nat \cup {NaN}
  <2>1. graph.dist \in [Pairs -> Nat \cup {NaN}]
    BY GraphsAssumption DEF TypeOK
  <2>2. \A u \in Queries : u # v => {u, v} \in Pairs
    BY DEF Pairs
  <2> QED
    BY <2>1, <2>2
<1>4. v # Root
  BY NAssumption DEF Queries, Root
<1>5. \A w, u, p : Item(w, u, p).w = w /\ Item(w, u, p).v = u /\ Item(w, u, p).p = p
  BY DEF Item
<1>6. \A u \in Queries : u # v => Item(graph.dist[{u, v}], u, v) \in Items
  BY <1>3 DEF Item, Items
<1>7. \A i \in Pushes(v) : \E u \in Queries :
        u # v /\ Linked(v, u) /\ i = Item(graph.dist[{u, v}], u, v)
  BY <1>1 DEF Pushes
<1>8. \A u \in Queries :
        Linked(v, u) => u \in visited \/ Item(graph.dist[{u, v}], u, v) \in Pushes(v)
  BY <1>1, <1>2 DEF Pushes
<1>9. Pushes(v) \subseteq Items
  BY <1>6, <1>7
<1>10. \A i \in Pushes(v) :
         i.p = v /\ i.p # Root /\ Linked(v, i.v) /\ i.w = graph.dist[{i.v, i.p}]
  <2> SUFFICES ASSUME NEW i \in Pushes(v)
               PROVE  i.p = v /\ Linked(v, i.v) /\ i.w = graph.dist[{i.v, i.p}]
    BY <1>4
  <2>1. PICK u \in Queries : Linked(v, u) /\ i = Item(graph.dist[{u, v}], u, v)
    BY <1>7
  <2>2. i.p = v /\ i.v = u /\ i.w = graph.dist[{u, v}]
    BY <1>5, <2>1
  <2> QED
    BY <2>1, <2>2
<1>11. \A u \in Queries :
         Linked(v, u) => u \in visited \/ \E i \in Pushes(v) : i.v = u /\ i.p = v
  <2> SUFFICES ASSUME NEW u \in Queries, Linked(v, u), u \notin visited
               PROVE  \E i \in Pushes(v) : i.v = u /\ i.p = v
    OBVIOUS
  <2>1. PICK i : i = Item(graph.dist[{u, v}], u, v)
    OBVIOUS
  <2>2. i \in Pushes(v) /\ i.v = u /\ i.p = v
    BY <1>5, <1>8, <2>1
  <2> QED
    BY <2>2
<1> QED
  BY <1>9, <1>10, <1>11

-------------------------------------------------------------------------------
(* What every state has in common.                                         *)

LEMMA InitIInv == Init => IInv
<1> SUFFICES ASSUME Init PROVE IInv
  OBVIOUS
<1>1. 0 \in 0 .. N /\ 0 # N
  BY NAssumption
<1>2. TypeOK
  BY <1>1 DEF Init, TypeOK
<1>3. trajectory = << >> /\ DOMAIN trajectory = {} /\ Children(trajectory) = {}
  BY DEF Init, Children
<1>4. EmitsVisited
  BY <1>3 DEF Init, EmitsVisited, EachChildOnce, OrderAssert
<1>5. AdjIsLinked /\ ItemsOK /\ FrontierQueued
  BY DEF Init, AdjIsLinked, ItemsOK, FrontierQueued
<1>6. LoopOK
  BY <1>1 DEF Init, LoopOK
<1>7. RootsAscend(trajectory) /\ RootsAreUnreachable /\ CutsLightest
  BY <1>3 DEF RootsAscend, RootsAreUnreachable, CutsLightest
<1> QED
  BY <1>2, <1>4, <1>5, <1>6, <1>7 DEF IInv

LEMMA CollectKeeps ==
  ASSUME IInv, Collect
  PROVE  IInv'
<1>1. /\ pc = "collect" /\ pc' = "search"
      /\ adj' = IF undirected THEN Kept ELSE graph.links
      /\ UNCHANGED <<undirected, graph, start, pq, visited, trajectory>>
  BY DEF Collect
<1>2. graph.links \in [Queries -> SUBSET Queries]
  BY GraphsAssumption DEF IInv, TypeOK
<1>3. Kept \in [Queries -> SUBSET Queries]
  BY <1>2 DEF Kept
<1>4. TypeOK'
  BY <1>1, <1>2, <1>3 DEF IInv, TypeOK
<1>5. AdjIsLinked'
  <2> SUFFICES ASSUME NEW v \in Queries
               PROVE  adj'[v] = {u \in Queries : Linked(v, u)}
    BY <1>1, SameReach DEF AdjIsLinked
  <2>1. CASE ~ undirected
    BY <1>1, <1>2, <2>1 DEF Linked
  <2>2. CASE undirected
    <3>1. adj'[v] = {u \in graph.links[v] : u > v}
                      \cup {u \in Queries : u < v /\ v \in graph.links[u]}
      BY <1>1, <2>2 DEF Kept
    <3>2. \A u \in Queries : Linked(v, u) <=>
            (v < u /\ u \in graph.links[v]) \/ (u < v /\ v \in graph.links[u])
      BY <2>2 DEF Linked
    <3>3. \A u \in graph.links[v] : u \in Queries
      BY <1>2
    <3>4. \A u \in Queries : u > v <=> v < u
      BY NAssumption DEF Queries
    <3> QED
      BY <3>1, <3>2, <3>3, <3>4
  <2> QED
    BY <2>1, <2>2
<1>6. visited = {} /\ pq = {}
  BY <1>1 DEF IInv, AdjIsLinked, LoopOK
<1>7. ItemsOK' /\ FrontierQueued'
  BY <1>1, <1>6 DEF ItemsOK, FrontierQueued
<1>8. LoopOK'
  BY <1>1 DEF IInv, LoopOK
<1>9. EmitsVisited' /\ RootsAscend(trajectory)'
  BY <1>1 DEF IInv, EmitsVisited, Children, EachChildOnce, OrderAssert, RootsAscend
<1>10. RootsAreUnreachable'
  BY <1>1, SameReach DEF IInv, RootsAreUnreachable
<1>11. CutsLightest'
  BY <1>1, CutsStay DEF IInv
<1> QED
  BY <1>4, <1>5, <1>7, <1>8, <1>9, <1>10, <1>11 DEF IInv

LEMMA SkipKeeps ==
  ASSUME IInv, Skip
  PROVE  IInv'
<1>1. /\ pc = "search" /\ pq = {} /\ start \in visited
      /\ start' = start + 1
      /\ pc' = IF start' = N THEN "done" ELSE "search"
      /\ UNCHANGED <<undirected, graph, adj, pq, visited, trajectory>>
  BY DEF Skip
<1>2. start \in 0 .. N - 1
  BY <1>1 DEF IInv, TypeOK, Queries
<1>3. TypeOK'
  <2>1. start' \in 0 .. N
    BY <1>1, <1>2, NAssumption
  <2> QED
    BY <1>1, <2>1 DEF IInv, TypeOK
<1>4. AdjIsLinked'
  BY <1>1, SameReach DEF IInv, AdjIsLinked
<1>5. ItemsOK' /\ FrontierQueued'
  BY <1>1, SameReach DEF IInv, ItemsOK, FrontierQueued
<1>6. LoopOK'
  <2>1. 0 .. start' - 1 \subseteq visited
    <3>1. \A q \in 0 .. start' - 1 : q \in 0 .. start - 1 \/ q = start
      BY <1>1, <1>2
    <3> QED
      BY <1>1, <3>1 DEF IInv, LoopOK
  <2> QED
    BY <1>1, <2>1 DEF LoopOK
<1>7. EmitsVisited' /\ RootsAscend(trajectory)'
  BY <1>1 DEF IInv, EmitsVisited, Children, EachChildOnce, OrderAssert, RootsAscend
<1>8. RootsAreUnreachable'
  BY <1>1, SameReach DEF IInv, RootsAreUnreachable
<1>9. CutsLightest'
  BY <1>1, CutsStay DEF IInv
<1> QED
  BY <1>3, <1>4, <1>5, <1>6, <1>7, <1>8, <1>9 DEF IInv

LEMMA StartUndirectedKeeps ==
  ASSUME IInv, StartUndirected
  PROVE  IInv'
<1>1. /\ pc = "search" /\ pq = {} /\ start \notin visited
      /\ pq' = {Item(0, start, Root)}
      /\ UNCHANGED <<undirected, graph, adj, start, visited, trajectory, pc>>
  BY DEF StartUndirected
<1>2. start \in Queries
  BY <1>1, NAssumption DEF IInv, TypeOK, LoopOK, Queries
<1>3. /\ Item(0, start, Root) \in Items
      /\ Item(0, start, Root).v = start /\ Item(0, start, Root).p = Root
  BY <1>2 DEF Item, Items
<1>4. TypeOK'
  BY <1>1, <1>3 DEF IInv, TypeOK
<1>5. AdjIsLinked'
  BY <1>1, SameReach DEF IInv, AdjIsLinked
<1>6. ItemsOK'
  BY <1>1, <1>3 DEF ItemsOK
<1>7. FrontierQueued'
  BY <1>1, SameReach DEF IInv, FrontierQueued
<1>8. LoopOK'
  BY <1>1 DEF IInv, LoopOK
<1>9. EmitsVisited' /\ RootsAscend(trajectory)'
  BY <1>1 DEF IInv, EmitsVisited, Children, EachChildOnce, OrderAssert, RootsAscend
<1>10. RootsAreUnreachable'
  BY <1>1, SameReach DEF IInv, RootsAreUnreachable
<1>11. CutsLightest'
  BY <1>1, CutsStay DEF IInv
<1> QED
  BY <1>4, <1>5, <1>6, <1>7, <1>8, <1>9, <1>10, <1>11 DEF IInv

(* The forest is closed before a new tree is started in it.                *)
LEMMA ClosedBetweenTrees ==
  ASSUME IInv, \A i \in pq : i.p = Root
  PROVE  \A v \in visited, u \in Queries : Linked(v, u) => u \in visited
<1>1. \A v \in visited : v # Root
  BY NAssumption DEF IInv, TypeOK, Queries, Root
<1> QED
  BY <1>1 DEF IInv, FrontierQueued

(* A query enters the forest, as the root of a tree or over a link from    *)
(* it; rest is what is left in the heap.                                   *)
LEMMA EnterKeeps ==
  ASSUME IInv, pc = "search",
         NEW c \in Queries, c \notin visited,
         NEW p \in Queries \cup {Root},
         NEW rest \in SUBSET pq,
         \A i \in rest : i.p # Root,
         \A i \in pq \ rest : i.v = c,
         IF p = Root
         THEN /\ c = start /\ rest = {}
              /\ \A v \in visited, u \in Queries : Linked(v, u) => u \in visited
         ELSE /\ {start, p} \subseteq visited /\ Linked(p, c) /\ Reaches(start, p)
              /\ NoNaN => \A i \in pq : graph.dist[{c, p}] <= i.w,
         visited' = visited \cup {c},
         trajectory' = Append(trajectory, Edge(c, p)),
         pq' = rest \cup Pushes(c),
         UNCHANGED <<undirected, graph, adj, start, pc>>
  PROVE  IInv'
<1> DEFINE t == trajectory
           e == Edge(c, p)
           n == Len(trajectory)
<1>1. /\ TypeOK /\ AdjIsLinked
      /\ t \in Seq(Edges) /\ EachChildOnce(t) /\ OrderAssert(t)
      /\ Children(t) = visited
  BY DEF IInv, TypeOK, EmitsVisited
<1>2. e \in Edges /\ e.child = c /\ e.parent = p
  BY DEF Edge, Edges
<1> HIDE DEF e
<1>3. trajectory' = Append(t, e)
  BY DEF e
<1>4. /\ trajectory' \in Seq(Edges) /\ n \in Nat
      /\ DOMAIN t = 1 .. n /\ DOMAIN trajectory' = 1 .. n + 1
      /\ \A i \in 1 .. n : trajectory'[i] = t[i]
      /\ trajectory'[n + 1] = e
  BY <1>1, <1>2, <1>3, Appending
<1>5. Children(trajectory') = Children(t) \cup {c}
  BY <1>1, <1>2, <1>3, AppendingChildren
<1>6. EachChildOnce(trajectory') /\ OrderAssert(trajectory')
  <2>1. e.child \notin Children(t) /\ (e.parent = Root \/ e.parent \in Children(t))
    BY <1>1, <1>2
  <2> QED
    BY <1>1, <1>2, <1>3, <2>1, AppendingKeeps
<1>7. EmitsVisited'
  BY <1>1, <1>5, <1>6 DEF EmitsVisited
<1>8. /\ Pushes(c) \subseteq Items
      /\ \A i \in Pushes(c) :
           i.p = c /\ i.p # Root /\ Linked(c, i.v) /\ i.w = graph.dist[{i.v, i.p}]
      /\ \A u \in Queries :
           Linked(c, u) => u \in visited \/ \E i \in Pushes(c) : i.v = u /\ i.p = c
  BY <1>1, PushesOK
<1>9. TypeOK'
  BY <1>1, <1>4, <1>8 DEF TypeOK
<1>10. /\ \A v, u : Linked(v, u)' <=> Linked(v, u)
       /\ \A v, u : Reaches(v, u)' <=> Reaches(v, u)
  BY SameReach
<1>11. AdjIsLinked'
  BY <1>1, <1>10 DEF AdjIsLinked
<1>12. start \in Queries
  BY <1>1, NAssumption DEF IInv, TypeOK, LoopOK, Queries
<1>13. Reaches(start, c)
  <2>1. CASE p = Root
    BY <2>1, ReachesItself
  <2>2. CASE p # Root
    BY <2>2, ReachesFurther
  <2> QED
    BY <2>1, <2>2
<1>14. start \in visited'
  BY NAssumption DEF Root, Queries
<1>15. ItemsOK'
  <2> SUFFICES ASSUME NEW i \in pq'
               PROVE  /\ i.p # Root
                      /\ {start, i.p} \subseteq visited'
                      /\ Linked(i.p, i.v) /\ Reaches(start, i.p)
                      /\ i.w = graph.dist[{i.v, i.p}]
    BY <1>10 DEF ItemsOK
  <2>1. CASE i \in rest
    BY <2>1 DEF IInv, ItemsOK
  <2>2. CASE i \in Pushes(c)
    BY <1>8, <1>13, <1>14, <2>2
  <2> QED
    BY <2>1, <2>2
<1>16. FrontierQueued'
  <2> SUFFICES ASSUME NEW v \in visited', NEW w \in Queries, Linked(v, w)
               PROVE  w \in visited' \/ \E i \in pq' : i.v = w /\ i.p = v
    BY <1>10 DEF FrontierQueued
  <2>1. CASE v = c
    BY <1>8, <2>1
  <2>2. CASE v \in visited
    <3>1. w \in visited \/ \E i \in pq : i.v = w /\ i.p = v
      BY <2>2 DEF IInv, FrontierQueued
    <3>2. \A i \in pq : i \in rest \/ i.v = c
      OBVIOUS
    <3> QED
      BY <3>1, <3>2
  <2> QED
    BY <2>1, <2>2
<1>17. LoopOK'
  BY DEF IInv, LoopOK
<1>18. RootsAscend(trajectory')
  <2> SUFFICES ASSUME NEW i \in 1 .. n + 1, trajectory'[i].parent = Root,
                      NEW q \in 0 .. trajectory'[i].child - 1
               PROVE  \E j \in 1 .. i - 1 : trajectory'[j].child = q
    BY <1>4 DEF RootsAscend
  <2>1. CASE i \in 1 .. n
    <3>1. PICK j \in 1 .. i - 1 : t[j].child = q
      BY <1>4, <2>1 DEF IInv, RootsAscend
    <3> QED
      BY <1>4, <2>1, <3>1
  <2>2. CASE i = n + 1
    <3>1. q \in 0 .. start - 1
      BY <1>2, <1>4, <2>2
    <3>2. q \in Children(t)
      BY <1>1, <3>1 DEF IInv, LoopOK
    <3>3. PICK j \in 1 .. n : t[j].child = q
      BY <1>4, <3>2 DEF Children
    <3> QED
      BY <1>4, <2>2, <3>3
  <2> QED
    BY <1>4, <2>1, <2>2
<1>19. RootsAreUnreachable'
  <2> SUFFICES ASSUME NEW i \in 1 .. n + 1
               PROVE  trajectory'[i].parent = Root <=>
                        \A q \in 0 .. trajectory'[i].child - 1 :
                          ~ Reaches(q, trajectory'[i].child)
    BY <1>4, <1>10 DEF RootsAreUnreachable
  <2>1. CASE i \in 1 .. n
    BY <1>4, <2>1 DEF IInv, RootsAreUnreachable
  <2>2. CASE i = n + 1 /\ p = Root
    <3>1. \A q \in 0 .. start - 1 : q \in visited
      BY DEF IInv, LoopOK
    <3>2. visited \in SUBSET Queries
      BY <1>1 DEF TypeOK
    <3>3. \A q \in visited : ~ Reaches(q, c)
      BY <2>2, <3>2, ClosedKeepsOut
    <3> QED
      BY <1>2, <1>4, <2>2, <3>1, <3>3
  <2>3. CASE i = n + 1 /\ p # Root
    <3>1. ~ (c \in 0 .. start - 1) /\ c # start
      BY <2>3 DEF IInv, LoopOK
    <3>2. start \in 0 .. c - 1
      BY <1>12, <3>1, NAssumption DEF Queries
    <3> QED
      BY <1>2, <1>4, <1>13, <2>3, <3>2
  <2> QED
    BY <1>4, <2>1, <2>2, <2>3
<1>20. /\ NoNaN' <=> NoNaN
       /\ \A i \in 1 .. n :
            trajectory'[i].parent # Root =>
              /\ Linked(trajectory[i].parent, trajectory[i].child)'
              /\ NoNaN => Lightest(i)'
  BY <1>4, CutsKeep DEF IInv
<1>21. ASSUME NEW last, last = n + 1, p # Root, NoNaN
       PROVE  Lightest(last)'
  <2> SUFFICES ASSUME NEW j \in 1 .. n, NEW r \in Queries,
                      Linked(t[j].child, r), \A m \in 1 .. n : r # t[m].child
               PROVE  graph.dist[{c, p}] <= graph.dist[{t[j].child, r}]
    <3>1. last - 1 = n /\ last \in 1 .. n + 1 /\ n \in Nat
      BY <1>4, <1>21
    <3>2. trajectory'[last].child = c /\ trajectory'[last].parent = p
      BY <1>2, <1>4, <1>21
    <3>3. \A j \in 1 .. n : trajectory'[j] = t[j]
      BY <1>4
    <3>4. ASSUME NEW j \in 1 .. n, NEW r \in Queries,
                 Linked(trajectory[j].child, r)',
                 \A m \in 1 .. n : r # trajectory'[m].child
          PROVE  graph'.dist[{c, p}] <= graph'.dist[{trajectory'[j].child, r}]
      <4>1. Linked(t[j].child, r)
        BY <1>10, <3>3, <3>4
      <4>2. \A m \in 1 .. n : r # t[m].child
        BY <3>3, <3>4
      <4> QED
        BY <3>3, <4>1, <4>2
    <3> QED
      BY <3>1, <3>2, <3>4 DEF Lightest
  <2>1. t[j].child \in visited /\ r \notin visited
    BY <1>1, <1>4 DEF Children
  <2>2. PICK i \in pq : i.v = r /\ i.p = t[j].child
    BY <2>1 DEF IInv, FrontierQueued
  <2>3. i.p # Root
    BY <1>1, <2>1, <2>2, NAssumption DEF TypeOK, Queries, Root
  <2>4. i.w = graph.dist[{r, t[j].child}]
    BY <2>2, <2>3 DEF IInv, ItemsOK
  <2>5. graph.dist[{c, p}] <= i.w
    BY <1>21
  <2> QED
    BY <2>4, <2>5
<1>22. CutsLightest'
  <2>1. ASSUME NEW i \in 1 .. n + 1, trajectory'[i].parent # Root
        PROVE  /\ Linked(trajectory[i].parent, trajectory[i].child)'
               /\ NoNaN => Lightest(i)'
    <3>1. CASE i \in 1 .. n
      BY <1>20, <2>1, <3>1
    <3>2. CASE i = n + 1
      <4>1. p # Root /\ trajectory'[i].parent = p /\ trajectory'[i].child = c
        BY <1>2, <1>4, <2>1, <3>2
      <4>2. Linked(p, c)'
        BY <1>10, <4>1
      <4> QED
        BY <1>21, <3>2, <4>1, <4>2
    <3> QED
      BY <1>4, <3>1, <3>2
  <2> QED
    BY <1>4, <1>20, <2>1 DEF CutsLightest
<1> QED
  BY <1>7, <1>9, <1>11, <1>15, <1>16, <1>17, <1>18, <1>19, <1>22 DEF IInv

LEMMA StartDirectedKeeps ==
  ASSUME IInv, StartDirected
  PROVE  IInv'
<1>1. /\ pc = "search" /\ pq = {} /\ start \notin visited
      /\ visited' = visited \cup {start}
      /\ trajectory' = Append(trajectory, Edge(start, Root))
      /\ pq' = {} \cup Pushes(start)
      /\ UNCHANGED <<undirected, graph, adj, start, pc>>
  BY DEF StartDirected
<1>2. start \in Queries
  BY <1>1, NAssumption DEF IInv, TypeOK, LoopOK, Queries
<1>3. \A v \in visited, u \in Queries : Linked(v, u) => u \in visited
  BY <1>1, ClosedBetweenTrees
<1> QED
  BY <1>1, <1>2, <1>3, EnterKeeps

(* What is on top of the heap may enter the forest.                        *)
LEMMA TopMayEnter ==
  ASSUME IInv, NEW i \in Top
  PROVE  /\ i \in pq /\ i.v \in Queries /\ i.p \in Queries \cup {Root}
         /\ IF i.p = Root
            THEN /\ i.v = start /\ pq = {i}
                 /\ \A v \in visited, u \in Queries : Linked(v, u) => u \in visited
            ELSE /\ {start, i.p} \subseteq visited /\ Linked(i.p, i.v) /\ Reaches(start, i.p)
                 /\ \A j \in pq : j.p # Root
                 /\ NoNaN => \A j \in pq : graph.dist[{i.v, i.p}] <= j.w
<1>1. i \in pq
  BY DEF Top
<1>2. i.v \in Queries /\ i.p \in Queries \cup {Root}
  BY <1>1 DEF IInv, TypeOK, Items
<1>3. CASE i.p = Root
  <2>1. i.v = start /\ pq = {i}
    BY <1>1, <1>3 DEF IInv, ItemsOK
  <2> QED
    BY <1>1, <1>2, <1>3, <2>1, ClosedBetweenTrees
<1>4. CASE i.p # Root
  <2>1. {start, i.p} \subseteq visited /\ Linked(i.p, i.v) /\ Reaches(start, i.p)
    BY <1>1, <1>4 DEF IInv, ItemsOK
  <2>2. \A j \in pq : j.p = Root => i = j
    BY <1>1 DEF IInv, ItemsOK
  <2>3. ASSUME NoNaN, NEW j \in pq PROVE j.w # NaN
    <3>1. /\ j.p # Root /\ Linked(j.p, j.v) /\ j.w = graph.dist[{j.v, j.p}]
          /\ j.v \in Queries /\ j.p \in Queries
      BY <1>4, <2>2 DEF IInv, TypeOK, Items, ItemsOK
    <3> QED
      BY <2>3, <3>1 DEF NoNaN
  <2>4. NoNaN => \A j \in pq : i.w <= j.w
    BY <2>3 DEF Top
  <2>5. i.w = graph.dist[{i.v, i.p}]
    BY <1>1, <1>4 DEF IInv, ItemsOK
  <2> QED
    BY <1>1, <1>2, <1>4, <2>1, <2>2, <2>4, <2>5
<1> QED
  BY <1>3, <1>4

LEMMA PopKeeps ==
  ASSUME IInv, Pop
  PROVE  IInv'
<1>1. pc = "search" /\ UNCHANGED <<undirected, graph, adj, start, pc>>
  BY DEF Pop
<1>2. PICK i \in Top :
        \/ /\ i.v \in visited
           /\ pq' = pq \ {i}
           /\ UNCHANGED <<visited, trajectory>>
        \/ /\ i.v \notin visited
           /\ visited' = visited \cup {i.v}
           /\ trajectory' = Append(trajectory, Edge(i.v, i.p))
           /\ pq' = (pq \ {i}) \cup Pushes(i.v)
  BY DEF Pop
<1>3. /\ i \in pq /\ i.v \in Queries /\ i.p \in Queries \cup {Root}
      /\ IF i.p = Root
         THEN /\ i.v = start /\ pq = {i}
              /\ \A v \in visited, u \in Queries : Linked(v, u) => u \in visited
         ELSE /\ {start, i.p} \subseteq visited /\ Linked(i.p, i.v) /\ Reaches(start, i.p)
              /\ \A j \in pq : j.p # Root
              /\ NoNaN => \A j \in pq : graph.dist[{i.v, i.p}] <= j.w
  BY <1>2, TopMayEnter
<1>4. CASE i.v \notin visited
  <2>1. /\ visited' = visited \cup {i.v}
        /\ trajectory' = Append(trajectory, Edge(i.v, i.p))
        /\ pq' = (pq \ {i}) \cup Pushes(i.v)
    BY <1>2, <1>4
  <2>2. PICK rest \in SUBSET pq : rest = pq \ {i}
    OBVIOUS
  <2>3. (\A j \in rest : j.p # Root) /\ (\A j \in pq \ rest : j.v = i.v)
    BY <1>3, <2>2
  <2>4. i.p = Root => rest = {}
    BY <1>3, <2>2
  <2> QED
    BY <1>1, <1>3, <1>4, <2>1, <2>2, <2>3, <2>4, EnterKeeps
<1>5. CASE i.v \in visited
  <2>1. pq' = pq \ {i} /\ UNCHANGED <<visited, trajectory>>
    BY <1>2, <1>5
  <2>2. TypeOK'
    BY <1>1, <2>1 DEF IInv, TypeOK
  <2>3. AdjIsLinked'
    BY <1>1, <2>1, SameReach DEF IInv, AdjIsLinked
  <2>4. ItemsOK'
    <3>1. \A j \in pq' : j \in pq /\ j # i
      BY <2>1
    <3>2. \A j \in pq' : j.p # Root
      BY <1>3, <3>1 DEF IInv, ItemsOK
    <3> QED
      BY <1>1, <2>1, <3>1, <3>2, SameReach DEF IInv, ItemsOK
  <2>5. FrontierQueued'
    <3>1. \A v \in visited, u \in Queries :
            Linked(v, u) => u \in visited \/ \E j \in pq \ {i} : j.v = u /\ j.p = v
      BY <1>5 DEF IInv, FrontierQueued
    <3> QED
      BY <1>1, <2>1, <3>1, SameReach DEF FrontierQueued
  <2>6. LoopOK'
    BY <1>1, <2>1 DEF IInv, LoopOK
  <2>7. EmitsVisited' /\ RootsAscend(trajectory)'
    BY <2>1 DEF IInv, EmitsVisited, Children, EachChildOnce, OrderAssert, RootsAscend
  <2>8. RootsAreUnreachable'
    BY <1>1, <2>1, SameReach DEF IInv, RootsAreUnreachable
  <2>9. CutsLightest'
    BY <1>1, <2>1, CutsStay DEF IInv
  <2> QED
    BY <2>2, <2>3, <2>4, <2>5, <2>6, <2>7, <2>8, <2>9 DEF IInv
<1> QED
  BY <1>4, <1>5

LEMMA StutterKeeps ==
  ASSUME IInv, UNCHANGED vars
  PROVE  IInv'
<1>1. UNCHANGED <<undirected, graph, adj, start, pq, visited, trajectory, pc>>
  BY DEF vars
<1>2. TypeOK' /\ LoopOK'
  BY <1>1 DEF IInv, TypeOK, LoopOK
<1>3. AdjIsLinked' /\ ItemsOK' /\ FrontierQueued'
  BY <1>1, SameReach DEF IInv, AdjIsLinked, ItemsOK, FrontierQueued
<1>4. EmitsVisited' /\ RootsAscend(trajectory)'
  BY <1>1 DEF IInv, EmitsVisited, Children, EachChildOnce, OrderAssert, RootsAscend
<1>5. RootsAreUnreachable'
  BY <1>1, SameReach DEF IInv, RootsAreUnreachable
<1>6. CutsLightest'
  BY <1>1, CutsStay DEF IInv
<1> QED
  BY <1>2, <1>3, <1>4, <1>5, <1>6 DEF IInv

(* The strengthened invariant: roots in ascending order, and a query is    *)
(* the root of a tree exactly if no query of lower number leads to it.     *)
THEOREM Inductive == Spec => []IInv
<1>1. IInv /\ [Next]_vars => IInv'
  BY CollectKeeps, SkipKeeps, StartDirectedKeeps, StartUndirectedKeeps, PopKeeps,
     StutterKeeps
  DEF Next
<1> QED
  BY InitIInv, <1>1, PTL DEF Spec

(* The cut property: an edge is a link, and unless some link is without a  *)
(* square root, no link that led out of the forest was shorter, although   *)
(* the heap is never cleared of links to queries that are visited already. *)
THEOREM EdgesAreLightest == Spec => []CutsLightest
<1>1. IInv => CutsLightest
  BY DEF IInv
<1> QED
  BY Inductive, <1>1, PTL

(* When the outer loop is over, every query is in the forest, and the      *)
(* result passes checkTrajectory even before the reordering.               *)
THEOREM DoneIsComplete ==
  Spec => [](pc = "done" => visited = Queries /\ CheckTrajectory(trajectory))
<1>1. ASSUME IInv, pc = "done"
      PROVE  visited = Queries /\ CheckTrajectory(trajectory)
  <2>1. visited = Queries
    BY <1>1 DEF IInv, TypeOK, LoopOK, Queries
  <2>2. /\ trajectory \in Seq(Edges) /\ EachChildOnce(trajectory)
        /\ OrderAssert(trajectory) /\ Children(trajectory) = Queries
    BY <1>1, <2>1 DEF IInv, TypeOK, EmitsVisited
  <2>3. Len(trajectory) = N
    BY <2>2, Pigeonhole
  <2> QED
    BY <2>1, <2>2, <2>3 DEF CheckTrajectory, SizeAssert, CoverAssert
<1> QED
  BY Inductive, <1>1, PTL

-------------------------------------------------------------------------------
(* Sums over finite sets.                                                  *)

(* Of some subsets of a finite set one contains no other.                  *)
LEMMA LeastSet ==
  ASSUME NEW T, IsFiniteSet(T), NEW B, B \subseteq SUBSET T, B # {}
  PROVE  \E s \in B : \A u \in B : u \subseteq s => u = s
<1>1. PICK s \in B : \A u \in B : <<u, s>> \notin StrictSubsetOrdering(T)
  BY FS_StrictSubsetOrderingWellFounded, FS_FiniteSubsetsOfFinite, WFMin
<1>2. ASSUME NEW u \in B, u \subseteq s PROVE u = s
  BY <1>1, <1>2 DEF StrictSubsetOrdering
<1> QED
  BY <1>2

(* The function by which a fold adds up w.                                 *)
One(s) == CHOOSE x \in s : TRUE

Adds(f, T, w) ==
  f = [s \in SUBSET T |-> IF s = {} THEN 0 ELSE w[One(s)] + f[s \ {One(s)}]]

Sum(T, w) == (CHOOSE f : Adds(f, T, w))[T]

LEMMA WeightIs == \A T : WeightOf(T) = Sum(T, graph.dist)
BY DEF WeightOf, MapThenSumSet, MapThenFoldSet, Sum, Adds, One

LEMMA OneIs ==
  ASSUME NEW s, s # {}
  PROVE  One(s) \in s
BY DEF One

(* It does not depend on the set that it adds up subsets of.               *)
LEMMA AddsSame ==
  ASSUME NEW T, IsFiniteSet(T), NEW U, NEW w, NEW f, NEW g, Adds(f, T, w), Adds(g, U, w)
  PROVE  \A s \in SUBSET T : s \in SUBSET U => f[s] = g[s]
<1> DEFINE B == {s \in SUBSET T : s \in SUBSET U /\ f[s] # g[s]}
<1> SUFFICES ASSUME B # {} PROVE FALSE
  OBVIOUS
<1>1. PICK s \in B : \A u \in B : u \subseteq s => u = s
  <2>1. B \subseteq SUBSET T
    OBVIOUS
  <2> HIDE DEF B
  <2> QED
    BY <2>1, LeastSet
<1>2. s # {}
  BY DEF Adds
<1> DEFINE v == s \ {One(s)}
<1>3. One(s) \in s
  BY <1>2, OneIs
<1>4. f[s] = w[One(s)] + f[v] /\ g[s] = w[One(s)] + g[v]
  BY <1>2 DEF Adds
<1>5. v \in SUBSET T /\ v \in SUBSET U /\ f[v] # g[v]
  BY <1>4
<1>6. v \subseteq s /\ v # s
  BY <1>3
<1> QED
  BY <1>1, <1>5, <1>6

LEMMA AddsExists ==
  ASSUME NEW T, IsFiniteSet(T), NEW w
  PROVE  \E f : Adds(f, T, w)
<1> DEFINE B == {s \in SUBSET T : ~ \E f : Adds(f, s, w)}
<1> SUFFICES ASSUME B # {} PROVE FALSE
  OBVIOUS
<1>1. PICK s \in B : \A u \in B : u \subseteq s => u = s
  <2>1. B \subseteq SUBSET T
    OBVIOUS
  <2> HIDE DEF B
  <2> QED
    BY <2>1, LeastSet
<1> DEFINE G(u) == CHOOSE g : Adds(g, u, w)
           f == [u \in SUBSET s |-> IF u = {} THEN 0 ELSE w[One(u)] + G(u \ {One(u)})[u \ {One(u)}]]
<1>2. ASSUME NEW u \in SUBSET s, u # s PROVE Adds(G(u), u, w) /\ IsFiniteSet(u)
  <2>1. u \in SUBSET T /\ u \notin B
    BY <1>1, <1>2
  <2> QED
    BY <2>1, FS_Subset
<1> HIDE DEF G
<1>3. ASSUME NEW u \in SUBSET s, u # s PROVE f[u] = G(u)[u]
  <2>1. CASE u = {}
    <3>1. G(u)[u] = 0
      BY <1>2, <1>3, <2>1 DEF Adds
    <3> QED
      BY <2>1, <3>1
  <2>2. CASE u # {}
    <3> DEFINE v == u \ {One(u)}
    <3>1. One(u) \in u
      BY <2>2, OneIs
    <3>2. v \in SUBSET u /\ v \in SUBSET s /\ v # s
      BY <3>1
    <3>3. G(u)[u] = w[One(u)] + G(u)[v]
      BY <1>2, <1>3, <2>2 DEF Adds
    <3>4. Adds(G(u), u, w) /\ Adds(G(v), v, w) /\ IsFiniteSet(v)
      BY <1>2, <1>3, <3>2
    <3>5. G(v)[v] = G(u)[v]
      <4> HIDE DEF v
      <4> QED
        BY <3>2, <3>4, AddsSame
    <3>6. f[u] = w[One(u)] + G(v)[v]
      BY <2>2
    <3> QED
      BY <3>3, <3>5, <3>6
  <2> QED
    BY <2>1, <2>2
<1>4. ASSUME NEW u \in SUBSET s, u # {} PROVE f[u] = w[One(u)] + f[u \ {One(u)}]
  <2>1. One(u) \in u
    BY <1>4, OneIs
  <2>2. u \ {One(u)} \in SUBSET s /\ u \ {One(u)} # s
    BY <2>1
  <2>3. f[u \ {One(u)}] = G(u \ {One(u)})[u \ {One(u)}]
    BY <1>3, <2>2
  <2> QED
    BY <1>4, <2>3
<1>5. f = [u \in SUBSET s |-> IF u = {} THEN 0 ELSE w[One(u)] + f[u \ {One(u)}]]
  <2>1. f = [u \in SUBSET s |-> f[u]]
    OBVIOUS
  <2>2. \A u \in SUBSET s : u = {} => f[u] = 0
    OBVIOUS
  <2> HIDE DEF f
  <2> QED
    BY <1>4, <2>1, <2>2
<1>6. Adds(f, s, w)
  BY <1>5 DEF Adds
<1> QED
  BY <1>1, <1>6

LEMMA SumStep ==
  ASSUME NEW T, IsFiniteSet(T), NEW w
  PROVE  /\ T = {} => Sum(T, w) = 0
         /\ T # {} => Sum(T, w) = w[One(T)] + Sum(T \ {One(T)}, w)
<1> DEFINE v == T \ {One(T)}
           f == CHOOSE g : Adds(g, T, w)
           h == CHOOSE g : Adds(g, v, w)
<1>1. IsFiniteSet(v) /\ v \in SUBSET T
  BY FS_Subset
<1>2. Adds(f, T, w) /\ Adds(h, v, w)
  BY <1>1, AddsExists
<1>3. Sum(T, w) = f[T] /\ Sum(v, w) = h[v]
  BY DEF Sum
<1> HIDE DEF f, h
<1>4. h[v] = f[v]
  <2> HIDE DEF v
  <2> QED
    BY <1>1, <1>2, AddsSame
<1>5. f[T] = IF T = {} THEN 0 ELSE w[One(T)] + f[v]
  BY <1>2 DEF Adds
<1> QED
  BY <1>3, <1>4, <1>5

(* The sum of a set is what one element has and the sum of the others.     *)
LEMMA SumTaken ==
  ASSUME NEW T, IsFiniteSet(T), NEW w, \A x \in T : w[x] \in Int
  PROVE  Sum(T, w) \in Int /\ \A x \in T : Sum(T, w) = w[x] + Sum(T \ {x}, w)
<1> DEFINE Good(s) == Sum(s, w) \in Int /\ \A x \in s : Sum(s, w) = w[x] + Sum(s \ {x}, w)
           B == {s \in SUBSET T : ~ Good(s)}
<1> SUFFICES ASSUME B # {} PROVE FALSE
  OBVIOUS
<1>1. PICK s \in B : \A u \in B : u \subseteq s => u = s
  <2>1. B \subseteq SUBSET T
    OBVIOUS
  <2> HIDE DEF B
  <2> QED
    BY <2>1, LeastSet
<1>2. s \in SUBSET T /\ IsFiniteSet(s)
  BY FS_Subset
<1>3. ASSUME NEW u \in SUBSET s, u # s PROVE Good(u) /\ IsFiniteSet(u)
  <2>1. u \in SUBSET T /\ u \notin B
    BY <1>1, <1>3
  <2> QED
    BY <2>1, FS_Subset
<1>4. s # {}
  <2> SUFFICES ASSUME s = {} PROVE Good(s)
    OBVIOUS
  <2> QED
    BY <1>2, SumStep
<1> DEFINE c == One(s)
<1>5. c \in s /\ w[c] \in Int /\ Sum(s, w) = w[c] + Sum(s \ {c}, w)
  BY <1>2, <1>4, OneIs, SumStep
<1> HIDE DEF c
<1>6. Sum(s \ {c}, w) \in Int
  BY <1>3, <1>5
<1>7. ASSUME NEW x \in s PROVE Sum(s, w) = w[x] + Sum(s \ {x}, w)
  <2>1. CASE x = c
    BY <1>5, <2>1
  <2>2. CASE x # c
    <3> DEFINE r == (s \ {c}) \ {x}
    <3>1. r = (s \ {x}) \ {c} /\ r \in SUBSET s /\ r # s
      BY <1>5
    <3>2. Sum(s \ {c}, w) = w[x] + Sum(r, w)
      BY <1>3, <1>5, <2>2
    <3>3. Sum(s \ {x}, w) = w[c] + Sum(r, w)
      <4>1. s \ {x} \in SUBSET s /\ s \ {x} # s /\ c \in s \ {x}
        BY <1>5, <2>2
      <4> QED
        BY <1>3, <3>1, <4>1
    <3>4. Sum(r, w) \in Int /\ w[x] \in Int
      BY <1>2, <1>3, <3>1
    <3> HIDE DEF r
    <3> QED
      BY <1>5, <3>2, <3>3, <3>4
  <2> QED
    BY <2>1, <2>2
<1>8. Good(s)
  BY <1>5, <1>6, <1>7
<1> QED
  BY <1>1, <1>8

(* A larger set has no less weight, if no weight is negative.              *)
LEMMA SumGrows ==
  ASSUME NEW U, IsFiniteSet(U), NEW w, \A x \in U : w[x] \in Nat, NEW T \in SUBSET U
  PROVE  Sum(T, w) <= Sum(U, w)
<1> DEFINE B == {s \in SUBSET U : T \subseteq s /\ ~ (Sum(T, w) <= Sum(s, w))}
<1> SUFFICES ASSUME B # {} PROVE FALSE
  OBVIOUS
<1>1. PICK s \in B : \A u \in B : u \subseteq s => u = s
  <2>1. B \subseteq SUBSET U
    OBVIOUS
  <2> HIDE DEF B
  <2> QED
    BY <2>1, LeastSet
<1>2. ASSUME NEW u \in SUBSET U PROVE IsFiniteSet(u) /\ Sum(u, w) \in Int
  <2>1. IsFiniteSet(u) /\ \A x \in u : w[x] \in Int
    BY FS_Subset
  <2> QED
    BY <2>1, SumTaken
<1>3. PICK x \in s : x \notin T
  <2>1. s # T
    BY <1>2
  <2> QED
    BY <2>1
<1> DEFINE v == s \ {x}
<1>4. v \in SUBSET U /\ T \subseteq v /\ v \subseteq s /\ v # s
  BY <1>3
<1>5. Sum(T, w) <= Sum(v, w)
  BY <1>1, <1>4
<1>6. Sum(s, w) = w[x] + Sum(v, w) /\ w[x] \in Nat
  <2>1. \A y \in s : w[y] \in Int
    OBVIOUS
  <2>2. IsFiniteSet(s)
    BY <1>2
  <2> QED
    BY <2>1, <2>2, SumTaken
<1> HIDE DEF v
<1> QED
  BY <1>2, <1>4, <1>5, <1>6

-------------------------------------------------------------------------------
(* Least weight.                                                           *)
Crosses(p, S) == p \cap S # {} /\ p \ S # {}

LEMMA SpansIs ==
  \A T, G : Spans(T, G) <=>
    \A S \in SUBSET Queries : (\E p \in G : Crosses(p, S)) => \E p \in T : Crosses(p, S)
BY DEF Spans, Crosses

LEMMA PairsFinite == IsFiniteSet(Pairs) /\ \A p \in Pairs : p \subseteq Queries
<1>1. Pairs \subseteq SUBSET Queries
  BY DEF Pairs
<1>2. IsFiniteSet(SUBSET Queries)
  BY QueriesFinite, FS_SUBSET
<1> QED
  BY <1>1, <1>2, FS_Subset

(* A pair that crosses a cut has one end on each side.                     *)
LEMMA PairEnds ==
  ASSUME NEW p \in Pairs, NEW a \in p, NEW b \in p, a # b
  PROVE  p = {a, b} /\ a \in Queries /\ b \in Queries
BY DEF Pairs

(* In a spanning set of pairs, a pair that crosses a cut may take the      *)
(* place of another one that does.                                         *)
LEMMA Exchange ==
  ASSUME NEW G \in SUBSET Pairs, NEW T \in SUBSET G, Spans(T, G), NEW p \in G,
         NEW S \in SUBSET Queries, Crosses(p, S)
  PROVE  \E q \in T : Crosses(q, S) /\ Spans((T \ {q}) \cup {p}, G)
<1>1. PICK a \in p, b \in p : a \in S /\ b \notin S
  BY DEF Crosses
<1>2. p = {a, b} /\ a \in Queries /\ b \in Queries
  BY <1>1, PairEnds
<1>3. \A t \in T : t \subseteq Queries
  BY PairsFinite
<1> DEFINE Inside(A) == \A t \in T : t \subseteq S /\ t \cap A # {} => t \subseteq A
           X == {x \in Queries : \A A \in SUBSET Queries : a \in A /\ Inside(A) => x \in A}
<1>4. a \in X /\ X \subseteq S /\ Inside(X)
  <2>1. Inside(S)
    OBVIOUS
  <2>2. X \subseteq S
    BY <1>1, <2>1
  <2>3. Inside(X)
    BY <1>3
  <2> QED
    BY <1>2, <2>2, <2>3
<1> DEFINE Beside(A) == \A t \in T : t \cap X = {} /\ t \cap A # {} => t \subseteq A
           Y == {x \in Queries : \A A \in SUBSET Queries : b \in A /\ Beside(A) => x \in A}
<1>5. b \in Y /\ Y \cap X = {} /\ Beside(Y)
  <2>1. Beside(Queries \ X)
    BY <1>3
  <2>2. Y \subseteq Queries \ X
    <3>1. b \in Queries \ X /\ Queries \ X \in SUBSET Queries
      BY <1>1, <1>2, <1>4
    <3> HIDE DEF X, Beside
    <3> QED
      BY <2>1, <3>1
  <2>3. Beside(Y)
    BY <1>3
  <2> QED
    BY <1>2, <2>2, <2>3
<1>6. PICK q \in T : Crosses(q, Y)
  <2>1. Crosses(p, Y)
    BY <1>4, <1>5 DEF Crosses
  <2>2. Y \in SUBSET Queries
    OBVIOUS
  <2> HIDE DEF Y
  <2> QED
    BY <2>1, <2>2, SpansIs
<1>7. PICK c \in q, e \in q : c \in X /\ e \in Y
  <2>1. q \cap X # {}
    BY <1>5, <1>6 DEF Crosses
  <2> QED
    BY <1>6, <2>1 DEF Crosses
<1>8. q = {c, e}
  <2>1. q \in Pairs /\ c # e
    BY <1>5, <1>7
  <2> QED
    BY <2>1, PairEnds
<1>9. c \in S /\ e \notin S
  <2>1. c \in S
    BY <1>4, <1>7
  <2>2. ASSUME e \in S PROVE FALSE
    <3>1. q \subseteq S /\ q \cap X # {}
      BY <1>7, <1>8, <2>1, <2>2
    <3>2. q \subseteq X
      BY <1>4, <3>1
    <3> QED
      BY <1>5, <1>7, <3>2
  <2> QED
    BY <2>1, <2>2
<1> DEFINE U == (T \ {q}) \cup {p}
<1>10. Spans(U, G)
  <2> SUFFICES ASSUME NEW Z \in SUBSET Queries, \E g \in G : Crosses(g, Z),
                      \A t \in U : ~ Crosses(t, Z)
               PROVE  FALSE
    <3> HIDE DEF U
    <3> QED
      BY SpansIs
  <2>1. Crosses(q, Z)
    <3>1. PICK t \in T : Crosses(t, Z)
      BY SpansIs
    <3>2. t = q
      BY <3>1
    <3> QED
      BY <3>1, <3>2
  <2>2. \A t \in T : t # q => t \subseteq Z \/ t \subseteq Queries \ Z
    BY <1>3 DEF Crosses
  <2>3. a \in Z <=> c \in Z
    <3>1. ASSUME NEW A \in {Z, Queries \ Z} PROVE Inside(A)
      <4> SUFFICES ASSUME NEW t \in T, t \subseteq S, t \cap A # {} PROVE t \subseteq A
        OBVIOUS
      <4>1. t # q
        BY <1>8, <1>9
      <4> QED
        BY <2>2, <3>1, <4>1
    <3>2. ASSUME NEW A \in {Z, Queries \ Z}, a \in A PROVE c \in A
      BY <1>7, <3>1, <3>2
    <3> QED
      BY <1>2, <3>2
  <2>4. b \in Z <=> e \in Z
    <3>1. ASSUME NEW A \in {Z, Queries \ Z} PROVE Beside(A)
      <4> SUFFICES ASSUME NEW t \in T, t \cap X = {}, t \cap A # {} PROVE t \subseteq A
        OBVIOUS
      <4>1. t # q
        BY <1>7
      <4> QED
        BY <2>2, <3>1, <4>1
    <3>2. ASSUME NEW A \in {Z, Queries \ Z}, b \in A PROVE e \in A
      BY <1>7, <3>1, <3>2
    <3> QED
      BY <1>2, <3>2
  <2>5. (c \in Z) # (e \in Z)
    BY <1>8, <2>1 DEF Crosses
  <2>6. Crosses(p, Z)
    BY <1>2, <2>3, <2>4, <2>5 DEF Crosses
  <2> QED
    BY <2>6
<1>11. Crosses(q, S)
  BY <1>8, <1>9 DEF Crosses
<1> QED
  BY <1>10, <1>11

(* Pairs chosen one after the other, each the lightest that crosses a cut  *)
(* which no earlier one crosses.                                           *)
ChosenByCuts(G, w, n, I, p, cut) ==
  /\ n \in Nat /\ I \subseteq 1 .. n
  /\ \A i \in I :
       /\ p[i] \in G /\ cut[i] \in SUBSET Queries /\ Crosses(p[i], cut[i])
       /\ \A g \in G : Crosses(g, cut[i]) => w[p[i]] <= w[g]
       /\ \A j \in I : j < i => ~ Crosses(p[j], cut[i])

Weights(G, w) == \A g \in G : w[g] \in Int

(* Some set of pairs holds these ones, weighs no more than T, and is as    *)
(* large.                                                                  *)
LightWith(G, w, I, p, T) ==
  \E U \in SUBSET G : /\ {p[i] : i \in I} \subseteq U
                      /\ Sum(U, w) <= Sum(T, w) /\ Cardinality(U) = Cardinality(T)

(* The exchange leads from any spanning set to such a one.                 *)
LEMMA ChosenAreLight ==
  ASSUME NEW G \in SUBSET Pairs, NEW w, Weights(G, w),
         NEW n, NEW I, NEW p, NEW cut, ChosenByCuts(G, w, n, I, p, cut),
         NEW T \in SUBSET G, Spans(T, G)
  PROVE  LightWith(G, w, I, p, T)
<1> DEFINE A(k) == {p[j] : j \in {i \in I : i <= k}}
           Light(U) == Spans(U, G) /\ Sum(U, w) <= Sum(T, w) /\ Cardinality(U) = Cardinality(T)
           Has(k) == \E U \in SUBSET G : A(k) \subseteq U /\ Light(U)
           B == {k \in 0 .. n : ~ Has(k)}
<1>1. n \in Nat /\ \A i \in I : i \in Int /\ 1 <= i /\ i <= n
  <2>1. n \in Nat /\ I \subseteq 1 .. n
    BY DEF ChosenByCuts
  <2> QED
    BY <2>1
<1>2. ASSUME NEW U \in SUBSET G
      PROVE  /\ IsFiniteSet(U) /\ Cardinality(U) \in Nat /\ \A x \in U : w[x] \in Int
             /\ Sum(U, w) \in Int
             /\ \A x \in U : Sum(U, w) = w[x] + Sum(U \ {x}, w)
  <2>1. IsFiniteSet(U)
    BY PairsFinite, FS_Subset
  <2>2. \A x \in U : w[x] \in Int
    BY DEF Weights
  <2> QED
    BY <2>1, <2>2, SumTaken, FS_CardinalityType
<1>3. B = {}
  <2> SUFFICES ASSUME B # {} PROVE FALSE
    OBVIOUS
  <2>1. PICK k \in B : \A j \in B : k <= j
    <3>1. B \in SUBSET Nat
      OBVIOUS
    <3> HIDE DEF B
    <3> QED
      BY <3>1, LeastNumber
  <2>2. k \in 0 .. n /\ ~ Has(k)
    OBVIOUS
  <2>3. k # 0
    <3> SUFFICES ASSUME k = 0 PROVE Has(k)
      BY <2>2
    <3>1. A(k) = {}
      <4>1. {i \in I : i <= k} = {}
        BY <1>1
      <4> QED
        BY <4>1
    <3>2. Light(T)
      BY <1>2
    <3> HIDE DEF A, Light
    <3> QED
      BY <3>1, <3>2
  <2>4. PICK U \in SUBSET G : A(k - 1) \subseteq U /\ Light(U)
    <3>1. k - 1 \in 0 .. n /\ k - 1 < k
      BY <1>1, <2>2, <2>3
    <3>2. k - 1 \notin B
      BY <2>1, <3>1
    <3>3. Has(k - 1)
      BY <3>1, <3>2
    <3> HIDE DEF A, Light
    <3> QED
      BY <3>3
  <2>5. A(k) = IF k \in I THEN A(k - 1) \cup {p[k]} ELSE A(k - 1)
    <3> DEFINE J == {i \in I : i <= k - 1}
    <3>1. ASSUME NEW i \in I PROVE i \in Int /\ (i <= k <=> i <= k - 1 \/ i = k)
      <4>1. i \in Int /\ k \in Int
        BY <1>1, <2>2
      <4> QED
        BY <4>1
    <3>2. CASE k \in I
      <4>1. {i \in I : i <= k} = J \cup {k}
        BY <3>1, <3>2
      <4> HIDE DEF J
      <4>2. A(k) = {p[j] : j \in J} \cup {p[k]}
        BY <4>1
      <4> QED
        BY <3>2, <4>2 DEF J
    <3>3. CASE k \notin I
      <4>1. {i \in I : i <= k} = J
        BY <3>1, <3>3
      <4> QED
        BY <3>3, <4>1
    <3> QED
      BY <3>2, <3>3
  <2>6. CASE k \notin I \/ p[k] \in U
    <3>1. A(k) \subseteq U
      BY <2>4, <2>5, <2>6
    <3> HIDE DEF A, Light
    <3> QED
      BY <2>2, <2>4, <3>1
  <2>7. CASE k \in I /\ p[k] \notin U
    <3>1. /\ p[k] \in G /\ cut[k] \in SUBSET Queries /\ Crosses(p[k], cut[k])
          /\ \A g \in G : Crosses(g, cut[k]) => w[p[k]] <= w[g]
          /\ \A j \in I : j < k => ~ Crosses(p[j], cut[k])
      BY <2>7 DEF ChosenByCuts
    <3>2. PICK q \in U : Crosses(q, cut[k]) /\ Spans((U \ {q}) \cup {p[k]}, G)
      <4>1. Spans(U, G)
        BY <2>4
      <4> QED
        BY <3>1, <4>1, Exchange
    <3> DEFINE V == U \ {q}
               P == V \cup {p[k]}
    <3>3. q \notin A(k - 1)
      <4> SUFFICES ASSUME NEW j \in I, j <= k - 1, q = p[j] PROVE FALSE
        OBVIOUS
      <4>1. j < k
        BY <1>1, <2>2
      <4> QED
        BY <3>1, <3>2, <4>1
    <3>4. A(k) \subseteq P
      BY <2>4, <2>5, <2>7, <3>3
    <3>5. P \in SUBSET G /\ V \in SUBSET G /\ p[k] \notin V /\ P \ {p[k]} = V
      BY <2>7, <3>1
    <3>6. Sum(P, w) = w[p[k]] + Sum(V, w)
      <4> HIDE DEF V
      <4> QED
        BY <1>2, <3>5
    <3>7. Sum(U, w) = w[q] + Sum(V, w) /\ w[p[k]] <= w[q]
      BY <1>2, <3>1, <3>2
    <3>8. Cardinality(P) = Cardinality(U)
      <4>1. IsFiniteSet(U) /\ IsFiniteSet(V) /\ q \notin V /\ U = V \cup {q}
        BY <1>2, <3>5
      <4> HIDE DEF V
      <4>2. Cardinality(U) = Cardinality(V) + 1
        BY <4>1, FS_AddElement
      <4>3. Cardinality(P) = Cardinality(V) + 1
        BY <3>5, <4>1, FS_AddElement
      <4> QED
        BY <4>2, <4>3
    <3>9. Sum(P, w) <= Sum(T, w)
      <4>1. /\ Sum(U, w) \in Int /\ Sum(V, w) \in Int /\ Sum(T, w) \in Int
            /\ w[p[k]] \in Int /\ w[q] \in Int
        <5> HIDE DEF V
        <5> QED
          BY <1>2, <3>1, <3>2, <3>5
      <4>2. Sum(U, w) <= Sum(T, w)
        BY <2>4
      <4> HIDE DEF V, P
      <4> QED
        BY <3>6, <3>7, <4>1, <4>2
    <3>10. Light(P)
      BY <2>4, <3>2, <3>8, <3>9
    <3> HIDE DEF A, Light, P
    <3> QED
      BY <2>2, <3>4, <3>5, <3>10
  <2> QED
    BY <2>6, <2>7
<1>4. PICK U \in SUBSET G : A(n) \subseteq U /\ Light(U)
  <2>1. n \in 0 .. n
    BY <1>1
  <2>2. Has(n)
    BY <1>3, <2>1
  <2> HIDE DEF A, Light
  <2> QED
    BY <2>2
<1>5. {p[i] : i \in I} = A(n)
  <2>1. I = {i \in I : i <= n}
    BY <1>1
  <2> QED
    BY <2>1
<1> QED
  BY <1>4, <1>5 DEF LightWith

-------------------------------------------------------------------------------
(* The forest of the undirected function.                                  *)
KeptPairs == {p \in Pairs : \E u, v \in p : u # v /\ Linked(u, v)}

LEMMA LinkedBothWays ==
  ASSUME undirected, graph \in Graphs, NEW u \in Queries, NEW v \in Queries, Linked(u, v)
  PROVE  Linked(v, u) /\ u # v /\ {u, v} \in KeptPairs
<1>1. u # v
  BY LinkedApart
<1>2. Linked(v, u)
  BY DEF Linked
<1>3. {u, v} \in Pairs
  <2>1. \A q \in Queries : {u, v} # {q}
    BY <1>1
  <2> QED
    BY <2>1 DEF Pairs
<1> QED
  BY <1>1, <1>2, <1>3 DEF KeptPairs

LEMMA KeptEnds ==
  ASSUME undirected, NEW g \in KeptPairs, NEW a \in g, NEW b \in g, a # b
  PROVE  g = {a, b} /\ a \in Queries /\ b \in Queries /\ Linked(a, b)
<1>1. g \in Pairs
  BY DEF KeptPairs
<1>2. PICK u \in g, v \in g : u # v /\ Linked(u, v)
  BY DEF KeptPairs
<1>3. g = {a, b} /\ a \in Queries /\ b \in Queries
  BY <1>1, PairEnds
<1>4. Linked(u, v) /\ Linked(v, u)
  BY <1>2 DEF Linked
<1>5. (u = a /\ v = b) \/ (u = b /\ v = a)
  BY <1>2, <1>3
<1> QED
  BY <1>3, <1>4, <1>5

(* Then a path leads back as well.                                         *)
LEMMA ReachesBack ==
  ASSUME undirected, graph \in Graphs, NEW u \in Queries, NEW v \in Queries, Reaches(u, v)
  PROVE  Reaches(v, u)
<1> SUFFICES ASSUME NEW S \in SUBSET Queries, v \in S,
                    \A x \in S, y \in Queries : Linked(x, y) => y \in S,
                    u \notin S
             PROVE  FALSE
  BY DEF Reaches
<1>1. \A x \in Queries \ S, y \in Queries : Linked(x, y) => y \in Queries \ S
  BY LinkedBothWays
<1> QED
  BY <1>1 DEF Reaches

LEMMA ReachesOn ==
  ASSUME NEW u, NEW v, NEW x, Reaches(u, v), Reaches(v, x)
  PROVE  Reaches(u, x)
BY DEF Reaches

(* A pair of the tree from an edge that is not a root.                     *)
LEMMA EdgeFacts ==
  ASSUME IInv, NEW i \in DOMAIN trajectory, trajectory[i].parent # Root
  PROVE  /\ trajectory[i].child \in Queries /\ trajectory[i].parent \in Queries
         /\ Linked(trajectory[i].parent, trajectory[i].child)
         /\ NoNaN => Lightest(i)
         /\ \E j \in 1 .. i - 1 : j \in DOMAIN trajectory /\ trajectory[j].child = trajectory[i].parent
         /\ i \in Nat /\ \A j \in 1 .. i - 1 : j \in DOMAIN trajectory /\ trajectory[j].child # trajectory[i].child
<1>1. /\ trajectory \in Seq(Edges) /\ EachChildOnce(trajectory) /\ OrderAssert(trajectory) /\ CutsLightest
  BY DEF IInv, TypeOK, EmitsVisited
<1>2. Len(trajectory) \in Nat /\ DOMAIN trajectory = 1 .. Len(trajectory)
  BY <1>1, EdgesAt
<1>3. trajectory[i] \in Edges
  BY <1>1, <1>2, EdgesAt
<1>4. trajectory[i].child \in Queries /\ trajectory[i].parent \in Queries
  BY <1>3, EdgeShape
<1>5. i \in 1 .. Len(trajectory)
  BY <1>2
<1>6. \A j \in 1 .. i - 1 : j \in DOMAIN trajectory /\ j # i
  BY <1>2, <1>5
<1>7. Linked(trajectory[i].parent, trajectory[i].child) /\ (NoNaN => Lightest(i))
  BY <1>1 DEF CutsLightest
<1>8. \E j \in 1 .. i - 1 : trajectory[j].child = trajectory[i].parent
  BY <1>1 DEF OrderAssert
<1>9. \A j \in 1 .. i - 1 : trajectory[j].child # trajectory[i].child
  BY <1>1, <1>6 DEF EachChildOnce
<1> QED
  BY <1>4, <1>5, <1>6, <1>7, <1>8, <1>9

LEMMA TreePairIs ==
  ASSUME IInv, undirected, NEW i \in DOMAIN trajectory, trajectory[i].parent # Root
  PROVE  /\ {trajectory[i].child, trajectory[i].parent} \in KeptPairs
         /\ {trajectory[i].child, trajectory[i].parent} \in TreePairs
<1>1. graph \in Graphs
  BY DEF IInv, TypeOK
<1>2. {trajectory[i].parent, trajectory[i].child} \in KeptPairs
  BY <1>1, EdgeFacts, LinkedBothWays
<1>3. {trajectory[i].parent, trajectory[i].child} = {trajectory[i].child, trajectory[i].parent}
  OBVIOUS
<1> QED
  BY <1>2, <1>3 DEF TreePairs

(* Of the queries of K the first in the trajectory is a root, or its edge  *)
(* leads out of K.                                                         *)
LEMMA FirstOf ==
  ASSUME IInv, visited = Queries, NEW K \in SUBSET Queries, K # {}
  PROVE  \E i \in DOMAIN trajectory :
           /\ trajectory[i].child \in K
           /\ trajectory[i].parent # Root => trajectory[i].parent \notin K
<1>1. /\ trajectory \in Seq(Edges) /\ Children(trajectory) = Queries
  BY DEF IInv, TypeOK, EmitsVisited
<1>2. Len(trajectory) \in Nat /\ DOMAIN trajectory = 1 .. Len(trajectory)
  BY <1>1, EdgesAt
<1> DEFINE P == {i \in DOMAIN trajectory : trajectory[i].child \in K}
<1>3. P \in SUBSET Nat /\ P # {}
  <2>1. PICK k \in K : k \in Children(trajectory)
    BY <1>1
  <2>2. PICK i \in DOMAIN trajectory : trajectory[i].child = k
    BY <2>1 DEF Children
  <2> QED
    BY <1>2, <2>2
<1>4. PICK i \in P : \A j \in P : i <= j
  <2> HIDE DEF P
  <2> QED
    BY <1>3, LeastNumber
<1>5. ASSUME trajectory[i].parent # Root, trajectory[i].parent \in K PROVE FALSE
  <2>1. PICK j \in 1 .. i - 1 : j \in DOMAIN trajectory /\ trajectory[j].child = trajectory[i].parent
    BY <1>5, EdgeFacts
  <2>2. j \in P
    BY <1>5, <2>1
  <2>3. i \in Int /\ j < i
    BY <1>2, <2>1
  <2> QED
    BY <1>4, <2>2, <2>3
<1> QED
  BY <1>4, <1>5

(* The pairs of the finished forest join what the links join.              *)
LEMMA ForestSpans ==
  ASSUME IInv, undirected, visited = Queries
  PROVE  Spans(TreePairs, KeptPairs)
<1> SUFFICES ASSUME NEW S \in SUBSET Queries, NEW g \in KeptPairs, Crosses(g, S),
                    \A t \in TreePairs : ~ Crosses(t, S)
             PROVE  FALSE
  BY SpansIs
<1>1. graph \in Graphs /\ RootsAreUnreachable /\ trajectory \in Seq(Edges)
  BY DEF IInv, TypeOK
<1>2. PICK a \in g, b \in g : a \in S /\ b \notin S
  BY DEF Crosses
<1>3. a \in Queries /\ b \in Queries /\ Linked(a, b)
  BY <1>2, KeptEnds
<1> DEFINE K == {x \in Queries : Reaches(a, x)}
<1>4. a \in K /\ b \in K
  BY <1>3, ReachesItself, ReachesFurther
<1>5. ASSUME NEW x \in K, NEW y \in K PROVE Reaches(x, y)
  BY <1>1, <1>3, ReachesBack, ReachesOn
<1>6. ASSUME NEW R \in {K \cap S, K \ S}
      PROVE  \E i \in DOMAIN trajectory : trajectory[i].parent = Root /\ trajectory[i].child \in R
  <2>1. R \in SUBSET Queries /\ R # {}
    BY <1>2, <1>4
  <2>2. PICK i \in DOMAIN trajectory :
          /\ trajectory[i].child \in R
          /\ trajectory[i].parent # Root => trajectory[i].parent \notin R
    BY <2>1, FirstOf
  <2>3. ASSUME trajectory[i].parent # Root PROVE FALSE
    <3> DEFINE c == trajectory[i].child
               p == trajectory[i].parent
    <3>1. c \in Queries /\ p \in Queries /\ Linked(p, c)
      BY <2>3, EdgeFacts
    <3>2. Linked(c, p)
      BY <1>1, <3>1, LinkedBothWays
    <3>3. {c, p} \in TreePairs
      BY <2>3, TreePairIs
    <3>4. c \in R /\ c \in K /\ p \notin R
      BY <2>2, <2>3
    <3> HIDE DEF c, p
    <3>5. p \in K
      BY <3>1, <3>2, <3>4, ReachesFurther
    <3>6. Crosses({c, p}, S)
      BY <3>4, <3>5 DEF Crosses
    <3> QED
      BY <3>3, <3>6
  <2> QED
    BY <2>2, <2>3
<1>7. PICK i \in DOMAIN trajectory : trajectory[i].parent = Root /\ trajectory[i].child \in K \cap S
  BY <1>6
<1>8. PICK j \in DOMAIN trajectory : trajectory[j].parent = Root /\ trajectory[j].child \in K \ S
  BY <1>6
<1>9. ASSUME NEW h \in DOMAIN trajectory, NEW m \in DOMAIN trajectory,
             trajectory[h].parent = Root, trajectory[h].child \in K,
             trajectory[m].child \in K
      PROVE  ~ (trajectory[m].child < trajectory[h].child)
  <2>1. \A q \in 0 .. trajectory[h].child - 1 : ~ Reaches(q, trajectory[h].child)
    BY <1>1, <1>9 DEF RootsAreUnreachable
  <2>2. Reaches(trajectory[m].child, trajectory[h].child)
    BY <1>5, <1>9
  <2>3. trajectory[m].child \in Nat /\ trajectory[h].child \in Nat
    BY <1>9, NAssumption DEF Queries
  <2> QED
    BY <2>1, <2>2, <2>3
<1>10. trajectory[i].child \in Int /\ trajectory[j].child \in Int
  BY <1>7, <1>8, NAssumption DEF Queries
<1>11. trajectory[i].child = trajectory[j].child
  BY <1>7, <1>8, <1>9, <1>10
<1> QED
  BY <1>7, <1>8, <1>11

(* Every pair of the forest is the lightest that leaves what the forest    *)
(* was before it.                                                          *)
LEMMA TreeChosen ==
  ASSUME IInv, undirected, \A g \in KeptPairs : graph.dist[g] # NaN,
         NEW n, n = Len(trajectory),
         NEW I, I = {i \in DOMAIN trajectory : trajectory[i].parent # Root},
         NEW p, p = [i \in I |-> {trajectory[i].child, trajectory[i].parent}],
         NEW cut, cut = [i \in I |-> {trajectory[m].child : m \in 1 .. i - 1}]
  PROVE  ChosenByCuts(KeptPairs, graph.dist, n, I, p, cut)
<1>1. graph \in Graphs /\ trajectory \in Seq(Edges)
  BY DEF IInv, TypeOK
<1>2. n \in Nat /\ DOMAIN trajectory = 1 .. n /\ \A i \in 1 .. n : trajectory[i].child \in Queries
  BY <1>1, EdgesAt
<1>3. NoNaN
  BY <1>1, LinkedBothWays DEF NoNaN
<1>4. ASSUME NEW i \in I
      PROVE  /\ p[i] \in KeptPairs /\ cut[i] \in SUBSET Queries /\ Crosses(p[i], cut[i])
             /\ \A g \in KeptPairs : Crosses(g, cut[i]) => graph.dist[p[i]] <= graph.dist[g]
             /\ \A j \in I : j < i => ~ Crosses(p[j], cut[i])
  <2> DEFINE c == trajectory[i].child
             b == trajectory[i].parent
             S == {trajectory[m].child : m \in 1 .. i - 1}
  <2>1. i \in DOMAIN trajectory /\ b # Root /\ p[i] = {c, b} /\ cut[i] = S
    OBVIOUS
  <2>2. p[i] \in KeptPairs
    BY <2>1, TreePairIs
  <2>3. /\ Lightest(i) /\ i \in Nat
        /\ b \in S /\ c \notin S
        /\ \A m \in 1 .. i - 1 : m \in DOMAIN trajectory
    BY <1>3, <2>1, EdgeFacts
  <2>4. S \in SUBSET Queries
    BY <1>2, <2>3
  <2>5. Crosses(p[i], cut[i])
    BY <2>1, <2>3 DEF Crosses
  <2>6. ASSUME NEW g \in KeptPairs, Crosses(g, cut[i]) PROVE graph.dist[p[i]] <= graph.dist[g]
    <3>1. PICK a \in g, e \in g : a \in S /\ e \notin S
      BY <2>1, <2>6 DEF Crosses
    <3>2. g = {a, e} /\ a \in Queries /\ e \in Queries /\ Linked(a, e)
      BY <3>1, KeptEnds
    <3>3. PICK j \in 1 .. i - 1 : a = trajectory[j].child
      BY <3>1
    <3>4. \A m \in 1 .. i - 1 : e # trajectory[m].child
      BY <3>1
    <3>5. graph.dist[{c, b}] <= graph.dist[{trajectory[j].child, e}]
      BY <2>3, <3>2, <3>3, <3>4 DEF Lightest
    <3> QED
      BY <2>1, <3>2, <3>3, <3>5
  <2>7. ASSUME NEW j \in I, j < i PROVE ~ Crosses(p[j], cut[i])
    <3>1. j \in DOMAIN trajectory /\ trajectory[j].parent # Root
          /\ p[j] = {trajectory[j].child, trajectory[j].parent}
      OBVIOUS
    <3>2. PICK m \in 1 .. j - 1 : trajectory[m].child = trajectory[j].parent
      BY <3>1, EdgeFacts
    <3>3. j \in 1 .. i - 1 /\ m \in 1 .. i - 1
      BY <1>2, <2>3, <2>7, <3>1
    <3>4. trajectory[j].child \in S /\ trajectory[j].parent \in S
      BY <3>2, <3>3
    <3> HIDE DEF S
    <3> QED
      BY <2>1, <3>1, <3>4 DEF Crosses
  <2> QED
    BY <2>1, <2>2, <2>4, <2>5, <2>6, <2>7
<1>5. I \subseteq 1 .. n
  BY <1>2
<1> QED
  BY <1>2, <1>4, <1>5 DEF ChosenByCuts

LEMMA DoneIsLeast == IInv => MinimumForest
<1> SUFFICES ASSUME IInv, pc = "done", undirected, \A g \in KeptPairs : graph.dist[g] # NaN
             PROVE  /\ TreePairs \subseteq KeptPairs /\ Spans(TreePairs, KeptPairs)
                    /\ \A T \in SUBSET KeptPairs :
                         Spans(T, KeptPairs) => WeightOf(TreePairs) <= WeightOf(T)
  BY DEF MinimumForest, KeptPairs
<1>1. graph \in Graphs /\ visited = Queries
  <2>1. visited \in SUBSET Queries /\ 0 .. start - 1 \subseteq visited /\ start = N
    BY DEF IInv, TypeOK, LoopOK
  <2> QED
    BY <2>1 DEF IInv, TypeOK, Queries
<1> DEFINE I == {i \in DOMAIN trajectory : trajectory[i].parent # Root}
           p == [i \in I |-> {trajectory[i].child, trajectory[i].parent}]
           cut == [i \in I |-> {trajectory[m].child : m \in 1 .. i - 1}]
           w == graph.dist
<1>2. TreePairs = {p[i] : i \in I}
  BY DEF TreePairs
<1>3. TreePairs \subseteq KeptPairs
  BY TreePairIs DEF TreePairs
<1>4. Spans(TreePairs, KeptPairs)
  BY <1>1, ForestSpans
<1>5. \A g \in KeptPairs : w[g] \in Nat
  BY <1>1, GraphsAssumption DEF KeptPairs
<1>6. ChosenByCuts(KeptPairs, w, Len(trajectory), I, p, cut)
  BY TreeChosen
<1> HIDE DEF I, p, cut, w
<1>7. ASSUME NEW T \in SUBSET KeptPairs, Spans(T, KeptPairs)
      PROVE  Sum(TreePairs, w) <= Sum(T, w)
  <2>1. KeptPairs \in SUBSET Pairs /\ \A g \in KeptPairs : w[g] \in Int
    BY <1>5 DEF KeptPairs
  <2>2. PICK U \in SUBSET KeptPairs : {p[i] : i \in I} \subseteq U /\ Sum(U, w) <= Sum(T, w)
    <3>1. KeptPairs \in SUBSET Pairs /\ Weights(KeptPairs, w)
      BY <2>1 DEF Weights
    <3>2. LightWith(KeptPairs, w, I, p, T)
      BY <1>6, <1>7, <3>1, ChosenAreLight
    <3> QED
      BY <3>2 DEF LightWith
  <2>3. \A V \in SUBSET KeptPairs : IsFiniteSet(V) /\ Sum(V, w) \in Int
    <3> SUFFICES ASSUME NEW V \in SUBSET KeptPairs PROVE IsFiniteSet(V) /\ Sum(V, w) \in Int
      OBVIOUS
    <3>1. IsFiniteSet(V)
      BY <2>1, PairsFinite, FS_Subset
    <3> QED
      BY <2>1, <3>1, SumTaken
  <2>4. Sum(TreePairs, w) <= Sum(U, w)
    <3>1. IsFiniteSet(U) /\ (\A x \in U : w[x] \in Nat) /\ TreePairs \in SUBSET U
      BY <1>2, <1>5, <2>2, <2>3
    <3> QED
      BY <3>1, SumGrows
  <2>5. Sum(TreePairs, w) \in Int /\ Sum(U, w) \in Int /\ Sum(T, w) \in Int
    BY <1>3, <2>3
  <2> QED
    BY <2>2, <2>4, <2>5
<1> QED
  BY <1>3, <1>4, <1>7, WeightIs DEF w

(* Without a distance that has no square root, the forest that is read off *)
(* the links kept both ways is a spanning forest of them, and no other     *)
(* weighs less.                                                            *)
THEOREM ForestIsMinimum == Spec => []MinimumForest
BY Inductive, DoneIsLeast, PTL

-------------------------------------------------------------------------------
(* The search implements the abstract producer of trajectories.            *)

LEMMA SameVocabulary ==
  /\ Abstract!Queries = Queries /\ Abstract!Root = Root /\ Abstract!Edges = Edges
  /\ \A c, p : Abstract!Edge(c, p) = Edge(c, p)
  /\ \A t : Abstract!Children(t) = Children(t)
BY DEF Abstract!Queries, Queries, Abstract!Root, Root, Abstract!Edges, Edges,
       Abstract!Edge, Edge, Abstract!Children, Children

LEMMA StepEmits ==
  ASSUME IInv, [Next]_vars
  PROVE  [Abstract!Next]_trajectory
<1>1. EmitsVisited
  BY DEF IInv
<1>2. CASE StartDirected
  <2>1. start \in Queries /\ start \notin visited
    BY <1>2, NAssumption DEF StartDirected, IInv, TypeOK, LoopOK, Queries
  <2>2. trajectory' = Append(trajectory, Edge(start, Root))
    BY <1>2 DEF StartDirected
  <2>3. Abstract!Emit(start, Root)
    BY <1>1, <2>1, <2>2, SameVocabulary DEF Abstract!Emit, EmitsVisited
  <2> QED
    BY <2>1, <2>3, SameVocabulary DEF Abstract!Next
<1>3. CASE Pop
  <2>1. PICK i \in Top :
          \/ UNCHANGED trajectory
          \/ i.v \notin visited /\ trajectory' = Append(trajectory, Edge(i.v, i.p))
    BY <1>3 DEF Pop
  <2>2. /\ i.v \in Queries /\ i.p \in Queries \cup {Root}
        /\ i.p = Root \/ i.p \in visited
    BY <2>1, TopMayEnter
  <2>3. CASE i.v \notin visited /\ trajectory' = Append(trajectory, Edge(i.v, i.p))
    <3>1. Abstract!Emit(i.v, i.p)
      BY <1>1, <2>2, <2>3, SameVocabulary DEF Abstract!Emit, EmitsVisited
    <3> QED
      BY <2>2, <3>1, SameVocabulary DEF Abstract!Next
  <2> QED
    BY <2>1, <2>3
<1>4. CASE Collect \/ Skip \/ StartUndirected \/ UNCHANGED vars
  BY <1>4 DEF Collect, Skip, StartUndirected, vars
<1> QED
  BY <1>2, <1>3, <1>4 DEF Next

(* Every step of the search emits a new query after its parent, or leaves  *)
(* the forest as it is.                                                    *)
THEOREM Refinement == Spec => ImplementsTrajectory
<1>1. Init => Abstract!Init
  BY DEF Init, Abstract!Init
<1> QED
  BY <1>1, Inductive, StepEmits, PTL DEF Spec, ImplementsTrajectory, Abstract!Safety

-------------------------------------------------------------------------------
(* What a behaviour of TrajectorySpec amounts to: whoever implements it    *)
(* has only to emit every query to pass checkTrajectory.                   *)

Emitted == trajectory \in Seq(Edges) /\ EachChildOnce(trajectory) /\ OrderAssert(trajectory)

LEMMA EmitKeeps ==
  ASSUME Emitted, NEW c \in Queries, NEW p \in Queries \cup {Root}, Abstract!Emit(c, p)
  PROVE  Emitted'
<1>1. Edge(c, p) \in Edges /\ Edge(c, p).child = c /\ Edge(c, p).parent = p
  BY DEF Edge, Edges
<1>2. /\ trajectory' = Append(trajectory, Edge(c, p))
      /\ c \notin Children(trajectory)
      /\ p = Root \/ p \in Children(trajectory)
  BY SameVocabulary DEF Abstract!Emit
<1>3. PICK e \in Edges : e = Edge(c, p)
  BY <1>1
<1>4. trajectory' \in Seq(Edges)
  BY <1>2, <1>3, Appending DEF Emitted
<1>5. EachChildOnce(trajectory') /\ OrderAssert(trajectory')
  BY <1>1, <1>2, <1>3, AppendingKeeps DEF Emitted
<1> QED
  BY <1>4, <1>5 DEF Emitted

(* checkTrajectory accepts exactly the complete trajectories that the      *)
(* abstract producer can emit.                                             *)
THEOREM CompletePasses == Abstract!Safety => []Abstract!CompleteIsChecked
<1>1. Abstract!Init => Emitted
  BY DEF Abstract!Init, Emitted, EachChildOnce, OrderAssert
<1>2. Emitted /\ [Abstract!Next]_trajectory => Emitted'
  <2>1. ASSUME Emitted, Abstract!Next PROVE Emitted'
    <3>1. PICK c \in Queries, p \in Queries \cup {Root} : Abstract!Emit(c, p)
      BY <2>1, SameVocabulary DEF Abstract!Next
    <3> QED
      BY <2>1, <3>1, EmitKeeps
  <2>2. ASSUME Emitted, UNCHANGED trajectory PROVE Emitted'
    BY <2>2 DEF Emitted, EachChildOnce, OrderAssert
  <2> QED
    BY <2>1, <2>2
<1>3. Emitted => Abstract!CompleteIsChecked
  <2>1. CheckTrajectory(trajectory) <=> Abstract!CheckTrajectory(trajectory)
    BY SameVocabulary
    DEF CheckTrajectory, SizeAssert, CoverAssert, OrderAssert, Abstract!CheckTrajectory,
        Abstract!SizeAssert, Abstract!CoverAssert, Abstract!OrderAssert
  <2> QED
    BY <2>1, Pigeonhole
    DEF Emitted, Abstract!CompleteIsChecked, CheckTrajectory, SizeAssert, CoverAssert
<1> QED
  BY <1>1, <1>2, <1>3, PTL DEF Abstract!Safety
-------------------------------------------------------------------------------
(* The construction of the index: HnswBuild over variables of its own, for *)
(* every number of elements, every layer drawn, all lengths of lists and   *)
(* of the beam, and every symmetric distance.                              *)

CONSTANTS M, Ef, TopLayer, Metrics

VARIABLES dist, count, level, links, entry, obj, layer, beam, cand, seen, rest, at

B == INSTANCE HnswBuild WITH Top <- TopLayer, visited <- seen, pc <- at

(* The instance has a Cardinality of its own, the same as that of the      *)
(* lemmas on finite sets.                                                  *)
LEMMA SameCardinality == \A S : B!Cardinality(S) = Cardinality(S)
BY DEF B!Cardinality, Cardinality

-------------------------------------------------------------------------------
(* The choice of links.                                                    *)

(* The elements are finitely many.                                         *)
LEMMA ElementFacts ==
  ASSUME B!BuildAssumption
  PROVE  /\ IsFiniteSet(B!Elements) /\ B!Elements \subseteq Nat /\ 0 \in B!Elements
         /\ \A S \in SUBSET B!Elements : IsFiniteSet(S) /\ Cardinality(S) \in Nat
<1>1. N \in Nat /\ N > 0
  BY DEF B!BuildAssumption
<1>2. 0 \in Int /\ N - 1 \in Int
  BY <1>1
<1>3. IsFiniteSet(B!Elements)
  BY <1>2, FS_Interval DEF B!Elements
<1>4. \A S \in SUBSET B!Elements : IsFiniteSet(S) /\ Cardinality(S) \in Nat
  BY <1>3, FS_Subset, FS_CardinalityType
<1> QED
  BY <1>1, <1>3, <1>4 DEF B!Elements

(* Distances are numbers, and symmetric.                                   *)
LEMMA DistanceFacts ==
  ASSUME B!BuildAssumption, dist \in Metrics
  PROVE  \A x, y \in B!Elements : dist[x][y] \in Int /\ dist[x][y] = dist[y][x]
BY DEF B!BuildAssumption

(* The order in which the candidates are taken has a last element.         *)
LEMMA LastCandidate ==
  ASSUME B!BuildAssumption, dist \in Metrics,
         NEW S \in SUBSET B!Elements, S # {}, NEW x \in B!Elements
  PROVE  \E y \in S : \A w \in S \ {y} : B!Ahead(w, y, x) /\ ~ B!Ahead(y, w, x)
<1> DEFINE rank == [v \in S |-> - dist[x][v]]
<1>1. IsFiniteSet(S) /\ S \subseteq Int
  BY ElementFacts
<1>2. \A v \in S : dist[x][v] \in Int /\ rank[v] = - dist[x][v] /\ rank[v] \in Int
  BY DistanceFacts
<1>3. \E y \in S : \A w \in S : rank[y] < rank[w] \/ (rank[y] = rank[w] /\ y <= w)
  <2> HIDE DEF rank
  <2> QED
    BY <1>1, <1>2, LeastByRank
<1>4. PICK y \in S : \A w \in S : rank[y] < rank[w] \/ (rank[y] = rank[w] /\ y <= w)
  BY <1>3
<1> HIDE DEF rank
<1>5. ASSUME NEW w \in S \ {y}
      PROVE  B!Ahead(w, y, x) /\ ~ B!Ahead(y, w, x)
  <2>1. w \in Int /\ y \in Int /\ w # y
    BY <1>1
  <2>2. rank[y] < rank[w] \/ (rank[y] = rank[w] /\ y <= w)
    BY <1>4
  <2>3. /\ dist[x][w] \in Int /\ dist[x][y] \in Int
        /\ rank[w] = - dist[x][w] /\ rank[y] = - dist[x][y]
    BY <1>2
  <2>4. dist[x][w] < dist[x][y] \/ (dist[x][w] = dist[x][y] /\ y < w)
    BY <2>1, <2>2, <2>3
  <2> QED
    BY <2>1, <2>3, <2>4 DEF B!Ahead
<1> QED
  BY <1>5

(* What the choice is to satisfy.                                          *)
IsKept(kept, S, x, m) ==
  \A y \in S : y \in kept <=> B!Kept(y, {z \in kept : B!Ahead(z, y, x)}, x, m)

(* Such a choice exists: of the candidates without one take the fewest,    *)
(* and of these the last away.                                             *)
LEMMA ChoiceExists ==
  ASSUME B!BuildAssumption, dist \in Metrics,
         NEW x \in B!Elements, NEW m \in Nat
  PROVE  \A S \in SUBSET B!Elements : \E kept \in SUBSET S : IsKept(kept, S, x, m)
<1> DEFINE Bad == {S \in SUBSET B!Elements : ~ \E kept \in SUBSET S : IsKept(kept, S, x, m)}
           Sizes == {Cardinality(S) : S \in Bad}
<1> SUFFICES ASSUME Bad # {} PROVE FALSE
  OBVIOUS
<1>1. Sizes \in SUBSET Nat /\ Sizes # {}
  BY ElementFacts
<1>2. PICK S \in Bad : \A T \in Bad : Cardinality(S) <= Cardinality(T)
  <2>1. PICK s \in Sizes : \A t \in Sizes : s <= t
    <3> HIDE DEF Sizes
    <3> QED
      BY <1>1, LeastNumber
  <2> QED
    BY <2>1
<1>3. S \in SUBSET B!Elements /\ ~ \E kept \in SUBSET S : IsKept(kept, S, x, m)
  BY <1>2
<1>4. S # {}
  BY <1>3 DEF IsKept
<1>5. PICK y \in S : \A w \in S \ {y} : B!Ahead(w, y, x) /\ ~ B!Ahead(y, w, x)
  BY <1>3, <1>4, LastCandidate
<1>6. S \ {y} \notin Bad
  <2>1. IsFiniteSet(S) /\ Cardinality(S) \in Nat
    BY <1>3, ElementFacts
  <2>2. Cardinality(S \ {y}) = Cardinality(S) - 1
    BY <2>1, FS_RemoveElement
  <2>3. ~ (Cardinality(S) <= Cardinality(S \ {y}))
    BY <2>1, <2>2
  <2> QED
    BY <1>2, <2>3
<1>7. PICK kept \in SUBSET (S \ {y}) : IsKept(kept, S \ {y}, x, m)
  BY <1>3, <1>6
<1> HIDE DEF Bad
<1> DEFINE all == IF B!Kept(y, kept, x, m) THEN kept \cup {y} ELSE kept
<1>8. all \in SUBSET S /\ \A w \in S \ {y} : w \in all <=> w \in kept
  OBVIOUS
<1>9. {z \in all : B!Ahead(z, y, x)} = kept
  <2>1. ~ B!Ahead(y, y, x)
    <3>1. dist[x][y] \in Int /\ y \in Int
      BY <1>3, DistanceFacts, ElementFacts
    <3> QED
      BY <3>1 DEF B!Ahead
  <2> QED
    BY <1>5, <2>1
<1>10. ASSUME NEW w \in S \ {y}
       PROVE  {z \in all : B!Ahead(z, w, x)} = {z \in kept : B!Ahead(z, w, x)}
  BY <1>5, <1>10
<1>11. IsKept(all, S, x, m)
  <2> SUFFICES ASSUME NEW w \in S
               PROVE  w \in all <=> B!Kept(w, {z \in all : B!Ahead(z, w, x)}, x, m)
    BY DEF IsKept
  <2>1. CASE w = y
    BY <1>9, <2>1
  <2>2. CASE w # y
    <3>1. w \in kept <=> B!Kept(w, {z \in kept : B!Ahead(z, w, x)}, x, m)
      BY <1>7, <2>2 DEF IsKept
    <3> QED
      BY <1>8, <1>10, <2>2, <3>1
  <2> QED
    BY <2>1, <2>2
<1> QED
  BY <1>3, <1>8, <1>11

(* What getNeighborsByHeuristic2 returns: candidates, no more than there   *)
(* is room for, and one of the nearest among them.                         *)
LEMMA ChosenFacts ==
  ASSUME B!BuildAssumption, dist \in Metrics,
         NEW S \in SUBSET B!Elements, S # {}, NEW x \in B!Elements, NEW m \in Nat \ {0}
  PROVE  /\ B!Chosen(S, x, m) \subseteq S
         /\ Cardinality(B!Chosen(S, x, m)) <= m
         /\ \E y \in B!Chosen(S, x, m) : \A w \in S : dist[x][y] <= dist[x][w]
<1> DEFINE C == B!Chosen(S, x, m)
<1>1. \A v, w \in S : dist[x][v] \in Int /\ dist[x][w] \in Int /\ v \in Int
  BY DistanceFacts, ElementFacts
<1>2. IsFiniteSet(S) /\ Cardinality(S) \in Nat
  BY ElementFacts
<1>3. PICK y \in S : \A w \in S : dist[x][y] <= dist[x][w]
  <2> DEFINE rank == [v \in S |-> dist[x][v]]
  <2>1. \A v \in S : rank[v] \in Int /\ rank[v] = dist[x][v]
    BY <1>1
  <2>2. \E v \in S : \A w \in S : rank[v] < rank[w] \/ (rank[v] = rank[w] /\ v <= w)
    <3> HIDE DEF rank
    <3> QED
      BY <1>1, <1>2, <2>1, LeastByRank
  <2>3. PICK v \in S : \A w \in S : rank[v] < rank[w] \/ (rank[v] = rank[w] /\ v <= w)
    BY <2>2
  <2>4. \A w \in S : rank[v] <= rank[w]
    <3> HIDE DEF rank
    <3> QED
      BY <2>1, <2>3
  <2> QED
    BY <2>4
<1>4. CASE Cardinality(S) < m
  <2>1. C = S
    BY <1>4, SameCardinality DEF B!Chosen
  <2> QED
    BY <1>2, <1>3, <1>4, <2>1
<1>5. CASE ~ (Cardinality(S) < m)
  <2>1. C = CHOOSE kept \in SUBSET S : IsKept(kept, S, x, m)
    BY <1>5, SameCardinality DEF B!Chosen, IsKept
  <2>2. C \in SUBSET S /\ IsKept(C, S, x, m)
    <3> HIDE DEF C
    <3>1. \E kept \in SUBSET S : IsKept(kept, S, x, m)
      BY ChoiceExists
    <3> QED
      BY <2>1, <3>1
  <2> HIDE DEF C
  <2>3. IsFiniteSet(C) /\ Cardinality(C) \in Nat
    BY <2>2, ElementFacts
  <2>4. Cardinality(C) <= m
    <3>1. CASE C = {}
      BY <3>1, FS_EmptySet
    <3>2. CASE C # {}
      <4>1. PICK v \in C : \A w \in C \ {v} : B!Ahead(w, v, x) /\ ~ B!Ahead(v, w, x)
        BY <2>2, <3>2, LastCandidate
      <4>2. ~ B!Ahead(v, v, x)
        BY <1>1, <2>2 DEF B!Ahead
      <4>3. {z \in C : B!Ahead(z, v, x)} = C \ {v}
        BY <4>1, <4>2
      <4>4. Cardinality(C \ {v}) < m
        BY <2>2, <4>3, SameCardinality DEF IsKept, B!Kept
      <4>5. Cardinality(C \ {v}) = Cardinality(C) - 1
        BY <2>3, FS_RemoveElement
      <4> QED
        BY <2>3, <4>4, <4>5
    <3> QED
      BY <3>1, <3>2
  <2>5. \E v \in C : dist[x][v] = dist[x][y]
    <3> SUFFICES ASSUME \A v \in C : dist[x][v] # dist[x][y] PROVE FALSE
      OBVIOUS
    <3>1. ASSUME NEW z \in C PROVE ~ B!Ahead(z, y, x)
      <4>1. dist[x][z] \in Int /\ dist[x][y] \in Int /\ dist[x][y] <= dist[x][z]
        BY <1>1, <1>3, <2>2
      <4>2. dist[x][z] # dist[x][y]
        OBVIOUS
      <4> QED
        BY <4>1, <4>2 DEF B!Ahead
    <3>2. {z \in C : B!Ahead(z, y, x)} = {}
      BY <3>1
    <3>3. B!Kept(y, {}, x, m)
      BY FS_EmptySet, SameCardinality DEF B!Kept
    <3>4. y \in C
      BY <2>2, <3>2, <3>3 DEF IsKept
    <3> QED
      BY <3>4
  <2> QED
    BY <1>3, <2>2, <2>4, <2>5 DEF C
<1> QED
  BY <1>4, <1>5

(* A list of the elements of S, farthest first, ends with a nearest one.   *)
LEMMA ArrangedFacts ==
  ASSUME B!BuildAssumption, dist \in Metrics,
         NEW S \in SUBSET B!Elements, NEW x \in B!Elements, NEW list \in B!Arranged(S, x)
  PROVE  /\ list \in Seq(B!Elements)
         /\ Len(list) = Cardinality(S)
         /\ B!Range(list) = S
         /\ S # {} => /\ list # << >> /\ list[Len(list)] \in S
                      /\ \A w \in S : dist[x][list[Len(list)]] <= dist[x][w]
<1> DEFINE n == Cardinality(S)
<1>1. IsFiniteSet(S) /\ n \in Nat
  BY ElementFacts
<1>2. /\ list \in [1 .. n -> S] /\ \A i, j \in 1 .. n : i # j => list[i] # list[j]
      /\ \A i, j \in DOMAIN list : i < j => dist[x][list[i]] >= dist[x][list[j]]
  BY SameCardinality DEF B!Arranged, B!SetToSeqs
<1>3. IsFiniteSet(1 .. n) /\ Cardinality(1 .. n) = n
  BY <1>1, FS_Interval
<1>4. list \in Injection(1 .. n, S)
  BY <1>2 DEF Injection, IsInjective
<1>5. list \in Surjection(1 .. n, S)
  BY <1>1, <1>3, <1>4, FS_Injection
<1>6. DOMAIN list = 1 .. n /\ \A w \in S : \E i \in 1 .. n : list[i] = w
  BY <1>2, <1>5 DEF Surjection
<1> HIDE DEF n
<1>7. list \in Seq(B!Elements) /\ Len(list) = n
  <2>1. list \in Seq(S) /\ Len(list) = n
    BY <1>1, <1>2
  <2> QED
    BY <2>1
<1>8. B!Range(list) = S
  BY <1>2, <1>6 DEF B!Range
<1>9. ASSUME S # {}
      PROVE  /\ list # << >> /\ list[n] \in S
             /\ \A w \in S : dist[x][list[n]] <= dist[x][w]
  <2>1. n # 0
    BY <1>1, <1>9, FS_EmptySet DEF n
  <2>2. n \in 1 .. n
    BY <1>1, <2>1
  <2>3. list[n] \in S
    BY <1>2, <2>2
  <2>4. ASSUME NEW w \in S PROVE dist[x][list[n]] <= dist[x][w]
    <3>1. PICK i \in 1 .. n : list[i] = w
      BY <1>6
    <3>2. dist[x][list[n]] \in Int /\ dist[x][list[i]] \in Int
      BY <2>3, <3>1, DistanceFacts
    <3>3. CASE i = n
      BY <3>1, <3>2, <3>3
    <3>4. CASE i # n
      <4>1. i < n
        BY <1>1, <3>4
      <4>2. dist[x][list[i]] >= dist[x][list[n]]
        BY <1>2, <1>6, <2>2, <4>1
      <4> QED
        BY <3>1, <3>2, <4>2
    <3> QED
      BY <3>3, <3>4
  <2>5. list # << >>
    BY <1>6, <2>2
  <2> QED
    BY <2>3, <2>4, <2>5
<1> QED
  BY <1>6, <1>7, <1>8, <1>9 DEF n

(* The list of n after it has taken the new element.                       *)
LEMMA WithNewFacts ==
  ASSUME B!BuildAssumption, B!TypeOK, B!cur \in B!Elements,
         NEW n \in B!Elements, NEW list, list = links[layer][n],
         B!cur \notin B!Range(list), Cardinality(B!Range(list)) = Len(list),
         NEW new \in B!WithNew(n)
  PROVE  /\ new \in Seq(B!Elements) /\ new # << >>
         /\ Len(new) <= B!Capacity
         /\ B!Range(new) \subseteq B!Range(list) \cup {B!cur}
         /\ Cardinality(B!Range(new)) = Len(new)
<1>1. dist \in Metrics /\ list \in Seq(B!Elements) /\ M \in Nat \ {0}
  BY DEF B!TypeOK, B!BuildAssumption
<1>2. B!Capacity \in Nat \ {0}
  BY <1>1 DEF B!Capacity
<1>3. Len(list) \in Nat /\ DOMAIN list = 1 .. Len(list)
  BY <1>1
<1>4. B!Range(list) \in SUBSET B!Elements
  <2>1. \A i \in 1 .. Len(list) : list[i] \in B!Elements
    BY <1>1
  <2> QED
    BY <1>3, <2>1 DEF B!Range
<1>5. CASE Len(list) < B!Capacity
  <2>1. new = Append(list, B!cur)
    BY <1>5 DEF B!WithNew
  <2>2. /\ new \in Seq(B!Elements) /\ Len(new) = Len(list) + 1
        /\ \A i \in 1 .. Len(list) : new[i] = list[i]
        /\ new[Len(list) + 1] = B!cur
    BY <1>1, <2>1
  <2>3. DOMAIN new = 1 .. Len(list) + 1
    BY <2>2
  <2>4. \A i : i \in 1 .. Len(list) + 1 <=> i \in 1 .. Len(list) \/ i = Len(list) + 1
    BY <1>3
  <2>5. B!Range(new) = B!Range(list) \cup {B!cur}
    BY <1>3, <2>2, <2>3, <2>4 DEF B!Range
  <2>6. Cardinality(B!Range(new)) = Len(list) + 1
    <3>1. IsFiniteSet(B!Range(list))
      BY <1>4, ElementFacts
    <3>2. Cardinality(B!Range(list) \cup {B!cur}) = Cardinality(B!Range(list)) + 1
      BY <3>1, FS_AddElement
    <3> QED
      BY <2>5, <3>2
  <2>7. Len(new) <= B!Capacity
    BY <1>2, <1>3, <1>5, <2>2
  <2>8. new # << >>
    BY <1>3, <2>2
  <2> QED
    BY <2>2, <2>5, <2>6, <2>7, <2>8
<1>6. CASE ~ (Len(list) < B!Capacity)
  <2> DEFINE S == B!Range(list) \cup {B!cur}
             T == B!Chosen(S, n, B!Capacity)
  <2>1. new \in B!Arranged(T, n)
    BY <1>6 DEF B!WithNew
  <2>2. S \in SUBSET B!Elements /\ S # {}
    BY <1>4
  <2> HIDE DEF S
  <2>3. T \subseteq S /\ Cardinality(T) <= B!Capacity /\ T # {}
    BY <1>1, <1>2, <2>2, ChosenFacts
  <2> HIDE DEF T
  <2>4. T \in SUBSET B!Elements
    BY <2>2, <2>3
  <2>5. /\ new \in Seq(B!Elements) /\ Len(new) = Cardinality(T) /\ new # << >>
        /\ B!Range(new) = T /\ Cardinality(B!Range(new)) = Len(new)
    <3>1. /\ new \in Seq(B!Elements) /\ Len(new) = Cardinality(T) /\ B!Range(new) = T
          /\ T # {} => new # << >>
      BY <1>1, <2>1, <2>4, ArrangedFacts
    <3> QED
      BY <2>3, <3>1
  <2> QED
    BY <2>3, <2>5 DEF S
<1> QED
  BY <1>5, <1>6

-------------------------------------------------------------------------------
(* What every state has in common.                                         *)

(* The elements added so far; the one that is being linked is of them, but *)
(* is not linked in the layer at work.                                     *)
LEMMA PlaceFacts ==
  ASSUME B!BuildAssumption, B!TypeOK
  PROVE  /\ count \in Nat /\ count <= N /\ B!Present \subseteq B!Elements
         /\ \A x : x \in B!Present <=> x \in Nat /\ x < count
         /\ \A l : B!Linked(l) \subseteq B!Present
         /\ B!SearchOK /\ at # "add" => B!cur \in B!Present /\ B!cur \in B!Elements
         /\ at # "add" => B!cur \notin B!Linked(layer)
<1>1. N \in Nat /\ count \in Nat /\ count <= N
  BY DEF B!BuildAssumption, B!TypeOK
<1>2. \A x : x \in B!Present <=> x \in Nat /\ x < count
  BY <1>1 DEF B!Present
<1>3. B!Present \subseteq B!Elements
  BY <1>1 DEF B!Present, B!Elements
<1>4. \A l : B!Linked(l) \subseteq B!Present
  BY DEF B!Linked
<1>5. B!SearchOK /\ at # "add" => B!cur \in B!Present
  BY <1>1, <1>2 DEF B!SearchOK, B!cur
<1>6. at # "add" => B!cur \notin B!Linked(layer)
  <2>1. layer \in Int
    BY DEF B!TypeOK, B!Layers
  <2> QED
    BY <2>1 DEF B!Linked
<1> QED
  BY <1>1, <1>2, <1>3, <1>4, <1>5, <1>6

(* Layers are numbers, from 0 up without a gap.                            *)
LEMMA LayerFacts ==
  ASSUME B!BuildAssumption, B!TypeOK
  PROVE  /\ layer \in Nat /\ layer <= TopLayer
         /\ \A l \in B!Layers : l \in Nat
         /\ 0 \in B!Layers
         /\ \A l \in B!Layers : l > 0 => l - 1 \in B!Layers
         /\ \A x \in B!Elements : level[x] \in Nat /\ level[x] \in B!Layers
BY DEF B!BuildAssumption, B!TypeOK, B!Layers

(* A step that touches no list and leaves every layer its elements keeps   *)
(* what is said of lists.                                                  *)
LEMMA SameLists ==
  ASSUME links' = links, \A l \in B!Layers : B!Linked(l)' = B!Linked(l),
         B!ListsOK, B!NoneCutOff
  PROVE  B!ListsOK' /\ B!NoneCutOff'
<1>1. B!ListsOK'
  BY SameCardinality DEF B!ListsOK
<1>2. B!NoneCutOff'
  BY SameCardinality DEF B!NoneCutOff
<1> QED
  BY <1>1, <1>2

(* The invariant holds of an empty index.                                  *)
LEMMA BuildInit ==
  ASSUME B!BuildAssumption, B!Init
  PROVE  B!IInv
<1>1. B!TypeOK
  <2>1. 0 \in B!Elements /\ 0 \in B!Layers /\ 0 \in 0 .. N
    BY ElementFacts DEF B!BuildAssumption, B!Layers
  <2>2. << >> \in Seq(B!Elements)
    OBVIOUS
  <2> QED
    BY <2>1, <2>2 DEF B!Init, B!TypeOK
<1>2. B!Present = {}
  BY DEF B!Init, B!Present
<1>3. \A l : B!Linked(l) = {}
  BY <1>2 DEF B!Linked
<1>4. B!ListsOK
  <2>1. B!Range(<< >>) = {} /\ Cardinality({}) = 0 /\ Len(<< >>) = 0
    BY FS_EmptySet DEF B!Range
  <2>2. \A l \in B!Layers, x \in B!Elements : links[l][x] = << >>
    BY DEF B!Init
  <2>3. 0 <= M /\ 0 <= 2 * M
    BY DEF B!BuildAssumption
  <2> QED
    BY <2>1, <2>2, <2>3, SameCardinality DEF B!ListsOK
<1>5. B!NoneCutOff
  BY <1>3, FS_EmptySet, SameCardinality DEF B!NoneCutOff
<1>6. B!LayersExist
  BY <1>2, SameCardinality DEF B!Init, B!LayersExist
<1>7. B!SearchOK
  BY DEF B!Init, B!SearchOK
<1> QED
  BY <1>1, <1>4, <1>5, <1>6, <1>7 DEF B!IInv
(* The first element is alone in its layers, and the entry point.          *)
LEMMA AddFirstStep ==
  ASSUME B!BuildAssumption, B!IInv, B!AddFirst
  PROVE  B!IInv'
<1>1. /\ B!TypeOK /\ B!ListsOK /\ B!NoneCutOff /\ B!LayersExist /\ B!SearchOK
      /\ at = "add" /\ entry = 0 /\ count = 0
  BY DEF B!IInv, B!AddFirst, B!SearchOK
<1>2. PICK l \in B!Layers : level' = [level EXCEPT ![0] = l]
  BY DEF B!AddFirst
<1>3. /\ count' = 1
      /\ dist' = dist /\ links' = links /\ entry' = entry /\ obj' = obj /\ layer' = layer
      /\ beam' = beam /\ cand' = cand /\ seen' = seen /\ rest' = rest /\ at' = at
  BY DEF B!AddFirst
<1>4. B!TypeOK'
  <2>1. 1 \in 0 .. N
    BY DEF B!BuildAssumption
  <2>2. level' \in [B!Elements -> B!Layers]
    BY <1>1, <1>2 DEF B!TypeOK
  <2> QED
    BY <1>1, <1>3, <2>1, <2>2 DEF B!TypeOK
<1>5. B!Present = {} /\ B!Present' = {0}
  BY <1>1, <1>3 DEF B!Present
<1>6. \A k \in B!Layers : B!Linked(k) = {} /\ B!Linked(k)' \in SUBSET {0}
  BY <1>5 DEF B!Linked
<1>7. B!ListsOK'
  <2> SUFFICES ASSUME NEW k \in B!Layers, NEW x \in B!Elements
               PROVE  /\ Len(links'[k][x]) <= (IF k = 0 THEN 2 * M ELSE M)
                      /\ links'[k][x] # << >> => x \in B!Linked(k)'
                      /\ B!Range(links'[k][x]) \subseteq B!Linked(k)' \ {x}
                      /\ Cardinality(B!Range(links'[k][x])) = Len(links'[k][x])
    BY SameCardinality DEF B!ListsOK
  <2>1. /\ Len(links[k][x]) <= (IF k = 0 THEN 2 * M ELSE M)
        /\ links[k][x] # << >> => x \in B!Linked(k)
        /\ B!Range(links[k][x]) \subseteq B!Linked(k) \ {x}
        /\ Cardinality(B!Range(links[k][x])) = Len(links[k][x])
    BY <1>1, SameCardinality DEF B!ListsOK
  <2> QED
    BY <1>3, <1>6, <2>1
<1>8. B!NoneCutOff'
  <2> SUFFICES ASSUME NEW k \in B!Layers PROVE ~ (Cardinality(B!Linked(k)') > 1)
    BY SameCardinality DEF B!NoneCutOff
  <2>1. B!Linked(k)' = {} \/ B!Linked(k)' = {0}
    BY <1>6
  <2>2. CASE B!Linked(k)' = {}
    <3>1. Cardinality(B!Linked(k)') = 0
      BY <2>2, FS_EmptySet
    <3> QED
      BY <3>1
  <2>3. CASE B!Linked(k)' = {0}
    <3>1. Cardinality(B!Linked(k)') = 1
      BY <2>3, FS_Singleton
    <3> QED
      BY <3>1
  <2> QED
    BY <2>1, <2>2, <2>3
<1>9. B!LayersExist'
  <2>1. 0 \in B!Elements /\ level'[0] \in Nat
    BY <1>1, <1>2, ElementFacts DEF B!TypeOK, B!Layers
  <2> QED
    BY <1>1, <1>3, <1>5, <2>1, SameCardinality DEF B!LayersExist, B!maxlevel
<1>10. B!SearchOK'
  BY <1>1, <1>3 DEF B!SearchOK
<1> QED
  BY <1>4, <1>7, <1>8, <1>9, <1>10 DEF B!IInv

(* A new element joins, before it is linked, only layers above all others. *)
LEMMA AddStep ==
  ASSUME B!BuildAssumption, B!IInv, B!Add
  PROVE  B!IInv'
<1>1. /\ B!TypeOK /\ B!ListsOK /\ B!NoneCutOff /\ B!LayersExist /\ B!SearchOK
      /\ at = "add" /\ count \in 1 .. N - 1 /\ rest = << >>
  BY DEF B!IInv, B!Add, B!SearchOK
<1>2. PICK l \in B!Layers : level' = [level EXCEPT ![count] = l]
  BY DEF B!Add
<1>3. /\ count' = count + 1 /\ obj' = entry /\ layer' = B!maxlevel /\ at' = "descend"
      /\ dist' = dist /\ links' = links /\ entry' = entry
      /\ beam' = beam /\ cand' = cand /\ seen' = seen /\ rest' = rest
  BY DEF B!Add
<1>4. /\ N \in Nat /\ count \in Nat /\ count >= 1 /\ count < N
  BY <1>1 DEF B!BuildAssumption
<1>5. /\ count \in B!Elements /\ B!cur' = count
      /\ B!Present' = B!Present \cup {count} /\ count \notin B!Present
      /\ B!Present \subseteq B!Elements /\ entry \in B!Present
  <2>1. count \in B!Elements
    BY <1>4 DEF B!Elements
  <2>2. B!cur' = count
    BY <1>3, <1>4 DEF B!cur
  <2>3. B!Present' = B!Present \cup {count} /\ count \notin B!Present
    BY <1>3, <1>4 DEF B!Present
  <2>4. B!Present \subseteq B!Elements
    BY <1>1, PlaceFacts
  <2>5. entry \in B!Present
    BY <1>1, <1>4, SameCardinality DEF B!LayersExist
  <2> QED
    BY <2>1, <2>2, <2>3, <2>4, <2>5
<1>6. /\ \A x \in B!Present : level'[x] = level[x]
      /\ level'[count] = l
      /\ B!maxlevel' = B!maxlevel
  BY <1>1, <1>2, <1>3, <1>5 DEF B!TypeOK, B!maxlevel
<1>7. B!maxlevel \in B!Layers /\ B!maxlevel \in Nat /\ l \in Nat
  BY <1>1, LayerFacts DEF B!TypeOK, B!maxlevel
<1>8. B!TypeOK'
  <2>1. count + 1 \in 0 .. N
    BY <1>4
  <2>2. level' \in [B!Elements -> B!Layers]
    BY <1>1, <1>2 DEF B!TypeOK
  <2> QED
    BY <1>1, <1>3, <1>7, <2>1, <2>2 DEF B!TypeOK
<1>9. ASSUME NEW k \in B!Layers
      PROVE  /\ B!Linked(k) \subseteq B!Linked(k)'
             /\ B!Linked(k)' = B!Linked(k) \/ B!Linked(k)' = {count}
  <2>1. \A x : x \in B!Linked(k) <=> x \in B!Present /\ level[x] >= k
    BY <1>1 DEF B!Linked
  <2>2. \A x : x \in B!Linked(k)' <=> /\ x \in B!Present \cup {count}
                                      /\ level'[x] >= k
                                      /\ x = count => k > B!maxlevel
    BY <1>3, <1>5 DEF B!Linked
  <2>3. \A x \in B!Present : x \in B!Linked(k)' <=> x \in B!Linked(k)
    BY <1>5, <1>6, <2>1, <2>2
  <2>4. ASSUME count \in B!Linked(k)' PROVE \A x \in B!Present : x \notin B!Linked(k)
    <3>1. k > B!maxlevel /\ k \in Nat
      BY <1>1, <2>2, <2>4, LayerFacts
    <3>2. \A x \in B!Present : level[x] <= B!maxlevel /\ level[x] \in Nat
      BY <1>1, <1>5, LayerFacts, SameCardinality DEF B!LayersExist
    <3> QED
      BY <1>7, <2>1, <3>1, <3>2
  <2>5. B!Linked(k)' \subseteq B!Present \cup {count} /\ B!Linked(k) \subseteq B!Present
    BY <2>1, <2>2
  <2>6. CASE count \in B!Linked(k)'
    BY <2>3, <2>4, <2>5, <2>6
  <2>7. CASE count \notin B!Linked(k)'
    BY <1>5, <2>3, <2>5, <2>7
  <2> QED
    BY <2>3, <2>5, <2>6, <2>7
<1>10. B!ListsOK'
  <2> SUFFICES ASSUME NEW k \in B!Layers, NEW x \in B!Elements
               PROVE  /\ Len(links'[k][x]) <= (IF k = 0 THEN 2 * M ELSE M)
                      /\ links'[k][x] # << >> => x \in B!Linked(k)'
                      /\ B!Range(links'[k][x]) \subseteq B!Linked(k)' \ {x}
                      /\ Cardinality(B!Range(links'[k][x])) = Len(links'[k][x])
    BY SameCardinality DEF B!ListsOK
  <2>1. /\ Len(links[k][x]) <= (IF k = 0 THEN 2 * M ELSE M)
        /\ links[k][x] # << >> => x \in B!Linked(k)
        /\ B!Range(links[k][x]) \subseteq B!Linked(k) \ {x}
        /\ Cardinality(B!Range(links[k][x])) = Len(links[k][x])
    BY <1>1, SameCardinality DEF B!ListsOK
  <2> QED
    BY <1>3, <1>9, <2>1
<1>11. B!NoneCutOff'
  <2> SUFFICES ASSUME NEW k \in B!Layers, Cardinality(B!Linked(k)') > 1,
                      NEW x \in B!Linked(k)'
               PROVE  links'[k][x] # << >>
    BY SameCardinality DEF B!NoneCutOff
  <2>1. ASSUME B!Linked(k)' = {count} PROVE FALSE
    <3>1. Cardinality(B!Linked(k)') = 1
      BY <2>1, FS_Singleton
    <3> QED
      BY <3>1
  <2>2. B!Linked(k)' = B!Linked(k)
    BY <1>9, <2>1
  <2> QED
    BY <1>1, <1>3, <2>2, SameCardinality DEF B!NoneCutOff
<1>12. B!LayersExist'
  <2>1. count' > 0 => entry' \in B!Present'
    BY <1>3, <1>5
  <2>2. \A x \in B!Present' \ {B!cur'} : level'[x] <= B!maxlevel'
    <3>1. \A x \in B!Present : level[x] <= B!maxlevel
      BY <1>1, SameCardinality DEF B!LayersExist
    <3> QED
      BY <1>5, <1>6, <3>1
  <2>3. obj' \in B!Linked(layer)'
    <3>1. entry \in B!Present' /\ entry # B!cur' /\ level'[entry] >= B!maxlevel
      BY <1>5, <1>6, <1>7 DEF B!maxlevel
    <3> QED
      BY <1>3, <3>1 DEF B!Linked
  <2> QED
    BY <1>3, <2>1, <2>2, <2>3, SameCardinality DEF B!LayersExist
<1>13. B!SearchOK'
  BY <1>1, <1>3, <1>4 DEF B!SearchOK
<1> QED
  BY <1>8, <1>10, <1>11, <1>12, <1>13 DEF B!IInv
(* The nearest of the links that are nearer, and what a pass does.         *)
LEMMA GreedyFacts ==
  ASSUME B!BuildAssumption, B!IInv, B!Greedy
  PROVE  /\ \/ layer' = layer - 1 /\ obj' = obj
            \/ layer' = layer /\ \E i \in DOMAIN links[layer][obj] :
                 /\ obj' = links[layer][obj][i]
                 /\ dist[B!cur][obj'] < dist[B!cur][obj]
         /\ layer > level[B!cur] /\ at = "descend"
<1> DEFINE list == links[layer][obj]
           better(i) == \A j \in B!Nearer(list) :
                          LET di == dist[B!cur][list[i]]
                              dj == dist[B!cur][list[j]]
                          IN  di < dj \/ (di = dj /\ i <= j)
<1>1. B!TypeOK /\ B!SearchOK /\ at = "descend" /\ layer > level[B!cur]
  BY DEF B!IInv, B!Greedy
<1>2. CASE B!Nearer(list) = {}
  BY <1>1, <1>2 DEF B!Greedy
<1>3. CASE B!Nearer(list) # {}
  <2>1. /\ layer' = layer
        /\ obj' = list[CHOOSE i \in B!Nearer(list) : better(i)]
    BY <1>3 DEF B!Greedy
  <2>2. B!cur \in B!Elements
    BY <1>1, PlaceFacts
  <2>3. list \in Seq(B!Elements)
    BY <1>1 DEF B!TypeOK
  <2>4. DOMAIN list = 1 .. Len(list) /\ Len(list) \in Nat
    BY <2>3
  <2> DEFINE S == B!Nearer(list)
             rank == [i \in S |-> dist[B!cur][list[i]]]
  <2>5. IsFiniteSet(S) /\ S \subseteq Int
    <3>1. IsFiniteSet(1 .. Len(list))
      <4>1. 1 \in Int /\ Len(list) \in Int
        BY <2>4
      <4> QED
        BY <4>1, FS_Interval
    <3>2. S \subseteq 1 .. Len(list)
      BY <2>4 DEF B!Nearer
    <3> QED
      BY <2>4, <3>1, <3>2, FS_Subset
  <2>6. \A i \in S : rank[i] \in Int /\ rank[i] = dist[B!cur][list[i]]
    <3> SUFFICES ASSUME NEW i \in S PROVE dist[B!cur][list[i]] \in Int
      OBVIOUS
    <3>1. list[i] \in B!Elements
      BY <2>3, <2>4 DEF B!Nearer
    <3> QED
      BY <1>1, <2>2, <3>1, DistanceFacts DEF B!TypeOK
  <2>7. \E i \in S : \A j \in S : rank[i] < rank[j] \/ (rank[i] = rank[j] /\ i <= j)
    <3> HIDE DEF rank, S
    <3> QED
      BY <1>3, <2>5, <2>6, LeastByRank DEF S
  <2>8. \E i \in B!Nearer(list) : better(i)
    <3> HIDE DEF rank
    <3> QED
      BY <2>6, <2>7
  <2> DEFINE i == CHOOSE i \in B!Nearer(list) : better(i)
  <2>9. i \in B!Nearer(list)
    <3> HIDE DEF better, list
    <3> QED
      BY <2>8
  <2> QED
    BY <1>1, <2>1, <2>9 DEF B!Nearer
<1> QED
  BY <1>2, <1>3

(* Greedy steps stay among the elements of the layer, and those of a layer *)
(* are in the one below.                                                   *)
LEMMA GreedyStep ==
  ASSUME B!BuildAssumption, B!IInv, B!Greedy
  PROVE  B!IInv'
<1>1. /\ B!TypeOK /\ B!ListsOK /\ B!NoneCutOff /\ B!LayersExist /\ B!SearchOK
      /\ rest = << >>
  BY DEF B!IInv, B!Greedy, B!SearchOK
<1>2. /\ dist' = dist /\ count' = count /\ level' = level /\ links' = links
      /\ entry' = entry /\ beam' = beam /\ cand' = cand /\ seen' = seen
      /\ rest' = rest /\ at' = at /\ B!cur' = B!cur
  BY DEF B!Greedy, B!index, B!cur
<1>3. /\ at = "descend" /\ layer > level[B!cur]
      /\ \/ layer' = layer - 1 /\ obj' = obj
         \/ layer' = layer /\ \E i \in DOMAIN links[layer][obj] :
                                obj' = links[layer][obj][i]
  BY GreedyFacts
<1>4. /\ B!cur \in B!Elements /\ level[B!cur] \in Nat /\ layer \in Nat
      /\ layer \in B!Layers /\ obj \in B!Linked(layer)
  BY <1>1, <1>3, PlaceFacts, LayerFacts, SameCardinality DEF B!TypeOK, B!LayersExist
<1>5. layer' \in B!Layers /\ layer' \in Nat /\ layer' <= layer /\ layer' >= level[B!cur]
  BY <1>1, <1>3, <1>4, LayerFacts
<1>6. obj' \in B!Linked(layer)
  <2>1. CASE obj' = obj
    BY <1>4, <2>1
  <2>2. CASE \E i \in DOMAIN links[layer][obj] : obj' = links[layer][obj][i]
    <3>1. obj' \in B!Range(links[layer][obj])
      BY <2>2 DEF B!Range
    <3>2. B!Range(links[layer][obj]) \subseteq B!Linked(layer)
      BY <1>1, <1>4, SameCardinality DEF B!ListsOK, B!TypeOK
    <3> QED
      BY <3>1, <3>2
  <2> QED
    BY <1>3, <2>1, <2>2
<1>7. \A k \in B!Layers : B!Linked(k)' = B!Linked(k)
  <2> SUFFICES ASSUME NEW k \in B!Layers PROVE B!Linked(k)' = B!Linked(k)
    OBVIOUS
  <2>1. B!Present' = B!Present
    BY <1>2 DEF B!Present
  <2>2. B!cur \in B!Linked(k)' <=> B!cur \in B!Linked(k)
    <3>1. k \in Nat
      BY <1>1, LayerFacts
    <3>2. level[B!cur] >= k => ~ (k > layer) /\ ~ (k > layer')
      BY <1>3, <1>4, <1>5, <3>1
    <3> QED
      BY <1>2, <1>3, <3>2 DEF B!Linked
  <2>3. \A x : x # B!cur => (x \in B!Linked(k)' <=> x \in B!Linked(k))
    BY <1>2, <2>1 DEF B!Linked
  <2>4. \A x : x \in B!Linked(k)' <=> x \in B!Linked(k)
    BY <2>2, <2>3
  <2> QED
    BY <2>4
<1>8. B!TypeOK'
  <2>1. obj' \in B!Elements
    BY <1>1, <1>6, PlaceFacts
  <2> QED
    BY <1>1, <1>2, <1>5, <2>1 DEF B!TypeOK
<1>9. B!ListsOK' /\ B!NoneCutOff'
  BY <1>1, <1>2, <1>7, SameLists
<1>10. B!LayersExist'
  <2>1. obj' \in B!Linked(layer)'
    <3>1. obj' \in B!Present /\ level[obj'] >= layer /\ obj' # B!cur
      BY <1>1, <1>3, <1>6, PlaceFacts DEF B!Linked
    <3>2. obj' \in B!Elements
      BY <1>1, <3>1, PlaceFacts
    <3>3. level[obj'] \in Nat
      BY <1>1, <3>2, LayerFacts
    <3>4. level[obj'] >= layer'
      BY <1>4, <1>5, <3>1, <3>3
    <3> QED
      BY <1>2, <3>1, <3>4 DEF B!Linked, B!Present
  <2>2. B!maxlevel' = B!maxlevel /\ B!Present' = B!Present
    BY <1>2 DEF B!maxlevel, B!Present
  <2> QED
    BY <1>1, <1>2, <1>3, <2>1, <2>2, SameCardinality DEF B!LayersExist
<1>11. B!SearchOK'
  BY <1>1, <1>2, <1>3 DEF B!SearchOK
<1> QED
  BY <1>8, <1>9, <1>10, <1>11 DEF B!IInv
(* A search starts from an element of the layer.                           *)
LEMMA EnterStep ==
  ASSUME B!BuildAssumption, B!IInv, B!Enter
  PROVE  B!IInv'
<1>1. /\ B!TypeOK /\ B!ListsOK /\ B!NoneCutOff /\ B!LayersExist /\ B!SearchOK
      /\ at = "descend" /\ layer <= level[B!cur] /\ rest = << >>
  BY DEF B!IInv, B!Enter, B!SearchOK
<1>2. /\ dist' = dist /\ count' = count /\ level' = level /\ links' = links
      /\ entry' = entry /\ obj' = obj /\ layer' = layer /\ rest' = rest
      /\ beam' = {obj} /\ cand' = {obj} /\ seen' = {obj} /\ at' = "search"
      /\ B!cur' = B!cur
  BY DEF B!Enter, B!index, B!cur
<1>3. obj \in B!Linked(layer) /\ obj \in B!Elements /\ B!cur \in B!Elements
  BY <1>1, PlaceFacts, SameCardinality DEF B!LayersExist, B!TypeOK
<1>4. \A k \in B!Layers : B!Linked(k)' = B!Linked(k)
  BY <1>1, <1>2 DEF B!Linked, B!Present
<1>5. B!Linked(layer)' = B!Linked(layer)
  BY <1>1, <1>2 DEF B!Linked, B!Present
<1>6. B!TypeOK'
  BY <1>1, <1>2, <1>3 DEF B!TypeOK
<1>7. B!ListsOK' /\ B!NoneCutOff'
  BY <1>1, <1>2, <1>4, SameLists
<1>8. B!LayersExist'
  <2>1. B!maxlevel' = B!maxlevel /\ B!Present' = B!Present
    BY <1>2 DEF B!maxlevel, B!Present
  <2>2. Cardinality(beam') <= Ef
    <3>1. Cardinality(beam') = 1
      BY <1>2, FS_Singleton
    <3>2. 1 <= Ef
      BY DEF B!BuildAssumption
    <3> QED
      BY <3>1, <3>2
  <2>3. beam' # {} /\ beam' \cup cand' \subseteq B!Linked(layer)'
    BY <1>2, <1>3, <1>5
  <2>4. obj' \in B!Linked(layer)'
    BY <1>2, <1>3, <1>5
  <2>5. \A x \in B!Present' \ {B!cur'} : level'[x] <= B!maxlevel'
    BY <1>1, <1>2, <2>1, SameCardinality DEF B!LayersExist
  <2>6. count' > 0 => entry' \in B!Present'
    BY <1>1, <1>2, <2>1, SameCardinality DEF B!LayersExist
  <2> QED
    BY <1>2, <2>2, <2>3, <2>4, <2>5, <2>6, SameCardinality DEF B!LayersExist
<1>9. B!SearchOK'
  <2>1. B!Range(rest') \subseteq B!Linked(layer)'
    BY <1>1, <1>2 DEF B!Range
  <2>2. \E y \in beam' : dist'[B!cur'][y] <= dist'[B!cur'][obj']
    <3>1. dist[B!cur][obj] \in Int
      BY <1>1, <1>3, DistanceFacts DEF B!TypeOK
    <3> QED
      BY <1>2, <3>1
  <2>3. count' > 1 /\ count' # 0
    BY <1>1, <1>2 DEF B!SearchOK
  <2> QED
    BY <1>1, <1>2, <2>1, <2>2, <2>3 DEF B!SearchOK
<1> QED
  BY <1>6, <1>7, <1>8, <1>9 DEF B!IInv

(* What the two steps of a search share.                                   *)
LEMMA BuildSearchStep ==
  ASSUME B!BuildAssumption, B!IInv, at = "search", at' = at,
         UNCHANGED <<B!index, count, obj, layer>>,
         beam' \subseteq B!Linked(layer), cand' \subseteq B!Linked(layer),
         B!Range(rest') \subseteq B!Linked(layer),
         rest' \in Seq(B!Elements),
         seen' \in SUBSET B!Elements, beam' \subseteq seen',
         Cardinality(beam') <= Ef,
         \E y \in beam' : dist[B!cur][y] <= dist[B!cur][obj]
  PROVE  B!IInv'
<1>1. /\ B!TypeOK /\ B!ListsOK /\ B!NoneCutOff /\ B!LayersExist /\ B!SearchOK
  BY DEF B!IInv
<1>2. /\ dist' = dist /\ count' = count /\ level' = level /\ links' = links
      /\ entry' = entry /\ obj' = obj /\ layer' = layer /\ B!cur' = B!cur
  BY DEF B!index, B!cur
<1>3. B!Linked(layer) \subseteq B!Elements
  BY <1>1, PlaceFacts
<1>4. \A k \in B!Layers : B!Linked(k)' = B!Linked(k)
  BY <1>2 DEF B!Linked, B!Present
<1>5. B!Linked(layer)' = B!Linked(layer)
  BY <1>2 DEF B!Linked, B!Present
<1>6. B!TypeOK'
  BY <1>1, <1>2, <1>3 DEF B!TypeOK
<1>7. B!ListsOK' /\ B!NoneCutOff'
  BY <1>1, <1>2, <1>4, SameLists
<1>8. B!LayersExist'
  <2>1. B!maxlevel' = B!maxlevel /\ B!Present' = B!Present
    BY <1>2 DEF B!maxlevel, B!Present
  <2>2. beam' # {} /\ beam' \cup cand' \subseteq B!Linked(layer)'
    BY <1>5
  <2>3. obj' \in B!Linked(layer)'
    BY <1>1, <1>2, <1>5, SameCardinality DEF B!LayersExist
  <2>4. \A x \in B!Present' \ (IF at' = "add" THEN {} ELSE {B!cur'}) :
          level'[x] <= B!maxlevel'
    BY <1>1, <1>2, <2>1, SameCardinality DEF B!LayersExist
  <2>5. count' > 0 => entry' \in B!Present'
    BY <1>1, <1>2, <2>1, SameCardinality DEF B!LayersExist
  <2> QED
    BY <2>2, <2>3, <2>4, <2>5, SameCardinality DEF B!LayersExist
<1>9. B!SearchOK'
  <2>1. B!Range(rest') \subseteq B!Linked(layer)'
    BY <1>5
  <2>2. \E y \in beam' : dist'[B!cur'][y] <= dist'[B!cur'][obj']
    BY <1>2
  <2>3. count' > 1 /\ count' # 0 /\ layer' <= level'[B!cur']
    BY <1>1, <1>2 DEF B!SearchOK
  <2> QED
    BY <2>1, <2>2, <2>3 DEF B!SearchOK
<1> QED
  BY <1>6, <1>7, <1>8, <1>9 DEF B!IInv

(* What is expanded has its links in the layer.                            *)
LEMMA ExpandStep ==
  ASSUME B!BuildAssumption, B!IInv, B!Expand
  PROVE  B!IInv'
<1>1. /\ B!TypeOK /\ B!ListsOK /\ B!LayersExist /\ B!SearchOK /\ at = "search"
  BY DEF B!IInv, B!Expand
<1>2. PICK x \in B!Promising : cand' = cand \ {x} /\ rest' = links[layer][x]
  BY DEF B!Expand
<1>3. /\ beam' = beam /\ seen' = seen /\ at' = at
      /\ UNCHANGED <<B!index, count, obj, layer>>
  BY DEF B!Expand
<1>4. beam \cup cand \subseteq B!Linked(layer) /\ Cardinality(beam) <= Ef
  BY <1>1, SameCardinality DEF B!LayersExist
<1>5. x \in cand /\ x \in B!Linked(layer) /\ x \in B!Elements
  BY <1>1, <1>4 DEF B!Promising, B!Nearest, B!TypeOK
<1>6. /\ B!Range(links[layer][x]) \subseteq B!Linked(layer)
      /\ links[layer][x] \in Seq(B!Elements)
  BY <1>1, <1>5, SameCardinality DEF B!ListsOK, B!TypeOK
<1>7. beam \subseteq seen /\ \E y \in beam : dist[B!cur][y] <= dist[B!cur][obj]
  BY <1>1 DEF B!SearchOK
<1>8. seen \in SUBSET B!Elements
  BY <1>1 DEF B!TypeOK
<1> QED
  BY <1>1, <1>2, <1>3, <1>4, <1>6, <1>7, <1>8, BuildSearchStep

(* The beam never holds more than Ef, and whichever of the farthest leaves *)
(* it, one that is no farther than the start of the search stays.          *)
LEMMA ExamineStep ==
  ASSUME B!BuildAssumption, B!IInv, B!Examine
  PROVE  B!IInv'
<1> DEFINE y == Head(rest)
<1>1. /\ B!TypeOK /\ B!LayersExist /\ B!SearchOK
      /\ at = "search" /\ rest # << >>
  BY DEF B!IInv, B!Examine
<1>2. /\ seen' = seen \cup {y} /\ rest' = Tail(rest) /\ at' = at
      /\ UNCHANGED <<B!index, count, obj, layer>>
      /\ \/ y \notin seen /\ cand' = cand \cup {y} /\ beam' \in B!Trimmed(y)
         \/ cand' = cand /\ beam' = beam
  BY DEF B!Examine
<1>3. /\ beam \cup cand \subseteq B!Linked(layer) /\ Cardinality(beam) <= Ef
      /\ beam \subseteq seen
  BY <1>1, SameCardinality DEF B!LayersExist, B!SearchOK
<1>4. PICK w \in beam : dist[B!cur][w] <= dist[B!cur][obj]
  BY <1>1 DEF B!SearchOK
<1>5. /\ y \in B!Elements /\ y \in B!Linked(layer)
      /\ rest' \in Seq(B!Elements) /\ B!Range(rest') \subseteq B!Linked(layer)
  <2>1. rest \in Seq(B!Elements) /\ B!Range(rest) \subseteq B!Linked(layer)
    BY <1>1 DEF B!TypeOK, B!SearchOK
  <2>2. /\ Len(rest) \in Nat \ {0} /\ y = rest[1] /\ DOMAIN rest = 1 .. Len(rest)
        /\ rest' \in Seq(B!Elements) /\ DOMAIN rest' = 1 .. Len(rest) - 1
        /\ \A i \in 1 .. Len(rest) - 1 : rest'[i] = rest[i + 1]
    BY <1>1, <1>2, <2>1
  <2>3. \A i \in 1 .. Len(rest) : rest[i] \in B!Range(rest)
    BY <2>2 DEF B!Range
  <2>4. y \in B!Range(rest)
    BY <2>2, <2>3
  <2>5. \A i \in 1 .. Len(rest) - 1 : rest'[i] \in B!Range(rest)
    BY <2>2, <2>3
  <2>6. B!Range(rest') \subseteq B!Range(rest)
    BY <2>2, <2>5 DEF B!Range
  <2>7. B!Linked(layer) \subseteq B!Elements
    BY <1>1, PlaceFacts
  <2> QED
    BY <2>1, <2>2, <2>4, <2>6, <2>7
<1>6. /\ seen' \in SUBSET B!Elements /\ cand' \subseteq B!Linked(layer)
  BY <1>1, <1>2, <1>3, <1>5 DEF B!TypeOK
<1> HIDE DEF y
<1>7. CASE beam' = beam
  BY <1>1, <1>2, <1>3, <1>4, <1>5, <1>6, <1>7, BuildSearchStep
<1>8. CASE y \notin seen /\ beam' \in B!Trimmed(y)
  <2>1. /\ y \notin beam /\ IsFiniteSet(beam) /\ Cardinality(beam) \in Nat
        /\ IsFiniteSet(beam \cup {y})
    BY <1>1, <1>3, <1>5, <1>8, ElementFacts DEF B!TypeOK
  <2>2. Cardinality(beam \cup {y}) = Cardinality(beam) + 1
    BY <2>1, FS_AddElement
  <2>3. Ef \in Nat /\ Ef >= 1
    BY DEF B!BuildAssumption
  <2>4. /\ beam' \subseteq beam \cup {y} /\ Cardinality(beam') <= Ef
        /\ \E v \in beam' : dist[B!cur][v] <= dist[B!cur][obj]
    <3>1. CASE Cardinality(beam) < Ef
      <4>1. beam' = beam \cup {y}
        BY <1>8, <3>1, SameCardinality DEF B!Trimmed
      <4>2. Cardinality(beam') <= Ef
        BY <2>1, <2>2, <2>3, <3>1, <4>1
      <4> QED
        BY <1>4, <4>1, <4>2
    <3>2. CASE ~ (Cardinality(beam) < Ef)
      <4>1. PICK z \in B!Farthest(beam \cup {y}) : beam' = (beam \cup {y}) \ {z}
        BY <1>8, <3>2, SameCardinality DEF B!Trimmed
      <4>2. z \in beam \cup {y} /\ \A v \in beam \cup {y} : dist[B!cur][z] >= dist[B!cur][v]
        BY <4>1 DEF B!Farthest
      <4>3. Cardinality(beam') = Cardinality(beam \cup {y}) - 1
        BY <2>1, <4>1, <4>2, FS_RemoveElement
      <4>4. Cardinality(beam') <= Ef /\ Cardinality(beam') >= 1
        BY <1>3, <2>1, <2>2, <2>3, <3>2, <4>3
      <4>5. beam' # {}
        BY <4>4, FS_EmptySet
      <4>6. \E v \in beam' : dist[B!cur][v] <= dist[B!cur][obj]
        <5>1. CASE w \in beam'
          BY <1>4, <5>1
        <5>2. CASE w \notin beam'
          <6>1. w = z
            BY <4>1, <5>2
          <6>2. PICK v \in beam' : TRUE
            BY <4>5
          <6>3. dist[B!cur][w] >= dist[B!cur][v]
            BY <4>1, <4>2, <6>1, <6>2
          <6>4. /\ dist[B!cur][w] \in Int /\ dist[B!cur][v] \in Int
                /\ dist[B!cur][obj] \in Int
            <7>1. /\ B!cur \in B!Elements /\ obj \in B!Elements
                  /\ w \in B!Elements /\ v \in B!Elements
              BY <1>1, <1>3, <1>4, <1>5, <4>1, <6>2, PlaceFacts DEF B!TypeOK
            <7> QED
              BY <1>1, <7>1, DistanceFacts DEF B!TypeOK
          <6> QED
            BY <1>4, <6>3, <6>4
        <5> QED
          BY <5>1, <5>2
      <4> QED
        BY <4>1, <4>4, <4>6
    <3> QED
      BY <3>1, <3>2
  <2>5. beam' \subseteq seen' /\ beam' \subseteq B!Linked(layer)
    BY <1>2, <1>3, <1>5, <2>4
  <2> QED
    BY <1>1, <1>2, <1>5, <1>6, <2>4, <2>5, BuildSearchStep
<1> QED
  BY <1>2, <1>7, <1>8
(* What a search's end leaves: the chosen links of the new element, the    *)
(* nearest of the beam last among them.                                    *)
LEMMA OwnFacts ==
  ASSUME B!BuildAssumption, B!IInv, at = "search",
         NEW own \in B!Arranged(B!Chosen(beam, B!cur, M), B!cur)
  PROVE  /\ own \in Seq(B!Elements) /\ own # << >> /\ Len(own) <= M
         /\ B!Range(own) # {} /\ B!Range(own) \subseteq beam
         /\ Cardinality(B!Range(own)) = Len(own)
         /\ B!Onto(own) \in B!Range(own)
         /\ dist[B!cur][B!Onto(own)] <= dist[B!cur][obj]
<1> DEFINE C == B!Chosen(beam, B!cur, M)
<1>1. /\ B!TypeOK /\ B!LayersExist /\ B!SearchOK /\ dist \in Metrics
      /\ beam \in SUBSET B!Elements /\ beam # {} /\ M \in Nat \ {0}
      /\ obj \in B!Elements
  BY SameCardinality DEF B!IInv, B!TypeOK, B!LayersExist, B!BuildAssumption
<1>2. B!cur \in B!Elements
  BY <1>1, PlaceFacts
<1>3. C \subseteq beam /\ Cardinality(C) <= M
  BY <1>1, <1>2, ChosenFacts
<1>4. PICK y \in C : \A w \in beam : dist[B!cur][y] <= dist[B!cur][w]
  BY <1>1, <1>2, ChosenFacts
<1>5. own \in B!Arranged(C, B!cur)
  OBVIOUS
<1> HIDE DEF C
<1>6. C \in SUBSET B!Elements /\ C # {}
  BY <1>1, <1>3, <1>4
<1>7. /\ own \in Seq(B!Elements) /\ Len(own) = Cardinality(C) /\ B!Range(own) = C
      /\ own # << >> /\ own[Len(own)] \in C
      /\ \A w \in C : dist[B!cur][own[Len(own)]] <= dist[B!cur][w]
  BY <1>1, <1>2, <1>5, <1>6, ArrangedFacts
<1>8. B!Onto(own) \in C /\ dist[B!cur][B!Onto(own)] <= dist[B!cur][y]
  BY <1>4, <1>7 DEF B!Onto
<1>9. PICK w \in beam : dist[B!cur][w] <= dist[B!cur][obj]
  BY <1>1 DEF B!IInv, B!SearchOK
<1>10. dist[B!cur][B!Onto(own)] <= dist[B!cur][obj]
  <2>1. dist[B!cur][y] <= dist[B!cur][w]
    BY <1>4, <1>9
  <2>2. /\ dist[B!cur][B!Onto(own)] \in Int /\ dist[B!cur][y] \in Int
        /\ dist[B!cur][w] \in Int /\ dist[B!cur][obj] \in Int
    <3>1. B!Onto(own) \in B!Elements /\ y \in B!Elements /\ w \in B!Elements
      BY <1>1, <1>4, <1>6, <1>8, <1>9
    <3> QED
      BY <1>1, <1>2, <3>1, DistanceFacts
  <2> QED
    BY <1>8, <1>9, <2>1, <2>2
<1> QED
  BY <1>3, <1>6, <1>7, <1>8, <1>10

(* The new element and those it chose get their lists, which makes it one  *)
(* of the layer: nobody there was alone but the one that it chose.         *)
LEMMA ConnectStep ==
  ASSUME B!BuildAssumption, B!IInv, B!Connect
  PROVE  B!IInv'
<1>1. /\ B!TypeOK /\ B!ListsOK /\ B!NoneCutOff /\ B!LayersExist /\ B!SearchOK
      /\ at = "search" /\ rest = << >>
  BY DEF B!IInv, B!Connect
<1>2. PICK own \in B!Arranged(B!Chosen(beam, B!cur, M), B!cur) :
        /\ \E back \in [B!Range(own) -> UNION {B!WithNew(n) : n \in B!Range(own)}] :
             /\ \A n \in B!Range(own) : back[n] \in B!WithNew(n)
             /\ links' = [links EXCEPT ![layer] =
                  [n \in B!Elements |-> IF n = B!cur THEN own
                                      ELSE IF n \in B!Range(own) THEN back[n]
                                      ELSE links[layer][n]]]
        /\ obj' = B!Onto(own)
  BY DEF B!Connect
<1>3. PICK back :
        /\ \A n \in B!Range(own) : back[n] \in B!WithNew(n)
        /\ links' = [links EXCEPT ![layer] =
             [n \in B!Elements |-> IF n = B!cur THEN own
                                 ELSE IF n \in B!Range(own) THEN back[n]
                                 ELSE links[layer][n]]]
  BY <1>2
<1>4. /\ beam' = {} /\ cand' = {} /\ seen' = {}
      /\ dist' = dist /\ count' = count /\ level' = level /\ rest' = rest /\ B!cur' = B!cur
      /\ \/ layer > 0 /\ layer' = layer - 1 /\ at' = "descend" /\ entry' = entry
         \/ /\ ~ (layer > 0) /\ layer' = layer /\ at' = "add"
            /\ entry' = IF level[B!cur] > B!maxlevel THEN B!cur ELSE entry
  BY DEF B!Connect, B!cur
<1>5. /\ own \in Seq(B!Elements) /\ own # << >> /\ Len(own) <= M
      /\ B!Range(own) # {} /\ B!Range(own) \subseteq beam
      /\ Cardinality(B!Range(own)) = Len(own)
      /\ obj' \in B!Range(own)
  BY <1>1, <1>2, OwnFacts
<1>6. /\ beam \subseteq B!Linked(layer) /\ beam # {} /\ layer <= level[B!cur]
      /\ B!cur \in B!Elements /\ B!cur \in B!Present /\ B!cur \notin B!Linked(layer)
      /\ B!Linked(layer) \subseteq B!Elements
      /\ layer \in Nat /\ layer \in B!Layers /\ M \in Nat \ {0}
      /\ level[B!cur] \in Nat
  BY <1>1, PlaceFacts, LayerFacts, SameCardinality
  DEF B!LayersExist, B!SearchOK, B!BuildAssumption, B!TypeOK
<1>7. B!Range(own) \subseteq B!Linked(layer) /\ B!cur \notin B!Range(own)
  BY <1>5, <1>6
<1>8. ASSUME NEW n \in B!Range(own)
      PROVE  /\ back[n] \in Seq(B!Elements) /\ back[n] # << >>
             /\ Len(back[n]) <= B!Capacity
             /\ B!Range(back[n]) \subseteq (B!Linked(layer) \cup {B!cur}) \ {n}
             /\ Cardinality(B!Range(back[n])) = Len(back[n])
  <2> DEFINE list == links[layer][n]
  <2>1. n \in B!Elements /\ n # B!cur /\ back[n] \in B!WithNew(n)
    BY <1>3, <1>6, <1>7
  <2>2. /\ B!Range(list) \subseteq B!Linked(layer) \ {n}
        /\ Cardinality(B!Range(list)) = Len(list)
    BY <1>1, <1>6, <2>1, SameCardinality DEF B!ListsOK
  <2>3. B!cur \notin B!Range(list)
    BY <1>6, <2>2
  <2> DEFINE new == back[n]
  <2>4. new \in B!WithNew(n)
    BY <2>1
  <2> HIDE DEF new
  <2>5. /\ new \in Seq(B!Elements) /\ new # << >>
        /\ Len(new) <= B!Capacity
        /\ B!Range(new) \subseteq B!Range(list) \cup {B!cur}
        /\ Cardinality(B!Range(new)) = Len(new)
    BY <1>1, <1>6, <2>1, <2>2, <2>3, <2>4, WithNewFacts
  <2> QED
    BY <2>1, <2>2, <2>5 DEF new
<1>9. /\ links' \in [B!Layers -> [B!Elements -> Seq(B!Elements)]]
      /\ \A k \in B!Layers : k # layer => links'[k] = links[k]
      /\ \A n \in B!Elements : links'[layer][n] = IF n = B!cur THEN own
                                                ELSE IF n \in B!Range(own) THEN back[n]
                                                ELSE links[layer][n]
  <2> DEFINE row == [n \in B!Elements |-> IF n = B!cur THEN own
                                        ELSE IF n \in B!Range(own) THEN back[n]
                                        ELSE links[layer][n]]
  <2>1. links \in [B!Layers -> [B!Elements -> Seq(B!Elements)]]
    BY <1>1 DEF B!TypeOK
  <2>2. row \in [B!Elements -> Seq(B!Elements)]
    <3> SUFFICES ASSUME NEW n \in B!Elements PROVE row[n] \in Seq(B!Elements)
      OBVIOUS
    <3>1. links[layer][n] \in Seq(B!Elements)
      BY <1>6, <2>1
    <3> QED
      BY <1>5, <1>8, <3>1
  <2>3. links' = [links EXCEPT ![layer] = row]
    BY <1>3
  <2>4. \A n \in B!Elements : row[n] = IF n = B!cur THEN own
                                     ELSE IF n \in B!Range(own) THEN back[n]
                                     ELSE links[layer][n]
    OBVIOUS
  <2> HIDE DEF row
  <2> QED
    BY <1>6, <2>1, <2>2, <2>3, <2>4
<1>10. ASSUME NEW k \in B!Layers
       PROVE  B!Linked(k)' = IF k = layer THEN B!Linked(k) \cup {B!cur} ELSE B!Linked(k)
  <2>1. B!Present' = B!Present
    BY <1>4 DEF B!Present
  <2>2. \A x : x # B!cur => (x \in B!Linked(k)' <=> x \in B!Linked(k))
    BY <1>4, <2>1 DEF B!Linked
  <2>3. B!cur \in B!Linked(k) <=> level[B!cur] >= k /\ k > layer
    BY <1>1, <1>6 DEF B!Linked
  <2>4. B!cur \in B!Linked(k)' <=> level[B!cur] >= k /\ (k > layer \/ k = layer)
    <3>1. k \in Nat
      BY <1>1, LayerFacts
    <3>2. CASE layer > 0 /\ layer' = layer - 1 /\ at' = "descend"
      <4>1. B!cur \in B!Linked(k)' <=> level[B!cur] >= k /\ k > layer'
        BY <1>4, <1>6, <2>1, <3>2 DEF B!Linked
      <4> QED
        BY <1>6, <3>1, <3>2, <4>1
    <3>3. CASE ~ (layer > 0) /\ at' = "add"
      <4>1. B!cur \in B!Linked(k)' <=> level[B!cur] >= k
        BY <1>4, <1>6, <2>1, <3>3 DEF B!Linked
      <4>2. k > layer \/ k = layer
        BY <1>6, <3>1, <3>3
      <4> QED
        BY <4>1, <4>2
    <3> QED
      BY <1>4, <3>2, <3>3
  <2>5. CASE k = layer
    BY <1>6, <2>2, <2>4, <2>5
  <2>6. CASE k # layer
    <3>1. B!cur \in B!Linked(k)' <=> B!cur \in B!Linked(k)
      BY <2>3, <2>4, <2>6
    <3>2. \A x : x \in B!Linked(k)' <=> x \in B!Linked(k)
      BY <2>2, <3>1
    <3>3. B!Linked(k)' = B!Linked(k)
      BY <3>2
    <3> QED
      BY <2>6, <3>3
  <2> QED
    BY <2>5, <2>6
<1>11. B!TypeOK'
  <2>1. layer' \in B!Layers
    BY <1>1, <1>4, <1>6, LayerFacts
  <2>2. entry' \in B!Elements
    BY <1>1, <1>4, <1>6 DEF B!TypeOK
  <2>3. obj' \in B!Elements
    BY <1>5, <1>6, <1>7
  <2>4. dist' \in Metrics /\ count' \in 0 .. N /\ level' \in [B!Elements -> B!Layers]
    BY <1>1, <1>4 DEF B!TypeOK
  <2>5. rest' \in Seq(B!Elements) /\ at' \in {"add", "descend", "search"}
    BY <1>1, <1>4 DEF B!TypeOK
  <2> QED
    BY <1>4, <1>9, <2>1, <2>2, <2>3, <2>4, <2>5 DEF B!TypeOK
<1>12. B!ListsOK'
  <2> SUFFICES ASSUME NEW k \in B!Layers, NEW x \in B!Elements
               PROVE  /\ Len(links'[k][x]) <= (IF k = 0 THEN 2 * M ELSE M)
                      /\ links'[k][x] # << >> => x \in B!Linked(k)'
                      /\ B!Range(links'[k][x]) \subseteq B!Linked(k)' \ {x}
                      /\ Cardinality(B!Range(links'[k][x])) = Len(links'[k][x])
    BY SameCardinality DEF B!ListsOK
  <2>1. /\ Len(links[k][x]) <= (IF k = 0 THEN 2 * M ELSE M)
        /\ links[k][x] # << >> => x \in B!Linked(k)
        /\ B!Range(links[k][x]) \subseteq B!Linked(k) \ {x}
        /\ Cardinality(B!Range(links[k][x])) = Len(links[k][x])
    BY <1>1, SameCardinality DEF B!ListsOK
  <2>2. B!Linked(k) \subseteq B!Linked(k)'
    BY <1>10
  <2>3. CASE links'[k][x] = links[k][x]
    BY <2>1, <2>2, <2>3
  <2>4. CASE k = layer /\ x = B!cur
    <3>1. links'[k][x] = own
      BY <1>9, <2>4
    <3>2. B!Linked(k)' = B!Linked(layer) \cup {B!cur}
      BY <1>10, <2>4
    <3>3. Len(own) <= (IF k = 0 THEN 2 * M ELSE M)
      BY <1>5, <1>6
    <3> QED
      BY <1>5, <1>7, <2>4, <3>1, <3>2, <3>3
  <2>5. CASE k = layer /\ x # B!cur /\ x \in B!Range(own)
    <3>1. links'[k][x] = back[x]
      BY <1>9, <2>5
    <3>2. B!Linked(k)' = B!Linked(layer) \cup {B!cur}
      BY <1>10, <2>5
    <3>3. Len(back[x]) <= (IF k = 0 THEN 2 * M ELSE M)
      BY <1>8, <2>5 DEF B!Capacity
    <3> QED
      BY <1>7, <1>8, <2>5, <3>1, <3>2, <3>3
  <2>6. links'[k][x] = links[k][x] \/ (k = layer /\ (x = B!cur \/ x \in B!Range(own)))
    BY <1>9
  <2> QED
    BY <2>3, <2>4, <2>5, <2>6
<1>13. B!NoneCutOff'
  <2> SUFFICES ASSUME NEW k \in B!Layers, Cardinality(B!Linked(k)') > 1,
                      NEW x \in B!Linked(k)'
               PROVE  links'[k][x] # << >>
    BY SameCardinality DEF B!NoneCutOff
  <2>1. CASE k # layer
    <3>1. B!Linked(k)' = B!Linked(k) /\ links'[k] = links[k]
      BY <1>9, <1>10, <2>1
    <3> QED
      BY <1>1, <3>1, SameCardinality DEF B!NoneCutOff
  <2>2. CASE k = layer
    <3>1. B!Linked(k)' = B!Linked(layer) \cup {B!cur}
      BY <1>10, <2>2
    <3>2. CASE x = B!cur
      BY <1>5, <1>6, <1>9, <2>2, <3>2
    <3>3. CASE x \in B!Range(own)
      BY <1>6, <1>7, <1>8, <1>9, <2>2, <3>3
    <3>4. CASE x # B!cur /\ x \notin B!Range(own)
      <4>1. x \in B!Linked(layer) /\ x \in B!Elements
        BY <1>6, <3>1, <3>4
      <4>2. PICK b \in B!Range(own) : TRUE
        BY <1>5
      <4>3. b \in B!Linked(layer) /\ b # x
        BY <1>7, <3>4, <4>2
      <4>4. Cardinality(B!Linked(layer)) > 1
        <5>1. IsFiniteSet(B!Linked(layer)) /\ Cardinality(B!Linked(layer)) \in Nat
          BY <1>6, ElementFacts
        <5>2. Cardinality({b, x}) = 2
          <6>1. Cardinality({b}) = 1 /\ IsFiniteSet({b})
            BY FS_Singleton
          <6>2. Cardinality({b} \cup {x}) = Cardinality({b}) + 1
            BY <4>3, <6>1, FS_AddElement
          <6>3. {b} \cup {x} = {b, x}
            OBVIOUS
          <6>4. Cardinality({b, x}) = Cardinality({b}) + 1
            BY <6>2, <6>3, Zenon
          <6> QED
            BY <6>1, <6>4
        <5>3. {b, x} \subseteq B!Linked(layer)
          BY <4>1, <4>3
        <5>4. Cardinality({b, x}) <= Cardinality(B!Linked(layer))
          BY <5>1, <5>3, FS_Subset
        <5> QED
          BY <5>1, <5>2, <5>4
      <4>5. links[layer][x] # << >>
        BY <1>1, <1>6, <4>1, <4>4, SameCardinality DEF B!NoneCutOff
      <4> QED
        BY <1>9, <2>2, <3>4, <4>1, <4>5
    <3> QED
      BY <3>2, <3>3, <3>4
  <2> QED
    BY <2>1, <2>2
<1>14. B!LayersExist'
  <2>1. B!Present' = B!Present
    BY <1>4 DEF B!Present
  <2>2. entry \in B!Present /\ \A x \in B!Present \ {B!cur} : level[x] <= B!maxlevel
    <3>1. count > 0
      BY <1>1 DEF B!SearchOK, B!TypeOK
    <3> QED
      BY <1>1, <3>1, SameCardinality DEF B!LayersExist
  <2>3. CASE layer > 0 /\ layer' = layer - 1 /\ at' = "descend" /\ entry' = entry
    <3>1. obj' \in B!Linked(layer) /\ obj' \in B!Elements /\ obj' # B!cur
      BY <1>5, <1>6, <1>7
    <3>2. obj' \in B!Present /\ level[obj'] >= layer /\ level[obj'] \in Nat
      BY <1>1, <3>1, LayerFacts DEF B!Linked
    <3>3. level[obj'] >= layer'
      BY <1>6, <2>3, <3>2
    <3>4. obj' \in B!Linked(layer)'
      BY <1>4, <2>1, <3>1, <3>2, <3>3 DEF B!Linked
    <3>5. B!maxlevel' = B!maxlevel
      BY <1>4, <2>3 DEF B!maxlevel
    <3>6. \A x \in B!Present' \ {B!cur'} : level'[x] <= B!maxlevel'
      BY <1>4, <2>1, <2>2, <3>5
    <3> QED
      BY <2>1, <2>2, <2>3, <3>4, <3>6, SameCardinality DEF B!LayersExist
  <2>4. CASE /\ at' = "add"
             /\ entry' = IF level[B!cur] > B!maxlevel THEN B!cur ELSE entry
    <3>1. entry' \in B!Present
      BY <1>6, <2>2, <2>4
    <3>2. B!maxlevel' = level[entry']
      BY <1>4 DEF B!maxlevel
    <3>3. B!maxlevel \in Nat /\ \A x \in B!Present : level[x] \in Nat
      BY <1>1, LayerFacts, PlaceFacts DEF B!TypeOK, B!maxlevel
    <3>4. \A x \in B!Present : level[x] <= level[entry']
      <4>1. CASE level[B!cur] > B!maxlevel
        BY <1>6, <2>2, <2>4, <3>3, <4>1
      <4>2. CASE ~ (level[B!cur] > B!maxlevel)
        BY <1>6, <2>2, <2>4, <3>3, <4>2 DEF B!maxlevel
      <4> QED
        BY <4>1, <4>2
    <3>5. \A x \in B!Present' \ {} : level'[x] <= B!maxlevel'
      BY <1>4, <2>1, <3>2, <3>4
    <3> QED
      BY <2>1, <2>4, <3>1, <3>5, SameCardinality DEF B!LayersExist
  <2> QED
    BY <1>4, <2>3, <2>4
<1>15. B!SearchOK'
  <2>1. at' # "search" /\ rest' = << >> /\ count' > 1 /\ count' # 0
    BY <1>1, <1>4 DEF B!SearchOK
  <2> QED
    BY <2>1 DEF B!SearchOK
<1> QED
  BY <1>11, <1>12, <1>13, <1>14, <1>15 DEF B!IInv

(* A step that changes nothing.                                            *)
LEMMA BuildStutterStep ==
  ASSUME B!IInv, UNCHANGED B!vars
  PROVE  B!IInv'
<1>1. B!TypeOK /\ B!ListsOK /\ B!NoneCutOff /\ B!LayersExist /\ B!SearchOK
  BY DEF B!IInv
<1>2. /\ dist' = dist /\ count' = count /\ level' = level /\ links' = links
      /\ entry' = entry /\ obj' = obj /\ layer' = layer /\ beam' = beam
      /\ cand' = cand /\ seen' = seen /\ rest' = rest /\ at' = at
      /\ B!cur' = B!cur
  BY DEF B!vars, B!index, B!cur
<1>3. /\ B!Present' = B!Present /\ B!maxlevel' = B!maxlevel
      /\ \A k : B!Linked(k)' = B!Linked(k)
  BY <1>2 DEF B!Linked, B!Present, B!maxlevel
<1>4. B!Linked(layer)' = B!Linked(layer)
  BY <1>2 DEF B!Linked, B!Present
<1>5. B!TypeOK'
  BY <1>1, <1>2 DEF B!TypeOK
<1>6. B!ListsOK' /\ B!NoneCutOff'
  BY <1>1, <1>2, <1>3, SameLists
<1>7. B!LayersExist'
  BY <1>1, <1>2, <1>3, <1>4, SameCardinality DEF B!LayersExist
<1>8. B!SearchOK'
  BY <1>1, <1>2, <1>4 DEF B!SearchOK
<1> QED
  BY <1>5, <1>6, <1>7, <1>8 DEF B!IInv

(* addPoint keeps the index sound (IInv of HnswBuild): every list is short *)
(* enough and leads, without repetition, to other elements of its layer,   *)
(* no element of a layer with two or more is without a link in it, the     *)
(* entry point is in the highest layer, and no list of a layer is read of  *)
(* an element that is not in it.                                           *)
THEOREM BuildInductive == ASSUME B!BuildAssumption PROVE B!Spec => []B!IInv
<1>1. B!Init => B!IInv
  BY BuildInit
<1>2. B!IInv /\ [B!Next]_B!vars => B!IInv'
  BY AddFirstStep, AddStep, GreedyStep, EnterStep, ExpandStep, ExamineStep,
     ConnectStep, BuildStutterStep DEF B!Next
<1> QED
  BY <1>1, <1>2, PTL DEF B!Spec

(* Through all layers, beams and choices of links an element never gets    *)
(* farther from where it belongs, and where it ends is a link of it        *)
(* (NeverFarther of HnswBuild).                                            *)
THEOREM BuildNeverFarther == ASSUME B!BuildAssumption PROVE B!Spec => B!NeverFarther
<1> DEFINE Closer == /\ dist[B!cur][obj'] <= dist[B!cur][obj]
                     /\ at' = "add" => obj' \in B!Range(links'[0][B!cur])
<1>1. ASSUME B!IInv, [B!Next]_B!vars, at # "add" PROVE Closer
  <2>1. B!TypeOK /\ B!SearchOK /\ B!cur \in B!Elements /\ B!cur \in B!Present
    BY <1>1, PlaceFacts DEF B!IInv
  <2>2. \A x \in B!Elements : dist[B!cur][x] \in Int
    BY <2>1, DistanceFacts DEF B!TypeOK
  <2>3. obj \in B!Elements
    BY <2>1 DEF B!TypeOK
  <2>4. CASE obj' = obj /\ at' # "add"
    BY <2>2, <2>3, <2>4
  <2>5. CASE B!Greedy
    <3>1. at' # "add"
      BY <1>1, <2>5 DEF B!Greedy
    <3>2. CASE obj' = obj
      BY <2>4, <3>1, <3>2
    <3>3. CASE \E i \in DOMAIN links[layer][obj] :
                 /\ obj' = links[layer][obj][i]
                 /\ dist[B!cur][obj'] < dist[B!cur][obj]
      <4>1. obj' \in B!Elements
        <5>1. links[layer][obj] \in Seq(B!Elements)
          BY <2>1, <2>3 DEF B!TypeOK
        <5> QED
          BY <3>3, <5>1
      <4> QED
        BY <2>2, <2>3, <3>1, <3>3, <4>1
    <3> QED
      BY <1>1, <2>5, <3>2, <3>3, GreedyFacts
  <2>6. CASE B!Connect
    <3>1. PICK own \in B!Arranged(B!Chosen(beam, B!cur, M), B!cur) :
            /\ \E back \in [B!Range(own) -> UNION {B!WithNew(n) : n \in B!Range(own)}] :
                 links' = [links EXCEPT ![layer] =
                    [n \in B!Elements |-> IF n = B!cur THEN own
                                        ELSE IF n \in B!Range(own) THEN back[n]
                                        ELSE links[layer][n]]]
            /\ obj' = B!Onto(own)
      BY <2>6 DEF B!Connect
    <3>2. obj' \in B!Range(own) /\ dist[B!cur][obj'] <= dist[B!cur][obj]
      BY <1>1, <2>6, <3>1, OwnFacts DEF B!Connect
    <3>3. ASSUME at' = "add" PROVE obj' \in B!Range(links'[0][B!cur])
      <4>1. layer = 0 /\ layer \in B!Layers
        <5>1. ~ (layer > 0)
          BY <2>6, <3>3 DEF B!Connect
        <5>2. layer \in B!Layers
          BY <2>1 DEF B!TypeOK
        <5>3. layer \in Nat
          BY <2>1, LayerFacts
        <5> QED
          BY <5>1, <5>2, <5>3
      <4>2. links \in [B!Layers -> [B!Elements -> Seq(B!Elements)]]
        BY <2>1 DEF B!TypeOK
      <4>3. links'[0][B!cur] = own
        BY <2>1, <3>1, <4>1, <4>2
      <4> QED
        BY <3>2, <4>3
    <3> QED
      BY <3>2, <3>3
  <2>7. CASE B!AddFirst
    BY <1>1, <2>1, <2>7 DEF B!AddFirst, B!SearchOK
  <2>8. CASE B!Add
    BY <1>1, <2>8 DEF B!Add
  <2>9. CASE B!Enter \/ B!Expand \/ B!Examine \/ UNCHANGED B!vars
    <3>1. obj' = obj /\ at' # "add"
      BY <1>1, <2>9 DEF B!Enter, B!Expand, B!Examine, B!vars
    <3> QED
      BY <2>4, <3>1
  <2> QED
    BY <1>1, <2>5, <2>6, <2>7, <2>8, <2>9 DEF B!Next
<1>2. B!IInv /\ [B!Next]_B!vars => [at # "add" => Closer]_B!vars
  BY <1>1
<1>3. B!Spec => []B!IInv
  BY BuildInductive
<1> HIDE DEF Closer
<1>4. B!Spec => [][at # "add" => Closer]_B!vars
  BY <1>2, <1>3, PTL DEF B!Spec
<1> QED
  BY <1>4 DEF B!NeverFarther, Closer

(* The lists of layer 0 as the forest reads them.                          *)
BottomLinks == [q \in Queries |-> B!Range(links[0][q])]

(* The construction keeps what GraphsAssumption asks of a graph of links,  *)
(* and leaves no query of a finished index of two or more without a link.  *)
THEOREM BuiltGraph ==
  ASSUME B!BuildAssumption
  PROVE  B!Spec => [](/\ BottomLinks \in [Queries -> SUBSET Queries]
                      /\ \A v \in Queries : v \notin BottomLinks[v]
                      /\ at = "add" /\ count = N /\ N > 1 =>
                           \A v \in Queries : BottomLinks[v] # {})
<1> DEFINE Good == /\ BottomLinks \in [Queries -> SUBSET Queries]
                   /\ \A v \in Queries : v \notin BottomLinks[v]
                   /\ at = "add" /\ count = N /\ N > 1 =>
                        \A v \in Queries : BottomLinks[v] # {}
<1>1. ASSUME B!IInv PROVE Good
  <2>1. B!TypeOK /\ B!ListsOK /\ B!NoneCutOff
    BY <1>1 DEF B!IInv
  <2>2. Queries = B!Elements
    BY DEF Queries, B!Elements
  <2>3. 0 \in B!Layers /\ B!Linked(0) \subseteq B!Elements
    BY <2>1, LayerFacts, PlaceFacts
  <2>4. \A v \in Queries :
          /\ links[0][v] \in Seq(Queries)
          /\ BottomLinks[v] = B!Range(links[0][v])
          /\ BottomLinks[v] \subseteq B!Linked(0) \ {v}
    <3> SUFFICES ASSUME NEW v \in Queries
                 PROVE  /\ links[0][v] \in Seq(Queries)
                        /\ BottomLinks[v] = B!Range(links[0][v])
                        /\ BottomLinks[v] \subseteq B!Linked(0) \ {v}
      OBVIOUS
    <3>1. links[0][v] \in Seq(Queries)
      BY <2>1, <2>2, <2>3 DEF B!TypeOK
    <3>2. BottomLinks[v] = B!Range(links[0][v])
      BY DEF BottomLinks
    <3>3. B!Range(links[0][v]) \subseteq B!Linked(0) \ {v}
      BY <2>1, <2>2, <2>3 DEF B!ListsOK
    <3> QED
      BY <3>1, <3>2, <3>3
  <2>5. BottomLinks \in [Queries -> SUBSET Queries]
    BY <2>2, <2>3, <2>4 DEF BottomLinks
  <2>6. ASSUME at = "add", count = N, N > 1, NEW v \in Queries
        PROVE  BottomLinks[v] # {}
    <3>1. B!Linked(0) = Queries
      <4>1. \A x \in B!Present : level[x] >= 0
        BY <2>1, LayerFacts, PlaceFacts
      <4>2. B!Present = Queries
        BY <2>6 DEF B!Present, Queries
      <4> QED
        BY <2>6, <4>1, <4>2 DEF B!Linked
    <3>2. Cardinality(B!Linked(0)) > 1
      <4>1. 0 \in Int /\ N - 1 \in Int /\ N - 1 >= 0 /\ N \in Nat
        BY <2>6, NAssumption
      <4>2. Cardinality(0 .. N - 1) = (N - 1) - 0 + 1
        BY <4>1, FS_Interval
      <4>3. Cardinality(B!Linked(0)) = (N - 1) - 0 + 1
        BY <3>1, <4>2 DEF Queries
      <4> QED
        BY <2>6, <4>1, <4>3
    <3>3. links[0][v] # << >>
      BY <2>1, <2>3, <3>1, <3>2, SameCardinality DEF B!NoneCutOff
    <3>4. links[0][v][1] \in B!Range(links[0][v])
      <4>1. 1 \in DOMAIN links[0][v]
        BY <2>4, <3>3
      <4> QED
        BY <4>1 DEF B!Range
    <3> QED
      BY <2>4, <3>4
  <2> QED
    BY <2>4, <2>5, <2>6
<1> HIDE DEF Good
<1>2. B!Spec => []Good
  BY <1>1, BuildInductive, PTL
<1> QED
  BY <1>2 DEF Good
===============================================================================
