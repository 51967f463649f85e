------------------------------ MODULE NnDescent -------------------------------
(***************************************************************************)
(* nsg_exp/efanna_graph/src/index_graph.cpp: the k-nearest-neighbour graph *)
(* that the NSG is built from, by NN-descent in the threads of an OpenMP   *)
(* team.  A round joins the neighbours of every node with each other and   *)
(* then renews the lists of whom to join.                                  *)
(*                                                                         *)
(* Distances and random draws are data.  A pool is a set of entries; the   *)
(* code keeps it as a heap, or sorted, where the order of equidistant      *)
(* entries is left open.                                                   *)
(***************************************************************************)
EXTENDS Integers, Sequences, FiniteSets, SequencesExt

CONSTANTS
  Size,          \* nd_
  Threads,       \* the team
  Chunk,         \* schedule(dynamic, 100)
  S, RN, LN, K,  \* parameters S, R, L and K
  Iter,          \* parameter iter
  Starts,        \* records [pool, new]: the ids drawn for the pool and for
                 \* nn_new of every node
  Worlds         \* records [dist, center]: distances between nodes, and from
                 \* their centre

Nodes == 0 .. Size - 1

(* Neighbor, without the distance, which is that of its id.                *)
Entries == [id : Nodes, flag : BOOLEAN]

ASSUME NnAssumption ==
  /\ {Size, Chunk, S, RN, LN, K, Iter} \subseteq Nat \ {0}
  /\ S <= LN /\ K <= LN
  /\ Size > 2 * S                        \* or GenRandom divides by zero
  /\ Threads # {} /\ IsFiniteSet(Threads)
  /\ \A s \in Starts :
       /\ s.new \in [Nodes -> [1 .. 2 * S -> Nodes]]
       /\ \A x \in Nodes : /\ s.pool[x] \in SUBSET Nodes /\ Cardinality(s.pool[x]) = S
                          /\ s.pool[x] # {x}   \* or front() of an empty pool is read
  /\ \A w \in Worlds : /\ w.dist \in [Nodes -> [Nodes -> Int]]
                       /\ \A x, y \in Nodes : w.dist[x][y] = w.dist[y][x]

VARIABLES
  world,
  phase,         \* "join", "update", then "built" or "overrun"
  round,         \* it of NNDescent
  pool,          \* of every node, a set of [id, flag]
  M,             \* of every node, how much of its pool took part last
  nnNew, nnOld,  \* whom to join
  rnnNew, rnnOld,\* who has the node in its pool
  base,          \* the pools before the join (for the properties only)
  next,          \* first node of the parallel loop that no thread has taken
  chunk,         \* of every thread, its nodes that are left
  work,          \* of every thread, what is left of the node at hand
  heaped,        \* nodes whose pool is a heap again
  rows           \* final_graph_

lists == <<nnNew, nnOld, rnnNew, rnnOld>>
loop == <<next, chunk>>
nnVars == <<world, phase, round, pool, M, lists, base, loop, work, heaped, rows>>

d(x, y) == world.dist[x][y]

Ids(p) == {e.id : e \in p}

(* The sequences of the elements of T, the domain of dist, in the order of *)
(* its values; ties are open.                                              *)
Sortings(dist) ==
  LET T == DOMAIN dist
      Nearest(U) == {a \in U : \A b \in U : dist[a] <= dist[b]}
      First[n \in 0 .. Cardinality(T)] ==
        IF n = 0 THEN {<< >>}
        ELSE UNION {{Append(s, a) : a \in Nearest(T \ Range(s))} : s \in First[n - 1]}
  IN First[Cardinality(T)]

Farthest(x) == CHOOSE far \in {d(x, y) : y \in Ids(pool[x])} :
                 \A y \in Ids(pool[x]) : d(x, y) <= far

Upto(n) == IF n < Size THEN n ELSE Size

Nothing == [t \in Threads |-> << >>]

(* InitializeGraph: a drawn id that is the node itself is skipped.         *)
NnInit ==
  /\ world \in Worlds
  /\ phase = "join"
  /\ round = 1
  /\ \E s \in Starts :
       /\ pool = [x \in Nodes |-> {[id |-> y, flag |-> TRUE] : y \in s.pool[x] \ {x}}]
       /\ nnNew = s.new
  /\ M = [x \in Nodes |-> S]
  /\ nnOld = [x \in Nodes |-> << >>]
  /\ rnnNew = nnOld /\ rnnOld = nnOld
  /\ base = pool
  /\ next = 0
  /\ chunk = Nothing /\ work = Nothing
  /\ heaped = {}
  /\ rows = [x \in Nodes |-> << >>]

-------------------------------------------------------------------------------
(* join                                                                    *)

(* The pairs that nhood::join hands to the callback, in their order.       *)
Pairs(x) ==
  FlattenSeq([i \in DOMAIN nnNew[x] |->
    LET a == nnNew[x][i] IN
      FlattenSeq([j \in DOMAIN nnNew[x] |->
                    IF a < nnNew[x][j] THEN <<<<a, nnNew[x][j]>>>> ELSE << >>])
      \o [j \in DOMAIN nnOld[x] |-> <<a, nnOld[x][j]>>]])

(* The insertions the callback makes of them.                              *)
Inserts(x) ==
  LET pairs == Pairs(x) IN
    FlattenSeq([i \in DOMAIN pairs |->
      LET a == pairs[i][1]  b == pairs[i][2] IN
        IF a = b THEN << >> ELSE <<<<a, b>>, <<b, a>>>>])

Take(t) ==
  /\ phase = "join"
  /\ work[t] = << >>
  /\ IF chunk[t] # << >>
     THEN /\ chunk' = [chunk EXCEPT ![t] = Tail(@)]
          /\ work' = [work EXCEPT ![t] = Inserts(Head(chunk[t]))]
          /\ next' = next
     ELSE /\ next < Size
          /\ next' = Upto(next + Chunk)
          /\ chunk' = [chunk EXCEPT ![t] = [i \in 1 .. next' - next - 1 |-> next + i]]
          /\ work' = [work EXCEPT ![t] = Inserts(next)]
  /\ UNCHANGED <<world, phase, round, pool, M, lists, base, heaped, rows>>

Near(x, y) == d(x, y) <= Farthest(x)

(* A faulty form: a full pool gives up any entry, not the farthest.        *)
OutAny(x) ==
  IF Cardinality(pool[x]) < LN THEN {{}} ELSE {{e} : e \in pool[x]}

(* What a full pool gives up: a farthest entry.                            *)
Out(x) ==
  IF Cardinality(pool[x]) < LN THEN {{}}
  ELSE {{e} : e \in {f \in pool[x] : d(x, f.id) = Farthest(x)}}

(* nhood::insert, under the lock of the pool.                              *)
Insert(t) ==
  /\ phase = "join"
  /\ work[t] # << >>
  /\ LET x == Head(work[t])[1]  y == Head(work[t])[2] IN
       IF Near(x, y) /\ y \notin Ids(pool[x])
       THEN \E o \in Out(x) :
              pool' = [pool EXCEPT ![x] = (@ \ o) \cup {[id |-> y, flag |-> TRUE]}]
       ELSE pool' = pool
  /\ work' = [work EXCEPT ![t] = Tail(@)]
  /\ UNCHANGED <<world, phase, round, M, lists, base, loop, heaped, rows>>

Joined ==
  /\ phase = "join"
  /\ next = Size
  /\ \A t \in Threads : chunk[t] = << >> /\ work[t] = << >>

-------------------------------------------------------------------------------
(* update                                                                  *)

(* The share of a thread in a loop with static schedule.                   *)
Share(t) ==
  LET order == SetToSeq(Threads)
      i == CHOOSE i \in DOMAIN order : order[i] = t
      end(j) == (j * Size) \div Cardinality(Threads)
  IN [j \in 1 .. end(i) - end(i - 1) |-> end(i - 1) + j - 1]

(* The first loop, and the start of the third.                             *)
Clear ==
  /\ Joined
  /\ phase' = "update"
  /\ nnNew' = [x \in Nodes |-> << >>] /\ nnOld' = nnNew'
  /\ chunk' = [t \in Threads |-> Share(t)]
  /\ UNCHANGED <<world, round, pool, M, rnnNew, rnnOld, base, next, work, heaped, rows>>

(* The second loop: how much of the sorted pool takes part, S entries that *)
(* are new at most.                                                        *)
Extent(x, s) ==
  LET most == IF M[x] + S < Len(s) THEN M[x] + S ELSE Len(s)
      news(l) == Cardinality({i \in 1 .. l : s[i].flag})
  IN CHOOSE l \in 0 .. most :
       /\ l = most \/ news(l) >= S
       /\ \A h \in 0 .. l - 1 : news(h) < S

(* The second and third loop meet: a thread begins its next node.          *)
Begin(t) ==
  /\ phase = "update"
  /\ work[t] = << >> /\ chunk[t] # << >>
  /\ LET x == Head(chunk[t]) IN
       \E s \in Sortings([e \in pool[x] |-> d(x, e.id)]) :
         /\ M' = [M EXCEPT ![x] = Extent(x, s)]
         /\ work' = [work EXCEPT ![t] = SubSeq(s, 1, M'[x])]
  /\ UNCHANGED <<world, phase, round, pool, lists, base, loop, heaped, rows>>

(* pool.back() of another node is its farthest entry until its thread has  *)
(* made a heap of the pool, which may be while it is read: then any entry. *)
Backs(o) ==
  IF o \in heaped THEN {d(o, y) : y \in Ids(pool[o])} ELSE {Farthest(o)}

(* A reverse list takes x, in a random place if it is full.                *)
Reversed(list, x) ==
  IF Len(list) < RN THEN {Append(list, x)}
  ELSE {[list EXCEPT ![i] = x] : i \in 1 .. RN}

(* One entry of the pool of a node; o is the node on the other side.  The  *)
(* last one makes the pool a heap and ends the node.                       *)
Introduce(t) ==
  /\ phase = "update"
  /\ work[t] # << >>
  /\ LET x == Head(chunk[t])  e == Head(work[t])  o == e.id IN
       \E back \in Backs(o) :
         IF e.flag
         THEN /\ nnNew' = [nnNew EXCEPT ![x] = Append(@, o)]
              /\ IF d(x, o) > back
                 THEN \E r \in Reversed(rnnNew[o], x) : rnnNew' = [rnnNew EXCEPT ![o] = r]
                 ELSE rnnNew' = rnnNew
              /\ pool' = [pool EXCEPT ![x] = (@ \ {e}) \cup {[id |-> o, flag |-> FALSE]}]
              /\ UNCHANGED <<nnOld, rnnOld>>
         ELSE /\ nnOld' = [nnOld EXCEPT ![x] = Append(@, o)]
              /\ IF d(x, o) > back
                 THEN \E r \in Reversed(rnnOld[o], x) : rnnOld' = [rnnOld EXCEPT ![o] = r]
                 ELSE rnnOld' = rnnOld
              /\ UNCHANGED <<nnNew, rnnNew, pool>>
  /\ work' = [work EXCEPT ![t] = Tail(@)]
  /\ IF work'[t] = << >>
     THEN /\ chunk' = [chunk EXCEPT ![t] = Tail(@)]
          /\ heaped' = heaped \cup {Head(chunk[t])}
     ELSE UNCHANGED <<chunk, heaped>>
  /\ UNCHANGED <<world, phase, round, M, base, next, rows>>

(* The barrier behind the third loop.                                      *)
Renewed ==
  /\ phase = "update"
  /\ \A t \in Threads : chunk[t] = << >>

(* The fourth loop, and the start of the next round.                       *)
Merge ==
  /\ Renewed
  /\ round < Iter
  /\ nnNew' = [x \in Nodes |-> nnNew[x] \o rnnNew[x]]
  /\ nnOld' = [x \in Nodes |->
       LET all == nnOld[x] \o rnnOld[x] IN
         SubSeq(all, 1, IF Len(all) > 2 * RN THEN 2 * RN ELSE Len(all))]
  /\ rnnNew' = [x \in Nodes |-> << >>] /\ rnnOld' = rnnNew'
  /\ base' = pool
  /\ phase' = "join" /\ round' = round + 1
  /\ next' = 0
  /\ heaped' = {}
  /\ UNCHANGED <<world, pool, M, chunk, work, rows>>

Row(x) == {SubSeq(s, 1, K) : s \in Sortings([y \in Ids(pool[x]) |-> d(x, y)])}

(* What the rows of the first n nodes may be.                              *)
Rows[n \in 0 .. Size] ==
  IF n = 0 THEN {<< >>} ELSE {Append(all, r) : all \in Rows[n - 1], r \in Row(n - 1)}

(* Build: a row is the K nearest of the pool; of a pool that has fewer the *)
(* rest is read past its end.  The scratch data are given back.            *)
Build ==
  /\ Renewed
  /\ round = Iter
  /\ IF \A x \in Nodes : Cardinality(pool[x]) >= K
     THEN /\ phase' = "built"
          /\ \E all \in Rows[Size] : rows' = [x \in Nodes |-> all[x + 1]]
     ELSE phase' = "overrun" /\ UNCHANGED rows
  /\ pool' = [x \in Nodes |-> {}] /\ base' = pool'
  /\ M' = [x \in Nodes |-> 0]
  /\ nnNew' = [x \in Nodes |-> << >>]
  /\ nnOld' = nnNew' /\ rnnNew' = nnNew' /\ rnnOld' = nnNew'
  /\ UNCHANGED <<world, round, loop, work, heaped>>

NnStep(t) == Take(t) \/ Insert(t) \/ Begin(t) \/ Introduce(t)

NnMain == Clear \/ Merge \/ Build

NnNext == (\E t \in Threads : NnStep(t)) \/ NnMain

-------------------------------------------------------------------------------
NnTypeOK ==
  /\ world \in Worlds
  /\ phase \in {"join", "update", "built", "overrun"}
  /\ round \in 1 .. Iter
  /\ pool \in [Nodes -> SUBSET Entries]
  /\ M \in [Nodes -> 0 .. LN]
  /\ nnNew \in [Nodes -> Seq(Nodes)] /\ nnOld \in [Nodes -> Seq(Nodes)]
  /\ rnnNew \in [Nodes -> Seq(Nodes)] /\ rnnOld \in [Nodes -> Seq(Nodes)]
  /\ next \in 0 .. Size /\ chunk \in [Threads -> Seq(Nodes)]
  /\ heaped \subseteq Nodes
  /\ rows \in [Nodes -> Seq(Nodes)]

(* A pool never holds the node itself, nor an id twice, nor more than its  *)
(* capacity; whom to join stays within the bounds that S and R set,        *)
(* whatever the threads append; a finished row has K nodes, the nearest    *)
(* first.                                                                  *)
ListsBounded ==
  \A x \in Nodes :
    /\ x \notin Ids(pool[x])
    /\ Cardinality(Ids(pool[x])) = Cardinality(pool[x]) /\ Cardinality(pool[x]) <= LN
    /\ Len(rnnNew[x]) <= RN /\ Len(rnnOld[x]) <= RN
    /\ round > 1 => Len(nnNew[x]) <= S + RN
    /\ phase = "join" => Len(nnOld[x]) <= 2 * RN
    /\ x \notin Range(rnnNew[x]) \cup Range(rnnOld[x])
    /\ phase = "built" =>
         /\ x \notin Range(rows[x]) /\ Cardinality(Range(rows[x])) = K
         /\ \A i \in 1 .. K - 1 : d(x, rows[x][i]) <= d(x, rows[x][i + 1])

(* The insertions that the nodes ns ask for in this round.                 *)
Offers(ns) == UNION {Range(Inserts(n)) : n \in ns}

(* The nodes that these offers introduce to x.                             *)
Introduced(x, offers) == {i[2] : i \in {j \in offers : j[1] = x}}

(* What the pool of x would hold if nothing ever gave way.                 *)
Wanted(x, offers) ==
  LET old == Ids(base[x])
  IN old \cup {y \in Introduced(x, offers) : \E z \in old : d(x, y) <= d(x, z)}

(* The insertions that have not been made yet.                             *)
Pending ==
  Offers({n \in Nodes : n >= next \/ \E t \in Threads : n \in Range(chunk[t])})
    \cup UNION {Range(work[t]) : t \in Threads}

(* The pools, and what the threads hold of them while they are renewed.    *)
PoolsOK ==
  phase \in {"join", "update"} =>
    /\ \A x \in Nodes :
         /\ pool[x] # {} /\ base[x] # {}
         /\ Cardinality(pool[x]) <= LN
         /\ \A e, f \in pool[x] : e.id = f.id => e = f
    /\ base \in [Nodes -> SUBSET Entries]

(* The work of a thread: insertions that the round asks for, or entries of *)
(* the pool of its node.                                                   *)
WorkOK ==
  /\ phase = "join" =>
       /\ work \in [Threads -> Seq(Nodes \X Nodes)]
       /\ UNION {Range(work[t]) : t \in Threads} \subseteq Offers(Nodes)
  /\ phase = "update" =>
       /\ work \in [Threads -> Seq(Entries)]
       /\ \A t \in Threads :
            work[t] # << >> =>
              /\ chunk[t] # << >>
              /\ \A e \in Range(work[t]) : e.id \in Ids(pool[Head(chunk[t])])

(* In the middle of a join a pool holds nothing but what is wanted; what   *)
(* it lacks is still to be offered, or is no nearer than all of a full     *)
(* pool; and while there is room, nothing has given way.                   *)
JoinOK ==
  phase = "join" =>
    LET offers  == Offers(Nodes)
        pending == Pending
    IN \A x \in Nodes :
         LET now == Ids(pool[x])
             all == Wanted(x, offers)
         IN /\ now \subseteq all
            /\ \A y \in all \ now :
                 \/ y \in Introduced(x, pending)
                 \/ Cardinality(pool[x]) = LN /\ \A z \in now : d(x, z) <= d(x, y)
            /\ Cardinality(pool[x]) < LN => Ids(base[x]) \subseteq now

(* However the threads interleave, when the join of a round is over a pool *)
(* holds the nearest of what it held before and of the introduced nodes    *)
(* that are no farther than that: no insertion is lost and none that had   *)
(* to give way stays.                                                      *)
JoinExact ==
  Joined =>
    LET offers == Offers(Nodes)
    IN \A x \in Nodes :
         LET all == Wanted(x, offers)
             now == Ids(pool[x])
         IN /\ now \subseteq all
            /\ Cardinality(now) = IF Cardinality(all) > LN THEN LN ELSE Cardinality(all)
            /\ \A y \in all \ now, z \in now : d(x, z) <= d(x, y)
===============================================================================
