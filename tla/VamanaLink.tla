------------------------------ MODULE VamanaLink ------------------------------
(***************************************************************************)
(* vamana_exp/DiskANN/src/index.cpp: the parallel construction of the      *)
(* Vamana graph, link() with what it calls, as build_vamana uses it (a     *)
(* static index without frozen points, filters or compressed distances),   *)
(* and a search in the graph that results.                                 *)
(*                                                                         *)
(* What a thread does between two acquisitions of a lock touches nothing   *)
(* shared, so each action is one critical section with the computation     *)
(* before or after it.  Distances are data: world.dist between nodes and   *)
(* world.query for the query.                                              *)
(***************************************************************************)
EXTENDS NeighborQueue, FiniteSets, SequencesExt

CONSTANTS
  Size,          \* number of points
  Threads,       \* the OpenMP team
  Chunk,         \* schedule(dynamic, 2048)
  R,             \* _indexingRange
  Slack,         \* GRAPH_SLACK_FACTOR * range, rounded down
  LBuild,        \* _indexingQueueSize
  LSearch,       \* L of a search
  MaxC,          \* _indexingMaxC
  Alphas,        \* the values of cur_alpha, in tenths
  Worlds         \* records [dist, query, ip, start, entry]

Nodes == 0 .. Size - 1

ASSUME VamanaAssumption ==
  /\ {Size, Chunk, R, Slack, LBuild, LSearch, MaxC} \subseteq Nat \ {0}
  /\ R <= Slack
  /\ Alphas \in Seq(Nat \ {0}) /\ Alphas # << >>
  /\ Threads # {}
  /\ \A w \in Worlds :
       /\ w.dist \in [Nodes -> [Nodes -> Int]] /\ w.query \in [Nodes -> Int]
       /\ w.ip \in BOOLEAN
       /\ w.start \in Nodes /\ w.entry \in Nodes \cup {-1}

VARIABLES
  world,
  phase,       \* "link", "cleanup", "built", "searched"
  next,        \* the first node of the order that no thread has been given
  nbrs,        \* _graph_store
  dirty,       \* nodes the final cleanup has not looked at
  pc,          \* of every thread: "take", "search", "insert", "prune"
  chunk,       \* what is left of its chunk, the node at hand first
  queue,       \* best_L_nodes
  seen,        \* inserted_into_pool
  pool,        \* expanded_nodes
  todo,        \* the part of pruned_list that inter_insert has not treated
  copy         \* copy_of_neighbors

scratch == <<queue, seen, pool>>
loop == <<next, chunk>>
vars == <<world, phase, nbrs, dirty, pc, todo, copy, loop, scratch>>

Querier == CHOOSE t \in Threads : TRUE

(* get_init_ids, or the entry point handed to search().                    *)
Entry == IF phase # "link" /\ world.entry # -1 THEN world.entry ELSE world.start

(* Distance of node x from what thread t searches for.                     *)
TargetDist(t, x) ==
  IF phase = "link" THEN world.dist[Head(chunk[t])][x] ELSE world.query[x]

Neighbor(x, d) == [id |-> x, distance |-> d, expanded |-> FALSE]

Init ==
  /\ world \in Worlds
  /\ phase = "link"
  /\ next = 0
  /\ nbrs = [x \in Nodes |-> << >>]
  /\ dirty = Nodes
  /\ pc = [t \in Threads |-> "take"]
  /\ chunk = [t \in Threads |-> << >>]
  /\ queue = [t \in Threads |-> EmptyQueue]
  /\ seen = [t \in Threads |-> {}]
  /\ pool = [t \in Threads |-> {}]
  /\ todo = [t \in Threads |-> << >>]
  /\ copy = [t \in Threads |-> << >>]

-------------------------------------------------------------------------------
(* prune_neighbors and occlude_list                                        *)

(* Candidate t of the sorted pool p stays out in round r because of one    *)
(* that was chosen before it; chosen holds pairs of position and round.    *)
Occluded(location, p, chosen, r, t) ==
  \E c \in Range(chosen) :
    /\ c[1] < t
    /\ LET djk == world.dist[p[t]][p[c[1]]]
           d   == world.dist[location][p[t]]
       IN IF world.ip
          THEN c[2] = r /\ -10 * djk > Alphas[r] * (- d)
          ELSE djk = 0 \/ 10 * d > Alphas[r] * djk

(* The inner loop of occlude_list: what is chosen after round r.           *)
Round(location, p, before, r) ==
  LET chosen[t \in 0 .. Len(p)] ==
        IF t = 0 THEN before
        ELSE IF \/ Len(chosen[t - 1]) >= R
                \/ \E i \in DOMAIN chosen[t - 1] : chosen[t - 1][i][1] = t
                \/ Occluded(location, p, chosen[t - 1], r, t)
        THEN chosen[t - 1]
        ELSE Append(chosen[t - 1], <<t, r>>)
  IN chosen[Len(p)]

(* occlude_list: the positions chosen, round by round.                     *)
Occlude(location, p) ==
  LET after[r \in 0 .. Len(Alphas)] ==
        IF r = 0 THEN << >> ELSE Round(location, p, after[r - 1], r)
  IN after[Len(Alphas)]

(* A faulty form: the medoid is left out as well.                          *)
CandidatesWithoutStart(location, S) == S \ {location, world.start}

(* The pool without the node itself.                                       *)
Candidates(location, S) == S \ {location}

(* std::sort of the pool.                                                  *)
ByDistance(location, S) ==
  CHOOSE p \in SetToSeqs(S) :
    \A i, j \in DOMAIN p :
      i < j => Less(Neighbor(p[i], world.dist[location][p[i]]), Neighbor(p[j], world.dist[location][p[j]]))

(* The neighbours that prune_neighbors selects from the candidates.        *)
Prune(location, S) ==
  LET all == ByDistance(location, Candidates(location, S))
      p   == [i \in 1 .. IF Len(all) > MaxC THEN MaxC ELSE Len(all) |-> all[i]]
      c   == Occlude(location, p)
  IN [i \in DOMAIN c |-> p[c[i][1]]]

-------------------------------------------------------------------------------
(* The thread takes the next node of its chunk, or a new chunk, and starts *)
(* the search at the medoid.                                               *)
Take(t) ==
  /\ phase = "link" /\ pc[t] = "take"
  /\ LET rest == IF chunk[t] = << >> THEN << >> ELSE Tail(chunk[t])
         last == IF next + Chunk > Size THEN Size ELSE next + Chunk
         new  == IF rest # << >> THEN rest ELSE [i \in 1 .. last - next |-> next + i - 1]
     IN /\ new # << >>
        /\ chunk' = [chunk EXCEPT ![t] = new]
        /\ next' = IF rest # << >> THEN next ELSE last
        /\ queue' = [queue EXCEPT ![t] = Insert(EmptyQueue, LBuild, Neighbor(world.start, world.dist[Head(new)][world.start]))]
  /\ seen' = [seen EXCEPT ![t] = {world.start}]
  /\ pool' = [pool EXCEPT ![t] = {}]
  /\ pc' = [pc EXCEPT ![t] = "search"]
  /\ UNCHANGED <<world, phase, nbrs, dirty, todo, copy>>

(* What thread t searches with.                                            *)
QueueSize == IF phase = "link" THEN LBuild ELSE LSearch

(* Queue q after thread t has inserted the nodes of the list that it has   *)
(* not inserted before.                                                    *)
Fed(t, q, list) ==
  LET fed[i \in 0 .. Len(list)] ==
        IF i = 0 THEN q
        ELSE IF list[i] \in seen[t] THEN fed[i - 1]
        ELSE Insert(fed[i - 1], QueueSize, Neighbor(list[i], TargetDist(t, list[i])))
  IN fed[Len(list)]

(* One iteration of iterate_to_fixed_point.  The ids are inserted in the   *)
(* order of the list, which decides nothing.                               *)
Hop(t) ==
  /\ pc[t] = "search"
  /\ HasUnexpanded(queue[t])
  /\ LET n == queue[t].data[queue[t].cur].id IN
       /\ seen' = [seen EXCEPT ![t] = @ \cup Range(nbrs[n])]
       /\ pool' = [pool EXCEPT ![t] = IF phase = "link" THEN @ \cup {n} ELSE @]
       /\ queue' = [queue EXCEPT ![t] = Fed(t, Popped(@), nbrs[n])]
  /\ UNCHANGED <<world, phase, loop, nbrs, dirty, pc, todo, copy>>

(* The search is over: prune, and set the links of the node.               *)
SetLinks(t) ==
  /\ phase = "link" /\ pc[t] = "search"
  /\ ~ HasUnexpanded(queue[t])
  /\ LET pruned == Prune(Head(chunk[t]), pool[t]) IN
       /\ nbrs' = [nbrs EXCEPT ![Head(chunk[t])] = pruned]
       /\ todo' = [todo EXCEPT ![t] = pruned]
  /\ queue' = [queue EXCEPT ![t] = EmptyQueue]
  /\ seen' = [seen EXCEPT ![t] = {}]
  /\ pool' = [pool EXCEPT ![t] = {}]
  /\ pc' = [pc EXCEPT ![t] = "insert"]
  /\ UNCHANGED <<world, phase, loop, dirty, copy>>

(* A faulty form: the list is not searched for the node.                   *)
HasRoomUnsearched(list, n) == Len(list) < Slack

(* inter_insert appends n to the list.                                     *)
HasRoom(list, n) == Len(list) < Slack /\ n \notin Range(list)

(* inter_insert, under the lock of des: append the node, or copy the list  *)
(* if it is full.                                                          *)
InterInsert(t) ==
  /\ pc[t] = "insert" /\ todo[t] # << >>
  /\ LET n == Head(chunk[t])  des == Head(todo[t]) IN
       IF HasRoom(nbrs[des], n)
       THEN /\ nbrs' = [nbrs EXCEPT ![des] = Append(@, n)]
            /\ UNCHANGED <<copy, pc>>
       ELSE /\ IF n \in Range(nbrs[des])
               THEN UNCHANGED <<copy, pc>>
               ELSE /\ copy' = [copy EXCEPT ![t] = Append(nbrs[des], n)]
                    /\ pc' = [pc EXCEPT ![t] = "prune"]
            /\ UNCHANGED nbrs
  /\ todo' = [todo EXCEPT ![t] = IF pc'[t] = "prune" THEN @ ELSE Tail(@)]
  /\ UNCHANGED <<world, phase, loop, dirty, scratch>>

(* inter_insert, under the lock of des once more: the pruned copy replaces *)
(* whatever the list has become.                                           *)
WriteBack(t) ==
  /\ pc[t] = "prune"
  /\ LET des == Head(todo[t]) IN
       nbrs' = [nbrs EXCEPT ![des] = Prune(des, Range(copy[t]))]
  /\ copy' = [copy EXCEPT ![t] = << >>]
  /\ todo' = [todo EXCEPT ![t] = Tail(@)]
  /\ pc' = [pc EXCEPT ![t] = "insert"]
  /\ UNCHANGED <<world, phase, loop, dirty, scratch>>

NodeDone(t) ==
  /\ pc[t] = "insert" /\ todo[t] = << >>
  /\ pc' = [pc EXCEPT ![t] = "take"]
  /\ UNCHANGED <<world, phase, loop, nbrs, dirty, todo, copy, scratch>>

(* The end of the first parallel loop.                                     *)
Barrier ==
  /\ phase = "link"
  /\ next = Size
  /\ \A t \in Threads : pc[t] = "take" /\ Len(chunk[t]) <= 1
  /\ phase' = "cleanup"
  /\ chunk' = [t \in Threads |-> << >>]
  /\ UNCHANGED <<world, next, nbrs, dirty, pc, todo, copy, scratch>>

(* The second loop; a node is touched by the thread that has it only, so   *)
(* that the order of the nodes is all that is left of the parallelism.     *)
Cleanup ==
  /\ phase = "cleanup"
  /\ dirty # {}
  /\ LET x == CHOOSE y \in dirty : \A z \in dirty : y <= z IN
       /\ nbrs' = IF Len(nbrs[x]) > R THEN [nbrs EXCEPT ![x] = Prune(x, Range(@))] ELSE nbrs
       /\ dirty' = dirty \ {x}
  /\ UNCHANGED <<world, phase, loop, pc, todo, copy, scratch>>

(* search(): the caller's thread starts at the entry point.                *)
Ask ==
  /\ phase = "cleanup" /\ dirty = {}
  /\ phase' = "built"
  /\ pc' = [pc EXCEPT ![Querier] = "search"]
  /\ queue' = [queue EXCEPT ![Querier] = Insert(EmptyQueue, LSearch, Neighbor(Entry, world.query[Entry]))]
  /\ seen' = [seen EXCEPT ![Querier] = {Entry}]
  /\ UNCHANGED <<world, loop, nbrs, dirty, pool, todo, copy>>

Answer ==
  /\ phase = "built"
  /\ ~ HasUnexpanded(queue[Querier])
  /\ phase' = "searched"
  /\ pc' = [pc EXCEPT ![Querier] = "take"]
  /\ UNCHANGED <<world, loop, nbrs, dirty, todo, copy, scratch>>

Step(t) == Take(t) \/ Hop(t) \/ SetLinks(t) \/ InterInsert(t) \/ WriteBack(t) \/ NodeDone(t)

Main == Barrier \/ Cleanup \/ Ask \/ Answer

Next == (\E t \in Threads : Step(t)) \/ Main

Spec == Init /\ [][Next]_vars /\ WF_vars(Main) /\ \A t \in Threads : WF_vars(Step(t))

-------------------------------------------------------------------------------
Entries == [id : Nodes, distance : Int, expanded : BOOLEAN]

TypeOK ==
  /\ world \in Worlds
  /\ phase \in {"link", "cleanup", "built", "searched"}
  /\ next \in 0 .. Size
  /\ nbrs \in [Nodes -> Seq(Nodes)]
  /\ dirty \in SUBSET Nodes
  /\ pc \in [Threads -> {"take", "search", "insert", "prune"}]
  /\ chunk \in [Threads -> Seq(Nodes)]
  /\ queue \in [Threads -> [data : Seq(Entries), cur : Nat]]
  /\ seen \in [Threads -> SUBSET Nodes] /\ pool \in [Threads -> SUBSET Nodes]
  /\ todo \in [Threads -> Seq(Nodes)]
  /\ copy \in [Threads -> Seq(Nodes)]
  /\ \A t \in Threads : Ids(queue[t]) \subseteq seen[t] /\ pool[t] \subseteq seen[t]

(* Whatever the threads do to it, an adjacency list names no node twice,   *)
(* never its own, and stays within the memory reserved for it, on which    *)
(* the scratch space of the searches relies; after the cleanup it is no    *)
(* longer than the range asked for.                                        *)
ListsOK ==
  \A x \in Nodes :
    /\ Len(nbrs[x]) <= Slack
    /\ phase \in {"built", "searched"} => Len(nbrs[x]) <= R
    /\ x \notin Range(nbrs[x])
    /\ \A i, j \in DOMAIN nbrs[x] : nbrs[x][i] = nbrs[x][j] => i = j

(* The queue of a search is sorted, holds the nearest of the nodes met so  *)
(* far, and its cursor is where the comment above the class says.          *)
QueueOK ==
  \A t \in Threads :
    LET q == queue[t] IN
      /\ \A i \in DOMAIN q.data : q.data[i].distance = TargetDist(t, q.data[i].id)
      /\ Sorted(q) /\ CursorAtFirst(q)
      /\ Len(q.data) <= QueueSize
      /\ \A x \in seen[t] \ Ids(q) :
           /\ Len(q.data) = QueueSize
           /\ Less(q.data[QueueSize], Neighbor(x, TargetDist(t, x)))

(* What a thread holds at each point of its work.                          *)
ThreadsOK ==
  \A t \in Threads :
    /\ phase = "link" /\ pc[t] # "take" => chunk[t] # << >>
    /\ phase # "link" =>
         /\ chunk[t] = << >>
         /\ pc[t] = IF phase = "built" /\ t = Querier THEN "search" ELSE "take"
    /\ pc[t] \in {"take", "search"} => todo[t] = << >>
    /\ pc[t] \in {"insert", "prune"} => Head(chunk[t]) \notin Range(todo[t])
    /\ pc[t] = "prune" => todo[t] # << >> /\ Head(chunk[t]) \in Range(copy[t])
    /\ pc[t] # "search" /\ ~ (phase = "searched" /\ t = Querier) =>
         queue[t] = EmptyQueue /\ seen[t] = {}

(* Where the final cleanup is.                                             *)
CleanupOK ==
  /\ phase = "link" => dirty = Nodes
  /\ phase \in {"built", "searched"} => dirty = {}
  /\ \A x \in Nodes \ dirty : Len(nbrs[x]) <= R

(* A search of link expands the medoid first; the one in the final graph   *)
(* has met all that an expanded entry is linked to.                        *)
SearchOK ==
  /\ \A t \in Threads :
       phase = "link" /\ pc[t] = "search" =>
         \/ world.start \in pool[t]
         \/ /\ seen[t] = {world.start}
            /\ HasUnexpanded(queue[t]) /\ queue[t].data[queue[t].cur].id = world.start
  /\ phase \in {"built", "searched"} =>
       LET q == queue[Querier] IN
         /\ Entry \in seen[Querier]
         /\ \A i \in DOMAIN q.data :
              q.data[i].expanded => Range(nbrs[q.data[i].id]) \subseteq seen[Querier]
  /\ phase = "searched" => ~ HasUnexpanded(queue[Querier])

(* What link, its searches and its pruning keep true of the shared lists   *)
(* and of every queue under all interleavings.                             *)
IInv == TypeOK /\ ListsOK /\ QueueOK /\ ThreadsOK /\ CleanupOK /\ SearchOK

(* The nodes whose links have been set.                                    *)
Linked ==
  {x \in Nodes : x < next} \
    UNION {Range(chunk[t]) \ (IF pc[t] = "search" THEN {} ELSE {Head(chunk[t])}) :
             t \in {u \in Threads : chunk[u] # << >>}}

(* Pruning, overwriting and writing back of stale copies never leave a     *)
(* node other than the medoid without a link, so a search has a link to    *)
(* follow from wherever it starts, the medoid excepted.  The medoid's list *)
(* may be empty in the finished graph, if its thread sets the empty list   *)
(* after others have added to it: a search from there answers the medoid.  *)
NeverStranded ==
  \A x \in Linked \ {world.start} : nbrs[x] # << >>

(* search(): the answer is at least as near as the entry point, the        *)
(* promise on which the walk over the trajectory rests; and every link out *)
(* of the queue leads to a node that is beyond a full queue.               *)
SearchClosed ==
  phase = "searched" =>
    LET q == queue[Querier] IN
      /\ world.query[q.data[1].id] <= world.query[Entry]
      /\ \A x \in Ids(q) : \A y \in Range(nbrs[x]) :
           y \in Ids(q) \/ (Len(q.data) = LSearch /\ Less(q.data[LSearch], Neighbor(y, world.query[y])))

(* The construction ends, and so does a search in its graph.               *)
Terminates == <>(phase = "searched")

(* assert(pruned_list.size() > 0): every node is linked to another one.    *)
PrunedListNotEmpty ==
  [][\A t \in Threads : SetLinks(t) => todo'[t] # << >>]_vars
===============================================================================
