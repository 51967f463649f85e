# A TLA+ model of the multi-query pipeline

The program answers a batch of nearest-neighbour queries over a graph index.
It does not answer them one by one: it first arranges the queries in trees of
short edges (`mqo/`), then walks the trees parents first and starts the search
for every query at the answer of its parent (`hnsw_exp/`, `nsg_exp/`,
`vamana_exp/`). This directory holds a TLA+ model of that pipeline, the TLC
configurations that check it on small instances, and proofs of the properties
that matter most, checked by TLAPS.

## 1. The system

### 1.1 Components

| component | code | state it keeps | operations |
|---|---|---|---|
| trajectory contract | `mqo/interface.hpp`, `mqo/checker.hpp` | the list of `{child, parent}` pairs | `mqo`, `mqo_no_reorder`, `checkTrajectory` |
| LSH split | `mqo/lsh_mst_opt.hpp` | queue of groups, list of hyperplanes | `split`, `splitgroup` |
| group loop | `mqo/lsh_mst_opt.hpp`, `mqo/mixed_mst_opt.hpp`, `mqo/basic.hpp` | full trajectory, sums for the average weight | `computeMSTs`, `optimize_trajectory_*`, `get_weight_for_root` |
| Prim on a group | both of the above | keys, set of queries in the tree | the double loop of `computeMSTs` |
| forest from HNSW | `mqo/ann/build_mst_from_ann.hpp` | adjacency lists, heap, visited set | `approximateMSTUsingHNSW`, `..._undirected` |
| index over the queries | `mqo/ann/build_ann*.hpp`, `mqo/ann/hnswlib/` | an `HierarchicalNSW` | `build_ann`, `build_ann_base_only` |
| exact MST | `mqo/fullmst/full_mst.hpp` | keys, parents, visited; a file | `get_mst`, `save_mst`, `read_mst` |
| reordering | `mqo/reorder.hpp` | child lists, roots, stack | `reorder_multiple_DFS`, three variants |
| HNSW construction | `hnsw_exp/hnswlib/hnswalg.h` | lists of links by layer, entry point, element levels | `addPoint`, `searchBaseLayer`, `mutuallyConnectNewElement` |
| seeded HNSW search | `hnsw_exp/hnswlib/hnswalg.h` | candidates, beam, visited array, lower bound | `searchKnn_mine`, `searchBaseLayerST_mine` |
| query processing on HNSW | `hnsw_exp/process.hpp` | answers so far, number of right ones | `get_recall`, `get_recall_optimized`, `get_recall_optimized2` |
| drivers of HNSW | `hnsw_exp/run_hnsw.cpp`, `search_best_hnsw.cpp`, `graph_handler.hpp` | beam size of the sweep, index file | sweep, build, load |
| efanna graph | `nsg_exp/efanna_graph/` | pools of candidates under locks, lists of whom to join | `Build` by NN-descent: `join`, `update` |
| NSG construction | `nsg_exp/nsg/src/index_nsg.cpp`, `nsg_exp/build_nsg_*` | cut graph, final graph, navigating node, stack of the DFS | `Build`: `init_graph`, `Link`, `tree_grow` |
| NSG search | the same, with a search added to the vendored index | pool of candidates, flags, cursor | `SearchWithOptGraph_mine`, `Search_mine` |
| Vamana index | `vamana_exp/DiskANN/` | graph under per-node locks, queue of a search | `link`, `inter_insert`, `prune_neighbors`, seeded search |
| query processing on NSG, Vamana | `nsg_exp/`, `vamana_exp/` | answers so far | the loops of `hnsw_exp/process.hpp` over another search |
| ground truth | `data_handler/answer_handler.hpp` | answers, a file | `calculate_answers`, read and write |
| data files, result files, timing, scripts | `data_handler/`, `result_handler/`, `utils/`, `controller/` | none beyond files | input, output |

`PROJECT.json` lists the same components with the modules that model them and
how far.

### 1.2 How they interact

The pipeline is a chain of direct calls in one thread, except for two parallel
regions: the loop inside `get_mst`, and the loop over queries in
`calculate_answers`. The construction of two of the vendored indexes is
parallel:

* Vamana links its nodes in a team of threads that search, append to and
  overwrite adjacency lists under one lock per node, and prune copies of them
  between two acquisitions of the lock;
* efanna joins neighbours in a team under one lock per pool, and then renews
  its lists in a loop that reads pools of other nodes without their locks;
* the NSG itself shares less than its code suggests: only the first loop of
  `Link` runs in parallel, and its iterations share nothing that changes; the
  directive of `InterInsert` stands outside of the parallel region, so that
  its loop is run by one thread.

HNSW indexes are built by adding one element after the other. Data flow is a
pipe:

    queries -> split -> group loop -> (Prim | forest from HNSW) per group
            \-> exact MST -> file -> {0,-1} appended in mqo()
               -> reorder_multiple_DFS -> checkTrajectory
                  -> walk: search(query, seed = answer of the parent) -> recall

The interfaces carry unwritten agreements, and these are what the model is
about:

* the optimizers hand over one edge per query and no cycle, in any order;
* `reorder_multiple_DFS` silently drops what it cannot reach, and
  `checkTrajectory` must notice;
* groups number their queries from zero, and only the loop around them knows
  which query that is;
* the walk reads `ann[parent]` without asking whether it has been written, and
  takes an external label for an internal id;
* the seeded search is expected never to return something worse than its seed;
* the searches take from an index what its construction must have established:
  lists within their memory, links to elements that exist in the layer, nodes
  that can be reached, rows no wider than the layout.

### 1.3 What is hard here

* **Order.** Every stage changes the order of the edges and the next depends on
  it. A mistake shows as a lower recall, never as an error.
* **Stale values.** Heap items whose query has been taken meanwhile, keys that
  were computed from an earlier tree, answers that are still the initial zero.
* **Limits.** A beam that is full, a group that is empty after a cut, a queue
  that could be empty, a single query, a distance that overflows, is negative,
  or is NaN after a square root.
* **Concurrency.** The threads of `get_mst` share `dist` and `parent`, those of
  Vamana the adjacency lists, those of efanna the pools. What a thread writes
  back may have been computed from a list that others have changed meanwhile.
* **Ends of lists.** A bounded list is ended by a mark that may also be a
  distance, or is overwritten by a shorter one without a mark.
* **Termination.** `while` loops whose end depends on data: the stack walk, the
  greedy descent, the random pair of `sample_two`, the search in a graph that is
  being built, the tree that NSG grows until it has counted every node.

Nothing is persisted that is read back after a crash, and no messages are sent:
crash recovery and unreliable delivery do not arise.

### 1.4 What makes each component correct

| component | properties |
|---|---|
| contract | complete and duplicate free, parents first (`CheckTrajectory`, `TrajectorySpec`) |
| reordering | accepts the forests and nothing else; depth first; ends |
| LSH split | every query in one group; the groups depend on the hyperplanes only |
| group loop | no query lost, doubled or moved to another group; one root weight per tree |
| Prim on a group | exact keys, a tree of least weight; no index -1 if it can be avoided |
| forest from HNSW | a trajectory; roots only where nothing earlier leads; least weight over the links kept |
| exact MST | the same under every schedule; fit for the pipeline after the root is appended |
| HNSW construction | lists within their room and layer, nobody cut off, an element ends at a link no farther than the entry point; ends |
| seeded HNSW search | never worse than any start, closed beam, exact if wide enough, ends |
| query processing | seeds are final answers of parents; drift bounded by edge length; recall counts once |
| efanna graph | a round of joins has the same result under every interleaving; pools never outgrow their memory |
| NSG construction | no list with an unset slot is read; every node can be reached; rows fit the layout; ends |
| NSG search | the pool is sorted and closed; as much of the starting point is kept as its links allow; ends |
| Vamana index | lists sound under every interleaving; no linked node is left without a link; sorted queue with a true cursor; ends |
| Vamana search | never worse than its entry point, closed queue |

## 2. The modules

| module | models | extends |
|---|---|---|
| `Trajectory` | edges, `checkTrajectory`, vocabulary | |
| `TrajectorySpec` | abstract: a producer of trajectories | `Trajectory` |
| `DfsReorder` | `reorder_multiple_DFS` and the check after it | `Trajectory`, implements `TrajectorySpec` |
| `LshSplit` | `split`, `splitgroup` | `Trajectory` |
| `GroupLoop` | `computeMSTs` and the mixed optimizer around their inner algorithms, composed with the split | `LshSplit` |
| `PrimGroup` | Prim's algorithm on a group, in one thread | `Trajectory` |
| `HnswForest` | the two functions of `build_mst_from_ann.hpp` | `Trajectory`, implements `TrajectorySpec` |
| `FullMst` | `get_mst` with its team of threads, and the custom tree up to the reordering | `Trajectory`, implements `PrimGroup` |
| `SeededSearch` | `searchKnn_mine`, `searchBaseLayerST_mine` | |
| `SeededWalk` | `get_recall_optimized` | `Trajectory` |
| `HnswBuild` | `addPoint` with all it calls | |
| `NeighborQueue` | `NeighborPriorityQueue` of DiskANN, as operators on a value | |
| `VamanaLink` | `link` and a search in the graph it leaves | `NeighborQueue` |
| `NnDescent` | `Build` of efanna in its team of threads | |
| `NsgBuild` | `Build` of the NSG, put behind efanna's as `build_nsg_l2` and `build_nsg_ip` do | `NnDescent` |
| `PoolSearch` | `SearchWithOptGraph_mine` and `Search_mine` of NSG, `InsertIntoPool`; the lists may repeat a link, as those of `NsgBuild` do | |
| `DfsReorderProofs`, `GroupLoopProofs`, `HnswForestProofs`, `FullMstProofs`, `HnswQueryProofs`, `PoolSearchProofs`, `VamanaLinkProofs`, `NsgBuildProofs` | theorems and proofs; those about `TrajectorySpec` and `HnswBuild` are in `HnswForestProofs`, those about `PrimGroup` in `FullMstProofs`, those about `SeededSearch` and `SeededWalk` in `HnswQueryProofs`, those about `NnDescent` in `NsgBuildProofs`, whose four parts follow the invariant | the modules they are about |
| `MC...` | the inputs TLC enumerates | the module named |

Every operator that stands for code is listed in `PROJECT.json` under `map`
with the lines it stands for. Operators introduced by a comment "A faulty form"
are plausible slips in the code; no specification uses them. Each is paired in
`PROJECT.json` under `mutants` with a property that TLC finds violated when the
slip replaces the original, which shows that the property really constrains
the code.

Each proof module stands alone: it extends the modules it is about and the
theorem library, and starts with the facts about sequences, finite sets and
least elements that it cites.

### 2.1 Correspondence of state and actions

**Trajectory.** A `pair<int,int>` is a record `[child, parent]`; `Root` is -1.
`SizeAssert`, `CoverAssert` and `OrderAssert` are the three asserts in order.

**DfsReorder.** `edges`, `children`, `roots`, `stack`, `reordered` are the
variables of the function. The top of the stack is the head of a sequence, so
pushing the children in reverse is prefixing the block `ChildEdges(q)`, which
reads in the order of the list; `DepthFirst` says that siblings come out so.
`IndexEdge` is an iteration of the first loop, `PushRoot` the head of the loop
over roots, `Visit` an iteration of the inner `while`, `Finish` the move into
`edges`, `Check` the call of `checkTrajectory`. `given` is a history variable.
Inputs have one edge per query but need not be forests: cycles are part of
every run. They never have an edge twice or miss a query, because no producer
does that and the code would index outside its arrays.

**LshSplit, GroupLoop.** The sign of an inner product is data: `below[h]` says
on which side of hyperplane `h` a query is, and TLC takes all such functions.
The priority queue is a set of groups, `Largest` is what `top()` may return, so
ties are open. `Split` is an iteration of the split loop. `PopGroup` pops a
group and lets its optimizer return *any* sequence that `PrimGroup` and
`HnswForest` are shown to be limited to (`GroupContract` of the one, `ImplementsTrajectory` and
`RootsAscend` of the other, `LocalTrajectories` here); `AppendEdge` renumbers and appends one edge;
`RootWeight` is enabled only if there are two different queries to draw.

**PrimGroup.** `key` and `from` are the two halves of the array of pairs.
`Grow` is one iteration of the outer loop with both inner loops; `Overrun` is
the iteration that finds no key below infinity and goes on with index -1. The
two copies of the algorithm differ in the distance only.

**HnswForest.** `undirected` tells which function was called; `Collect` builds
the lists the search uses, for the undirected one with the test `u > v`. The
heap is a set of items: an item is pushed at most once per pair of nodes. `Top`
is any least item, and any item at all once a NaN is in the heap, since the
comparator then orders nothing reliably. `Skip`, `StartDirected`,
`StartUndirected` are the outer loop, `Pop` the inner.

**FullMst.** `Relax(t)` is one iteration of the parallel loop by thread `t`,
which owns the block `First(t) .. First(t + 1) - 1` of a static schedule;
`Join` is the barrier. `AppendRoot` is the step through the file and the
`push_back` of the root in `mqo()`. `Sequential` is the refinement mapping to
`PrimGroup` (section 4.5).

**SeededSearch.** `visited`, `cand`, `top`, `bound` are `visited_array`, the two
heaps and `lowerBound`. `Move` and `Down` are the greedy descent; `Enter` the
loop over the starting points, with the least of their distances as
`lowerBound`, as in the code; `Expand` the head of the main loop; `Examine` an
iteration over the links, with the push, the trim and the new bound; `Stop` the
end of the loop together with the reduction to `k`. The order of links and the
choice among equidistant nodes are open, which covers every index the vendored
construction can build over the nodes.

**SeededWalk.** One search is one step with the promise that `SeededSearch` is
checked to keep: any element at most as far as the start may come back
(`Found`). `Answer` is an iteration of the loop. `label` maps internal ids to
labels; `Labels` holds the identity only, because `build` adds elements one by
one. Points lie on a line, which gives a metric with ties.

**PoolSearch.** `pool` is `retset` from position 1 to `L`, `fresh` the nodes in it
whose flag is set, `k` and `nk` the cursor and the least insertion of the
iteration. `Gather` and `Draw` are the two loops that fill the pool, from the
links of the starting point and from `rand()`; the second loop evaluates what
the first has chosen, so the distance is data from the start. `SortPool` is
`std::sort`; `Pass` and `Expand` are the two branches of an iteration of the main
loop, `Examine` an iteration over the links of the expanded node, `Advance` its
end with the jump of the cursor. `Place` is the position that the binary search
of `InsertIntoPool` arrives at: its callers insert only what is nearer than the
last node of the pool and has not been flagged, so its branches for an
insertion at the end and for a duplicate are not reached. The starting point
itself is not put in the pool, neither in the code nor in the model.

**HnswBuild.** `links[l][x]` is the list of `x` in layer `l`, in its order.
`AddFirst` and `Add` draw a layer and take the entry point; `Greedy` is a pass
over a list in the layers above; `Enter`, `Expand` and `Examine` are
`searchBaseLayer`; `Connect` is `getNeighborsByHeuristic2` and
`mutuallyConnectNewElement` for all chosen elements, and the new entry point
after layer 0. `Chosen` is the set in which a candidate is kept if there is room
besides those kept of the candidates ahead of it, and none of these is nearer
to it than the element is: what the loop over `queue_closest` collects. A heap
gives up equidistant elements in any order (`Arranged`).
The class in `mqo/ann/hnswlib` is a copy; `addPoint_modified` is the case that
every draw is layer 0.

**NeighborQueue, VamanaLink.** A queue is the used part of the array and the
cursor. An action of a thread is one critical section with the computation
before or after it, which touches nothing shared: `Hop` reads the list of one
node under its lock and inserts its links, `SetLinks` prunes and sets the links
of the node itself, `InterInsert` appends to a neighbour's list or copies it,
`WriteBack` replaces it by the pruned copy, whatever it has become. `Take` is
the loop with its dynamic schedule, `Barrier` its end, `Cleanup` the second
loop, `Ask` and `Answer` a search in the finished graph. `Inserted` says what
the array is after the binary search (`Place`) and the shift, `Fed` what it is
after the loop over the links of a node. `Occlude` is `occlude_list` for both
metrics, its factor kept in tenths: `Round` is its inner loop for one value of
`cur_alpha`, `Occluded` its test of a candidate against those chosen. The assertions on
`pruned_list` do not stop the model: it is the build that has none, and what
they say is `PrunedListNotEmpty` (section 3.3).

**NnDescent.** A pool is a set of entries. In `join`, `Take` is the dynamic
schedule, `Insert` one insertion under the lock of the pool. In `update`,
`Clear`, `Begin`, `Introduce` and `Merge` are its loops, `Renewed` the barrier before
the last; the loop that sorts the
pools and the loop that fills the lists are one here, since the first touches
the node's own pool only. `pool.back()` of another node, read without its lock,
is its farthest entry until the owner has begun to make a heap of the pool and
any entry afterwards (`Backs`). `Build` reads `K` entries of each pool; if one has
fewer the phase is `overrun`.

**NsgBuild.** `cut` is `cut_graph_` with its slots, `Unset` a slot never written.
`Enter` is `init_graph`, `SyncPrune` an iteration of the first loop of `Link`,
`InterInsert` one slot and `NextNode` the end of an iteration of the second,
`Compact` the copy that `Build` makes, `StartDFS`, `Walk` and `FindRoot` are
`tree_grow`. A list ends at the first slot whose distance is -1, also if that
is the distance of a node. The searches (`Searches`) are functions of the graph:
nobody changes it while they run. A search repeats `Turn`, an iteration of one of
the two loops of `get_neighbors`, until its cursor has passed the pool; `Ahead` is the
inner loop of `DFS`.

## 3. The runs

| run | configuration | properties | distinct states |
|---|---|---|---|
| `reorder` | 4 queries, every list with one edge per query, in every order | `IInv`, `AcceptsForests`, `DepthFirst`, `Terminates`, `ImplementsTrajectory` | 62784 |
| `groups` | 4 queries, 3 groups | `IInv`, `EdgesStayInGroup`, `ReturnsForest` | 14472 |
| `prim` | 4 queries, every distance function into {-1, 1, 2, infinity} | `IInv`, `MinimumTree` | 20316 |
| `hnsw_forest` | 4 queries, every graph of links, four distance functions, both algorithms | `IInv`, `MinimumForest`, `Completes`, `ImplementsTrajectory` | 709952 |
| `search` | 4 nodes with at most two links; one start, two starts, or two upper layers; beam 3 | `IInv`, `BeamClosed`, `ExactIfWide`, `NoWorseThanStart`, `Terminates` | 1113053 |
| `walk` | all checked trajectories of 3 queries, 3 elements | `RecallInv`, `NoWorseThanParent`, `DriftBounded` | 71352 |
| `pool` | 4 nodes with at most two links, repeated ones among them, pool of 2, every starting point | `IInv`, `PoolClosed`, `StartKept`, `Terminates` | 2113050 |
| `full_mst` | 4 queries, 3 threads, every distance function into {-1, 1, infinity} | `IInv`, `MinimumTree`, `ImplementsPrim` | 37794 |
| `hnsw_build` | 6 elements, 3 layers, lists of 2 (layer 0: 4) | `IInv`, `NeverFarther`, `Terminates` | 91641 |
| `vamana` | 4 points, 2 threads, both metrics, every medoid | `IInv`, `NeverStranded`, `SearchClosed`, `Terminates` | 42505 |
| `nsg` | 5 points, 2 threads, 2 rounds of NN-descent, then the NSG | `IInv`, `JoinExact`, `AllReachable`, `Terminates` | 367175 |
| `vamana_assert` | as `vamana` | `PrunedListNotEmpty` (violated) | |

`IInv` is `TypeOK` with what strengthens it, module by module:

* `reorder`, `groups`, `hnsw_forest`, `full_mst`, `search`, `pool`: the
  inductive invariants of section 4, which TLC checked before they were proved.
* `prim`: `KeysExact`, a key is the distance to the tree built so far; the
  `GroupContract`; and `CutsLightest`, which `hnsw_forest` and `full_mst` have too.
* `walk`, where it is called `RecallInv`: `LabelsAreIds`, `NoWorseThanParent`, `RecallExact`.
* `hnsw_build`: `ListsOK` (the asserts of `checkIntegrity` on lists, and the memory
  laid out for them), `NoneCutOff`, `LayersExist`, and `SearchOK`, what makes
  these inductive (section 4.9).
* `vamana`: `ListsOK`, `QueueOK` for the queue of every thread, and `ThreadsOK`,
  `CleanupOK` and `SearchOK`, what makes these inductive (section 4.10).
* `nsg`: `ListsBounded` of NN-descent, with `PoolsOK`, `WorkOK` and `JoinOK`, what
  makes `JoinExact` inductive (section 4.11); `CutOK` and `TreeOK` of the NSG
  (section 4.12). The proof strengthens it once more, by `BuildInv` of
  `NsgBuildProofs`.

`CHECK_DEADLOCK` is off throughout: each specification models a function that
returns, and after it has returned nothing more happens. That the function
does return is a liveness property wherever it is in doubt.

### 3.1 Why these bounds

* *Four queries* are the least number for which a forest can have two trees
  that both branch or chain, a cycle can exist beside a tree, and a subtree can
  be left and (wrongly) entered again. All lists over them are enumerated.
* *Three groups from four queries* include a cut that leaves a half empty, a
  cut of a singleton, ties in size, and more hyperplanes than needed. A group of
  three or four still has every local trajectory.
* *The distances* of the Prim runs contain ties, a value below the key of the
  root, and a value no comparison tells from infinity. With six pairs every
  assignment is covered.
* *The link graphs* are all directed graphs on four nodes, so one-way links in
  either direction, disconnected and complete ones are among them.
* *Search.* Four nodes and a beam of three or two make the beam overflow, lose a
  candidate, and stop with candidates left. Graphs are taken in all numberings,
  so distances that grow with the number, with and without ties, suffice. A
  pool of two among four nodes makes an insertion at the first place, one at the
  last, a jump back of the cursor, a random draw, and a list of links that fills
  the pool. The starts of `search` are one start over every graph, two starts
  over every graph, and two upper layers: the three ways into the main loop.
* *HNSW construction.* With six elements and `M = 2` upper lists fill up and are
  chosen again, the list of a hub in layer 0 too; three layers let the entry
  point change twice. Three sets of points: a star whose hub overflows, a line
  whose upper layers are long, and twins at distance zero.
* *Vamana.* Range 1 with slack 2 makes lists fill, be pruned, be written back
  over a list that has changed, and be cut in the cleanup; a queue of two among
  four points overflows. A chunk of one node gives the threads every division
  of the nodes. Both metrics, two layouts (one with a point twice), every medoid,
  a search from the medoid and from another entry point.
* *NSG.* Five points are the least that `GenRandom` allows for `S = 2`. A pool of three
  overflows, two rounds let the reverse lists matter, a row of two leaves
  something to prune. The four sets of points are picked so that `InterInsert`
  overwrites full lists by shorter ones, that several nodes are not reached at
  first, that a point occurs twice, and that an inner product equals the mark -1.
* *Three threads over four queries* give blocks of unequal size (2, 1, 1), the
  case in which a static schedule could lose a remainder.
* *Numbers.* No counter in the code can overflow at realistic sizes before
  memory runs out; none is capped in the models. Infinity is the number 9 in the
  configurations, above every path length that occurs.

### 3.2 Fairness

Each sequential program is given weak fairness of its next step: the process is
running and nothing makes it wait, so a step that is possible is eventually
taken. In `FullMst` there is weak fairness for every thread of the team and for
the sequential part: OpenMP threads are scheduled by the system and do not
block one another inside the loop. `VamanaLink` has the same for each of its
threads and the code between its loops; a lock is held for one action only, so
no thread waits for another. `NsgBuild` and `HnswBuild` need no more than weak
fairness of the whole, since every step is progress whoever takes it. No strong fairness is assumed anywhere, and
no liveness property needs a particular choice among equal elements. One
assumption about data is part of `Draw` in `PoolSearch`: draws of `rand()` that
repeat a node are not steps, so `Terminates` there says that the search ends
unless the generator misses a node for ever. It holds only while the pool is no
larger than the set of nodes; beyond that the loop of the code has no end, and
the premise of `Terminates` says so. `Terminates` of `NsgBuild` has a second end, the
`overrun` of a pool with fewer than `K` entries, which nothing in the code excludes.

### 3.3 Where the code and what it says part

`vamana_assert`. After pruning, the code asserts that the list is not empty:
`assert(pruned_list.size() > 0)` at `vamana_exp/DiskANN/src/index.cpp:1318`, and the
same at lines 1052 and 1206. The search for a node starts at the medoid, and
the node itself is removed from what the search has expanded. If the medoid is
linked before another node has put a link in its list, as when it is the first
node of the data, nothing remains: the search expands the medoid alone. The
build of `run_vamana.sh` has assertions enabled and would stop there; a Release
build of DiskANN's own CMake files has not, and goes on with a medoid without
links until another node links back to it. Of that build the run `vamana` shows
that no node but the medoid ends without a link (`NeverStranded`). For the medoid
this cannot be said: the run reaches finished graphs in which its list is empty,
because its thread sets the empty list after all others have linked back to it.
A search that starts at the medoid, as one without a seed does and as one does
whose parent was answered with the medoid, then has no link to follow and
answers with the medoid alone.

Read in the code while modelling it, without a run of their own:

* The comment at `hnsw_exp/hnswlib/hnswalg.h:1444` says that the main loop follows
  the search of the HNSW paper, which stops when the nearest candidate is
  farther than the farthest element found. `lowerBound` is initialised
  (line 1440) with the *least* distance of the starting points, so with several
  of them the loop can stop while one still is a candidate. With one, the case of
  `get_recall_optimized`, the two agree. `BeamClosed` has this as its premise;
  `NoWorseThanStart` holds in both.
* With one query and an LSH optimizer `mqo()` does not return: `sample_two(1)`
  (`mqo/basic.hpp:127`) draws until two numbers from `0 .. 0` differ.
* `checkIntegrity` (`hnswalg.h:1402`) asserts that every element has a link that
  leads to it. `addPoint` does not provide that: with six elements and `M = 2`,
  `HnswBuild` reaches states in which every neighbour of an element has dropped
  it from its list. Nothing calls `checkIntegrity`.
* `GenRandom` of efanna takes remainders by `N - size`, with `S` and then `2 S` for
  `size`: with exactly that many points it divides by zero. `NnAssumption` asks for
  more.

## 4. The proofs

All proofs are checked from the assumptions named in the modules:

* `NAssumption` (at least one query) wherever there are queries;
* `InputsAssumption` (one edge per query) for the reordering;
* `BAssumption` (at least one group) for the split and the group loop;
* `GraphsAssumption` (no query is linked to itself; distances are natural
  numbers or NaN) for the forest from HNSW;
* `FullMstAssumption` (at least one thread; distances are integers up to
  `Infinity`, which is positive) for the exact tree;
* `BuildAssumption` (at least one element and one link; the beam of the
  construction, `max(ef_construction, M)`, is no narrower than the links chosen
  from it; distances are symmetric integers) for the construction of the HNSW
  index;
* `WalkAssumption` (the entry point is an element, the coordinates are
  integers, the trajectory has passed `checkTrajectory`) for the walk;
* `BeamAssumption` and its `InputsAssumption` (the beam is at least as wide as
  `k`, which is positive, and not narrower than the set of starting points;
  links lead to nodes) for the HNSW search, `PoolAssumption` for the NSG
  search;
* `VamanaAssumption` (at least one point and one thread; the bounds are positive,
  the range within the memory of a list; at least one round of pruning;
  distances are integers, not necessarily symmetric) for Vamana;
* `NnAssumption` (the parameters are positive, `S` and `K` at most `L`, more than `2 * S`
  points, since `GenRandom` divides by `size - 2 * S`; the drawn ids are nodes; the
  team of threads is finite; distances are symmetric integers) for NN-descent;
* `NsgAssumption` (the parameters are positive, `NL` at most the number of points, or
  the code never fills its pool; the distances from the centre are integers) for
  the NSG.

They hold for every number of queries, threads, groups and elements, every
graph and every beam. Each component has its inductive invariant, `IInv`, which
a run checks; it is built of named parts, and its proof has one lemma for each
action.

### 4.1 `DfsReorderProofs`

`PrefixValid` (no query twice, parents first) is not inductive: the next edge
comes from the stack, and what is on the stack comes from child lists and
roots. `IInv` adds

* `PhaseInv`: which variables are empty or equal in which phase;
* `IndexInv`: the child lists and roots hold exactly the edges read so far,
  none twice;
* `WalkInv`: emitted, stacked and waiting queries are disjoint; everything
  stacked or emitted is an edge of the input; a stacked edge hangs below an
  emitted query; children of an emitted query are emitted or stacked;
* `Nested`: while a child of a query waits on the stack, what has been emitted
  since the query and what lies above the child is below that query;
* `OrderInv`: siblings keep the order of the list in the child lists and in
  `roots`, on the stack and in the result, and what is emitted comes before what
  is stacked, and both before the roots that wait.

`Inductive` has one lemma per action. The hard one is `VisitStep`: the children
of the query just popped are new, because in the input every query is the child
of one edge only. `WalkIsDepthFirst` proves both halves of `DepthFirst`.
`SubtreesWhole` needs `Nested`: it speaks of what is between two emitted queries,
but when the second is emitted that has already happened, so the stack must have
promised it (`DepthVisit`). `SiblingsInOrder` needs the rest of `OrderInv`: an edge
that is read stands behind all that were read before (`ReadLater`), and the
children pushed for a query are the first edges with that parent on the stack or
in the result (`OrderVisit`).

From `IInv` follow `TypeCorrect`, `PrefixAlwaysValid`, `AssertsTellForests`
(from `AssertsNeverFire` and `OnlyForestsAccepted`) and `Refinement`. That a
forest is emitted completely is an argument by least counterexample: of the
queries not emitted take one of least rank; its parent is emitted, so it is
emitted or stacked, and the stack is empty. Conversely the position in an
accepted result is a rank.

### 4.2 `GroupLoopProofs`

`EveryQueryInOnePlace` holds of the split because a cut is a partition, and of
the loop because a numbering is a bijection of local numbers with the group
(`NumberingBijective`) and what an optimizer returns covers all of them
(`LocalCovers`, by the pigeonhole lemma). It is not enough for the end: `IInv`
adds `LocalOK`, the parent of an edge still to be appended is further ahead in
the list or in the trajectory already, from which the order of the whole
follows; and the value of `sumEdges`. `Inductive` takes these through the cuts,
any order of the groups, and any result of an optimizer that meets the
contract; its long lemma is `AppendKeeps`, in which an edge moves from the list
into the trajectory and every claim about "ahead in the list" has to move with
it.

`StaysInGroup`: queries on the same side of every hyperplane drawn stay
together, so an edge never leads into another group. `DoneIsForest`: what the
loop returns would pass `checkTrajectory` as it is, and `N - sumEdges`, the
factor of the root weight in the average, is the number of its trees. That it
does return (`ReturnsForest`) is liveness and left to TLC.

### 4.3 `HnswForestProofs`

The claim that roots start only where nothing earlier leads
(`RootsAreUnreachable`) compares with all paths of the graph, written without
recursion: `Reaches(u, v)` if `v` is in every set that contains `u` and is
closed under links. Its two directions need different parts of `IInv`:

* a query that is no root is reached from the start of its tree, and the start
  is the smaller number: `ItemsOK`, every item of the heap is a link out of the
  tree of `start`, and `LoopOK`, all queries below `start` are visited;
* a root is reached by nothing smaller: `FrontierQueued`, a link out of the
  forest is in the heap, so an empty heap means that the forest is closed, and
  a closed set keeps out what is not in it (`ClosedKeepsOut`).

`EnterKeeps` covers the two actions that take a query into the forest, for both
functions. `EdgesAreLightest` is the cut property: an edge is a link, and none
that led out of the forest was shorter. It needs `FrontierQueued` with the very
item of each link and its distance, not just some item for the query, and that
stale items, whose query has been visited meanwhile, do no harm; its premise is
that no link kept has a distance without a square root, since with one the heap
may give up anything. `DoneIsComplete` and `Refinement` (every step emits a new
query after its parent or leaves the trajectory alone) follow, with no such
premise.

`ForestIsMinimum` turns the cut property into least weight. The weight of a set
of pairs is a fold; `WeightIs` states it as the value of a function that takes
one pair at a time (`Adds`), which exists and does not depend on the set whose
subsets it adds up (`AddsExists`, `AddsSame`). That a sum is any one element's
share and the sum of the rest (`SumTaken`), and that it grows with the set
(`SumGrows`), is shown by least counterexample among the subsets of a finite
set (`LeastSet`), which takes the place of induction over data. `Exchange` lets
a pair that crosses a cut take the place of another that does, in any spanning
set; instead of paths it speaks of closed sets, what hangs together with one
end inside the cut and with the other end beside that. `ChosenAreLight` leads
the exchange through the edges in the order they were chosen in, and `SumGrows`
drops what the spanning set has besides them. `ForestSpans` is the other half:
of a component torn apart by the forest, the query first in the trajectory on
either side would be a root, and the later of the two starts can be reached
from the earlier.

`CompletePasses` is about `TrajectorySpec` alone: what the abstract producer
emits passes `checkTrajectory` if and only if it is complete. So whoever
implements it has only to be complete.

### 4.4 `FullMstProofs`: the threads

`KeysExact`, the claim about the keys after the barrier, is not inductive:
inside the parallel region it is false of every query that its thread has not
come to. `LagsOnly` is what holds there: a query outside the tree knows its
distance to the whole tree, or to the tree without the query just taken while
some thread has it still before it. At the barrier no thread has anything
before it, because the blocks of the static schedule cover all queries
(`BlocksCover`, from the arithmetic of quotient and remainder in `First`), and
`KeysFollow` turns `LagsOnly` into `KeysExact`. `Measured` says not only the
distance but which query of the tree it is measured from: of several at that
distance the one taken first. Hence the outcome does not depend on the
schedule.

* `ThreadsApart`: threads that are still at work measure different queries, so
  the loop has no data race on `dist` and `parent`; again by the blocks, which
  are disjoint.
* `EdgesAreLightest`: the cut property under every schedule.
* `DoneIsForest`: with the root appended at the *end* of the file's edges, the
  sequence is a forest of queries that occur once, though not one with parents
  first, which is what the reordering asks for. It has the size that the assert
  asks for exactly if the finite distances connect the queries: if the loop
  breaks off, the set of visited queries is a cut that no finite distance
  crosses (`CutStops`); if it does not, the tree crosses every cut
  (`TreeJoins`).

* `TreeIsMinimum`: if the finite distances connect the queries, the finished
  tree is a spanning tree of least weight, and `totalWeight` is its weight. The
  argument is that of `ForestIsMinimum` in section 4.3, for a graph in which
  every pair may be taken; distances may be negative, so instead of dropping
  pairs the exchange keeps their number (`LightWith`), and a set of `N - 1` pairs
  that holds the whole tree is the tree (`GrownCounts`). `Grown` and `ByLightest`
  are all the argument asks of a tree. That the weight is right is an invariant
  beside `Core` (`Weighed`): the key of a query taken is the distance of a pair
  that the tree has not yet, which follows from `LagsOnly` at the barrier.

### 4.5 `FullMstProofs`: the sequential algorithm

`ImplementsSequential`: `FullMst` implements `PrimGroup`. The mapping shows the
key that a query *will* have: what its thread has still to measure (`Lags`)
counts as measured. So `Select` is the step `Grow` of the sequential algorithm,
with all its measurements at once, and the steps of the threads, the barrier
and the appended root are stutters: `RelaxMaps` is the claim that a thread
changes `dist` exactly to what the mapping showed already. The root, which
`get_mst` does not record, stands first in the mapped trajectory. Where
`get_mst` breaks off, `PrimGroup` overruns; with every query taken it is done.
The choice among equal distances is the same in both, which is part of the
claim: with `<=` in place of `<` the refinement fails (mutant `NearerOrEqual`)
though the tree is still of least weight.

`GroupMeetsContract` is about `PrimGroup` itself, instantiated over variables
of its own: the invariant its run checks, for every number of queries and all
distances up to `Infinity`. Keys are exact, every edge has the cut property,
and the edges have at every step what `GroupLoop` expects of the optimizer of a
group: no query twice, parents first, the first query is the only root, all
queries at the end. `GroupInv` strengthens it by what the keys are before the
first query is taken.

`GroupTreeIsMinimum` is `LeastTree` of its run, by the lemmas of the parallel
algorithm: a finished tree is of least weight, even where distances overflow.

What `GroupLoop` takes for granted of an optimizer (`LocalTrajectories`) is
thus proved of both: of Prim's algorithm here, if it comes to its end, and of
the forest from HNSW by `Inductive` and `DoneIsComplete` of section 4.3. What
the loop returns is then a trajectory by section 4.2.

### 4.6 `HnswQueryProofs`: the search

`NoWorseThanStart` speaks of the end; on the way there, `WalkInv` says that the
greedy walk never leads away from the query and that the beam always holds, for
every starting point, a node no farther than it. Popping the farthest keeps
this (`TrimFacts`), so `AnswerNoWorse` needs no premise about the graph, the
order of links or the number of starting points.

`BeamClosed` needs `BeamInv`: the links of an expanded node of the beam have
been examined, a visited node is outside the beam only if the beam is full of
nodes no farther than it, and `lowerBound` is the greatest distance in the
beam. The last part fails with several starting points (section 3.3), so
`BeamClosed` has `Cardinality(seeds) <= 1` as its premise, and `BeamIsClosed`
proves it; that is the case of `get_recall_optimized` and of a search from the
entry point.

`WideIsExact` compares with everything that can be reached from the starting
points. `ReachInv` gives one half, only what can be reached is ever visited.
For the other, a beam with room for every node is never full, so no node is
dropped from it, and the visited nodes are closed under links when the search
stops.

### 4.7 `PoolSearchProofs`

`PoolInv`: the pool is sorted, and an evaluated node is outside only if it is
no nearer than anything inside. `CursorInv`: before the cursor everything has
been expanded, but for what was inserted in this iteration, at `nk` or behind;
and the links of expanded nodes have been evaluated. `GatherInv`: so have the
links of the starting point. The work is in `InsertStep`: an insertion moves
every later node by one place, so the claim about positions before the cursor
has to be carried over the shift. `PoolIsClosed` and `StartIsKept` follow at
the end, when the cursor has left the pool.

`StartKept` is deliberately weaker than `NoWorseThanStart`: since the starting
point is not in the pool, its own distance is kept only if some node of the
final pool links back to it.

### 4.8 `HnswQueryProofs`: the walk over the trajectory

`RecallInv` is `RecallTypeOK`, `NoWorseThanParent`, `RecallExact` and `LabelsAreIds`, that
label and internal id coincide. `WalkInductive` shows that it is inductive: the
parent of the edge at hand is among the processed queries by `OrderAssert`, and
the child is not, by `Pigeonhole`; so the seed is an answer and no answer is
overwritten that an earlier edge refers to. `CountedOnce` and `SeedsAreAnswers`
are parts of the invariant; `Drift` follows with the triangle inequality.

### 4.9 `HnswForestProofs`: the construction of the index

The second half of the module instantiates `HnswBuild` over variables of its own
(`B`). `BuildInductive` is its `IInv`, one lemma per action again.

*The choice of links* comes first. `Chosen` is a set with a property, so it has to
be shown that there is one (`ChoiceExists`): of the sets of candidates without
one take the smallest and remove the candidate that comes last in the order of
the heap; what remains has one, and whether the last is kept depends on nothing
behind it. Then (`ChosenFacts`) at most `m` are kept, because the last one kept was
kept with all others counted, and one of the nearest is: nothing is ahead of it
that could stand in its way.

*The lists.* `ListsOK`, `NoneCutOff` and `LayersExist` speak of the elements
*linked* in a layer, and the element at work is one of them only in the layers
it is done with. `SearchOK` says what a search relies on meanwhile: that it is
in a layer of its element, that the links still to be examined are of that layer,
that the beam has been visited, so nothing enters it twice, and that an element
of the beam is no farther than where the search started. `AddStep`: a new
element is at once in the layers above all others, and there it is alone.
`ConnectStep`: the list of a chosen element is never longer than its memory and
never empty, and if that element was alone in the layer it is the one that was
chosen, so nobody stays cut off.

*What follows.* `BuildNeverFarther`: an element never gets farther from its place on
its way down, because the beam keeps one no farther (`ExamineStep`) and the choice
keeps one of the nearest, which is where the next layer goes on (`OwnFacts`).
`BuiltGraph`: the lists of layer 0 are a graph as `GraphsAssumption` asks for it, and
in a finished index every query has a link. So what section 4.3 proves of every
graph holds of the graphs that the program builds. That the links lead *back* is
not among it: that is what the code does not provide (section 3.3).

### 4.10 `VamanaLinkProofs`

*The queue.* `Holds` is what a queue promises: it is sorted, its cursor is at
the first unexpanded entry, and a node that was met and is not in it lies
behind its last entry, and then it is full. `InsertFacts` carries the first two
through an insertion. The binary search is a recursive function of its bounds,
so what it returns is shown by a least counterexample on their distance
(`PlaceFacts`); that it finds a node that is in the queue needs that the
distance of an entry is a function of its id, which is why `QueueOK` states the
distances. `HoldsInsert`, `HoldsPopped` and `FedFacts` are then the three
things a search does to its queue.

*The pruning.* `OccludeFacts`: in every round the chosen positions stay distinct and
at most `R`, and the first candidate is chosen in the first round, since nothing
can occlude it. Hence `PruneFacts`: at most `R` different candidates, never the
node itself, and one at least if there is any.

*The threads.* `IInv` adds to `TypeOK`, `ListsOK` and `QueueOK` what a thread holds at
each point of its work (`ThreadsOK`), where the cleanup is (`CleanupOK`) and what a
search has expanded (`SearchOK`). Its proof has one lemma for each action.
`LinksStay` is proved along with it. A list is replaced in three places, and in
each there is a candidate other than the node: for `SetLinks` the
medoid, which every search expands first; for `WriteBack` the node at hand,
which its copy of the list has although the list itself may by then be another;
for `Cleanup` the nodes of the list, which is longer than the range.
`InterInsert` only appends.

*The search in the finished graph.* When nothing is left to expand every entry has
been, so the links of every entry have been met, and `SearchIsClosed` is what
`Holds` says of them.

### 4.11 `NsgBuildProofs`: NN-descent

*Why it is not obvious.* In `join` any thread inserts into any pool, in any order,
and a full pool gives up its farthest entry. That the pools come out the same
whatever the order is what the parallel loop relies on, and it holds only
because the distance to the farthest entry never grows while a pool is full and
what has been given up is never nearer than what stayed.

*The invariant.* `JoinInv` is `NnTypeOK`, `PoolsOK`, `WorkOK` and `JoinOK`. `JoinOK`
says of a pool in the middle of a join that it holds only what is wanted
(`Wanted`: what it held before, and what is introduced to it no farther than
that), and that what it lacks of this is either still to come (`Pending`: nodes
not taken, nodes in a thread's chunk, insertions left of the node at hand) or no
nearer than anything in a full pool; and that nothing of the old pool has given
way while there is room. When the loop is over nothing is pending, and
`InvImplies` reads `JoinExact` off it.

*The steps.* `InsertStep` is the work: an insertion is refused (`Refused`), because
the id is there or the pool has nothing as far, or taken (`Taken`), with or
without an entry giving way. `Take` leaves `Pending` as it was: the insertions of
the node move from the chunk to the thread. `Merge` starts the next round with
the pools as they are. In `update` only flags change, so ids and sizes stay
(`Marked`).

*The lists.* `ListInv` says of every node that it is not in its own pool and that its
lists keep within their memory (`LimitsAt`). In the update that needs `BudgetOK`: the
new entries of a node's pool are in `nnNew` already or left in the work of the one
thread that has the node, `S` together at most. `Begin` takes no more than `S` new
entries into the work, each `Introduce` moves one, and no two threads have the same
node, because the shares of the static schedule are disjoint (`ShareApart`). A
reverse list grows to `RN` and then only exchanges its entries (`ReversedFacts`). When
the loop is over the rows that `Build` reads name `K` other nodes each, the nearest
first (`RowOK`).

*The folds.* `FlattenSeq`, `Sortings` and `Rows` are recursive functions; that they
return sequences over what they are given is shown by a least counterexample
on their argument.

### 4.12 `NsgBuildProofs`: the NSG

*The searches end.* A search is a recursive function of its state. That such a function
exists at all is `LoopExists`: the states from which the loop comes to an end
have their value, the others any value. That it ends is `LoopEnds`: a measure of
five numbers, compared from the left, goes down with every turn (`TurnFacts`):
nodes not yet seen, entries not yet expanded, whether a jump of the cursor is due,
distance of the cursor from the end of the pool, links left to examine. A node
seen for the first time may raise all the others, and no node is seen twice.
`SearchesType` is then what the construction needs of a search: a pool of nodes,
whatever the graph, the query and the random ids.

*No slot is read that was not written.* `Filled(x, slots, n)` says of a row of
`cut_graph_` that its first `n` slots name nodes and their distances, and that the next
one, if there is one, is marked. `CutInv` says of every row that it is `Filled`
for some `n` that is at least 1, from `SyncPrune` of its node to `Compact`, and that
the slot `InterInsert` has come to is one in use. A distance of -1 ends a list early,
and does no harm: what lies before it is still filled (`UsedFilled`). A choice of
fewer than the list had overwrites its first slots and leaves the old tail, which
named nodes before (`OverwriteFacts`). `InterInsert` never changes the row it is
reading: if `des = at`, then the slot at hand is in use and names the node, so the
node is in its own list already and nothing is inserted (`SlotInUse`).

*Every node is reached.* `TreeInv` has what `TreeOK` says and that every set of nodes
that contains `ep` and is closed under the links (`Closed`) contains what has been
reached. `Walk` adds a node that is linked from the one at hand. `FindRoot` adds a link from a
node reached to one that is not, after which only the new root leads outside of
what is reached, and the root is where the next walk begins. In the end everything
is reached; `ReachesAll` shows that `Reach[Size]` is closed, since each of its `Size` steps adds a
node or is the last that changes anything, so that it is the set of all nodes.

### 4.13 Model-checked only

Liveness: `Terminates`, `Completes`, `ReturnsForest` and `MinimumTree`, which say
that the end is reached; fairness and `ENABLED` are beyond the prover. Every
invariant is proved, and so is what `ReturnsForest` and `MinimumTree` say of the
end (`DoneIsForest`, `TreeIsMinimum`, `GroupTreeIsMinimum`).

## 5. Abstractions

* **Floating point.** Distances are integers. Rounding, and the reordering of
  sums that `-ffast-math` allows, are not modelled; what is modelled is that a
  distance may tie, be negative, be unusable in a comparison, or be NaN after
  `sqrt`. Under `-ffast-math` the compiler may assume that no NaN or infinity
  occurs; the models describe the build without that liberty. The factors of
  Vamana's pruning are kept exactly, in tenths.
* **The metric.** `SeededWalk` uses a line. Of the distance the proofs use that it
  is a natural number and satisfies the triangle inequality, which the inner
  product and the squared Euclidean distance of the program do not; for these
  `DriftBounded` holds for the root of the Euclidean distance only, and
  `NoWorseThanParent` without restriction. The constructions take any integers
  as distances; their runs use points in the plane.
* **Indexes.** `HnswForest`, `SeededSearch` and `PoolSearch` take every link graph on
  their nodes, so what they show holds for every index that a construction can
  leave, those of `HnswBuild` (`BuiltGraph`) and `NsgBuild` included.
* **Random numbers** are choices, in the constructions from a set of draws
  (`Starts`); levels of HNSW are any up to `Top`.
* **Locks.** A critical section is one action. The code never holds two locks at once
  in Vamana or efanna, so there is no order of locks to get wrong.

## 6. Not modelled

Most lines of the repository belong to three vendored libraries, of which the
program calls a small part. The share of all lines that the modules stand for
is small for that reason, and modelling more of those lines would say nothing
about this program. What is left out:

* **DiskANN** beyond `link` and the search in memory: indexes on disk and their
  caches, product quantization and its distance tables, partitioning, dynamic
  indexes with insertion, deletion and consolidation, filters and labels, the
  streaming and REST applications, Python bindings, and the hash tables in
  `include/tsl`, which are used as sets and maps.
* **efanna** beyond `Build`: k-d trees, refinement of a given graph, searches, saving.
* **HNSW** beyond `addPoint` and the searches that are called: marking as deleted, replacing
  and updating elements, resizing, filters and stop conditions, brute-force search,
  saving and loading. The program adds each label once and deletes none.
* **Distance kernels** (SIMD, `-ffast-math`): arithmetic on vectors. The AVX loops of
  `nsg_exp/nsg/include/efanna2e/distance.h` round a dimension up to a multiple
  of eight; distances are data in every module.
* **Functions without a caller**: `mqo_no_reorder`, three variants of the
  reordering, the two older mixed optimizers, `get_recall_optimized2` but for
  its search.
* **Input and output**: data, result and index files, time measurement, argument
  handling, scripts. `read_mst` from a damaged file is listed as a hazard.
* **Ground truth**: its parallel loop writes one row per iteration and shares
  nothing else.
* **The walks over NSG and Vamana**: the loop of `SeededWalk` word for word. Over
  Vamana the search keeps the promise `Found` of `SeededWalk` (`SearchClosed`);
  over NSG it keeps less (`StartKept`), so `NoWorseThanParent` is not claimed there.
* **Sweeps over beam sizes** of the drivers: a loop over one variable. Two
  hazards concern it, a beam that truncation keeps from growing and a beam that
  becomes negative.
* **The list of visited tags** (`visited_list_pool.h`): searches start with a
  fresh list in the models.

## 7. Plan

Done: the pipeline from the queries to the recall, the three searches, and the
construction of all three indexes, as models; every safety property of them is
proved.

Next, most important first:

1. That a search of `SeededSearch` is a step of `SeededWalk`.
2. `VisitedPool`: the pool of visited lists with its 16-bit tag.

## 8. Running

    tlc -config DfsReorder.cfg MCDfsReorder      # any pair from PROJECT.json
    tlapm DfsReorderProofs.tla

Most runs take seconds, `hnsw_build`, `pool` and `nsg` up to two minutes, with two
workers. The proofs take between a few seconds and a few
minutes per module, `NsgBuildProofs` and `VamanaLinkProofs` about six.
