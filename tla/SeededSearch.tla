------------------------------ MODULE SeededSearch ------------------------------
(***************************************************************************)
(* hnsw_exp/hnswlib/hnswalg.h, searchKnn_mine and searchBaseLayerST_mine:  *)
(* the beam search for the neighbours of one query.  It starts from given  *)
(* nodes of the graph, the answers of an earlier query, or, without them,  *)
(* from the node at which a greedy walk through the upper layers ends.     *)
(*                                                                         *)
(* The query is data: input.dist[x] is its distance from node x.  The two  *)
(* heaps are sets of nodes, since visited keeps a node from entering one   *)
(* of them twice; which of several equidistant nodes is on top, and the    *)
(* order of a list of links, are left open.                                *)
(***************************************************************************)
EXTENDS Integers, Sequences, FiniteSets

CONSTANTS
  Nodes,       \* the elements of the graph
  Ef,          \* max(ef_, k), the width of the beam
  K,           \* number of neighbours asked for
  MaxDist,     \* numeric_limits<dist_t>::max()
  Inputs       \* records [links, upper, dist, entry, seeds]: the bottom layer,
               \* the sequence of upper layers, the distances, the entry point
               \* of the graph, and the starting points

ASSUME BeamAssumption ==
  /\ IsFiniteSet(Nodes)
  /\ K \in Nat \ {0}
  /\ Ef \in Nat /\ Ef >= K
  /\ MaxDist \in Nat

ASSUME InputsAssumption ==
  \A g \in Inputs :
    /\ g.links \in [Nodes -> SUBSET Nodes]
    /\ g.upper \in Seq([Nodes -> SUBSET Nodes])
    /\ g.dist \in [Nodes -> 0 .. MaxDist]
    /\ g.entry \in Nodes
    /\ g.seeds \in SUBSET Nodes /\ Cardinality(g.seeds) <= Ef

VARIABLES
  input,       \* the graph and the arguments
  level,       \* layer of the greedy walk
  curr,        \* currObj
  start,       \* starting_points, once they are known
  visited,     \* visited_array
  cand,        \* candidate_set
  top,         \* top_candidates
  bound,       \* lowerBound
  scan,        \* links of the current node that are still to be examined
  result,      \* the nodes returned
  pc           \* "descend", "enter", "search", "done"

walkVars == <<level, curr, start>>
beamVars == <<visited, cand, top, bound, scan, result>>

vars == <<input, level, curr, start, visited, cand, top, bound, scan, result, pc>>

dist == input.dist

Init ==
  /\ input \in Inputs
  /\ curr = input.entry
  /\ level = Len(input.upper)
  /\ start = input.seeds
  /\ visited = {}
  /\ cand = {}
  /\ top = {}
  /\ bound = MaxDist
  /\ scan = {}
  /\ result = {}
  /\ pc = IF input.seeds = {} THEN "descend" ELSE "enter"

Nearest(S) == {x \in S : \A y \in S : dist[x] <= dist[y]}

(* Faulty forms: one too many is left; the nearest are popped.             *)
TrimmedLate(S, n) ==
  {T \in SUBSET S :
     /\ Cardinality(T) = IF Cardinality(S) > n + 1 THEN n + 1 ELSE Cardinality(S)
     /\ \A x \in T, y \in S \ T : dist[x] <= dist[y]}

TrimmedNearest(S, n) ==
  {T \in SUBSET S :
     /\ Cardinality(T) = IF Cardinality(S) > n THEN n ELSE Cardinality(S)
     /\ \A x \in T, y \in S \ T : dist[x] >= dist[y]}

(* What is left of S after the farthest have been popped down to n.        *)
Trimmed(S, n) ==
  {T \in SUBSET S :
     /\ Cardinality(T) = IF Cardinality(S) > n THEN n ELSE Cardinality(S)
     /\ \A x \in T, y \in S \ T : dist[x] <= dist[y]}

(* A faulty form: equal distances count as nearer.                         *)
CloserOrEqual == {x \in input.upper[level][curr] : dist[x] <= dist[curr]}

(* The greedy walk: one pass over the links of curr ends at the nearest of *)
(* those nearer than curr.                                                 *)
Closer == {x \in input.upper[level][curr] : dist[x] < dist[curr]}

Move ==
  /\ pc = "descend"
  /\ level > 0
  /\ curr' \in Nearest(Closer)
  /\ UNCHANGED <<input, level, start, beamVars, pc>>

Down ==
  /\ pc = "descend"
  /\ level > 0
  /\ Closer = {}
  /\ level' = level - 1
  /\ UNCHANGED <<input, curr, start, beamVars, pc>>

Arrive ==
  /\ pc = "descend"
  /\ level = 0
  /\ start' = {curr}
  /\ pc' = "enter"
  /\ UNCHANGED <<input, level, curr, beamVars>>

(* The loop over ep_ids: lowerBound becomes the least of their distances.  *)
Enter ==
  /\ pc = "enter"
  /\ visited' = start
  /\ cand' = start
  /\ top' = start
  /\ bound' \in {dist[x] : x \in Nearest(start)}
  /\ pc' = "search"
  /\ UNCHANGED <<input, walkVars, scan, result>>

(* The head of the main loop: pop the nearest candidate.                   *)
Expand ==
  /\ pc = "search"
  /\ scan = {}
  /\ \E c \in Nearest(cand) :
       /\ dist[c] <= bound
       /\ cand' = cand \ {c}
       /\ scan' = input.links[c]
  /\ UNCHANGED <<input, walkVars, visited, top, bound, result, pc>>

(* Faulty forms of the test whether a node enters the beam.                *)
ConsiderNearerOnly(x) == dist[x] < bound

ConsiderIfRoom(x) == Cardinality(top) < Ef

(* flag_consider_candidate                                                 *)
Consider(x) == Cardinality(top) < Ef \/ dist[x] < bound

(* One iteration of the loop over the links of the current node.           *)
Examine ==
  /\ pc = "search"
  /\ \E x \in scan :
       /\ scan' = scan \ {x}
       /\ visited' = visited \cup {x}
       /\ \/ /\ x \notin visited /\ Consider(x)
             /\ cand' = cand \cup {x}
             /\ top' \in Trimmed(top \cup {x}, Ef)
             /\ bound' \in {dist[z] : z \in {w \in top' : \A y \in top' : dist[y] <= dist[w]}}
          \/ /\ x \in visited \/ ~ Consider(x)
             /\ UNCHANGED <<cand, top, bound>>
  /\ UNCHANGED <<input, walkVars, result, pc>>

(* No candidate is left, or the nearest is beyond lowerBound; searchKnn    *)
(* pops the beam down to k.                                                *)
Stop ==
  /\ pc = "search"
  /\ scan = {}
  /\ \A c \in Nearest(cand) : dist[c] > bound
  /\ result' \in Trimmed(top, K)
  /\ pc' = "done"
  /\ UNCHANGED <<input, walkVars, visited, cand, top, bound, scan>>

Next == Move \/ Down \/ Arrive \/ Enter \/ Expand \/ Examine \/ Stop

Spec == Init /\ [][Next]_vars /\ WF_vars(Next)

-------------------------------------------------------------------------------
TypeOK ==
  /\ input \in Inputs
  /\ level \in 0 .. Len(input.upper)
  /\ curr \in Nodes
  /\ start \in SUBSET Nodes /\ Cardinality(start) <= Ef
  /\ visited \in SUBSET Nodes
  /\ cand \in SUBSET visited
  /\ top \in SUBSET visited /\ Cardinality(top) <= Ef
  /\ bound \in 0 .. MaxDist
  /\ scan \in SUBSET Nodes
  /\ result \in SUBSET top
  /\ pc \in {"descend", "enter", "search", "done"}

(* The answer is at least as near as every starting point: an answer that  *)
(* was good for the parent query is never given up for a worse one.        *)
NoWorseThanStart ==
  pc = "done" =>
    \A s \in start \cup (IF input.seeds = {} THEN {input.entry} ELSE input.seeds) :
      \E r \in result : dist[r] <= dist[s]

(* From at most one starting point, the case of get_recall_optimized, the  *)
(* beam is closed when the search stops: a link that leads out of it leads *)
(* to a node that is no nearer than any in a full beam.  From several the  *)
(* search may stop before that, as lowerBound starts as the least of their *)
(* distances and not the greatest.                                         *)
BeamClosed ==
  (pc = "done" /\ Cardinality(input.seeds) <= 1) =>
    \A x \in top : \A y \in input.links[x] :
      y \in top \/ (Cardinality(top) = Ef /\ \A z \in top : dist[z] <= dist[y])

(* Reference: the nodes that paths from the starting points lead to.       *)
Reachable ==
  {y \in Nodes :
     \A S \in SUBSET Nodes :
       (start \subseteq S /\ \A x \in S : input.links[x] \subseteq S) => y \in S}

(* If the beam has room for all of them, one starting point leads to the k *)
(* nearest of them, or to all if there are fewer: the loop that pops k     *)
(* results does not read an empty heap if k nodes can be reached.          *)
ExactIfWide ==
  (pc = "done" /\ Cardinality(input.seeds) <= 1 /\ Cardinality(Reachable) <= Ef) =>
    /\ Cardinality(result) = IF Cardinality(Reachable) > K THEN K
                             ELSE Cardinality(Reachable)
    /\ \A r \in result, y \in Reachable \ result : dist[r] <= dist[y]

(* The strengthening the proofs need.  The walk never leads away from the  *)
(* query, and what is kept of the starting points is never given up.       *)
WalkInv ==
  /\ pc = "descend" => input.seeds = {} /\ dist[curr] <= dist[input.entry]
  /\ pc # "descend" => IF input.seeds = {}
                       THEN \E x \in Nodes : start = {x} /\ dist[x] <= dist[input.entry]
                       ELSE start = input.seeds
  /\ pc = "search" => \A s \in start : \E x \in top : dist[x] <= dist[s]
  /\ pc = "done" => \A s \in start : \E x \in result : dist[x] <= dist[s]

(* The links of an expanded node of the beam have been examined, but for   *)
(* those in scan.  From one starting point, moreover, a visited node is    *)
(* outside the beam only if the beam is full of nodes no farther than it,  *)
(* and lowerBound is the greatest distance in the beam.                    *)
BeamInv ==
  /\ \A x \in top \ cand : input.links[x] \subseteq visited \cup scan
  /\ pc # "search" => scan = {}
  /\ pc # "done" => result = {}
  /\ pc \in {"descend", "enter"} => visited = {}
  /\ (pc \in {"search", "done"} /\ Cardinality(input.seeds) <= 1) =>
       /\ \E z \in top : dist[z] = bound
       /\ \A x \in top : dist[x] <= bound
       /\ \A x \in top, y \in visited \ top :
            Cardinality(top) = Ef /\ dist[x] <= dist[y]
       /\ pc = "done" => top \cap cand = {}

(* Only nodes that can be reached are ever seen, the starting points are   *)
(* among them, and the answer is what the beam is popped down to.          *)
ReachInv ==
  /\ pc \in {"search", "done"} => start \subseteq visited
  /\ visited \cup scan \subseteq Reachable
  /\ pc = "done" => result \in Trimmed(top, K)

SearchInv == TypeOK /\ WalkInv /\ BeamInv

IInv == SearchInv /\ ReachInv

(* A walk through the layers and a beam search end.                        *)
Terminates == <>(pc = "done")
===============================================================================
