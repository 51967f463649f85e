------------------------------ MODULE HnswBuild ------------------------------
(***************************************************************************)
(* hnsw_exp/hnswlib/hnswalg.h, addPoint: the construction of the HNSW      *)
(* index.  The program adds the elements one by one, each with a new       *)
(* label, so an element is known by its position; the copy of the class    *)
(* in mqo/ann/hnswlib builds the index over the queries the same way.      *)
(* addPoint_modified of mqo/ann/build_ann_base_only.hpp does what addPoint *)
(* does when every draw is layer 0: its search stops at a candidate beyond *)
(* the beam although there is room, but until the beam overflows every     *)
(* candidate is in it.                                                     *)
(*                                                                         *)
(* An element draws its top layer, is brought near its place by greedy     *)
(* steps through the layers above it, and is then searched for and linked  *)
(* in each of its layers.  Distances are data.  No element is ever deleted *)
(* or updated, because the program does neither.                           *)
(***************************************************************************)
EXTENDS Integers, FiniteSets, Sequences, SequencesExt

CONSTANTS
  N,           \* max_elements
  M,           \* M_, the links an element chooses; the longest upper list
  Ef,          \* ef_construction_
  Top,         \* the bound of the layers a draw of getRandomLevel may give
  Metrics      \* the distances of the elements, functions of two of them

Elements == 0 .. N - 1
Layers == 0 .. Top

ASSUME BuildAssumption ==
  /\ N \in Nat \ {0} /\ M \in Nat \ {0} /\ Top \in Nat
  /\ Ef \in Nat /\ Ef >= M
  /\ \A d \in Metrics :
       /\ d \in [Elements -> [Elements -> Int]]
       /\ \A x, y \in Elements : d[x][y] = d[y][x]

VARIABLES
  dist,        \* the distances
  count,       \* cur_element_count
  level,       \* element_levels_
  links,       \* the lists of links, by layer and element
  entry,       \* enterpoint_node_
  obj,         \* currObj
  layer,       \* the layer at work
  beam,        \* top_candidates
  cand,        \* candidateSet
  visited,     \* the visited list
  rest,        \* links of the expanded element still to be examined
  pc           \* "add", "descend", "search"

index == <<dist, level, links, entry>>
vars == <<index, count, obj, layer, beam, cand, visited, rest, pc>>

cur == count - 1

maxlevel == level[entry]

Init ==
  /\ dist \in Metrics
  /\ count = 0
  /\ level = [x \in Elements |-> 0]
  /\ links = [l \in Layers |-> [x \in Elements |-> << >>]]
  /\ entry = 0
  /\ obj = 0
  /\ layer = 0
  /\ beam = {}
  /\ cand = {}
  /\ visited = {}
  /\ rest = << >>
  /\ pc = "add"

(* The first element becomes the entry point.                              *)
AddFirst ==
  /\ count = 0
  /\ \E l \in Layers : level' = [level EXCEPT ![0] = l]
  /\ count' = 1
  /\ UNCHANGED <<dist, links, entry, obj, layer, beam, cand, visited, rest, pc>>

(* Any other one starts at the entry point, in the top layer.              *)
Add ==
  /\ pc = "add"
  /\ count \in 1 .. N - 1
  /\ \E l \in Layers : level' = [level EXCEPT ![count] = l]
  /\ count' = count + 1
  /\ obj' = entry
  /\ layer' = maxlevel
  /\ pc' = "descend"
  /\ UNCHANGED <<dist, links, entry, beam, cand, visited, rest>>

(* A faulty form: a link as near as the current element is nearer.         *)
NearerOrEqual(list) == {i \in DOMAIN list : dist[cur][list[i]] <= dist[cur][obj]}

(* The places in a list of links nearer than the current element.          *)
Nearer(list) == {i \in DOMAIN list : dist[cur][list[i]] < dist[cur][obj]}

(* A pass over the list: on to the first of its nearest links, if that is  *)
(* nearer, else down.                                                      *)
Greedy ==
  /\ pc = "descend"
  /\ layer > level[cur]
  /\ LET list == links[layer][obj]
     IN  IF Nearer(list) = {} THEN layer' = layer - 1 /\ UNCHANGED obj
         ELSE /\ UNCHANGED layer
              /\ obj' = list[CHOOSE i \in Nearer(list) : \A j \in Nearer(list) :
                               LET di == dist[cur][list[i]]
                                   dj == dist[cur][list[j]]
                               IN  di < dj \/ (di = dj /\ i <= j)]
  /\ UNCHANGED <<index, count, beam, cand, visited, rest, pc>>

(* searchBaseLayer starts from the current element.                        *)
Enter ==
  /\ pc = "descend"
  /\ layer <= level[cur]
  /\ beam' = {obj}
  /\ cand' = {obj}
  /\ visited' = {obj}
  /\ pc' = "search"
  /\ UNCHANGED <<index, count, obj, layer, rest>>

Nearest(S) == {x \in S : \A y \in S : dist[cur][x] <= dist[cur][y]}
Farthest(S) == {x \in S : \A y \in S : dist[cur][x] >= dist[cur][y]}

(* What may still be expanded: the nearest candidate, but not if it is     *)
(* beyond a full beam.                                                     *)
Promising ==
  {x \in Nearest(cand) : \/ Cardinality(beam) # Ef
                         \/ \E y \in beam : dist[cur][x] <= dist[cur][y]}

Expand ==
  /\ pc = "search"
  /\ rest = << >>
  /\ \E x \in Promising : /\ cand' = cand \ {x}
                          /\ rest' = links[layer][x]
  /\ UNCHANGED <<index, count, obj, layer, beam, visited, pc>>

(* What the beam may be with y in it: the farthest leaves if it overflows. *)
Trimmed(y) ==
  IF Cardinality(beam) < Ef THEN {beam \cup {y}}
  ELSE {(beam \cup {y}) \ {z} : z \in Farthest(beam \cup {y})}

(* One link of the expanded element.                                       *)
Examine ==
  /\ pc = "search"
  /\ rest # << >>
  /\ LET y == Head(rest)
     IN  /\ visited' = visited \cup {y}
         /\ IF /\ y \notin visited
               /\ \/ Cardinality(beam) < Ef
                  \/ \E z \in beam : dist[cur][z] > dist[cur][y]
            THEN cand' = cand \cup {y} /\ beam' \in Trimmed(y)
            ELSE UNCHANGED <<cand, beam>>
  /\ rest' = Tail(rest)
  /\ UNCHANGED <<index, count, obj, layer, pc>>

(* The order of queue_closest: the larger number first among equals.       *)
Ahead(z, y, x) == dist[x][z] < dist[x][y] \/ (dist[x][z] = dist[x][y] /\ z > y)

(* Whether y is kept besides what is kept of the candidates ahead of it:   *)
(* if there is room, and none of them is nearer to y than x is.            *)
Kept(y, ahead, x, m) ==
  Cardinality(ahead) < m /\ \A z \in ahead : dist[z][y] >= dist[x][y]

(* getNeighborsByHeuristic2: fewer than m candidates are all kept.         *)
Chosen(S, x, m) ==
  IF Cardinality(S) < m THEN S
  ELSE CHOOSE kept \in SUBSET S :
         \A y \in S : y \in kept <=> Kept(y, {z \in kept : Ahead(z, y, x)}, x, m)

(* The orders in which a heap may give up the links of x, farthest first.  *)
Arranged(S, x) ==
  {list \in SetToSeqs(S) :
     \A i, j \in DOMAIN list : i < j => dist[x][list[i]] >= dist[x][list[j]]}

Capacity == IF layer = 0 THEN 2 * M ELSE M

(* A faulty form: one link more than the list has room for.                *)
WithNewTooLate(n) ==
  LET list == links[layer][n]
  IN  IF Len(list) <= Capacity THEN {Append(list, cur)}
      ELSE Arranged(Chosen(Range(list) \cup {cur}, n, Capacity), n)

(* The list of n with the new element: behind it, or chosen again.         *)
WithNew(n) ==
  LET list == links[layer][n]
  IN  IF Len(list) < Capacity THEN {Append(list, cur)}
      ELSE Arranged(Chosen(Range(list) \cup {cur}, n, Capacity), n)

(* A faulty form: on with the farthest of the chosen (front for back).     *)
OntoFarthest(own) == own[1]

(* next_closest_entry_point, where the search of the next layer starts.    *)
Onto(own) == own[Len(own)]

(* mutuallyConnectNewElement, on the search's end: the element takes the   *)
(* chosen links, and each of these takes it.  After layer 0 it is the new  *)
(* entry point if its top layer is the highest.                            *)
Connect ==
  /\ pc = "search"
  /\ rest = << >>
  /\ Promising = {}
  /\ \E own \in Arranged(Chosen(beam, cur, M), cur) :
       /\ \E back \in [Range(own) -> UNION {WithNew(n) : n \in Range(own)}] :
            /\ \A n \in Range(own) : back[n] \in WithNew(n)
            /\ links' = [links EXCEPT ![layer] =
                 [n \in Elements |-> IF n = cur THEN own
                                     ELSE IF n \in Range(own) THEN back[n]
                                     ELSE links[layer][n]]]
       /\ obj' = Onto(own)
  /\ beam' = {} /\ cand' = {} /\ visited' = {}
  /\ IF layer > 0 THEN layer' = layer - 1 /\ pc' = "descend" /\ UNCHANGED entry
     ELSE /\ entry' = IF level[cur] > maxlevel THEN cur ELSE entry
          /\ pc' = "add"
          /\ UNCHANGED layer
  /\ UNCHANGED <<dist, count, level, rest>>

Next == AddFirst \/ Add \/ Greedy \/ Enter \/ Expand \/ Examine \/ Connect

Spec == Init /\ [][Next]_vars /\ WF_vars(Next)

-------------------------------------------------------------------------------
TypeOK ==
  /\ dist \in Metrics
  /\ count \in 0 .. N
  /\ level \in [Elements -> Layers]
  /\ links \in [Layers -> [Elements -> Seq(Elements)]]
  /\ entry \in Elements /\ obj \in Elements
  /\ layer \in Layers
  /\ beam \in SUBSET Elements /\ cand \in SUBSET Elements
  /\ visited \in SUBSET Elements
  /\ rest \in Seq(Elements)
  /\ pc \in {"add", "descend", "search"}

Present == 0 .. count - 1

(* The elements of a layer that are linked, or may be linked to, in it.    *)
Linked(l) ==
  {x \in Present : /\ level[x] >= l
                   /\ pc # "add" /\ x = cur => l > layer}

(* The asserts of checkIntegrity on a list, and what mutuallyConnect-      *)
(* NewElement throws about: links lead to elements of the layer, never to  *)
(* the element itself or twice to one, and are no more than the list has   *)
(* room for.                                                               *)
ListsOK ==
  \A l \in Layers, x \in Elements :
    LET list == links[l][x]
    IN  /\ Len(list) <= (IF l = 0 THEN 2 * M ELSE M)
        /\ list # << >> => x \in Linked(l)
        /\ Range(list) \subseteq Linked(l) \ {x}
        /\ Cardinality(Range(list)) = Len(list)

(* No element of a layer with two or more is without a link in it.         *)
NoneCutOff ==
  \A l \in Layers : Cardinality(Linked(l)) > 1 =>
    \A x \in Linked(l) : links[l][x] # << >>

(* The entry point is in the highest layer, and no list is read, or beam   *)
(* used, of a layer its element is not in.                                 *)
LayersExist ==
  /\ count > 0 => entry \in Present
  /\ \A x \in Present \ (IF pc = "add" THEN {} ELSE {cur}) : level[x] <= maxlevel
  /\ pc # "add" => obj \in Linked(layer)
  /\ pc = "search" => /\ beam # {} /\ Cardinality(beam) <= Ef
                      /\ beam \cup cand \subseteq Linked(layer)

(* Between two insertions nothing is half examined; during a search what   *)
(* is examined is in the layer, and the beam, all of it visited, holds an  *)
(* element no farther than the one the search started from.                *)
SearchOK ==
  /\ count = 0 => entry = 0
  /\ pc # "add" => count > 1
  /\ pc # "search" => rest = << >>
  /\ pc = "search" => /\ layer <= level[cur]
                      /\ Range(rest) \subseteq Linked(layer)
                      /\ beam \subseteq visited
                      /\ \E y \in beam : dist[cur][y] <= dist[cur][obj]

IInv == TypeOK /\ ListsOK /\ NoneCutOff /\ LayersExist /\ SearchOK

(* Down through the layers, over all trimming of beams and choosing of     *)
(* links, an element that is added never gets farther from its place, and  *)
(* where it ends is a link of it: so it has a link in layer 0 that is no   *)
(* farther than the entry point.                                           *)
NeverFarther ==
  [][pc # "add" => /\ dist[cur][obj'] <= dist[cur][obj]
                   /\ pc' = "add" => obj' \in Range(links'[0][cur])]_vars

(* Every element is added: no greedy walk goes in circles.                 *)
Terminates == <>(count = N /\ pc = "add")
===============================================================================
