------------------------------ MODULE PoolSearch ------------------------------
(***************************************************************************)
(* nsg_exp/nsg/src/index_nsg.cpp, SearchWithOptGraph_mine and Search_mine: *)
(* the search of the NSG index for the neighbours of one query, from a     *)
(* given starting point or from the navigating node.  The two differ in    *)
(* the layout of the graph only.                                           *)
(*                                                                         *)
(* The pool is a sorted array of fixed length L, worked through by a       *)
(* cursor k that jumps back when a node is inserted before it.  The        *)
(* starting point itself is not put in the pool, only nodes it links to    *)
(* and, if these are too few, random ones.  The query is data:             *)
(* input.dist[x] is its distance from node x.  A list of links may name a  *)
(* node twice, or its own node: NsgBuild makes such lists.  Positions      *)
(* count from 1.                                                           *)
(***************************************************************************)
EXTENDS Integers, FiniteSets, Sequences, Functions

CONSTANTS
  Nodes,       \* the elements of the graph
  L,           \* L_search, the beam size
  Inputs       \* records [links, dist, start]: final_graph_, the distances,
               \* and effective_entry

ASSUME PoolAssumption ==
  /\ IsFiniteSet(Nodes)
  /\ L \in Nat \ {0}
  /\ \A g \in Inputs :
       /\ g.links \in [Nodes -> Seq(Nodes)]
       /\ g.dist \in [Nodes -> Nat]
       /\ g.start \in Nodes

VARIABLES
  input,       \* the graph and the arguments
  flags,       \* nodes whose distance is taken once only
  pool,        \* retset, the nodes in it
  fresh,       \* nodes of the pool no entry of which has been expanded
  k,           \* the cursor
  nk,          \* least position of an insertion in this iteration
  scan,        \* links of the expanded node that are still to be examined
  pc           \* "gather", "draw", "search", "scan", "done"

vars == <<input, flags, pool, fresh, k, nk, scan, pc>>

dist == input.dist

Slots == 1 .. L

Init ==
  /\ input \in Inputs
  /\ flags = {}
  /\ pool = << >>
  /\ fresh = {}
  /\ k = 1
  /\ nk = L + 1
  /\ scan = {}
  /\ pc = "gather"

(* A faulty form: the pool is filled with random nodes only.               *)
GatherNone ==
  /\ pc = "gather"
  /\ pc' = "draw"
  /\ UNCHANGED <<input, flags, pool, fresh, k, nk, scan>>

(* The first L links of the starting point.                                *)
Gather ==
  /\ pc = "gather"
  /\ LET list == input.links[input.start]
     IN  pool' = IF Len(list) <= L THEN list ELSE [i \in Slots |-> list[i]]
  /\ flags' = Range(pool')
  /\ pc' = "draw"
  /\ UNCHANGED <<input, fresh, k, nk, scan>>

(* rand() % nd_; a draw of a node that is flagged changes nothing.         *)
Draw ==
  /\ pc = "draw"
  /\ Len(pool) < L
  /\ \E x \in Nodes \ flags : /\ flags' = flags \cup {x}
                              /\ pool' = Append(pool, x)
  /\ UNCHANGED <<input, fresh, k, nk, scan, pc>>

(* std::sort does not tell which of two equidistant nodes comes first.     *)
Sorted(p) == \A i, j \in Slots : i < j => dist[p[i]] <= dist[p[j]]

SortPool ==
  /\ pc = "draw"
  /\ Len(pool) = L
  /\ \E b \in Bijection(Slots, Slots) : pool' = [i \in Slots |-> pool[b[i]]]
  /\ Sorted(pool')
  /\ fresh' = flags
  /\ pc' = "search"
  /\ UNCHANGED <<input, flags, k, nk, scan>>

(* Faulty forms: the cursor never jumps back; it is not moved on.          *)
MovedOnly(n) == k + 1

MovedBackOnly(n) == IF n <= k THEN n ELSE k

(* The end of an iteration: back to the first insertion n, or on.          *)
Moved(n) == IF n <= k THEN n ELSE k + 1

(* A node that has been expanded is passed over.  A second entry of it     *)
(* would be expanded by the code, but finds all its links flagged.         *)
Pass ==
  /\ pc = "search"
  /\ k <= L
  /\ pool[k] \notin fresh
  /\ k' = Moved(L + 1)
  /\ UNCHANGED <<input, flags, pool, fresh, nk, scan, pc>>

Expand ==
  /\ pc = "search"
  /\ k <= L
  /\ pool[k] \in fresh
  /\ fresh' = fresh \ {pool[k]}
  /\ nk' = L + 1
  /\ scan' = Range(input.links[pool[k]])
  /\ pc' = "scan"
  /\ UNCHANGED <<input, flags, pool, k>>

(* A faulty form: one place too far behind.                                *)
PlaceTooLate(x) ==
  LET r == CHOOSE r \in Slots : /\ dist[pool[r]] > dist[x]
                                /\ \A i \in 1 .. r - 1 : dist[pool[i]] <= dist[x]
  IN  IF r < L THEN r + 1 ELSE r

(* Where InsertIntoPool puts x: before the first node that is farther.     *)
Place(x) ==
  CHOOSE r \in Slots : /\ dist[pool[r]] > dist[x]
                       /\ \A i \in 1 .. r - 1 : dist[pool[i]] <= dist[x]

(* The memmove, and the new node; what was last leaves the pool.           *)
Inserted(x, r) ==
  [i \in Slots |-> IF i < r THEN pool[i] ELSE IF i = r THEN x ELSE pool[i - 1]]

(* One iteration of the loop over the links of the expanded node.          *)
Examine ==
  /\ pc = "scan"
  /\ \E x \in scan :
       /\ scan' = scan \ {x}
       /\ flags' = flags \cup {x}
       /\ \/ /\ x \in flags \/ dist[x] >= dist[pool[L]]
             /\ UNCHANGED <<pool, fresh, nk>>
          \/ /\ x \notin flags /\ dist[x] < dist[pool[L]]
             /\ pool' = Inserted(x, Place(x))
             /\ fresh' = (fresh \cap Range(pool')) \cup {x}
             /\ nk' = IF Place(x) < nk THEN Place(x) ELSE nk
  /\ UNCHANGED <<input, k, pc>>

Advance ==
  /\ pc = "scan"
  /\ scan = {}
  /\ k' = Moved(nk)
  /\ pc' = "search"
  /\ UNCHANGED <<input, flags, pool, fresh, nk, scan>>

(* The cursor has left the pool; pool[1] is the answer.                    *)
Stop ==
  /\ pc = "search"
  /\ k > L
  /\ pc' = "done"
  /\ UNCHANGED <<input, flags, pool, fresh, k, nk, scan>>

Next ==
  Gather \/ Draw \/ SortPool \/ Pass \/ Expand \/ Examine \/ Advance \/ Stop

Spec == Init /\ [][Next]_vars /\ WF_vars(Next)

-------------------------------------------------------------------------------
TypeOK ==
  /\ input \in Inputs
  /\ flags \in SUBSET Nodes
  /\ IF pc \in {"gather", "draw"} THEN pool \in Seq(Nodes) /\ Len(pool) <= L
                                  ELSE pool \in [Slots -> Nodes]
  /\ fresh \in SUBSET Nodes
  /\ k \in 1 .. L + 1
  /\ nk \in 1 .. L + 1
  /\ scan \in SUBSET Nodes
  /\ pc \in {"gather", "draw", "search", "scan", "done"}

Pooled == {pool[i] : i \in Slots}

(* The pool is sorted and holds only nodes that have been evaluated; an    *)
(* evaluated node that is not in it is no nearer than any in it.           *)
PoolInv ==
  pc \notin {"gather", "draw"} =>
    /\ Sorted(pool)
    /\ Pooled \subseteq flags
    /\ \A x \in flags \ Pooled, i \in Slots : dist[pool[i]] <= dist[x]

(* Before the cursor every node has been expanded, but for the nodes put   *)
(* there in this iteration; the links of an expanded node have been        *)
(* evaluated, but for those still to be examined.                          *)
CursorInv ==
  /\ pc \in {"gather", "draw"} => k = 1
  /\ pc = "search" => \A i \in 1 .. k - 1 : pool[i] \notin fresh
  /\ pc = "scan" =>
       /\ k <= L
       /\ \A i \in 1 .. k : i < nk => pool[i] \notin fresh
  /\ pc = "done" => \A i \in Slots : pool[i] \notin fresh
  /\ pc # "scan" => scan = {}
  /\ pc \notin {"gather", "draw"} =>
       \A x \in Pooled \ fresh : Range(input.links[x]) \subseteq flags \cup scan

(* What is gathered is evaluated; the links of the starting point are, if  *)
(* its list has room in the pool.                                          *)
GatherInv ==
  /\ pc = "draw" => flags = Range(pool)
  /\ (pc # "gather" /\ Len(input.links[input.start]) <= L)
       => Range(input.links[input.start]) \subseteq flags

IInv == TypeOK /\ PoolInv /\ CursorInv /\ GatherInv

(* Whatever the jumps of the cursor, in the end the pool is closed: a link *)
(* from a node of the pool leads into it or to a node that is no nearer    *)
(* than the whole pool.                                                    *)
PoolClosed ==
  pc = "done" =>
    \A x \in Pooled : \A y \in Range(input.links[x]) \ Pooled :
      \A i \in Slots : dist[pool[i]] <= dist[y]

(* What is left of the promise of the seeded search, although the starting *)
(* point is not put in the pool: the answer is no worse than a node the    *)
(* starting point links to, if the beam has room for its links, and no     *)
(* worse than the starting point if a node of the final pool links back.   *)
StartKept ==
  pc = "done" =>
    /\ Len(input.links[input.start]) <= L =>
         \A y \in Range(input.links[input.start]) : dist[pool[1]] <= dist[y]
    /\ (\E x \in Pooled : input.start \in Range(input.links[x])) =>
         dist[pool[1]] <= dist[input.start]

(* The search ends, if there are nodes enough to fill the pool.            *)
Terminates == L <= Cardinality(Nodes) => <>(pc = "done")
===============================================================================
