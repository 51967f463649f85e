------------------------------- MODULE NsgBuild -------------------------------
(***************************************************************************)
(* nsg_exp/nsg/src/index_nsg.cpp, Build: the NSG made of the graph that    *)
(* NnDescent leaves, as build_nsg_l2 and build_nsg_ip put the two together *)
(* (through a file whose rows all have K ids).                             *)
(*                                                                         *)
(* The first loop of Link runs in parallel, but its iterations share       *)
(* nothing that changes; InterInsert is called outside of the parallel     *)
(* region, so the nodes are treated in their order.  What a search         *)
(* returns is left to the random ids that fill its pool and to the order   *)
(* of equidistant nodes.                                                   *)
(***************************************************************************)
EXTENDS NnDescent

CONSTANTS NL, NR, C      \* parameters L, R and C of the NSG

ASSUME NsgAssumption ==
  /\ {NL, NR, C} \subseteq Nat \ {0}
  /\ NL <= Size                          \* or the pool is never filled
  /\ \A w \in Worlds : w.center \in [Nodes -> Int]

VARIABLES
  step,        \* "enter", "link", "insert", "compact", "grow", "dfs", "done"
  links,       \* final_graph_ of the NSG
  ep,          \* ep_, the navigating node
  cut,         \* cut_graph_, NR slots [id, distance] for every node
  at,          \* the node of the loop, and
  slot,        \* its slot
  flags, cnt,  \* of tree_grow: nodes reached, and their number
  root, stack,
  width

tree == <<flags, cnt, root, stack, width>>
nsgVars == <<step, links, ep, cut, at, slot, tree>>
vars == <<nnVars, nsgVars>>

Unset == [id |-> -1, distance |-> 0]

NsgInit ==
  /\ step = "enter"
  /\ links = [x \in Nodes |-> << >>]
  /\ ep = -1
  /\ cut = [x \in Nodes |-> [i \in 1 .. NR |-> Unset]]
  /\ at = 0 /\ slot = 1
  /\ flags = {} /\ cnt = 0 /\ root = -1 /\ stack = << >>
  /\ width = NR

-------------------------------------------------------------------------------
(* get_neighbors.  A query is the function q of its distances.             *)

(* The pool at first: links of the starting point, random nodes, sorted.   *)
Pools(g, q, e) ==
  LET linked == SubSeq(g[e], 1, IF Len(g[e]) < NL THEN Len(g[e]) ELSE NL)
      rest   == {F \in SUBSET (Nodes \ Range(linked)) : Cardinality(F) = NL - Len(linked)}
  IN UNION {LET all == linked \o SetToSeq(F) IN
              {[i \in 1 .. NL |-> all[o[i]]] : o \in Sortings([i \in 1 .. NL |-> q[all[i]]])} :
            F \in rest}

(* The state of a search: seen are the nodes evaluated, full those of them *)
(* met on a link, k is the cursor, nk the first insertion of an iteration  *)
(* and scan what it has not examined of the links of the node at k.        *)
SearchStates ==
  [pool : [1 .. NL -> Entries], seen : SUBSET Nodes, full : SUBSET Nodes,
   k : 1 .. NL + 1, nk : 1 .. NL + 1, scan : Seq(Nodes)]

(* The next link; the pool takes the node before the first one farther.    *)
Examine(s, q) ==
  LET x == Head(s.scan)
      r == CHOOSE i \in 1 .. NL : /\ q[s.pool[i].id] > q[x]
                                  /\ \A j \in 1 .. i - 1 : q[s.pool[j].id] <= q[x]
      t == [s EXCEPT !.scan = Tail(@), !.seen = @ \cup {x},
                     !.full = IF x \in s.seen THEN @ ELSE @ \cup {x}]
  IN IF x \in s.seen \/ q[x] >= q[s.pool[NL].id] THEN t
     ELSE [t EXCEPT !.pool = SubSeq(InsertAt(@, r, [id |-> x, flag |-> TRUE]), 1, NL),
                    !.nk = IF r < @ THEN r ELSE @]

(* One turn: the next link, the jump of the cursor, the expansion of the   *)
(* node at the cursor, or on to the next node.                             *)
Turn(s, g, q) ==
  IF s.scan # << >> THEN Examine(s, q)
  ELSE IF s.nk <= s.k THEN [s EXCEPT !.k = s.nk, !.nk = NL + 1]
  ELSE IF s.pool[s.k].flag
  THEN [s EXCEPT !.pool[s.k].flag = FALSE, !.scan = g[s.pool[s.k].id]]
  ELSE [s EXCEPT !.k = @ + 1, !.nk = NL + 1]

(* What a search in g from e for the query q may return.                   *)
Searches(g, q, e) ==
  LET Run[s \in SearchStates] ==
        IF s.scan = << >> /\ s.k > NL THEN s ELSE Run[Turn(s, g, q)]
  IN {Run[[pool |-> [i \in 1 .. NL |-> [id |-> p[i], flag |-> TRUE]],
           seen |-> Range(p), full |-> {}, k |-> 1, nk |-> NL + 1, scan |-> << >>]] :
        p \in Pools(g, q, e)}

-------------------------------------------------------------------------------
(* init_graph: the node found nearest to the centre, from a random one.    *)
Enter ==
  /\ phase = "built" /\ step = "enter"
  /\ ep' \in UNION {{s.pool[1].id : s \in Searches(rows, world.center, e)} : e \in Nodes}
  /\ links' = rows
  /\ step' = "link"
  /\ UNCHANGED <<cut, at, slot, tree>>

(* Candidate c is dropped because of one that has been chosen.             *)
Occluded(chosen, c) ==
  \E i \in DOMAIN chosen :
    chosen[i].id = c.id \/ d(chosen[i].id, c.id) < c.distance

(* The choice from a sorted list, whose first is taken in any case.        *)
Select(list) ==
  LET Chosen[n \in 1 .. Len(list)] ==
        IF n = 1 THEN <<list[1]>>
        ELSE LET r == Chosen[n - 1] IN
               IF Len(r) >= NR \/ Occluded(r, list[n]) THEN r ELSE Append(r, list[n])
  IN Chosen[Len(list)]

Slot(x, y) == [id |-> y, distance |-> d(x, y)]

(* The chosen ones overwrite the slots from the first on.                  *)
Overwrite(slots, chosen) ==
  [i \in 1 .. NR |-> IF i <= Len(chosen) THEN chosen[i] ELSE slots[i]]

(* A faulty form: the slot behind the last one in use is not marked.       *)
TerminateNot(slots, i) == slots

(* The slot behind the last one in use is marked by the distance -1.       *)
Terminate(slots, i) ==
  IF i <= NR THEN [slots EXCEPT ![i].distance = -1] ELSE slots

(* The slots before the mark.                                              *)
Used(slots) ==
  LET marks == {i \in 1 .. NR : slots[i].distance = -1}
  IN IF marks = {} THEN slots
     ELSE SubSeq(slots, 1, (CHOOSE i \in marks : \A j \in marks : i <= j) - 1)

(* sync_prune: what may be chosen for x, of what a search has evaluated    *)
(* and the rest of the row, nearest first, without x itself if it is first.*)
Candidates(x) ==
  LET candidates == {Range(links[x]) \cup s.seen : s \in Searches(links, world.dist[x], ep)}
      sorted == UNION {Sortings([c \in {Slot(x, y) : y \in T} |-> c.distance]) : T \in candidates}
      from(p) == IF p[1].id = x THEN 2 ELSE 1
      last(p) == IF Len(p) < C THEN Len(p) ELSE C
  IN {Select(<<p[from(p)]>> \o SubSeq(p, from(p) + 1, last(p))) : p \in sorted}

SyncPrune ==
  /\ step = "link"
  /\ \E r \in Candidates(at) :
       cut' = [cut EXCEPT ![at] = Terminate(Overwrite(@, r), Len(r) + 1)]
  /\ IF at + 1 < Size THEN at' = at + 1 /\ step' = step
     ELSE at' = 0 /\ step' = "insert"
  /\ UNCHANGED <<links, ep, slot, tree>>

(* InterInsert, one slot of the node at hand: the list of des gets it, by  *)
(* a new choice if it is full.  A choice of fewer leaves the old tail.     *)
InterInsert ==
  /\ step = "insert"
  /\ slot <= NR
  /\ cut[at][slot].distance # -1
  /\ LET des  == cut[at][slot].id
         list == Used(cut[des])
         new  == [id |-> at, distance |-> cut[at][slot].distance]
         all  == Append(list, new)
     IN IF \E i \in DOMAIN list : list[i].id = at
        THEN cut' = cut
        ELSE IF Len(all) <= NR
        THEN cut' = [cut EXCEPT ![des] = Terminate(Overwrite(@, all), Len(all) + 1)]
        ELSE \E r \in {Select([i \in DOMAIN o |-> all[o[i]]]) :
                         o \in Sortings([i \in DOMAIN all |-> all[i].distance])} :
               cut' = [cut EXCEPT ![des] = Overwrite(@, r)]
  /\ slot' = slot + 1
  /\ UNCHANGED <<step, links, ep, at, tree>>

(* The node has no slot left, or none in use.                              *)
NextNode ==
  /\ step = "insert"
  /\ slot <= NR => cut[at][slot].distance = -1
  /\ slot' = 1
  /\ IF at + 1 < Size THEN at' = at + 1 /\ step' = step
     ELSE at' = 0 /\ step' = "compact"
  /\ UNCHANGED <<links, ep, cut, tree>>

(* Build copies the lists, of which none is taken to be empty, and gives   *)
(* cut_graph_ back.                                                        *)
Compact ==
  /\ step = "compact"
  /\ links' = [x \in Nodes |->
       [i \in 1 .. (IF Used(cut[x]) = << >> THEN 1 ELSE Len(Used(cut[x]))) |-> cut[x][i].id]]
  /\ cut' = [x \in Nodes |-> [i \in 1 .. NR |-> Unset]]
  /\ root' = ep
  /\ step' = "grow"
  /\ UNCHANGED <<ep, at, slot, flags, cnt, stack, width>>

-------------------------------------------------------------------------------
(* tree_grow                                                               *)

(* DFS begins at the root.                                                 *)
StartDFS ==
  /\ step = "grow"
  /\ stack' = <<root>>
  /\ flags' = flags \cup {root}
  /\ cnt' = IF root \in flags THEN cnt ELSE cnt + 1
  /\ step' = "dfs"
  /\ UNCHANGED <<links, ep, cut, at, slot, root, width>>

(* The first link of the node at hand that leads to a node not reached.    *)
Ahead ==
  LET here == links[Last(stack)] IN
    {here[i] : i \in {j \in DOMAIN here : /\ here[j] \notin flags
                                         /\ \A h \in 1 .. j - 1 : here[h] \in flags}}

(* A faulty form: a turn that goes back is counted as well.                *)
WalkCounts ==
  /\ step = "dfs"
  /\ stack # << >>
  /\ \/ \E y \in Ahead : /\ stack' = Append(stack, y)
                         /\ flags' = flags \cup {y}
                         /\ cnt' = cnt + 1
     \/ /\ Ahead = {}
        /\ stack' = Front(stack)
        /\ cnt' = cnt + 1 /\ flags' = flags
  /\ UNCHANGED <<step, links, ep, cut, at, slot, root, width>>

(* One turn of the loop of DFS: on to the first link that leads to a node  *)
(* not reached, or back.                                                   *)
Walk ==
  /\ step = "dfs"
  /\ stack # << >>
  /\ \/ \E y \in Ahead : /\ stack' = Append(stack, y)
                         /\ flags' = flags \cup {y}
                         /\ cnt' = cnt + 1
     \/ /\ Ahead = {}
        /\ stack' = Front(stack)
        /\ UNCHANGED <<flags, cnt>>
  /\ UNCHANGED <<step, links, ep, cut, at, slot, root, width>>

(* Whom findroot links to the node id: the nearest node reached that a     *)
(* search for id has met on a link, or else any.                           *)
Roots(id, s) ==
  LET met == s.full \cap flags IN
    IF met = {} THEN flags
    ELSE {x \in met : \A y \in met : d(id, x) <= d(id, y)}

(* A faulty form: a root is found and the link is not added.               *)
FindRootOnly ==
  /\ step = "dfs" /\ stack = << >>
  /\ cnt < Size
  /\ LET id == CHOOSE x \in Nodes \ flags : \A y \in Nodes \ flags : x <= y IN
       /\ root' \in UNION {Roots(id, s) : s \in Searches(links, world.dist[id], ep)}
  /\ step' = "grow"
  /\ UNCHANGED <<links, ep, cut, at, slot, flags, cnt, stack, width>>

(* findroot: the first node that is not reached gets a link.               *)
FindRoot ==
  /\ step = "dfs" /\ stack = << >>
  /\ cnt < Size
  /\ LET id == CHOOSE x \in Nodes \ flags : \A y \in Nodes \ flags : x <= y IN
       /\ root' \in UNION {Roots(id, s) : s \in Searches(links, world.dist[id], ep)}
       /\ links' = [links EXCEPT ![root'] = Append(@, id)]
  /\ step' = "grow"
  /\ UNCHANGED <<ep, cut, at, slot, flags, cnt, stack, width>>

(* All nodes are reached: the width grows to the longest list.             *)
Finish ==
  /\ step = "dfs" /\ stack = << >>
  /\ cnt >= Size
  /\ width' = CHOOSE w \in {width} \cup {Len(links[x]) : x \in Nodes} :
                w >= width /\ \A x \in Nodes : w >= Len(links[x])
  /\ step' = "done"
  /\ UNCHANGED <<links, ep, cut, at, slot, flags, cnt, root, stack>>

NsgNext ==
  Enter \/ SyncPrune \/ InterInsert \/ NextNode \/ Compact
  \/ StartDFS \/ Walk \/ FindRoot \/ Finish

Init == NnInit /\ NsgInit

Next == (NnNext /\ UNCHANGED nsgVars) \/ (NsgNext /\ UNCHANGED nnVars)

Spec ==
  /\ Init /\ [][Next]_vars
  /\ WF_vars(Next)

-------------------------------------------------------------------------------
NsgTypeOK ==
  /\ step \in {"enter", "link", "insert", "compact", "grow", "dfs", "done"}
  /\ links \in [Nodes -> Seq(Nodes)]
  /\ ep \in Nodes \cup {-1}
  /\ cut \in [Nodes -> [1 .. NR -> [id : Nodes \cup {-1}, distance : Int]]]
  /\ at \in Nodes /\ slot \in 1 .. NR + 1
  /\ flags \subseteq Nodes /\ cnt \in 0 .. Size
  /\ root \in Nodes \cup {-1} /\ stack \in Seq(Nodes)
  /\ width \in Nat

(* A slot in use names a node and its distance: memory that was never      *)
(* written is not read, although a list is ended by a distance that a pair *)
(* of nodes may have.                                                      *)
CutOK ==
  step \in {"insert", "compact"} =>
    \A x \in Nodes : \A i \in 1 .. (IF Used(cut[x]) = << >> THEN 1 ELSE Len(Used(cut[x]))) :
      cut[x][i].id \in Nodes /\ (i <= Len(Used(cut[x])) => cut[x][i].distance = d(x, cut[x][i].id))

(* tree_grow: the counter agrees with the flags, the stack is a path of    *)
(* links, and a node that DFS has left leads to nodes reached only.        *)
TreeOK ==
  step \in {"dfs", "done"} =>
    /\ cnt = Cardinality(flags)
    /\ Range(stack) \subseteq flags
    /\ \A i \in 2 .. Len(stack) : stack[i] \in Range(links[stack[i - 1]])
    /\ \A x \in flags \ Range(stack) : Range(links[x]) \subseteq flags

IInv == NnTypeOK /\ ListsBounded /\ PoolsOK /\ WorkOK /\ JoinOK /\ NsgTypeOK /\ CutOK /\ TreeOK

Reach[n \in 0 .. Size] ==
  IF n = 0 THEN {ep} ELSE Reach[n - 1] \cup UNION {Range(links[x]) : x \in Reach[n - 1]}

(* The finished graph leads from the navigating node to every node, with   *)
(* however many links lost in InterInsert, and each row fits in the width  *)
(* by which OptimizeGraph lays the rows out.                               *)
AllReachable ==
  step = "done" =>
    /\ Reach[Size] = Nodes
    /\ \A x \in Nodes : Len(links[x]) <= width

(* The construction ends, unless a pool is too small for its row.          *)
Terminates == <>(step = "done" \/ phase = "overrun")
===============================================================================
