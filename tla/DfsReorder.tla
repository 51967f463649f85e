------------------------------ MODULE DfsReorder ------------------------------
(***************************************************************************)
(* mqo/reorder.hpp, reorder_multiple_DFS, and the call of checkTrajectory  *)
(* that follows it in mqo/interface.hpp.                                   *)
(*                                                                         *)
(* The function indexes the edges by parent, then walks every tree depth   *)
(* first with an explicit stack.  The top of the stack is the head of the  *)
(* sequence stack: pushing a list of children in reverse puts the first    *)
(* child on top, so the pushed block reads in the order of the list.       *)
(*                                                                         *)
(* The array of child lists has edges.size() entries and is indexed by     *)
(* query; Inputs therefore holds sequences of length N, the length every   *)
(* producer returns.                                                       *)
(***************************************************************************)
EXTENDS Trajectory

CONSTANT Inputs                  \* the sequences of edges handed over

ASSUME InputsAssumption ==
  \A t \in Inputs : /\ t \in Seq(Edges)
                    /\ Len(t) = N
                    /\ EachChildOnce(t)

VARIABLES
  edges,       \* the argument, replaced by the result at the end
  next,        \* position of the edge the indexing loop reads next
  children,    \* child list of every query
  roots,       \* roots still to be walked
  stack,       \* stack of the depth-first walk, top first
  reordered,   \* edges emitted so far
  pc,          \* "index", "walk", "check", then "ok" or "abort"
  given        \* history: the argument as it was passed

vars == <<edges, next, children, roots, stack, reordered, pc, given>>

Init ==
  /\ edges \in Inputs
  /\ given = edges
  /\ next = 1
  /\ children = [q \in Queries |-> << >>]
  /\ roots = << >>
  /\ stack = << >>
  /\ reordered = << >>
  /\ pc = "index"

-------------------------------------------------------------------------------
(* Faulty forms of the steps below, each a slip the properties must catch. *)

(* Every child is hung below the first of its siblings.                    *)
ChildEdgesWrongParent(q) ==
  [i \in 1 .. Len(children[q]) |-> Edge(children[q][i], children[q][1])]

(* The children are pushed forward, so the last of them comes out first.   *)
ChildEdgesForward(q) ==
  LET d == Len(children[q])
  IN  [i \in 1 .. d |-> Edge(children[q][d + 1 - i], q)]

(* The finish waits for all queries instead of for an empty stack.         *)
FinishWhenComplete ==
  /\ pc = "walk"
  /\ stack = << >>
  /\ roots = << >>
  /\ Len(reordered) = N
  /\ edges' = reordered
  /\ pc' = "check"
  /\ UNCHANGED <<next, children, roots, stack, reordered, given>>
-------------------------------------------------------------------------------

(* One iteration of the loop that fills roots and the child lists.         *)
IndexEdge ==
  /\ pc = "index"
  /\ LET e == edges[next]
     IN  \/ /\ e.parent = Root
            /\ roots' = Append(roots, e.child)
            /\ UNCHANGED children
         \/ /\ e.parent # Root
            /\ children' = [children EXCEPT ![e.parent] = Append(@, e.child)]
            /\ UNCHANGED roots
  /\ next' = next + 1
  /\ pc' = IF next = Len(edges) THEN "walk" ELSE "index"
  /\ UNCHANGED <<edges, stack, reordered, given>>

(* The head of the loop over roots: a fresh stack that holds the root.     *)
PushRoot ==
  /\ pc = "walk"
  /\ stack = << >>
  /\ roots # << >>
  /\ stack' = <<Edge(Head(roots), Root)>>
  /\ roots' = Tail(roots)
  /\ UNCHANGED <<edges, next, children, reordered, pc, given>>

(* The block of edges pushed for the children of query q.                  *)
ChildEdges(q) == [i \in 1 .. Len(children[q]) |-> Edge(children[q][i], q)]

(* Faulty forms of Visit: top() without pop(), and a queue for the stack.  *)
VisitWithoutPop ==
  /\ pc = "walk"
  /\ stack # << >>
  /\ Len(reordered) < N + 2
  /\ reordered' = Append(reordered, Head(stack))
  /\ stack' = ChildEdges(Head(stack).child) \o stack
  /\ UNCHANGED <<edges, next, children, roots, pc, given>>

VisitBreadthFirst ==
  /\ pc = "walk"
  /\ stack # << >>
  /\ reordered' = Append(reordered, Head(stack))
  /\ stack' = Tail(stack) \o ChildEdges(Head(stack).child)
  /\ UNCHANGED <<edges, next, children, roots, pc, given>>

(* One iteration of the inner loop: pop, emit, push the children.          *)
Visit ==
  /\ pc = "walk"
  /\ stack # << >>
  /\ reordered' = Append(reordered, Head(stack))
  /\ stack' = ChildEdges(Head(stack).child) \o Tail(stack)
  /\ UNCHANGED <<edges, next, children, roots, pc, given>>

(* edges = std::move(reordered)                                            *)
Finish ==
  /\ pc = "walk"
  /\ stack = << >>
  /\ roots = << >>
  /\ edges' = reordered
  /\ pc' = "check"
  /\ UNCHANGED <<next, children, roots, stack, reordered, given>>

(* checkTrajectory(trajectory, n_query): abort on a failed assert.         *)
Check ==
  /\ pc = "check"
  /\ pc' = IF CheckTrajectory(edges) THEN "ok" ELSE "abort"
  /\ UNCHANGED <<edges, next, children, roots, stack, reordered, given>>

Next == IndexEdge \/ PushRoot \/ Visit \/ Finish \/ Check

Spec == Init /\ [][Next]_vars /\ WF_vars(Next)

-------------------------------------------------------------------------------
TypeOK ==
  /\ edges \in Seq(Edges)
  /\ given \in Inputs
  /\ next \in 1 .. N + 1
  /\ children \in [Queries -> Seq(Queries)]
  /\ roots \in Seq(Queries)
  /\ stack \in Seq(Edges)
  /\ reordered \in Seq(Edges)
  /\ pc \in {"index", "walk", "check", "ok", "abort"}

(* At every moment the emitted prefix has no query twice and every parent  *)
(* before its children, whatever the input: cyclic leftovers of a broken   *)
(* input are never walked, and no query is reached from two sides.         *)
PrefixValid == EachChildOnce(reordered) /\ OrderAssert(reordered)

(* On a forest none of the asserts of checkTrajectory fires.               *)
AssertsHold == IsForest(given) => pc # "abort"

(* checkTrajectory lets nothing else through: an input whose parents form  *)
(* a cycle is caught after the reordering.                                 *)
AcceptsOnlyForests == pc = "ok" => IsForest(given)

(* The asserts tell the forests from everything else.                      *)
AcceptsForests == AssertsHold /\ AcceptsOnlyForests

(* Between a query and its child only queries below the former are         *)
(* emitted, so a finished subtree is never entered again.                  *)
SubtreesWhole ==
  \A i, k \in DOMAIN reordered :
    reordered[k].parent = reordered[i].child =>
      \A m \in i + 1 .. k :
        \E l \in i .. m - 1 : reordered[m].parent = reordered[l].child

(* Edge e stands before edge f in list t.                                  *)
Precedes(t, e, f) == \E a, b \in DOMAIN t : a < b /\ t[a] = e /\ t[b] = f

(* The children of a query, and the roots, come in the order of the list.  *)
SiblingsInOrder ==
  \A i, k \in DOMAIN reordered :
    i < k /\ reordered[i].parent = reordered[k].parent =>
      Precedes(given, reordered[i], reordered[k])

(* Depth first: whatever the shape of the forest and the order of the      *)
(* list, a subtree comes out whole and siblings in the order of the list.  *)
DepthFirst == SubtreesWhole /\ SiblingsInOrder

(* The walk ends, also on an input with a cycle.                           *)
Terminates == <>(pc \in {"ok", "abort"})

(***************************************************************************)
(* The inductive invariant.  Indexing: the first next - 1 edges, and only  *)
(* those, have gone to the child list of their parent or to roots.         *)
(***************************************************************************)
Emitted == Children(reordered)

Stacked == Children(stack)

Waiting == {roots[i] : i \in DOMAIN roots}

Distinct(s) == \A i, j \in DOMAIN s : s[i] = s[j] => i = j

PhaseInv ==
  /\ pc = "index" => next \in 1 .. N /\ stack = << >> /\ reordered = << >>
  /\ pc # "index" => next = N + 1
  /\ pc \in {"index", "walk"} => edges = given
  /\ pc \in {"check", "ok", "abort"} =>
       edges = reordered /\ stack = << >> /\ roots = << >>
  /\ pc = "ok" => CheckTrajectory(edges)
  /\ pc = "abort" => ~ CheckTrajectory(edges)

IndexInv ==
  /\ \A p \in Queries : \A i \in DOMAIN children[p] :
       \E k \in 1 .. next - 1 : given[k] = Edge(children[p][i], p)
  /\ \A k \in 1 .. next - 1 : given[k].parent # Root =>
       \E i \in DOMAIN children[given[k].parent] :
         children[given[k].parent][i] = given[k].child
  /\ \A p \in Queries : Distinct(children[p])
  /\ \A q \in Waiting : \E k \in 1 .. next - 1 : given[k] = Edge(q, Root)
  /\ \A k \in 1 .. next - 1 :
       given[k].parent = Root => given[k].child \in Waiting \cup Stacked \cup Emitted
  /\ Distinct(roots)

(* The walk: what is emitted, stacked and waiting are disjoint parts of    *)
(* the input; a stacked edge hangs below an emitted query; the children of *)
(* an emitted query are emitted or on the stack.                           *)
WalkInv ==
  /\ \A i \in DOMAIN stack : \E k \in 1 .. N : given[k] = stack[i]
  /\ \A i \in DOMAIN reordered : \E k \in 1 .. N : given[k] = reordered[i]
  /\ EachChildOnce(stack)
  /\ Stacked \cap Emitted = {}
  /\ Waiting \cap (Stacked \cup Emitted) = {}
  /\ \A i \in DOMAIN stack : stack[i].parent \in Emitted \cup {Root}
  /\ pc # "index" => \A k \in 1 .. N :
       given[k].parent \in Emitted => given[k].child \in Emitted \cup Stacked

ReorderInv == TypeOK /\ PhaseInv /\ IndexInv /\ WalkInv /\ PrefixValid

(* Depth first: while a child of a query is on the stack, all that has     *)
(* been emitted since the query, and all that lies above the child on the  *)
(* stack, is below the query.                                              *)
Nested ==
  \A s \in DOMAIN stack : \A i \in DOMAIN reordered :
    stack[s].parent = reordered[i].child =>
      /\ \A m \in i + 1 .. Len(reordered) :
           \E l \in i .. m - 1 : reordered[m].parent = reordered[l].child
      /\ \A r \in 1 .. s - 1 :
           \E l \in i .. Len(reordered) : stack[r].parent = reordered[l].child

(* Siblings keep the order of the list on their way to the result: in the  *)
(* child lists and roots, ...                                              *)
ListsInOrder ==
  /\ \A p \in Queries : \A i, j \in DOMAIN children[p] :
       i < j => Precedes(given, Edge(children[p][i], p), Edge(children[p][j], p))
  /\ \A i, j \in DOMAIN roots :
       i < j => Precedes(given, Edge(roots[i], Root), Edge(roots[j], Root))

(* ... on the stack, where they are behind those already emitted, ...      *)
StackInOrder ==
  /\ \A i, j \in DOMAIN stack :
       i < j /\ stack[i].parent = stack[j].parent => Precedes(given, stack[i], stack[j])
  /\ \A i \in DOMAIN reordered : \A j \in DOMAIN stack :
       reordered[i].parent = stack[j].parent => Precedes(given, reordered[i], stack[j])

(* ... and roots that wait are behind those stacked or emitted.            *)
RootsInOrder ==
  \A j \in DOMAIN roots :
    /\ \A i \in DOMAIN reordered :
         reordered[i].parent = Root => Precedes(given, reordered[i], Edge(roots[j], Root))
    /\ \A i \in DOMAIN stack :
         stack[i].parent = Root => Precedes(given, stack[i], Edge(roots[j], Root))

OrderInv == ListsInOrder /\ StackInOrder /\ RootsInOrder /\ SiblingsInOrder

IInv == ReorderInv /\ Nested /\ SubtreesWhole /\ OrderInv

(* The emitted edges are a behaviour of the abstract specification.        *)
Abstract == INSTANCE TrajectorySpec WITH trajectory <- reordered

ImplementsTrajectory == Abstract!Safety
===============================================================================
