--------------------------- MODULE DfsReorderProofs ---------------------------
(***************************************************************************)
(* Proofs about DfsReorder, for every number of queries and every set of   *)
(* inputs allowed by InputsAssumption.                                     *)
(***************************************************************************)
EXTENDS DfsReorder, FiniteSetTheorems, FunctionTheorems, SequenceTheorems,
        WellFoundedInduction, TLAPS

-------------------------------------------------------------------------------
(* Sequences of edges.                                                     *)

LEMMA EdgeFields ==
  \A x, y : Edge(x, y).child = x /\ Edge(x, y).parent = y
BY DEF Edge

(* The fields of an edge are a query and a query or Root.                  *)
LEMMA EdgeShape ==
  \A e \in Edges : /\ e.child \in Queries
                   /\ e.parent \in Queries \cup {Root}
                   /\ e = Edge(e.child, e.parent)
BY DEF Edges, Edge

(* What t \in Seq(Edges) says of the positions of t.                       *)
LEMMA EdgesAt ==
  ASSUME NEW t \in Seq(Edges)
  PROVE  /\ Len(t) \in Nat
         /\ DOMAIN t = 1 .. Len(t)
         /\ \A i \in 1 .. Len(t) : t[i] \in Edges /\ t[i].child \in Queries
<1>1. Len(t) \in Nat /\ DOMAIN t = 1 .. Len(t)
  BY LenProperties
<1>2. \A i \in 1 .. Len(t) : t[i] \in Edges
  BY <1>1, ElementOfSeq
<1> QED
  BY <1>1, <1>2, EdgeShape

LEMMA QueriesFinite ==
  IsFiniteSet(Queries) /\ Cardinality(Queries) = N
<1>1. 0 \in Int /\ N - 1 \in Int /\ ~ (0 > N - 1)
  BY NAssumption
<1> QED
  BY <1>1, NAssumption, FS_Interval DEF Queries

(* The children of t as a function of the position.                        *)
LEMMA ChildFunction ==
  ASSUME NEW t \in Seq(Edges), EachChildOnce(t),
         NEW f, f = [i \in 1 .. Len(t) |-> t[i].child]
  PROVE  /\ f \in Injection(1 .. Len(t), Queries)
         /\ IsFiniteSet(1 .. Len(t)) /\ Cardinality(1 .. Len(t)) = Len(t)
         /\ f \in Surjection(1 .. Len(t), Queries) <=> Children(t) = Queries
<1>1. f \in [1 .. Len(t) -> Queries]
  BY EdgesAt
<1>2. IsInjective(f)
  BY EdgesAt DEF IsInjective, EachChildOnce
<1>3. f \in Injection(1 .. Len(t), Queries)
  BY <1>1, <1>2 DEF Injection
<1>4. IsFiniteSet(1 .. Len(t)) /\ Cardinality(1 .. Len(t)) = Len(t)
  <2>1. 1 \in Int /\ Len(t) \in Int /\ Len(t) \in Nat
    BY EdgesAt
  <2>2. IF 1 > Len(t) THEN Len(t) = 0 ELSE Len(t) - 1 + 1 = Len(t)
    BY <2>1
  <2> QED
    BY <2>1, <2>2, FS_Interval
<1>5. f \in Surjection(1 .. Len(t), Queries) <=> Children(t) = Queries
  BY <1>1, EdgesAt DEF Surjection, Children
<1> QED
  BY <1>3, <1>4, <1>5

(* N edges with different children cover the queries, and a cover without  *)
(* repetition has N edges.                                                 *)
LEMMA Pigeonhole ==
  ASSUME NEW t \in Seq(Edges), EachChildOnce(t)
  PROVE  Len(t) = N <=> Children(t) = Queries
<1>1. PICK f : f = [i \in 1 .. Len(t) |-> t[i].child]
  OBVIOUS
<1>2. /\ f \in Injection(1 .. Len(t), Queries)
      /\ IsFiniteSet(1 .. Len(t)) /\ Cardinality(1 .. Len(t)) = Len(t)
      /\ f \in Surjection(1 .. Len(t), Queries) <=> Children(t) = Queries
  BY <1>1, ChildFunction
<1>3. Cardinality(1 .. Len(t)) = Cardinality(Queries)
        <=> f \in Surjection(1 .. Len(t), Queries)
  BY <1>2, QueriesFinite, FS_Injection
<1> QED
  BY <1>2, <1>3, QueriesFinite

(* What appending an edge does to the positions and to the children.       *)
LEMMA Appending ==
  ASSUME NEW t \in Seq(Edges), NEW e \in Edges, NEW s, s = Append(t, e)
  PROVE  /\ s \in Seq(Edges) /\ Len(s) = Len(t) + 1
         /\ Len(t) \in Nat /\ DOMAIN t = 1 .. Len(t) /\ DOMAIN s = 1 .. Len(t) + 1
         /\ \A i \in 1 .. Len(t) : s[i] = t[i]
         /\ s[Len(t) + 1] = e
BY EdgesAt, AppendProperties

LEMMA LeastNumber ==
  ASSUME NEW T \in SUBSET Nat, T # {}
  PROVE  \E m \in T : \A x \in T : m <= x
<1> DEFINE R == OpToRel(<, Nat)
<1>1. PICK m \in T : \A x \in T : ~ (<<x, m>> \in R)
  <2>1. IsWellFoundedOn(R, Nat)
    BY NatLessThanWellFounded
  <2> HIDE DEF R
  <2> QED
    BY <2>1, WFMin
<1>2. \A x \in T : ~ (x < m)
  BY <1>1 DEF OpToRel
<1> QED
  BY <1>2

(* A nonempty set of queries has a member of least rank.                   *)
LEMMA LeastRank ==
  ASSUME NEW rank \in [Queries -> Queries], NEW Q \in SUBSET Queries, Q # {}
  PROVE  \E q \in Q : \A p \in Q : ~ (rank[p] < rank[q])
<1> DEFINE T == {rank[q] : q \in Q}
<1>1. T \in SUBSET Nat /\ T # {}
  <2>1. Queries \subseteq Nat
    BY NAssumption DEF Queries
  <2>2. \A q \in Q : rank[q] \in Nat
    BY <2>1
  <2> QED
    BY <2>2
<1>2. PICK m \in T : \A x \in T : m <= x
  <2> HIDE DEF T
  <2> QED
    BY <1>1, LeastNumber
<1>3. m \in Nat /\ \A x \in T : x \in Nat
  BY <1>1
<1>4. PICK q \in Q : m = rank[q]
  BY <1>2
<1>5. ASSUME NEW p \in Q PROVE ~ (rank[p] < rank[q])
  <2>1. rank[p] \in T
    OBVIOUS
  <2> HIDE DEF T
  <2>2. m <= rank[p] /\ m \in Nat /\ rank[p] \in Nat
    BY <1>2, <1>3, <2>1
  <2> QED
    BY <1>4, <2>2
<1> QED
  BY <1>5

-------------------------------------------------------------------------------
(* A block b pushed in place of the top of the stack s.                    *)
LEMMA PushBlock ==
  ASSUME NEW S, NEW s \in Seq(S), s # << >>, NEW b \in Seq(S)
  PROVE  /\ Head(s) \in S
         /\ b \o Tail(s) \in Seq(S)
         /\ Len(b \o Tail(s)) = Len(b) + Len(s) - 1
         /\ \A i \in 1 .. Len(b) : (b \o Tail(s))[i] = b[i]
         /\ \A i \in Len(b) + 1 .. Len(b) + Len(s) - 1 :
              (b \o Tail(s))[i] = s[i - Len(b) + 1]
<1>1. /\ Head(s) \in S
      /\ Tail(s) \in Seq(S)
      /\ Len(Tail(s)) = Len(s) - 1
      /\ \A i \in 1 .. Len(Tail(s)) : Tail(s)[i] = s[i + 1]
  BY HeadTailProperties
<1>2. Len(b) \in Nat /\ Len(s) \in Nat
  BY LenProperties
<1>3. /\ b \o Tail(s) \in Seq(S)
      /\ Len(b \o Tail(s)) = Len(b) + Len(Tail(s))
      /\ \A i \in 1 .. Len(b) + Len(Tail(s)) :
           (b \o Tail(s))[i] = IF i <= Len(b) THEN b[i] ELSE Tail(s)[i - Len(b)]
  BY <1>1, ConcatProperties
<1>4. \A i \in 1 .. Len(b) : (b \o Tail(s))[i] = b[i]
  <2> TAKE i \in 1 .. Len(b)
  <2>1. i \in 1 .. Len(b) + Len(Tail(s)) /\ i <= Len(b)
    <3>1. Len(Tail(s)) \in Nat
      BY <1>1, LenProperties
    <3> QED
      BY <3>1, <1>2
  <2> QED
    BY <2>1, <1>3
<1>5. \A i \in Len(b) + 1 .. Len(b) + Len(s) - 1 :
        (b \o Tail(s))[i] = s[i - Len(b) + 1]
  <2> TAKE i \in Len(b) + 1 .. Len(b) + Len(s) - 1
  <2>1. i \in 1 .. Len(b) + Len(Tail(s)) /\ ~ (i <= Len(b))
    BY <1>1, <1>2
  <2>2. i - Len(b) \in 1 .. Len(Tail(s))
    BY <1>1, <1>2
  <2> QED
    BY <2>1, <2>2, <1>1, <1>3
<1> QED
  BY <1>1, <1>2, <1>3, <1>4, <1>5

LEMMA ChildEdgesFacts ==
  ASSUME TypeOK, NEW q \in Queries
  PROVE  /\ children[q] \in Seq(Queries)
         /\ Len(children[q]) \in Nat
         /\ DOMAIN children[q] = 1 .. Len(children[q])
         /\ \A i \in 1 .. Len(children[q]) : children[q][i] \in Queries
         /\ ChildEdges(q) \in Seq(Edges)
         /\ Len(ChildEdges(q)) = Len(children[q])
         /\ \A i \in 1 .. Len(children[q]) :
              ChildEdges(q)[i] = Edge(children[q][i], q)
<1>1. children[q] \in Seq(Queries)
  BY DEF TypeOK
<1>2. /\ Len(children[q]) \in Nat
      /\ DOMAIN children[q] = 1 .. Len(children[q])
      /\ \A i \in 1 .. Len(children[q]) : children[q][i] \in Queries
  BY <1>1, LenProperties, ElementOfSeq
<1>3. \A i \in 1 .. Len(children[q]) : Edge(children[q][i], q) \in Edges
  BY <1>2 DEF Edge, Edges
<1>4. /\ ChildEdges(q) \in Seq(Edges)
      /\ Len(ChildEdges(q)) = Len(children[q])
  BY <1>2, <1>3 DEF ChildEdges
<1> QED
  BY <1>1, <1>2, <1>4 DEF ChildEdges

LEMMA GivenFacts ==
  ASSUME TypeOK
  PROVE  /\ given \in Seq(Edges)
         /\ Len(given) = N
         /\ DOMAIN given = 1 .. N
         /\ \A k \in 1 .. N : /\ given[k] \in Edges
                              /\ given[k].child \in Queries
                              /\ given[k].parent \in Queries \cup {Root}
                              /\ given[k] = Edge(given[k].child, given[k].parent)
         /\ \A k, l \in 1 .. N : given[k].child = given[l].child => k = l
<1>1. given \in Seq(Edges) /\ Len(given) = N /\ EachChildOnce(given)
  BY InputsAssumption DEF TypeOK
<1>2. DOMAIN given = 1 .. N /\ \A k \in 1 .. N : given[k] \in Edges
  BY <1>1, LenProperties, ElementOfSeq
<1>3. \A e \in Edges : /\ e.child \in Queries
                       /\ e.parent \in Queries \cup {Root}
                       /\ e = Edge(e.child, e.parent)
  BY DEF Edges, Edge
<1> QED
  BY <1>1, <1>2, <1>3 DEF EachChildOnce

LEMMA InitReorderInv == Init => ReorderInv
<1> SUFFICES ASSUME Init PROVE ReorderInv
  OBVIOUS
<1> USE NAssumption DEF Init
<1>1. edges \in Seq(Edges) /\ Len(edges) = N
  BY InputsAssumption
<1>2. TypeOK
  BY <1>1 DEF TypeOK, Queries
<1>3. PhaseInv
  BY DEF PhaseInv
<1>4. IndexInv
  BY DEF IndexInv, Waiting, Distinct
<1>5. WalkInv
  BY DEF WalkInv, Stacked, Emitted, Waiting, Children, EachChildOnce
<1>6. PrefixValid
  BY DEF PrefixValid, EachChildOnce, OrderAssert
<1> QED
  BY <1>2, <1>3, <1>4, <1>5, <1>6 DEF ReorderInv

LEMMA IndexEdgeStep ==
  ASSUME ReorderInv, IndexEdge
  PROVE  ReorderInv'
<1> USE NAssumption
<1> DEFINE e == given[next]
<1>1. /\ TypeOK /\ PhaseInv /\ IndexInv /\ WalkInv
      /\ pc = "index" /\ next \in 1 .. N /\ edges = given
      /\ stack = << >> /\ reordered = << >>
      /\ next' = next + 1
      /\ UNCHANGED <<edges, stack, reordered, given>>
      /\ Len(edges) = N
  BY GivenFacts DEF ReorderInv, PhaseInv, IndexEdge
<1>2. /\ e \in Edges /\ e.child \in Queries /\ e.parent \in Queries \cup {Root}
      /\ e = Edge(e.child, e.parent)
  BY <1>1, GivenFacts
<1>3. \/ /\ e.parent = Root /\ roots' = Append(roots, e.child) /\ children' = children
      \/ /\ e.parent # Root /\ roots' = roots /\ e.parent \in Queries
         /\ children' = [children EXCEPT ![e.parent] = Append(@, e.child)]
  BY <1>1, <1>2 DEF IndexEdge
<1>4. pc' = IF next = N THEN "walk" ELSE "index"
  BY <1>1 DEF IndexEdge
<1>5. TypeOK'
  <2>1. children' \in [Queries -> Seq(Queries)] /\ roots' \in Seq(Queries)
    <3>1. children \in [Queries -> Seq(Queries)] /\ roots \in Seq(Queries)
      BY <1>1 DEF TypeOK
    <3>2. \A s \in Seq(Queries) : Append(s, e.child) \in Seq(Queries)
      BY <1>2, AppendProperties
    <3> QED
      BY <1>3, <3>1, <3>2
  <2>2. next' \in 1 .. N + 1 /\ pc' \in {"index", "walk"}
    BY <1>1, <1>4
  <2> QED
    BY <1>1, <2>1, <2>2 DEF TypeOK
<1>6. PhaseInv'
  BY <1>1, <1>4 DEF PhaseInv
<1>7. IndexInv'
  <2>1. CASE e.parent = Root
    <3>1. /\ roots' = Append(roots, e.child)
          /\ children' = children
          /\ roots \in Seq(Queries)
      BY <1>3, <2>1, <1>1 DEF TypeOK
    <3>2. /\ DOMAIN roots = 1 .. Len(roots) /\ Len(roots) \in Nat
          /\ DOMAIN roots' = 1 .. Len(roots) + 1
          /\ \A i \in 1 .. Len(roots) : roots'[i] = roots[i]
          /\ roots'[Len(roots) + 1] = e.child
      BY <3>1, <1>2, AppendProperties, LenProperties
    <3>3. Waiting' = Waiting \cup {e.child}
      BY <3>2 DEF Waiting
    <3>4. e.child \notin Waiting
      <4> SUFFICES ASSUME e.child \in Waiting PROVE FALSE
        OBVIOUS
      <4>1. PICK k \in 1 .. next - 1 : given[k] = Edge(e.child, Root)
        BY <1>1 DEF IndexInv
      <4>2. k \in 1 .. N /\ k # next /\ given[k].child = given[next].child
        BY <4>1, <1>1 DEF Edge
      <4> QED
        BY <4>2, <1>1, GivenFacts
    <3>5. Distinct(roots')
      <4>1. \A i \in 1 .. Len(roots) : roots[i] \in Waiting
        BY <3>2 DEF Waiting
      <4> QED
        BY <1>1, <3>2, <3>4, <4>1 DEF Distinct, IndexInv
    <3>6. \A q \in Waiting' : \E k \in 1 .. next' - 1 : given'[k] = Edge(q, Root)
      BY <1>1, <1>2, <2>1, <3>3 DEF IndexInv
    <3>7. \A k \in 1 .. next' - 1 : given[k].parent = Root =>
             given[k].child \in Waiting' \cup Stacked' \cup Emitted'
      BY <1>1, <3>3 DEF IndexInv, Stacked, Emitted, Children
    <3>8. \A p \in Queries : \A i \in DOMAIN children[p] :
             \E k \in 1 .. next' - 1 : given[k] = Edge(children[p][i], p)
      BY <1>1 DEF IndexInv
    <3>9. \A k \in 1 .. next' - 1 : given[k].parent # Root =>
             \E i \in DOMAIN children[given[k].parent] :
               children[given[k].parent][i] = given[k].child
      BY <1>1, <2>1 DEF IndexInv
    <3> QED
      BY <1>1, <3>1, <3>5, <3>6, <3>7, <3>8, <3>9 DEF IndexInv
  <2>2. CASE e.parent # Root
    <3> DEFINE p == e.parent
               old == children[p]
    <3>1. /\ roots' = roots /\ p \in Queries
          /\ children' = [children EXCEPT ![p] = Append(old, e.child)]
          /\ old \in Seq(Queries)
          /\ Waiting' = Waiting
      BY <1>3, <2>2, <1>1 DEF TypeOK, Waiting
    <3>2. /\ DOMAIN old = 1 .. Len(old) /\ Len(old) \in Nat
          /\ children'[p] = Append(old, e.child)
          /\ DOMAIN children'[p] = 1 .. Len(old) + 1
          /\ \A i \in 1 .. Len(old) : children'[p][i] = old[i]
          /\ children'[p][Len(old) + 1] = e.child
      <4>1. children'[p] = Append(old, e.child)
        BY <3>1, <1>1 DEF TypeOK
      <4> HIDE DEF p, old
      <4> QED
        BY <3>1, <4>1, <1>2, AppendProperties, LenProperties
    <3>3. \A q \in Queries \ {p} : children'[q] = children[q]
      BY <3>1, <1>1 DEF TypeOK
    <3>4. \A i \in DOMAIN old : old[i] # e.child
      BY <1>1, <1>2, <3>1, GivenFacts DEF IndexInv, Edge
    <3>5. \A q \in Queries : \A i \in DOMAIN children'[q] :
            \E k \in 1 .. next' - 1 : given'[k] = Edge(children'[q][i], q)
      <4>1. ASSUME NEW q \in Queries \ {p} , NEW i \in DOMAIN children'[q]
            PROVE  \E k \in 1 .. next' - 1 : given'[k] = Edge(children'[q][i], q)
        BY <4>1, <3>3, <1>1 DEF IndexInv
      <4>2. ASSUME NEW i \in 1 .. Len(old)
            PROVE  \E k \in 1 .. next' - 1 : given'[k] = Edge(children'[p][i], p)
        BY <4>2, <3>1, <3>2, <1>1 DEF IndexInv
      <4>3. given'[next] = Edge(children'[p][Len(old) + 1], p) /\ next \in 1 .. next' - 1
        BY <3>2, <1>1, <1>2
      <4>4. \A i \in DOMAIN children'[p] : i \in 1 .. Len(old) \/ i = Len(old) + 1
        BY <3>2
      <4>5. \A i \in DOMAIN children'[p] :
              \E k \in 1 .. next' - 1 : given'[k] = Edge(children'[p][i], p)
        BY <4>2, <4>3, <4>4
      <4> HIDE DEF p
      <4> QED
        BY <4>1, <4>5
    <3>6. \A k \in 1 .. next' - 1 : given'[k].parent # Root =>
            \E i \in DOMAIN children'[given'[k].parent] :
              children'[given'[k].parent][i] = given'[k].child
      <4> SUFFICES ASSUME NEW k \in 1 .. next, given[k].parent # Root
                   PROVE  \E i \in DOMAIN children'[given[k].parent] :
                            children'[given[k].parent][i] = given[k].child
        BY <1>1
      <4>0. k \in 1 .. N /\ given[k].parent \in Queries
        BY <1>1, GivenFacts
      <4>1. CASE k = next
        <5>1. given[k].parent = p /\ given[k].child = e.child
          BY <4>1
        <5>2. /\ Len(old) + 1 \in DOMAIN children'[p]
              /\ children'[p][Len(old) + 1] = e.child
          BY <3>2
        <5> HIDE DEF p, old, e
        <5> QED
          BY <5>1, <5>2
      <4>2. CASE k # next
        <5>1. PICK i \in DOMAIN children[given[k].parent] :
                     children[given[k].parent][i] = given[k].child
          BY <4>2, <1>1 DEF IndexInv
        <5>2. CASE given[k].parent = p
          BY <5>1, <5>2, <3>2
        <5>3. CASE given[k].parent # p
          BY <5>1, <5>3, <3>3, <4>0
        <5> QED
          BY <5>2, <5>3
      <4> QED
        BY <4>1, <4>2
    <3>7. \A q \in Queries : Distinct(children'[q])
      <4>1. \A q \in Queries : Distinct(children[q])
        BY <1>1 DEF IndexInv
      <4>2. Distinct(old) /\ \A q \in Queries \ {p} : Distinct(children'[q])
        BY <4>1, <3>1, <3>3
      <4>3. Distinct(children'[p])
        <5> HIDE DEF p, old
        <5> SUFFICES ASSUME NEW i \in 1 .. Len(old) + 1, NEW j \in 1 .. Len(old) + 1,
                            children'[p][i] = children'[p][j]
                     PROVE  i = j
          BY <3>2 DEF Distinct
        <5>1. CASE i \in 1 .. Len(old) /\ j \in 1 .. Len(old)
          BY <5>1, <4>2, <3>2 DEF Distinct
        <5>2. CASE i \in 1 .. Len(old) /\ j = Len(old) + 1
          BY <5>2, <3>2, <3>4
        <5>3. CASE j \in 1 .. Len(old) /\ i = Len(old) + 1
          BY <5>3, <3>2, <3>4
        <5> QED
          BY <5>1, <5>2, <5>3, <3>2
      <4> QED
        BY <4>2, <4>3
    <3>8. \A q \in Waiting' : \E k \in 1 .. next' - 1 : given'[k] = Edge(q, Root)
      BY <1>1, <3>1 DEF IndexInv
    <3>9. \A k \in 1 .. next' - 1 : given'[k].parent = Root =>
             given'[k].child \in Waiting' \cup Stacked' \cup Emitted'
      <4>1. Stacked' = Stacked /\ Emitted' = Emitted
        BY <1>1 DEF Stacked, Emitted, Children
      <4>2. \A k \in 1 .. next - 1 : given[k].parent = Root =>
               given[k].child \in Waiting \cup Stacked \cup Emitted
        BY <1>1 DEF IndexInv
      <4> SUFFICES ASSUME NEW k \in 1 .. next' - 1, given[k].parent = Root
                   PROVE  given[k].child \in Waiting' \cup Stacked \cup Emitted
        BY <1>1, <4>1
      <4>3. CASE k = next
        BY <4>3, <1>1, <2>2, <3>1
      <4>4. CASE k # next
        <5>1. k \in 1 .. next - 1
          BY <4>4, <1>1
        <5> QED
          BY <5>1, <4>2, <1>1, <2>2, <3>1
      <4> QED
        BY <4>3, <4>4
    <3> QED
      BY <1>1, <3>1, <3>5, <3>6, <3>7, <3>8, <3>9 DEF IndexInv
  <2> QED
    BY <2>1, <2>2
<1>8. WalkInv'
  BY <1>1 DEF WalkInv, Stacked, Emitted, Children, EachChildOnce
<1>9. PrefixValid'
  BY <1>1 DEF PrefixValid, EachChildOnce, OrderAssert
<1> QED
  BY <1>5, <1>6, <1>7, <1>8, <1>9 DEF ReorderInv

LEMMA PushRootStep ==
  ASSUME ReorderInv, PushRoot
  PROVE  ReorderInv'
<1> USE NAssumption
<1> DEFINE r == Head(roots)
<1>1. /\ TypeOK /\ PhaseInv /\ IndexInv /\ WalkInv /\ PrefixValid
      /\ pc = "walk" /\ next = N + 1 /\ edges = given
      /\ stack = << >> /\ roots # << >>
      /\ stack' = <<Edge(r, Root)>> /\ roots' = Tail(roots)
      /\ UNCHANGED <<edges, next, children, reordered, pc, given>>
  BY DEF ReorderInv, PhaseInv, PushRoot
<1>2. /\ r \in Queries /\ roots' \in Seq(Queries)
      /\ Len(roots) \in Nat /\ Len(roots) >= 1
      /\ DOMAIN roots = 1 .. Len(roots)
      /\ r = roots[1]
      /\ DOMAIN roots' = 1 .. Len(roots) - 1
      /\ \A i \in 1 .. Len(roots) - 1 : roots'[i] = roots[i + 1]
  <2>1. roots \in Seq(Queries)
    BY <1>1 DEF TypeOK
  <2>2. Len(roots) \in Nat /\ DOMAIN roots = 1 .. Len(roots) /\ Len(roots) >= 1
    BY <2>1, <1>1, LenProperties, EmptySeq
  <2>3. r \in Queries /\ r = roots[1]
    BY <2>1, <1>1, HeadTailProperties
  <2>4. /\ roots' \in Seq(Queries) /\ Len(roots') = Len(roots) - 1
        /\ \A i \in 1 .. Len(roots') : roots'[i] = roots[i + 1]
    BY <2>1, <1>1, HeadTailProperties
  <2> QED
    BY <2>2, <2>3, <2>4, LenProperties
<1>3. r \in Waiting /\ Waiting' = Waiting \ {r}
  <2>1. Distinct(roots)
    BY <1>1 DEF IndexInv
  <2>2. r \in Waiting /\ r \notin Waiting' /\ Waiting' \subseteq Waiting
    <3>1. \A i \in 1 .. Len(roots) - 1 :
            i + 1 \in DOMAIN roots /\ 1 \in DOMAIN roots /\ i + 1 # 1
      BY <1>2
    <3>2. \A i \in 1 .. Len(roots) - 1 : roots'[i] # r
      BY <3>1, <2>1, <1>2 DEF Distinct
    <3>3. r \in Waiting /\ \A i \in 1 .. Len(roots) - 1 : roots'[i] \in Waiting
      BY <3>1, <1>2 DEF Waiting
    <3> QED
      BY <3>2, <3>3, <1>2 DEF Waiting
  <2>3. \A i \in 2 .. Len(roots) : i - 1 \in 1 .. Len(roots) - 1 /\ roots'[i - 1] = roots[i]
    BY <1>2
  <2>4. \A q \in Waiting : q # r => q \in Waiting'
    <3> SUFFICES ASSUME NEW i \in 1 .. Len(roots), roots[i] # r
                 PROVE  roots[i] \in Waiting'
      BY <1>2 DEF Waiting
    <3>1. i \in 2 .. Len(roots)
      BY <1>2
    <3> QED
      BY <3>1, <2>3, <1>2 DEF Waiting
  <2> QED
    BY <2>2, <2>4
<1>4. /\ Edge(r, Root) \in Edges /\ stack' \in Seq(Edges)
      /\ DOMAIN stack' = {1} /\ stack'[1] = Edge(r, Root)
      /\ Stacked = {} /\ Stacked' = {r}
      /\ Emitted' = Emitted
  <2>1. Edge(r, Root) \in Edges
    BY <1>2 DEF Edge, Edges
  <2> QED
    BY <1>1, <2>1 DEF Stacked, Emitted, Children, Edge
<1>5. TypeOK'
  BY <1>1, <1>2, <1>4 DEF TypeOK
<1>6. PhaseInv'
  BY <1>1 DEF PhaseInv
<1>7. IndexInv'
  <2>1. Distinct(roots')
    <3> SUFFICES ASSUME NEW i \in 1 .. Len(roots) - 1, NEW j \in 1 .. Len(roots) - 1,
                        roots[i + 1] = roots[j + 1]
                 PROVE  i = j
      BY <1>2 DEF Distinct
    <3>1. i + 1 \in DOMAIN roots /\ j + 1 \in DOMAIN roots
      BY <1>2
    <3>2. i + 1 = j + 1
      BY <3>1, <1>1 DEF IndexInv, Distinct
    <3> QED
      BY <3>2
  <2> QED
    BY <1>1, <1>3, <1>4, <2>1 DEF IndexInv
<1>8. WalkInv'
  <2>1. \A i \in DOMAIN stack' : \E k \in 1 .. N : given[k] = stack'[i]
    BY <1>1, <1>3, <1>4 DEF IndexInv
  <2>2. EachChildOnce(stack') /\ \A i \in DOMAIN stack' : stack'[i].parent = Root
    BY <1>4 DEF EachChildOnce, Edge
  <2> QED
    BY <1>1, <1>3, <1>4, <2>1, <2>2 DEF WalkInv
<1>9. PrefixValid'
  BY <1>1 DEF PrefixValid
<1> QED
  BY <1>5, <1>6, <1>7, <1>8, <1>9 DEF ReorderInv

(* The step of the inner loop that pops h, whose query q has the list c of *)
(* children: first what it finds, then the stack and then the edges        *)
(* emitted that it leaves.                                                 *)
LEMMA VisitBefore ==
  ASSUME TypeOK, Visit,
         NEW h, h = Head(stack), NEW q, q = h.child, NEW c, c = children[q]
  PROVE  /\ stack # << >> /\ stack \in Seq(Edges) /\ reordered \in Seq(Edges)
         /\ Len(stack) \in Nat /\ Len(stack) >= 1 /\ DOMAIN stack = 1 .. Len(stack)
         /\ h = stack[1] /\ h \in Edges
         /\ q \in Queries /\ h.parent \in Queries \cup {Root}
         /\ Len(c) \in Nat /\ DOMAIN c = 1 .. Len(c)
         /\ \A i \in 1 .. Len(c) : c[i] \in Queries
<1>1. stack # << >> /\ stack \in Seq(Edges) /\ reordered \in Seq(Edges)
  BY DEF Visit, TypeOK
<1>2. Len(stack) \in Nat /\ Len(stack) >= 1 /\ DOMAIN stack = 1 .. Len(stack)
  BY <1>1, LenProperties, EmptySeq
<1>3. h = stack[1] /\ h \in Edges
  BY <1>1, <1>2, HeadTailProperties
<1>4. q \in Queries /\ h.parent \in Queries \cup {Root}
  BY <1>3, EdgeShape
<1> QED
  BY <1>1, <1>2, <1>3, <1>4, ChildEdgesFacts

LEMMA VisitStack ==
  ASSUME TypeOK, Visit
  PROVE  LET q == Head(stack).child
             d == Len(children[q])
         IN  /\ stack' \in Seq(Edges)
             /\ Len(stack') = d + Len(stack) - 1
             /\ DOMAIN stack' = 1 .. Len(stack')
             /\ \A i \in 1 .. d : stack'[i] = Edge(children[q][i], q)
             /\ \A i \in d + 1 .. d + Len(stack) - 1 : stack'[i] = stack[i - d + 1]
<1>0. PICK h, q, c : h = Head(stack) /\ q = h.child /\ c = children[q]
  OBVIOUS
<1>1. q \in Queries /\ stack \in Seq(Edges) /\ stack # << >>
  BY <1>0, VisitBefore
<1>2. PICK b : b = ChildEdges(q)
  OBVIOUS
<1>3. /\ b \in Seq(Edges) /\ Len(b) = Len(c)
      /\ \A i \in 1 .. Len(c) : b[i] = Edge(c[i], q)
  BY <1>0, <1>1, <1>2, ChildEdgesFacts
<1>4. stack' = b \o Tail(stack)
  BY <1>0, <1>2 DEF Visit
<1>5. PICK s : s = b \o Tail(stack)
  OBVIOUS
<1>6. /\ s \in Seq(Edges) /\ Len(s) = Len(b) + Len(stack) - 1
      /\ \A i \in 1 .. Len(b) : s[i] = b[i]
      /\ \A i \in Len(b) + 1 .. Len(b) + Len(stack) - 1 : s[i] = stack[i - Len(b) + 1]
  <2>1. b \in Seq(Edges)
    BY <1>3
  <2>2. /\ b \o Tail(stack) \in Seq(Edges)
        /\ Len(b \o Tail(stack)) = Len(b) + Len(stack) - 1
        /\ \A i \in 1 .. Len(b) : (b \o Tail(stack))[i] = b[i]
        /\ \A i \in Len(b) + 1 .. Len(b) + Len(stack) - 1 :
              (b \o Tail(stack))[i] = stack[i - Len(b) + 1]
    BY <1>1, <2>1, PushBlock
  <2> QED
    BY <1>5, <2>2
<1>7. stack' = s
  BY <1>4, <1>5
<1>8. DOMAIN s = 1 .. Len(s)
  BY <1>6, LenProperties
<1>9. \A i \in 1 .. Len(c) : s[i] = Edge(c[i], q)
  BY <1>3, <1>6
<1> QED
  BY <1>0, <1>3, <1>6, <1>7, <1>8, <1>9

LEMMA VisitEmits ==
  ASSUME TypeOK, Visit, NEW h, h = Head(stack)
  PROVE  /\ reordered' \in Seq(Edges) /\ Len(reordered') = Len(reordered) + 1
         /\ Len(reordered) \in Nat /\ DOMAIN reordered = 1 .. Len(reordered)
         /\ DOMAIN reordered' = 1 .. Len(reordered) + 1
         /\ \A i \in 1 .. Len(reordered) : reordered'[i] = reordered[i]
         /\ reordered'[Len(reordered) + 1] = h
<1>1. h \in Edges /\ reordered \in Seq(Edges) /\ reordered' = Append(reordered, h)
  BY VisitBefore DEF Visit
<1> QED
  BY <1>1, Appending

LEMMA VisitStep ==
  ASSUME ReorderInv, Visit
  PROVE  ReorderInv'
<1> USE NAssumption
<1>0. PICK h, q, c : h = Head(stack) /\ q = h.child /\ c = children[q]
  OBVIOUS
<1>1. /\ h = Head(stack) /\ q = h.child /\ c = children[q]
      /\ TypeOK /\ PhaseInv /\ IndexInv /\ WalkInv /\ PrefixValid
      /\ pc = "walk" /\ next = N + 1 /\ edges = given
      /\ stack # << >> /\ stack \in Seq(Edges) /\ reordered \in Seq(Edges)
      /\ reordered' = Append(reordered, h)
      /\ stack' = ChildEdges(q) \o Tail(stack)
      /\ UNCHANGED <<edges, next, children, roots, pc, given>>
  BY <1>0 DEF ReorderInv, PhaseInv, Visit, TypeOK
<1>2. /\ Len(stack) \in Nat /\ Len(stack) >= 1 /\ DOMAIN stack = 1 .. Len(stack)
      /\ h = stack[1] /\ h \in Edges
      /\ q \in Queries /\ h.parent \in Queries \cup {Root}
  BY <1>0, <1>1, VisitBefore
<1>3. /\ Len(c) \in Nat /\ DOMAIN c = 1 .. Len(c)
      /\ \A i \in 1 .. Len(c) : c[i] \in Queries
      /\ stack' \in Seq(Edges)
      /\ Len(stack') = Len(c) + Len(stack) - 1
      /\ DOMAIN stack' = 1 .. Len(stack')
      /\ \A i \in 1 .. Len(c) : stack'[i] = Edge(c[i], q)
      /\ \A i \in Len(c) + 1 .. Len(c) + Len(stack) - 1 :
           stack'[i] = stack[i - Len(c) + 1]
  <2>1. TypeOK /\ Visit /\ h = Head(stack) /\ q = h.child /\ c = children[q]
    BY <1>1
  <2>2. /\ Len(c) \in Nat /\ DOMAIN c = 1 .. Len(c)
        /\ \A i \in 1 .. Len(c) : c[i] \in Queries
    BY <2>1, VisitBefore
  <2>3. /\ stack' \in Seq(Edges)
        /\ Len(stack') = Len(c) + Len(stack) - 1
        /\ DOMAIN stack' = 1 .. Len(stack')
        /\ \A i \in 1 .. Len(c) : stack'[i] = Edge(c[i], q)
        /\ \A i \in Len(c) + 1 .. Len(c) + Len(stack) - 1 :
             stack'[i] = stack[i - Len(c) + 1]
    BY <2>1, VisitStack
  <2> QED
    BY <2>2, <2>3
<1>31. \A i \in 1 .. Len(c) : stack'[i].child = c[i] /\ stack'[i].parent = q
  BY <1>3, EdgeFields
<1>32. /\ \A j \in 1 .. Len(stack) : \E k \in 1 .. N : given[k] = stack[j]
       /\ \A j \in 1 .. Len(stack) : /\ stack[j].parent \in Emitted \cup {Root}
                                     /\ stack[j].child \in Stacked
       /\ \A i, j \in 1 .. Len(stack) : stack[i].child = stack[j].child => i = j
  <2>1. /\ \A j \in DOMAIN stack : \E k \in 1 .. N : given[k] = stack[j]
        /\ \A j \in DOMAIN stack : stack[j].parent \in Emitted \cup {Root}
        /\ \A i, j \in DOMAIN stack : stack[i].child = stack[j].child => i = j
    BY <1>1 DEF WalkInv, EachChildOnce
  <2>2. \A j \in DOMAIN stack : stack[j].child \in Stacked
    BY DEF Stacked, Children
  <2> QED
    BY <2>1, <2>2, <1>2
<1>4. /\ reordered' \in Seq(Edges)
      /\ Len(reordered) \in Nat /\ DOMAIN reordered = 1 .. Len(reordered)
      /\ DOMAIN reordered' = 1 .. Len(reordered) + 1
      /\ \A i \in 1 .. Len(reordered) : reordered'[i] = reordered[i]
      /\ reordered'[Len(reordered) + 1] = h
  BY <1>1, VisitEmits
<1>5. Emitted' = Emitted \cup {q}
  <2>1. Emitted = {reordered[i].child : i \in 1 .. Len(reordered)}
    BY <1>4 DEF Emitted, Children
  <2>2. Emitted' = {reordered'[i].child : i \in 1 .. Len(reordered) + 1}
    BY <1>4 DEF Emitted, Children
  <2>3. \A i \in 1 .. Len(reordered) + 1 : i \in 1 .. Len(reordered) \/ i = Len(reordered) + 1
    BY <1>4
  <2>4. \A i \in 1 .. Len(reordered) : i \in 1 .. Len(reordered) + 1
    BY <1>4
  <2>5. Len(reordered) + 1 \in 1 .. Len(reordered) + 1
    BY <1>4
  <2>6. reordered'[Len(reordered) + 1].child = q
    BY <1>1, <1>4
  <2>7. \A i \in 1 .. Len(reordered) : reordered'[i].child = reordered[i].child
    BY <1>4
  <2>8. Emitted' \subseteq Emitted \cup {q}
    BY <2>1, <2>2, <2>3, <2>6, <2>7
  <2>9. Emitted \cup {q} \subseteq Emitted'
    BY <2>1, <2>2, <2>4, <2>5, <2>6, <2>7
  <2> QED
    BY <2>8, <2>9
<1>6. /\ q \in Stacked /\ q \notin Emitted /\ q \notin Waiting
      /\ h.parent \in Emitted \cup {Root}
      /\ \E k \in 1 .. N : given[k] = h
  <2>1. 1 \in DOMAIN stack /\ h = stack[1]
    BY <1>2
  <2>2. q \in Stacked
    BY <2>1, <1>1 DEF Stacked, Children
  <2>3. h.parent \in Emitted \cup {Root} /\ \E k \in 1 .. N : given[k] = h
    <3>1. 1 \in 1 .. Len(stack)
      BY <1>2
    <3>2. /\ \E k \in 1 .. N : given[k] = stack[1]
          /\ stack[1].parent \in Emitted \cup {Root}
      BY <1>32, <3>1, Zenon
    <3> QED
      BY <2>1, <3>2, Zenon
  <2> QED
    BY <2>2, <2>3, <1>1 DEF WalkInv
<1>7. /\ \A i \in 1 .. Len(c) : \E k \in 1 .. N : given[k] = Edge(c[i], q)
      /\ \A k \in 1 .. N : given[k].parent = q =>
           \E i \in 1 .. Len(c) : c[i] = given[k].child
  <2>1. next - 1 = N /\ q # Root
    BY <1>1, <1>2 DEF Queries, Root
  <2>2. \A i \in 1 .. Len(c) : \E k \in 1 .. N : given[k] = Edge(c[i], q)
    <3>1. \A i \in DOMAIN children[q] :
             \E k \in 1 .. next - 1 : given[k] = Edge(children[q][i], q)
      BY <1>1, <1>2 DEF IndexInv
    <3>2. \A i \in 1 .. Len(c) : \E k \in 1 .. next - 1 : given[k] = Edge(c[i], q)
      <4>1. c = children[q] /\ DOMAIN c = 1 .. Len(c)
        BY <1>1, <1>3
      <4> QED
        BY <3>1, <4>1
    <3> QED
      BY <3>2, <2>1, Zenon
  <2>3. ASSUME NEW k \in 1 .. N, given[k].parent = q
        PROVE  \E i \in 1 .. Len(c) : c[i] = given[k].child
    <3>1. \E i \in DOMAIN children[given[k].parent] :
            children[given[k].parent][i] = given[k].child
      BY <2>1, <2>3, <1>1 DEF IndexInv
    <3> QED
      BY <3>1, <2>3, <1>1, <1>3
  <2> QED
    BY <2>2, <2>3
(* A child of q is met here for the first time: wherever it were, its one  *)
(* input edge would put q among the emitted queries.                       *)
<1>8. \A i \in 1 .. Len(c) : c[i] \notin Stacked \cup Emitted \cup Waiting
  <2> SUFFICES ASSUME NEW i \in 1 .. Len(c)
               PROVE  c[i] \notin Stacked \cup Emitted \cup Waiting
    OBVIOUS
  <2>1. PICK k \in 1 .. N : given[k] = Edge(c[i], q)
    BY <1>7
  <2>2. ASSUME NEW l \in 1 .. N, given[l].child = c[i]
        PROVE  given[l].parent = q
    <3>1. c[i] \in Queries
      BY <1>3
    <3>2. given[k].child = c[i] /\ given[k].parent = q
      BY <2>1, EdgeFields
    <3>3. given[l].child = given[k].child => l = k
      BY <1>1, GivenFacts
    <3> QED
      BY <2>2, <3>2, <3>3
  <2>3. c[i] \notin Stacked
    <3> SUFFICES ASSUME NEW j \in DOMAIN stack, stack[j].child = c[i] PROVE FALSE
      BY DEF Stacked, Children
    <3>1. j \in 1 .. Len(stack)
      BY <1>2
    <3>2. PICK l \in 1 .. N : given[l] = stack[j]
      BY <3>1, <1>32
    <3>3. stack[j].parent = q
      BY <3>2, <2>2
    <3>4. q \in Emitted \cup {Root}
      BY <3>1, <3>3, <1>32
    <3> QED
      BY <3>4, <1>2, <1>6 DEF Queries, Root
  <2>4. c[i] \notin Emitted
    <3> SUFFICES ASSUME NEW j \in DOMAIN reordered, reordered[j].child = c[i] PROVE FALSE
      BY DEF Emitted, Children
    <3>0. PICK l \in 1 .. N : given[l] = reordered[j]
      BY <1>1 DEF WalkInv
    <3>1. reordered[j].parent = q /\ q # Root
      BY <3>0, <2>2, <1>2 DEF Queries, Root
    <3>2. \E m \in 1 .. j - 1 : reordered[m].child = q
      BY <3>1, <1>1 DEF PrefixValid, OrderAssert
    <3>3. q \in Emitted
      BY <3>2, <1>4 DEF Emitted, Children
    <3> QED
      BY <3>3, <1>6
  <2>5. c[i] \notin Waiting
    <3> SUFFICES ASSUME c[i] \in Waiting PROVE FALSE
      OBVIOUS
    <3>1. PICK l \in 1 .. N : given[l] = Edge(c[i], Root)
      BY <1>1 DEF IndexInv
    <3> QED
      BY <3>1, <2>2, <1>2 DEF Edge, Queries, Root
  <2> QED
    BY <2>3, <2>4, <2>5
<1>9. Stacked' = (Stacked \ {q}) \cup {c[i] : i \in 1 .. Len(c)}
  <2> DEFINE m == Len(c)
  <2>1. \A j \in 2 .. Len(stack) : stack[j].child # q /\ stack[j].child \in Stacked
    <3>1. \A j \in 2 .. Len(stack) : /\ j \in 1 .. Len(stack) /\ 1 \in 1 .. Len(stack)
                                    /\ j # 1
      BY <1>2
    <3> QED
      BY <3>1, <1>1, <1>2, <1>32
  <2>2. \A i \in 1 .. m : stack'[i].child = c[i]
    BY <1>31
  <2>3. \A i \in m + 1 .. m + Len(stack) - 1 :
          i - m + 1 \in 2 .. Len(stack) /\ stack'[i] = stack[i - m + 1]
    BY <1>2, <1>3
  <2>4. \A j \in 2 .. Len(stack) :
          j + m - 1 \in m + 1 .. m + Len(stack) - 1 /\ stack'[j + m - 1] = stack[j]
    BY <1>2, <1>3
  <2>5. DOMAIN stack' = (1 .. m) \cup (m + 1 .. m + Len(stack) - 1)
    BY <1>2, <1>3
  <2>6. ASSUME NEW x \in Stacked'
        PROVE  x \in (Stacked \ {q}) \cup {c[i] : i \in 1 .. m}
    <3>1. PICK i \in DOMAIN stack' : x = stack'[i].child
      BY DEF Stacked, Children
    <3> QED
      BY <3>1, <2>1, <2>2, <2>3, <2>5
  <2>7. ASSUME NEW i \in 1 .. m PROVE c[i] \in Stacked'
    BY <2>2, <2>5 DEF Stacked, Children
  <2>8. ASSUME NEW x \in Stacked, x # q PROVE x \in Stacked'
    <3>1. PICK j \in DOMAIN stack : x = stack[j].child
      BY DEF Stacked, Children
    <3>2. j \in 2 .. Len(stack)
      BY <3>1, <2>8, <1>1, <1>2
    <3>3. stack'[j + m - 1].child = x /\ j + m - 1 \in DOMAIN stack'
      BY <3>1, <3>2, <2>4, <2>5
    <3> QED
      BY <3>3 DEF Stacked, Children
  <2> QED
    BY <2>6, <2>7, <2>8
<1>10. TypeOK'
  BY <1>1, <1>3, <1>4 DEF TypeOK
<1>11. PhaseInv'
  BY <1>1 DEF PhaseInv
<1>12. IndexInv'
  <2>1. Waiting' = Waiting
    BY <1>1 DEF Waiting
  <2> QED
    BY <1>1, <1>5, <1>9, <2>1 DEF IndexInv
<1>13. WalkInv'
  <2> DEFINE m == Len(c)
  <2>0. DOMAIN stack' = (1 .. m) \cup (m + 1 .. m + Len(stack) - 1)
    BY <1>2, <1>3
  <2>01. \A i \in m + 1 .. m + Len(stack) - 1 :
           i - m + 1 \in 2 .. Len(stack) /\ stack'[i] = stack[i - m + 1]
    BY <1>2, <1>3
  <2>1. \A i \in DOMAIN stack' : \E k \in 1 .. N : given[k] = stack'[i]
    <3>1. \A i \in 2 .. Len(stack) : \E k \in 1 .. N : given[k] = stack[i]
      BY <1>32, <1>2
    <3>2. \A i \in 1 .. m : \E k \in 1 .. N : given[k] = stack'[i]
      <4>1. \A i \in 1 .. m : stack'[i] = Edge(c[i], q)
        BY <1>3
      <4> QED
        BY <4>1, <1>7, Zenon
    <3>3. \A i \in m + 1 .. m + Len(stack) - 1 : \E k \in 1 .. N : given[k] = stack'[i]
      <4> SUFFICES ASSUME NEW i \in m + 1 .. m + Len(stack) - 1
                   PROVE  \E k \in 1 .. N : given[k] = stack'[i]
        OBVIOUS
      <4>1. i - m + 1 \in 2 .. Len(stack) /\ stack'[i] = stack[i - m + 1]
        BY <2>01
      <4> QED
        BY <4>1, <3>1, Zenon
    <3> QED
      BY <3>2, <3>3, <2>0, Zenon
  <2>2. \A i \in DOMAIN reordered' : \E k \in 1 .. N : given[k] = reordered'[i]
    <3>1. \A i \in 1 .. Len(reordered) : \E k \in 1 .. N : given[k] = reordered[i]
      BY <1>1, <1>4 DEF WalkInv
    <3> QED
      BY <3>1, <1>4, <1>6
  <2>3. EachChildOnce(stack')
    <3> SUFFICES ASSUME NEW i \in DOMAIN stack', NEW j \in DOMAIN stack',
                        stack'[i].child = stack'[j].child
                 PROVE  i = j
      BY DEF EachChildOnce
    <3>1. CASE i \in 1 .. m /\ j \in 1 .. m
      <4>1. c[i] = c[j]
        BY <3>1, <1>31
      <4>2. Distinct(c)
        BY <1>1, <1>2 DEF IndexInv
      <4> QED
        BY <3>1, <4>1, <4>2, <1>3 DEF Distinct
    <3>2. ASSUME NEW a \in 1 .. m, NEW b \in m + 1 .. m + Len(stack) - 1,
                 stack'[a].child = stack'[b].child
          PROVE  FALSE
      <4>1. stack'[a].child = c[a] /\ c[a] \notin Stacked
        BY <1>31, <1>8
      <4>2. stack'[b].child \in Stacked
        <5>1. b - m + 1 \in 1 .. Len(stack) /\ stack'[b] = stack[b - m + 1]
          BY <2>01, <1>2
        <5> QED
          BY <5>1, <1>32
      <4> QED
        BY <3>2, <4>1, <4>2
    <3>3. CASE /\ i \in m + 1 .. m + Len(stack) - 1
               /\ j \in m + 1 .. m + Len(stack) - 1
      <4>1. i - m + 1 = j - m + 1
        <5>1. i - m + 1 \in 1 .. Len(stack) /\ stack'[i] = stack[i - m + 1]
          BY <3>3, <2>01, <1>2
        <5>2. j - m + 1 \in 1 .. Len(stack) /\ stack'[j] = stack[j - m + 1]
          BY <3>3, <2>01, <1>2
        <5> QED
          BY <5>1, <5>2, <1>32
      <4> QED
        BY <4>1, <3>3, <1>3
    <3> QED
      BY <3>1, <3>2, <3>3, <2>0
  <2>4. Stacked' \cap Emitted' = {}
    BY <1>1, <1>5, <1>6, <1>8, <1>9 DEF WalkInv
  <2>5. Waiting' \cap (Stacked' \cup Emitted') = {}
    <3>1. Waiting' = Waiting
      BY <1>1 DEF Waiting
    <3> QED
      BY <3>1, <1>1, <1>5, <1>6, <1>8, <1>9 DEF WalkInv
  <2>6. \A i \in DOMAIN stack' : stack'[i].parent \in Emitted' \cup {Root}
    <3>1. \A i \in 2 .. Len(stack) : stack[i].parent \in Emitted \cup {Root}
      BY <1>32, <1>2
    <3>2. \A i \in 1 .. m : stack'[i].parent = q
      BY <1>31
    <3> QED
      BY <3>1, <3>2, <2>0, <2>01, <1>5
  <2>7. \A k \in 1 .. N : given[k].parent \in Emitted' =>
                          given[k].child \in Emitted' \cup Stacked'
    <3> SUFFICES ASSUME NEW k \in 1 .. N, given[k].parent \in Emitted \cup {q}
                 PROVE  given[k].child \in Emitted' \cup Stacked'
      BY <1>5
    <3>1. CASE given[k].parent = q
      BY <3>1, <1>7, <1>9
    <3>2. CASE given[k].parent \in Emitted
      BY <3>2, <1>1, <1>5, <1>9 DEF WalkInv
    <3> QED
      BY <3>1, <3>2
  <2> QED
    <3>1. N' = N /\ given' = given
      BY <1>1
    <3>2. pc' # "index" => \A k \in 1 .. N :
            given'[k].parent \in Emitted' => given'[k].child \in Emitted' \cup Stacked'
      BY <3>1, <2>7, Zenon
    <3>3. /\ \A i \in DOMAIN stack' : \E k \in 1 .. N : given'[k] = stack'[i]
          /\ \A i \in DOMAIN reordered' : \E k \in 1 .. N : given'[k] = reordered'[i]
      BY <3>1, <2>1, <2>2, Zenon
    <3> QED
      BY <3>2, <3>3, <2>3, <2>4, <2>5, <2>6, Zenon DEF WalkInv
<1>14. PrefixValid'
  <2> DEFINE n == Len(reordered)
  <2>1. \A i \in 1 .. n : reordered'[i].child \in Emitted
    BY <1>4 DEF Emitted, Children
  <2>2. EachChildOnce(reordered')
    BY <2>1, <1>1, <1>4, <1>6 DEF PrefixValid, EachChildOnce
  <2>3. OrderAssert(reordered')
    <3> SUFFICES ASSUME NEW i \in 1 .. n + 1, reordered'[i].parent # Root
                 PROVE  \E j \in 1 .. i - 1 : reordered'[j].child = reordered'[i].parent
      BY <1>4 DEF OrderAssert
    <3>1. CASE i \in 1 .. n
      <4>1. PICK j \in 1 .. i - 1 : reordered[j].child = reordered[i].parent
        BY <3>1, <1>1, <1>4 DEF PrefixValid, OrderAssert
      <4> QED
        BY <4>1, <3>1, <1>4
    <3>2. CASE i = n + 1
      <4>1. reordered'[i].parent \in Emitted
        BY <3>2, <1>4, <1>6
      <4>2. PICK j \in 1 .. n : reordered[j].child = reordered'[i].parent
        BY <4>1, <1>4 DEF Emitted, Children
      <4> QED
        BY <4>2, <3>2, <1>4
    <3> QED
      BY <3>1, <3>2
  <2> QED
    BY <2>2, <2>3 DEF PrefixValid
<1> QED
  BY <1>10, <1>11, <1>12, <1>13, <1>14 DEF ReorderInv

LEMMA FinishStep ==
  ASSUME ReorderInv, Finish
  PROVE  ReorderInv'
<1>1. /\ TypeOK /\ PhaseInv /\ IndexInv /\ WalkInv /\ PrefixValid
      /\ pc = "walk" /\ pc' = "check" /\ stack = << >> /\ roots = << >>
      /\ edges' = reordered
      /\ UNCHANGED <<next, children, roots, stack, reordered, given>>
  BY DEF ReorderInv, Finish
<1>2. TypeOK'
  BY <1>1 DEF TypeOK
<1>3. PhaseInv'
  BY <1>1 DEF PhaseInv
<1>4. IndexInv'
  BY <1>1 DEF IndexInv, Waiting, Stacked, Emitted
<1>5. WalkInv'
  BY <1>1 DEF WalkInv, Waiting, Stacked, Emitted
<1>6. PrefixValid'
  BY <1>1 DEF PrefixValid
<1> QED
  BY <1>2, <1>3, <1>4, <1>5, <1>6 DEF ReorderInv

LEMMA CheckStep ==
  ASSUME ReorderInv, Check
  PROVE  ReorderInv'
<1>1. /\ TypeOK /\ PhaseInv /\ IndexInv /\ WalkInv /\ PrefixValid
      /\ pc = "check"
      /\ pc' = IF CheckTrajectory(edges) THEN "ok" ELSE "abort"
      /\ UNCHANGED <<edges, next, children, roots, stack, reordered, given>>
  BY DEF ReorderInv, Check
<1>2. TypeOK'
  BY <1>1 DEF TypeOK
<1>3. PhaseInv'
  BY <1>1 DEF PhaseInv
<1>4. IndexInv'
  BY <1>1 DEF IndexInv, Waiting, Stacked, Emitted
<1>5. WalkInv'
  BY <1>1 DEF WalkInv, Waiting, Stacked, Emitted
<1>6. PrefixValid'
  BY <1>1 DEF PrefixValid
<1> QED
  BY <1>2, <1>3, <1>4, <1>5, <1>6 DEF ReorderInv

LEMMA StutterStep ==
  ASSUME ReorderInv, UNCHANGED vars
  PROVE  ReorderInv'
<1>1. /\ TypeOK /\ PhaseInv /\ IndexInv /\ WalkInv /\ PrefixValid
      /\ UNCHANGED <<edges, next, children, roots, stack, reordered, pc, given>>
  BY DEF ReorderInv, vars
<1>2. TypeOK' /\ PhaseInv' /\ PrefixValid'
  BY <1>1 DEF TypeOK, PhaseInv, PrefixValid
<1>3. IndexInv' /\ WalkInv'
  BY <1>1 DEF IndexInv, WalkInv, Waiting, Stacked, Emitted
<1> QED
  BY <1>2, <1>3 DEF ReorderInv

-------------------------------------------------------------------------------
(* Whole subtrees.                                                         *)
LEMMA DepthInit == Init => Nested /\ SubtreesWhole
  BY DEF Init, Nested, SubtreesWhole

LEMMA DepthPushRoot ==
  ASSUME ReorderInv, SubtreesWhole, PushRoot
  PROVE  Nested' /\ SubtreesWhole'
<1>1. /\ TypeOK /\ reordered \in Seq(Edges) /\ UNCHANGED reordered
      /\ stack' = <<Edge(Head(roots), Root)>>
  BY DEF ReorderInv, TypeOK, PushRoot
<1>2. DOMAIN stack' = {1} /\ stack'[1].parent = Root
  BY <1>1, EdgeFields
<1>3. \A i \in DOMAIN reordered : reordered[i].child # Root
  BY <1>1, EdgesAt DEF Queries, Root
<1>4. Nested'
  BY <1>1, <1>2, <1>3 DEF Nested
<1> QED
  BY <1>1, <1>4 DEF SubtreesWhole

(* The query on top of the stack follows what is below its parent, and     *)
(* its children are put above everything else.                             *)
LEMMA DepthVisit ==
  ASSUME ReorderInv, Nested, SubtreesWhole, Visit
  PROVE  Nested' /\ SubtreesWhole'
<1>0. PICK h, q, c : h = Head(stack) /\ q = h.child /\ c = children[q]
  OBVIOUS
<1>1. /\ TypeOK /\ WalkInv /\ PrefixValid
  BY DEF ReorderInv
<1> DEFINE n == Len(reordered)
           d == Len(c)
           z == Len(stack)
<1>2. /\ n \in Nat /\ d \in Nat /\ z \in Nat /\ z >= 1
      /\ DOMAIN stack = 1 .. z /\ DOMAIN stack' = 1 .. d + z - 1
      /\ DOMAIN reordered = 1 .. n /\ DOMAIN reordered' = 1 .. n + 1
      /\ Len(reordered') = n + 1
      /\ h = stack[1]
      /\ \A i \in 1 .. d : stack'[i].parent = q
      /\ \A i \in d + 1 .. d + z - 1 : stack'[i] = stack[i - d + 1]
      /\ \A i \in 1 .. n : reordered'[i] = reordered[i]
      /\ reordered'[n + 1] = h
  <2>1. z \in Nat /\ z >= 1 /\ DOMAIN stack = 1 .. z /\ h = stack[1] /\ d \in Nat
    BY <1>0, <1>1, VisitBefore
  <2>2. /\ Len(stack') = d + z - 1 /\ DOMAIN stack' = 1 .. Len(stack')
        /\ \A i \in 1 .. d : stack'[i] = Edge(c[i], q)
        /\ \A i \in d + 1 .. d + z - 1 : stack'[i] = stack[i - d + 1]
    BY <1>0, <1>1, VisitStack
  <2>3. \A i \in 1 .. d : stack'[i].parent = q
    BY <2>2, EdgeFields
  <2>4. /\ n \in Nat /\ DOMAIN reordered = 1 .. n /\ DOMAIN reordered' = 1 .. n + 1
        /\ Len(reordered') = n + 1
        /\ \A i \in 1 .. n : reordered'[i] = reordered[i]
        /\ reordered'[n + 1] = h
    BY <1>0, <1>1, VisitEmits
  <2> HIDE DEF n, d, z
  <2> QED
    BY <2>1, <2>2, <2>3, <2>4
<1>3. q \in Queries /\ q # Root
  <2>1. q \in Queries
    BY <1>0, <1>1, VisitBefore
  <2> QED
    BY <2>1 DEF Queries, Root
<1> HIDE DEF n, d, z
<1>4. 1 \in 1 .. z /\ n + 1 \in 1 .. n + 1
  BY <1>2
<1>5. /\ \A i \in 1 .. n : reordered[i].child # q
      /\ \A s \in 1 .. z : stack[s].parent # q
  <2>1. q \in Stacked
    BY <1>0, <1>2, <1>4 DEF Stacked, Children
  <2>2. q \notin Emitted
    BY <1>1, <2>1 DEF WalkInv
  <2>3. \A i \in 1 .. n : reordered[i].child # q
    BY <1>2, <2>2 DEF Emitted, Children
  <2>4. \A s \in 1 .. z : stack[s].parent \in Emitted \cup {Root}
    BY <1>1, <1>2 DEF WalkInv
  <2> QED
    BY <1>3, <2>2, <2>3, <2>4
<1>51. \A s \in 1 .. z : \A i \in 1 .. n :
         stack[s].parent = reordered[i].child =>
           /\ \A m \in i + 1 .. n :
                \E l \in i .. m - 1 : reordered[m].parent = reordered[l].child
           /\ \A r \in 1 .. s - 1 :
                \E l \in i .. n : stack[r].parent = reordered[l].child
  <2> SUFFICES ASSUME NEW s \in 1 .. z, NEW i \in 1 .. n,
                      stack[s].parent = reordered[i].child
               PROVE  /\ \A m \in i + 1 .. n :
                           \E l \in i .. m - 1 : reordered[m].parent = reordered[l].child
                      /\ \A r \in 1 .. s - 1 :
                           \E l \in i .. n : stack[r].parent = reordered[l].child
    OBVIOUS
  <2>1. s \in DOMAIN stack /\ i \in DOMAIN reordered
    BY <1>2
  <2> QED
    BY <2>1, Zenon DEF Nested, n
<1>52. \A i, k \in 1 .. n :
         reordered[k].parent = reordered[i].child =>
           \A m \in i + 1 .. k :
             \E l \in i .. m - 1 : reordered[m].parent = reordered[l].child
  <2>1. DOMAIN reordered = 1 .. n
    BY <1>2
  <2> QED
    BY <2>1 DEF SubtreesWhole
(* What Nested says of the top of the stack and of what lies below it.     *)
<1>6. ASSUME NEW s \in 1 .. z, NEW i \in 1 .. n,
             stack[s].parent = reordered[i].child,
             NEW m \in i + 1 .. n
      PROVE  \E l \in i .. m - 1 : reordered'[m].parent = reordered'[l].child
  <2>1. PICK l \in i .. m - 1 : reordered[m].parent = reordered[l].child
    BY <1>6, <1>51
  <2>2. m \in 1 .. n /\ l \in 1 .. n
    BY <1>2
  <2> QED
    BY <1>2, <2>1, <2>2
<1>7. ASSUME NEW s \in 1 .. z, NEW i \in 1 .. n,
             stack[s].parent = reordered[i].child,
             NEW r \in 1 .. s - 1
      PROVE  \E l \in i .. n : stack[r].parent = reordered'[l].child
  <2>1. PICK l \in i .. n : stack[r].parent = reordered[l].child
    BY <1>7, <1>51
  <2>2. l \in 1 .. n
    BY <1>2
  <2> QED
    BY <1>2, <2>1, <2>2
<1>8. SubtreesWhole'
  <2> SUFFICES ASSUME NEW i \in 1 .. n + 1, NEW k \in 1 .. n + 1,
                      reordered'[k].parent = reordered'[i].child,
                      NEW m \in i + 1 .. k
               PROVE  \E l \in i .. m - 1 : reordered'[m].parent = reordered'[l].child
    BY <1>2 DEF SubtreesWhole
  <2>1. i \in 1 .. n /\ (k \in 1 .. n \/ k = n + 1) /\ (m \in i + 1 .. n \/ m = n + 1)
    BY <1>2
  <2>2. CASE k \in 1 .. n
    <3>1. PICK l \in i .. m - 1 : reordered[m].parent = reordered[l].child
      BY <1>2, <2>1, <2>2, <1>52
    <3>2. m \in 1 .. n /\ l \in 1 .. n
      BY <1>2, <2>2
    <3> QED
      BY <1>2, <3>1, <3>2
  <2>3. CASE k = n + 1
    <3>1. stack[1].parent = reordered[i].child
      BY <1>2, <2>1, <2>3
    <3>2. CASE m \in i + 1 .. n
      BY <1>4, <1>6, <2>1, <3>1, <3>2
    <3>3. CASE m = n + 1
      <4>1. i \in i .. m - 1
        BY <1>2, <2>1, <3>3
      <4> QED
        BY <2>3, <3>3, <4>1
    <3> QED
      BY <2>1, <3>2, <3>3
  <2> QED
    BY <2>1, <2>2, <2>3
<1>9. ASSUME NEW s \in 1 .. d + z - 1, NEW i \in 1 .. n + 1,
             stack'[s].parent = reordered'[i].child
      PROVE  /\ \A m \in i + 1 .. n + 1 :
                  \E l \in i .. m - 1 : reordered'[m].parent = reordered'[l].child
             /\ \A r \in 1 .. s - 1 :
                  \E l \in i .. n + 1 : stack'[r].parent = reordered'[l].child
  <2>1. /\ s \in 1 .. d \/ (s \in d + 1 .. d + z - 1 /\ s - d + 1 \in 1 .. z)
        /\ i \in 1 .. n \/ i = n + 1
    BY <1>2
  <2>2. reordered'[n + 1].child = q
    BY <1>0, <1>2
  <2>3. CASE s \in 1 .. d
    <3>1. i = n + 1
      BY <1>2, <1>5, <1>9, <2>1, <2>3
    <3>2. \A m \in i + 1 .. n + 1 : FALSE
      BY <1>2, <3>1
    <3>3. \A r \in 1 .. s - 1 : r \in 1 .. d
      BY <1>2, <2>3
    <3>4. n + 1 \in i .. n + 1
      BY <1>2, <3>1
    <3> QED
      BY <1>2, <2>2, <3>2, <3>3, <3>4
  <2>4. CASE s \in d + 1 .. d + z - 1 /\ s - d + 1 \in 1 .. z
    <3>1. i \in 1 .. n /\ stack[s - d + 1].parent = reordered[i].child
      BY <1>2, <1>5, <1>9, <2>1, <2>2, <2>4
    <3>2. PICK l1 \in i .. n : stack[1].parent = reordered'[l1].child
      <4>1. 1 \in 1 .. (s - d + 1) - 1
        BY <1>2, <2>4
      <4> QED
        BY <1>7, <2>4, <3>1, <4>1
    <3>3. ASSUME NEW m \in i + 1 .. n + 1
          PROVE  \E l \in i .. m - 1 : reordered'[m].parent = reordered'[l].child
      <4>1. CASE m \in i + 1 .. n
        BY <1>6, <2>4, <3>1, <4>1
      <4>2. CASE m = n + 1
        <5>1. l1 \in i .. m - 1
          BY <1>2, <4>2
        <5> QED
          BY <1>2, <3>2, <4>2, <5>1
      <4>3. m \in i + 1 .. n \/ m = n + 1
        BY <1>2
      <4> QED
        BY <4>1, <4>2, <4>3
    <3>4. ASSUME NEW r \in 1 .. s - 1
          PROVE  \E l \in i .. n + 1 : stack'[r].parent = reordered'[l].child
      <4>1. CASE r \in 1 .. d
        <5>1. n + 1 \in i .. n + 1
          BY <1>2, <3>1
        <5> QED
          BY <1>2, <2>2, <4>1, <5>1
      <4>2. CASE r \in d + 1 .. d + z - 1
        <5>1. r - d + 1 \in 1 .. (s - d + 1) - 1
          BY <1>2, <2>4, <4>2
        <5>2. PICK l \in i .. n : stack[r - d + 1].parent = reordered'[l].child
          BY <1>7, <2>4, <3>1, <5>1
        <5>3. l \in i .. n + 1
          BY <1>2, <3>1
        <5> QED
          BY <1>2, <4>2, <5>2, <5>3
      <4>3. r \in 1 .. d \/ r \in d + 1 .. d + z - 1
        BY <1>2
      <4> QED
        BY <4>1, <4>2, <4>3
    <3> QED
      BY <3>3, <3>4
  <2> QED
    BY <2>1, <2>3, <2>4
<1>10. Nested'
  <2> SUFFICES ASSUME NEW s \in DOMAIN stack', NEW i \in DOMAIN reordered',
                      stack'[s].parent = reordered'[i].child
               PROVE  /\ \A m \in i + 1 .. Len(reordered') :
                           \E l \in i .. m - 1 : reordered'[m].parent = reordered'[l].child
                      /\ \A r \in 1 .. s - 1 :
                           \E l \in i .. Len(reordered') : stack'[r].parent = reordered'[l].child
    BY DEF Nested
  <2>1. s \in 1 .. d + z - 1 /\ i \in 1 .. n + 1 /\ Len(reordered') = n + 1
    BY <1>2
  <2> QED
    BY <2>1, <1>9
<1> QED
  BY <1>8, <1>10

LEMMA DepthStep ==
  ASSUME ReorderInv, Nested, SubtreesWhole, [Next]_vars
  PROVE  Nested' /\ SubtreesWhole'
<1>1. IndexEdge \/ Finish \/ Check \/ UNCHANGED vars => UNCHANGED <<stack, reordered>>
  BY DEF IndexEdge, Finish, Check, vars
<1>2. UNCHANGED <<stack, reordered>> => Nested' /\ SubtreesWhole'
  BY DEF Nested, SubtreesWhole
<1> QED
  BY <1>1, <1>2, DepthPushRoot, DepthVisit DEF Next

-------------------------------------------------------------------------------
(* The order of siblings.                                                  *)
LEMMA OrderInit == Init => OrderInv
BY DEF Init, OrderInv, ListsInOrder, StackInOrder, RootsInOrder, SiblingsInOrder

(* An edge that is read now stands behind all that have been read.         *)
LEMMA ReadLater ==
  ASSUME TypeOK, next \in 1 .. N, NEW e, \E k \in 1 .. next - 1 : given[k] = e
  PROVE  Precedes(given, e, given[next])
<1>1. PICK k \in 1 .. next - 1 : given[k] = e
  OBVIOUS
<1>2. DOMAIN given = 1 .. N
  BY GivenFacts
<1>3. k \in 1 .. N /\ k < next
  BY <1>1, NAssumption
<1> QED
  BY <1>1, <1>2, <1>3 DEF Precedes

LEMMA OrderIndexEdge ==
  ASSUME ReorderInv, OrderInv, IndexEdge
  PROVE  OrderInv'
<1> DEFINE e == given[next]
<1>1. /\ TypeOK /\ IndexInv /\ ListsInOrder
      /\ next \in 1 .. N /\ edges = given
      /\ stack = << >> /\ reordered = << >>
      /\ UNCHANGED <<stack, reordered, given>>
  BY DEF ReorderInv, OrderInv, PhaseInv, IndexEdge
<1>2. /\ e.child \in Queries /\ e.parent \in Queries \cup {Root}
      /\ e = Edge(e.child, e.parent)
  BY <1>1, GivenFacts
<1>3. \/ /\ e.parent = Root /\ roots' = Append(roots, e.child) /\ children' = children
      \/ /\ e.parent # Root /\ roots' = roots /\ e.parent \in Queries
         /\ children' = [children EXCEPT ![e.parent] = Append(@, e.child)]
  BY <1>1, <1>2 DEF IndexEdge
<1>4. CASE e.parent = Root
  <2>1. /\ roots' = Append(roots, e.child) /\ children' = children
        /\ roots \in Seq(Queries)
    BY <1>1, <1>3, <1>4 DEF TypeOK
  <2>2. /\ DOMAIN roots = 1 .. Len(roots) /\ Len(roots) \in Nat
        /\ DOMAIN roots' = 1 .. Len(roots) + 1
        /\ \A i \in 1 .. Len(roots) : roots'[i] = roots[i]
        /\ roots'[Len(roots) + 1] = e.child
    BY <1>2, <2>1, AppendProperties, LenProperties
  <2>3. \A i \in 1 .. Len(roots) : Precedes(given, Edge(roots[i], Root), e)
    <3>1. \A i \in 1 .. Len(roots) : roots[i] \in Waiting
      BY <2>2 DEF Waiting
    <3>2. \A i \in 1 .. Len(roots) :
            \E k \in 1 .. next - 1 : given[k] = Edge(roots[i], Root)
      BY <1>1, <3>1 DEF IndexInv
    <3> QED
      BY <1>1, <3>2, ReadLater
  <2>4. \A i, j \in 1 .. Len(roots) + 1 :
          i < j => Precedes(given, Edge(roots'[i], Root), Edge(roots'[j], Root))
    <3> SUFFICES ASSUME NEW i \in 1 .. Len(roots) + 1, NEW j \in 1 .. Len(roots) + 1, i < j
                 PROVE  Precedes(given, Edge(roots'[i], Root), Edge(roots'[j], Root))
      OBVIOUS
    <3>1. i \in 1 .. Len(roots) /\ (j \in 1 .. Len(roots) \/ j = Len(roots) + 1)
      BY <2>2
    <3>2. CASE j \in 1 .. Len(roots)
      BY <1>1, <2>2, <3>1, <3>2 DEF ListsInOrder
    <3>3. CASE j = Len(roots) + 1
      BY <1>2, <1>4, <2>2, <2>3, <3>1, <3>3
    <3> QED
      BY <3>1, <3>2, <3>3
  <2> QED
    BY <1>1, <2>1, <2>2, <2>4
    DEF OrderInv, ListsInOrder, StackInOrder, RootsInOrder, SiblingsInOrder
<1>5. CASE e.parent # Root
  <2> DEFINE p == e.parent
             old == children[p]
  <2>1. /\ roots' = roots /\ p \in Queries /\ old \in Seq(Queries)
        /\ children' = [children EXCEPT ![p] = Append(old, e.child)]
    BY <1>1, <1>3, <1>5 DEF TypeOK
  <2>2. /\ children'[p] = Append(old, e.child)
        /\ \A q \in Queries \ {p} : children'[q] = children[q]
    BY <1>1, <2>1 DEF TypeOK
  <2>3. \A i \in DOMAIN old : \E k \in 1 .. next - 1 : given[k] = Edge(old[i], p)
    BY <1>1, <2>1 DEF IndexInv
  <2>4. \A i \in DOMAIN old : Precedes(given, Edge(old[i], p), e)
    <3> HIDE DEF p, old, e
    <3>1. \A x : (\E k \in 1 .. next - 1 : given[k] = x) => Precedes(given, x, given[next])
      BY <1>1, ReadLater
    <3> QED
      BY <2>3, <3>1 DEF e
  <2>5. \A i, j \in DOMAIN old :
          i < j => Precedes(given, Edge(old[i], p), Edge(old[j], p))
    BY <1>1, <2>1 DEF ListsInOrder
  <2>6. e = Edge(e.child, p) /\ e.child \in Queries
    BY <1>2
  <2> HIDE DEF p, old, e
  <2>7. /\ DOMAIN old = 1 .. Len(old) /\ Len(old) \in Nat
        /\ DOMAIN children'[p] = 1 .. Len(old) + 1
        /\ \A i \in 1 .. Len(old) : children'[p][i] = old[i]
        /\ children'[p][Len(old) + 1] = e.child
    BY <2>1, <2>2, <2>6, AppendProperties, LenProperties
  <2>8. \A i, j \in DOMAIN children'[p] :
          i < j => Precedes(given, Edge(children'[p][i], p), Edge(children'[p][j], p))
    <3> SUFFICES ASSUME NEW i \in 1 .. Len(old) + 1, NEW j \in 1 .. Len(old) + 1, i < j
                 PROVE  Precedes(given, Edge(children'[p][i], p), Edge(children'[p][j], p))
      BY <2>7
    <3>1. i \in 1 .. Len(old) /\ (j \in 1 .. Len(old) \/ j = Len(old) + 1)
      BY <2>7
    <3>2. CASE j \in 1 .. Len(old)
      BY <2>5, <2>7, <3>1, <3>2
    <3>3. CASE j = Len(old) + 1
      BY <2>4, <2>6, <2>7, <3>1, <3>3
    <3> QED
      BY <3>1, <3>2, <3>3
  <2>9. ListsInOrder'
    <3>1. \A q \in Queries \ {p} : \A i, j \in DOMAIN children'[q] :
            i < j => Precedes(given, Edge(children'[q][i], q), Edge(children'[q][j], q))
      BY <1>1, <2>2 DEF ListsInOrder
    <3>2. \A q \in Queries : \A i, j \in DOMAIN children'[q] :
            i < j => Precedes(given, Edge(children'[q][i], q), Edge(children'[q][j], q))
      BY <2>8, <3>1
    <3>3. \A i, j \in DOMAIN roots' :
            i < j => Precedes(given, Edge(roots'[i], Root), Edge(roots'[j], Root))
      BY <1>1, <2>1 DEF ListsInOrder
    <3> QED
      BY <1>1, <3>2, <3>3 DEF ListsInOrder
  <2> QED
    BY <1>1, <2>9 DEF OrderInv, StackInOrder, RootsInOrder, SiblingsInOrder
<1> QED
  BY <1>4, <1>5

(* The first of the roots leaves the list for the stack.                   *)
LEMMA OrderPushRoot ==
  ASSUME ReorderInv, OrderInv, PushRoot
  PROVE  OrderInv'
<1> DEFINE r == Head(roots)
<1>1. /\ TypeOK /\ ListsInOrder /\ RootsInOrder /\ SiblingsInOrder
      /\ roots \in Seq(Queries) /\ roots # << >>
      /\ stack' = <<Edge(r, Root)>> /\ roots' = Tail(roots)
      /\ UNCHANGED <<children, reordered, given>>
  BY DEF ReorderInv, TypeOK, OrderInv, PushRoot
<1>2. /\ Len(roots) \in Nat /\ Len(roots) >= 1
      /\ DOMAIN roots = 1 .. Len(roots)
      /\ r = roots[1]
      /\ DOMAIN roots' = 1 .. Len(roots) - 1
      /\ \A i \in 1 .. Len(roots) - 1 : roots'[i] = roots[i + 1]
  <2>1. Len(roots) \in Nat /\ DOMAIN roots = 1 .. Len(roots) /\ Len(roots) >= 1
    BY <1>1, LenProperties, EmptySeq
  <2>2. r = roots[1]
    BY <1>1, HeadTailProperties
  <2>3. /\ roots' \in Seq(Queries) /\ Len(roots') = Len(roots) - 1
        /\ \A i \in 1 .. Len(roots') : roots'[i] = roots[i + 1]
    BY <1>1, HeadTailProperties
  <2> QED
    BY <2>1, <2>2, <2>3, LenProperties
<1>3. /\ DOMAIN stack' = {1}
      /\ stack'[1] = Edge(roots[1], Root) /\ stack'[1].parent = Root
  BY <1>1, <1>2, EdgeFields
<1> HIDE DEF r
<1>4. \A i \in 1 .. Len(roots) - 1 :
        i + 1 \in DOMAIN roots /\ 1 \in DOMAIN roots /\ 1 < i + 1
  BY <1>2
<1>5. ListsInOrder'
  <2>1. \A i, j \in DOMAIN roots' :
          i < j => Precedes(given, Edge(roots'[i], Root), Edge(roots'[j], Root))
    <3> SUFFICES ASSUME NEW i \in 1 .. Len(roots) - 1, NEW j \in 1 .. Len(roots) - 1, i < j
                 PROVE  Precedes(given, Edge(roots[i + 1], Root), Edge(roots[j + 1], Root))
      BY <1>2
    <3>1. i + 1 \in DOMAIN roots /\ j + 1 \in DOMAIN roots /\ i + 1 < j + 1
      BY <1>2
    <3> QED
      BY <1>1, <3>1 DEF ListsInOrder
  <2> QED
    BY <1>1, <2>1 DEF ListsInOrder
<1>6. StackInOrder'
  <2>1. \A i \in DOMAIN reordered :
          reordered[i].parent = Root => Precedes(given, reordered[i], stack'[1])
    BY <1>1, <1>2, <1>3 DEF RootsInOrder
  <2>2. \A i, j \in DOMAIN stack' : ~ (i < j)
    BY <1>3
  <2> QED
    BY <1>1, <1>3, <2>1, <2>2 DEF StackInOrder
<1>7. RootsInOrder'
  <2> SUFFICES ASSUME NEW j \in 1 .. Len(roots) - 1
               PROVE  /\ \A i \in DOMAIN reordered :
                           reordered[i].parent = Root =>
                             Precedes(given, reordered[i], Edge(roots[j + 1], Root))
                      /\ Precedes(given, Edge(roots[1], Root), Edge(roots[j + 1], Root))
    BY <1>1, <1>2, <1>3 DEF RootsInOrder
  <2>1. \A i \in DOMAIN reordered :
          reordered[i].parent = Root =>
            Precedes(given, reordered[i], Edge(roots[j + 1], Root))
    BY <1>1, <1>4 DEF RootsInOrder
  <2>2. Precedes(given, Edge(roots[1], Root), Edge(roots[j + 1], Root))
    BY <1>1, <1>4 DEF ListsInOrder
  <2> QED
    BY <2>1, <2>2
<1>8. SiblingsInOrder'
  BY <1>1 DEF SiblingsInOrder
<1> QED
  BY <1>5, <1>6, <1>7, <1>8 DEF OrderInv

(* The popped edge keeps its place between what was emitted and what stays *)
(* stacked; the children put in its place are the first of their parent.   *)
LEMMA OrderVisit ==
  ASSUME ReorderInv, OrderInv, Visit
  PROVE  OrderInv'
<1>0. PICK h, q, c : h = Head(stack) /\ q = h.child /\ c = children[q]
  OBVIOUS
<1>1. /\ TypeOK /\ WalkInv /\ PrefixValid
      /\ ListsInOrder /\ StackInOrder /\ RootsInOrder /\ SiblingsInOrder
      /\ UNCHANGED <<children, roots, given>>
  BY DEF ReorderInv, OrderInv, Visit
<1> DEFINE n == Len(reordered)
           d == Len(c)
           z == Len(stack)
<1>2. /\ n \in Nat /\ d \in Nat /\ z \in Nat /\ z >= 1
      /\ DOMAIN c = 1 .. d
      /\ DOMAIN stack = 1 .. z /\ DOMAIN stack' = 1 .. d + z - 1
      /\ DOMAIN reordered = 1 .. n /\ DOMAIN reordered' = 1 .. n + 1
      /\ h = stack[1] /\ q \in Queries /\ q # Root
      /\ \A i \in 1 .. d : stack'[i] = Edge(c[i], q) /\ stack'[i].parent = q
      /\ \A i \in d + 1 .. d + z - 1 : stack'[i] = stack[i - d + 1]
      /\ \A i \in 1 .. n : reordered'[i] = reordered[i]
      /\ reordered'[n + 1] = h
  <2>1. /\ z \in Nat /\ z >= 1 /\ DOMAIN stack = 1 .. z /\ h = stack[1]
        /\ d \in Nat /\ DOMAIN c = 1 .. d /\ q \in Queries
    BY <1>0, <1>1, VisitBefore
  <2>2. /\ Len(stack') = d + z - 1 /\ DOMAIN stack' = 1 .. Len(stack')
        /\ \A i \in 1 .. d : stack'[i] = Edge(c[i], q)
        /\ \A i \in d + 1 .. d + z - 1 : stack'[i] = stack[i - d + 1]
    BY <1>0, <1>1, VisitStack
  <2>3. \A i \in 1 .. d : stack'[i].parent = q
    BY <2>2, EdgeFields
  <2>4. /\ n \in Nat /\ DOMAIN reordered = 1 .. n /\ DOMAIN reordered' = 1 .. n + 1
        /\ \A i \in 1 .. n : reordered'[i] = reordered[i]
        /\ reordered'[n + 1] = h
    BY <1>0, <1>1, VisitEmits
  <2>5. q # Root
    BY <2>1 DEF Queries, Root
  <2> HIDE DEF n, d, z
  <2> QED
    BY <2>1, <2>2, <2>3, <2>4, <2>5
<1> HIDE DEF n, d, z
(* No child of q has been seen before.                                     *)
<1>3. /\ \A i \in 1 .. n : reordered[i].parent # q
      /\ \A i \in 1 .. z : stack[i].parent # q
  <2>1. q \in Stacked
    <3>1. 1 \in DOMAIN stack
      BY <1>2
    <3> QED
      BY <1>0, <1>2, <3>1 DEF Stacked, Children
  <2>2. q \notin Emitted
    BY <1>1, <2>1 DEF WalkInv
  <2>3. \A i \in 1 .. z : stack[i].parent \in Emitted \cup {Root}
    BY <1>1, <1>2 DEF WalkInv
  <2>4. ASSUME NEW i \in 1 .. n PROVE reordered[i].parent \in Emitted \cup {Root}
    <3> SUFFICES ASSUME reordered[i].parent # Root PROVE reordered[i].parent \in Emitted
      OBVIOUS
    <3>1. PICK j \in 1 .. i - 1 : reordered[j].child = reordered[i].parent
      BY <1>1, <1>2 DEF PrefixValid, OrderAssert
    <3>2. j \in DOMAIN reordered
      BY <1>2
    <3> QED
      BY <3>1, <3>2 DEF Emitted, Children
  <2> QED
    BY <1>2, <2>2, <2>3, <2>4
<1>4. /\ \A i, j \in 1 .. d : i < j => Precedes(given, Edge(c[i], q), Edge(c[j], q))
      /\ \A i, j \in 1 .. z :
           i < j /\ stack[i].parent = stack[j].parent => Precedes(given, stack[i], stack[j])
      /\ \A i \in 1 .. n : \A j \in 1 .. z :
           reordered[i].parent = stack[j].parent => Precedes(given, reordered[i], stack[j])
      /\ \A i, k \in 1 .. n :
           i < k /\ reordered[i].parent = reordered[k].parent =>
             Precedes(given, reordered[i], reordered[k])
  <2>1. \A i, j \in 1 .. d : i < j => Precedes(given, Edge(c[i], q), Edge(c[j], q))
    BY <1>0, <1>1, <1>2 DEF ListsInOrder
  <2>2. \A i, j \in 1 .. z :
          i < j /\ stack[i].parent = stack[j].parent => Precedes(given, stack[i], stack[j])
    BY <1>1, <1>2 DEF StackInOrder
  <2>3. \A i \in 1 .. n : \A j \in 1 .. z :
          reordered[i].parent = stack[j].parent => Precedes(given, reordered[i], stack[j])
    BY <1>1, <1>2 DEF StackInOrder
  <2>4. \A i, k \in 1 .. n :
          i < k /\ reordered[i].parent = reordered[k].parent =>
            Precedes(given, reordered[i], reordered[k])
    BY <1>1, <1>2 DEF SiblingsInOrder
  <2> QED
    BY <2>1, <2>2, <2>3, <2>4
<1>5. ListsInOrder'
  BY <1>1 DEF ListsInOrder
<1>6. 1 \in 1 .. z /\ \A i \in 1 .. n + 1 : i \in 1 .. n \/ i = n + 1
  BY <1>2
(* What lies below the popped edge was there before.                       *)
<1>7. \A j \in 1 .. d + z - 1 :
        j \in 1 .. d \/ (j \in d + 1 .. d + z - 1 /\ j - d + 1 \in 1 .. z /\ 1 < j - d + 1)
  BY <1>2
<1>8. SiblingsInOrder'
  <2> SUFFICES ASSUME NEW i \in 1 .. n + 1, NEW k \in 1 .. n + 1, i < k,
                      reordered'[i].parent = reordered'[k].parent
               PROVE  Precedes(given, reordered'[i], reordered'[k])
    BY <1>1, <1>2 DEF SiblingsInOrder
  <2>1. i \in 1 .. n
    BY <1>2
  <2>2. CASE k \in 1 .. n
    BY <1>2, <1>4, <2>1, <2>2
  <2>3. CASE k = n + 1
    BY <1>2, <1>4, <1>6, <2>1, <2>3
  <2> QED
    BY <1>6, <2>2, <2>3
<1>9. StackInOrder'
  <2>1. ASSUME NEW i \in 1 .. d + z - 1, NEW j \in 1 .. d + z - 1, i < j,
               stack'[i].parent = stack'[j].parent
        PROVE  Precedes(given, stack'[i], stack'[j])
    <3>1. CASE i \in 1 .. d /\ j \in 1 .. d
      BY <1>2, <1>4, <2>1, <3>1
    <3>2. CASE i \in 1 .. d /\ ~ (j \in 1 .. d)
      BY <1>2, <1>3, <1>7, <2>1, <3>2
    <3>3. CASE ~ (i \in 1 .. d)
      <4>1. /\ i \in d + 1 .. d + z - 1 /\ i - d + 1 \in 1 .. z
            /\ j \in d + 1 .. d + z - 1 /\ j - d + 1 \in 1 .. z
            /\ i - d + 1 < j - d + 1
        BY <1>2, <1>7, <2>1, <3>3
      <4> QED
        BY <1>2, <1>4, <2>1, <4>1
    <3> QED
      BY <3>1, <3>2, <3>3
  <2>2. ASSUME NEW i \in 1 .. n + 1, NEW j \in 1 .. d + z - 1,
               reordered'[i].parent = stack'[j].parent
        PROVE  Precedes(given, reordered'[i], stack'[j])
    <3>1. reordered'[i].parent # q
      BY <1>2, <1>3, <1>6
    <3>2. j \in d + 1 .. d + z - 1 /\ j - d + 1 \in 1 .. z /\ 1 < j - d + 1
      BY <1>2, <1>7, <2>2, <3>1
    <3>3. CASE i \in 1 .. n
      BY <1>2, <1>4, <2>2, <3>2, <3>3
    <3>4. CASE i = n + 1
      BY <1>2, <1>4, <1>6, <2>2, <3>2, <3>4
    <3> QED
      BY <1>6, <3>3, <3>4
  <2> QED
    BY <1>1, <1>2, <2>1, <2>2 DEF StackInOrder
<1>10. RootsInOrder'
  <2> SUFFICES ASSUME NEW j \in DOMAIN roots
               PROVE  /\ \A i \in 1 .. n + 1 : reordered'[i].parent = Root =>
                           Precedes(given, reordered'[i], Edge(roots[j], Root))
                      /\ \A i \in 1 .. d + z - 1 : stack'[i].parent = Root =>
                           Precedes(given, stack'[i], Edge(roots[j], Root))
    BY <1>1, <1>2 DEF RootsInOrder
  <2>1. /\ \A i \in 1 .. n : reordered[i].parent = Root =>
             Precedes(given, reordered[i], Edge(roots[j], Root))
        /\ \A i \in 1 .. z : stack[i].parent = Root =>
             Precedes(given, stack[i], Edge(roots[j], Root))
    BY <1>1, <1>2 DEF RootsInOrder
  <2>2. \A i \in 1 .. n + 1 : reordered'[i].parent = Root =>
          Precedes(given, reordered'[i], Edge(roots[j], Root))
    BY <1>2, <1>6, <2>1
  <2>3. \A i \in 1 .. d + z - 1 : stack'[i].parent = Root =>
          Precedes(given, stack'[i], Edge(roots[j], Root))
    BY <1>2, <1>7, <2>1
  <2> QED
    BY <2>2, <2>3
<1> QED
  BY <1>5, <1>8, <1>9, <1>10 DEF OrderInv

LEMMA OrderStep ==
  ASSUME ReorderInv, OrderInv, [Next]_vars
  PROVE  OrderInv'
<1>1. Finish \/ Check \/ UNCHANGED vars =>
        UNCHANGED <<children, roots, stack, reordered, given>>
  BY DEF Finish, Check, vars
<1>2. UNCHANGED <<children, roots, stack, reordered, given>> => OrderInv'
  BY DEF OrderInv, ListsInOrder, StackInOrder, RootsInOrder, SiblingsInOrder
<1> QED
  BY <1>1, <1>2, OrderIndexEdge, OrderPushRoot, OrderVisit DEF Next

(* Every state of the function satisfies the inductive invariant.          *)
THEOREM Inductive == Spec => []IInv
<1>1. Init => IInv
  BY InitReorderInv, DepthInit, OrderInit DEF IInv
<1>2. ReorderInv /\ [Next]_vars => ReorderInv'
  BY IndexEdgeStep, PushRootStep, VisitStep, FinishStep, CheckStep, StutterStep
  DEF Next
<1>3. IInv /\ [Next]_vars => IInv'
  BY <1>2, DepthStep, OrderStep DEF IInv
<1> QED
  BY <1>1, <1>3, PTL DEF Spec

(* The result is the depth-first order of the list: a subtree, once left,  *)
(* is never entered again, and siblings come in the order of the list.     *)
THEOREM WalkIsDepthFirst == Spec => []DepthFirst
<1>1. IInv => DepthFirst
  BY DEF IInv, OrderInv, DepthFirst
<1> QED
  BY Inductive, <1>1, PTL

(* The variables of the function stay in their types.                      *)
THEOREM TypeCorrect == Spec => []TypeOK
<1>1. IInv => TypeOK
  BY DEF IInv, ReorderInv
<1> QED
  BY Inductive, <1>1, PTL

(* At any moment of the walk, on any input, the emitted edges have no      *)
(* query twice and every parent before its children.                       *)
THEOREM PrefixAlwaysValid == Spec => []PrefixValid
<1>1. IInv => PrefixValid
  BY DEF IInv, ReorderInv
<1> QED
  BY Inductive, <1>1, PTL

(* The N edges of an input have every query as a child.                    *)
LEMMA GivenCovers ==
  ASSUME TypeOK
  PROVE  \A q \in Queries : \E k \in 1 .. N : given[k].child = q
<1>1. given \in Seq(Edges) /\ Len(given) = N /\ EachChildOnce(given)
  BY InputsAssumption DEF TypeOK
<1>2. Children(given) = Queries
  BY <1>1, Pigeonhole
<1> QED
  BY <1>2, GivenFacts DEF Children

(* When the walk has nothing left to do, a forest has been emitted whole:  *)
(* a query of least rank among the missing ones would have its parent, and *)
(* with it itself, emitted.                                                *)
LEMMA ForestEmitted ==
  ASSUME IInv, pc # "index", stack = << >>, roots = << >>, IsForest(given)
  PROVE  CheckTrajectory(reordered)
<1>1. /\ TypeOK /\ PhaseInv /\ IndexInv /\ WalkInv /\ PrefixValid
      /\ next - 1 = N
  BY NAssumption DEF IInv, ReorderInv, PhaseInv
<1>2. Stacked = {} /\ Waiting = {}
  BY DEF Stacked, Waiting, Children
<1>3. PICK rank \in [Queries -> Queries] :
         \A k \in 1 .. N :
           given[k].parent # Root => rank[given[k].parent] < rank[given[k].child]
  BY <1>1, GivenFacts DEF IsForest
<1>4. Emitted \subseteq Queries
  BY <1>1, EdgesAt DEF TypeOK, Emitted, Children
<1>5. Emitted = Queries
  <2> SUFFICES ASSUME Queries \ Emitted # {} PROVE FALSE
    BY <1>4
  <2>1. PICK q \in Queries \ Emitted :
           \A p \in Queries \ Emitted : ~ (rank[p] < rank[q])
    BY LeastRank
  <2>2. PICK k \in 1 .. N : given[k].child = q
    BY <1>1, GivenCovers
  <2>3. CASE given[k].parent = Root
    BY <2>1, <2>2, <2>3, <1>1, <1>2 DEF IndexInv
  <2>4. CASE given[k].parent # Root
    <3>1. given[k].parent \in Queries /\ rank[given[k].parent] < rank[q]
      BY <2>2, <2>4, <1>1, <1>3, GivenFacts
    <3>2. given[k].parent \in Emitted
      BY <3>1, <2>1
    <3> QED
      BY <3>2, <2>1, <2>2, <1>1, <1>2 DEF WalkInv
  <2> QED
    BY <2>3, <2>4
<1>6. Len(reordered) = N
  BY <1>1, <1>5, Pigeonhole DEF TypeOK, PrefixValid, Emitted
<1> QED
  BY <1>1, <1>5, <1>6
  DEF CheckTrajectory, SizeAssert, CoverAssert, PrefixValid, Emitted

(* None of the asserts of checkTrajectory fires after the reordering of a  *)
(* forest.                                                                 *)
THEOREM AssertsNeverFire == Spec => []AssertsHold
<1>1. IInv => AssertsHold
  <2> SUFFICES ASSUME IInv, IsForest(given), pc = "abort" PROVE FALSE
    BY DEF AssertsHold
  <2>1. /\ edges = reordered /\ stack = << >> /\ roots = << >>
        /\ ~ CheckTrajectory(edges)
    BY DEF IInv, ReorderInv, PhaseInv
  <2> QED
    BY <2>1, ForestEmitted
<1> QED
  BY Inductive, <1>1, PTL

(* An accepted trajectory comes from a forest: the positions in it are a   *)
(* rank of the queries.                                                    *)
THEOREM OnlyForestsAccepted == Spec => []AcceptsOnlyForests
<1>1. IInv => AcceptsOnlyForests
  <2> SUFFICES ASSUME IInv, pc = "ok" PROVE IsForest(given)
    BY DEF AcceptsOnlyForests
  <2>1. /\ TypeOK /\ WalkInv /\ PrefixValid
        /\ Len(reordered) = N /\ Children(reordered) = Queries
    BY DEF IInv, ReorderInv, PhaseInv, CheckTrajectory, SizeAssert, CoverAssert
  <2>2. DOMAIN reordered = 1 .. N
    BY <2>1, EdgesAt DEF TypeOK
  <2> DEFINE place(q) == CHOOSE i \in 1 .. N : reordered[i].child = q
             rank == [q \in Queries |-> place(q) - 1]
  <2>3. \A q \in Queries : place(q) \in 1 .. N /\ reordered[place(q)].child = q
    BY <2>1, <2>2 DEF Children
  <2>4. \A i \in 1 .. N : place(reordered[i].child) = i
    <3> TAKE i \in 1 .. N
    <3>1. reordered[i].child \in Queries
      BY <2>1, EdgesAt DEF TypeOK
    <3> HIDE DEF place
    <3> QED
      BY <2>1, <2>2, <2>3, <3>1 DEF PrefixValid, EachChildOnce
  <2> HIDE DEF place
  <2>5. rank \in [Queries -> Queries]
    BY <2>3, NAssumption DEF Queries
  <2>6. ASSUME NEW k \in 1 .. N, given[k].parent # Root
        PROVE  rank[given[k].parent] < rank[given[k].child]
    <3>1. given[k].child \in Queries /\ given[k].parent \in Queries
      BY <2>6, <2>1, GivenFacts
    <3>2. PICK i \in 1 .. N : reordered[i].child = given[k].child
      BY <3>1, <2>3
    <3>3. PICK l \in 1 .. N : given[l] = reordered[i]
      BY <2>1, <2>2 DEF WalkInv
    <3>4. reordered[i].parent = given[k].parent
      BY <3>2, <3>3, <2>1, GivenFacts
    <3>5. PICK j \in 1 .. i - 1 : reordered[j].child = given[k].parent
      BY <3>4, <2>1, <2>2, <2>6 DEF PrefixValid, OrderAssert
    <3>6. j \in 1 .. N /\ j < i
      BY NAssumption
    <3>7. place(given[k].child) = i /\ place(given[k].parent) = j
      BY <3>2, <3>5, <3>6, <2>4
    <3> QED
      BY <3>1, <3>6, <3>7
  <2> QED
    BY <2>1, <2>5, <2>6, GivenFacts DEF IsForest
<1> QED
  BY Inductive, <1>1, PTL

(* checkTrajectory, called after the reordering, tells the forests from    *)
(* every other list with one edge per query.                               *)
THEOREM AssertsTellForests == Spec => []AcceptsForests
BY AssertsNeverFire, OnlyForestsAccepted, PTL DEF AcceptsForests

(* The walk implements the abstract producer: an iteration of the inner    *)
(* loop emits one edge, every other step is invisible.                     *)
THEOREM Refinement == Spec => ImplementsTrajectory
<1>1. Init => Abstract!Init
  BY DEF Init, Abstract!Init
<1>2. IInv /\ [Next]_vars => [Abstract!Next]_reordered
  <2> SUFFICES ASSUME IInv, Visit PROVE Abstract!Next
    BY DEF Next, vars, IndexEdge, PushRoot, Finish, Check
  <2>1. PICK h : h = Head(stack)
    OBVIOUS
  <2>2. /\ stack # << >> /\ stack \in Seq(Edges) /\ WalkInv
        /\ reordered' = Append(reordered, h)
    BY <2>1 DEF IInv, ReorderInv, TypeOK, Visit
  <2>3. h \in Edges /\ h = stack[1] /\ 1 \in DOMAIN stack
    BY <2>1, <2>2, HeadTailProperties, EmptySeq, LenProperties
  <2>4. h.child \in Stacked /\ h.parent \in Emitted \cup {Root}
    BY <2>2, <2>3 DEF Stacked, Children, WalkInv
  <2>5. h.child \notin Emitted
    BY <2>2, <2>4 DEF WalkInv
  <2>6. h = Abstract!Edge(h.child, h.parent)
    BY <2>3, EdgeShape DEF Edge, Abstract!Edge
  <2>7. Abstract!Emit(h.child, h.parent)
    BY <2>2, <2>4, <2>5, <2>6
    DEF Abstract!Emit, Abstract!Children, Abstract!Root, Emitted, Children, Root
  <2>8. h.child \in Abstract!Queries /\ h.parent \in Abstract!Queries \cup {Abstract!Root}
    BY <2>3, EdgeShape DEF Queries, Root, Abstract!Queries, Abstract!Root
  <2> QED
    BY <2>7, <2>8 DEF Abstract!Next
<1> QED
  BY Inductive, <1>1, <1>2, PTL
  DEF Spec, ImplementsTrajectory, Abstract!Safety
===============================================================================
