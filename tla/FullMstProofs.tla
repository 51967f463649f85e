----------------------------- MODULE FullMstProofs -----------------------------
(***************************************************************************)
(* Proofs about FullMst, for every number of queries and threads, every    *)
(* distance function, negative and infinite distances and ties included,   *)
(* and every order in which the threads take their steps.                  *)
(***************************************************************************)
EXTENDS FullMst, FiniteSetTheorems, FunctionTheorems, SequenceTheorems,
        WellFoundedInduction, TLAPS

-------------------------------------------------------------------------------
(* Sequences of edges.                                                     *)

(* The fields of an edge are a query and a query or Root.                  *)
LEMMA EdgeShape ==
  \A e \in Edges : /\ e.child \in Queries
                   /\ e.parent \in Queries \cup {Root}
                   /\ e = Edge(e.child, e.parent)
BY DEF Edges, Edge

(* What t \in Seq(Edges) says of the positions of t.                       *)
LEMMA EdgesAt ==
  ASSUME NEW t \in Seq(Edges)
  PROVE  /\ Len(t) \in Nat
         /\ DOMAIN t = 1 .. Len(t)
         /\ \A i \in 1 .. Len(t) : t[i] \in Edges /\ t[i].child \in Queries
<1>1. Len(t) \in Nat /\ DOMAIN t = 1 .. Len(t)
  BY LenProperties
<1>2. \A i \in 1 .. Len(t) : t[i] \in Edges
  BY <1>1, ElementOfSeq
<1> QED
  BY <1>1, <1>2, EdgeShape

LEMMA QueriesFinite ==
  IsFiniteSet(Queries) /\ Cardinality(Queries) = N
<1>1. 0 \in Int /\ N - 1 \in Int /\ ~ (0 > N - 1)
  BY NAssumption
<1> QED
  BY <1>1, NAssumption, FS_Interval DEF Queries

(* The children of t as a function of the position.                        *)
LEMMA ChildFunction ==
  ASSUME NEW t \in Seq(Edges), EachChildOnce(t),
         NEW f, f = [i \in 1 .. Len(t) |-> t[i].child]
  PROVE  /\ f \in Injection(1 .. Len(t), Queries)
         /\ IsFiniteSet(1 .. Len(t)) /\ Cardinality(1 .. Len(t)) = Len(t)
         /\ f \in Surjection(1 .. Len(t), Queries) <=> Children(t) = Queries
<1>1. f \in [1 .. Len(t) -> Queries]
  BY EdgesAt
<1>2. IsInjective(f)
  BY EdgesAt DEF IsInjective, EachChildOnce
<1>3. f \in Injection(1 .. Len(t), Queries)
  BY <1>1, <1>2 DEF Injection
<1>4. IsFiniteSet(1 .. Len(t)) /\ Cardinality(1 .. Len(t)) = Len(t)
  <2>1. 1 \in Int /\ Len(t) \in Int /\ Len(t) \in Nat
    BY EdgesAt
  <2>2. IF 1 > Len(t) THEN Len(t) = 0 ELSE Len(t) - 1 + 1 = Len(t)
    BY <2>1
  <2> QED
    BY <2>1, <2>2, FS_Interval
<1>5. f \in Surjection(1 .. Len(t), Queries) <=> Children(t) = Queries
  BY <1>1, EdgesAt DEF Surjection, Children
<1> QED
  BY <1>3, <1>4, <1>5

(* N edges with different children cover the queries, and a cover without  *)
(* repetition has N edges.                                                 *)
LEMMA Pigeonhole ==
  ASSUME NEW t \in Seq(Edges), EachChildOnce(t)
  PROVE  Len(t) = N <=> Children(t) = Queries
<1>1. PICK f : f = [i \in 1 .. Len(t) |-> t[i].child]
  OBVIOUS
<1>2. /\ f \in Injection(1 .. Len(t), Queries)
      /\ IsFiniteSet(1 .. Len(t)) /\ Cardinality(1 .. Len(t)) = Len(t)
      /\ f \in Surjection(1 .. Len(t), Queries) <=> Children(t) = Queries
  BY <1>1, ChildFunction
<1>3. Cardinality(1 .. Len(t)) = Cardinality(Queries)
        <=> f \in Surjection(1 .. Len(t), Queries)
  BY <1>2, QueriesFinite, FS_Injection
<1> QED
  BY <1>2, <1>3, QueriesFinite

(* What appending an edge does to the positions and to the children.       *)
LEMMA Appending ==
  ASSUME NEW t \in Seq(Edges), NEW e \in Edges, NEW s, s = Append(t, e)
  PROVE  /\ s \in Seq(Edges) /\ Len(s) = Len(t) + 1
         /\ Len(t) \in Nat /\ DOMAIN t = 1 .. Len(t) /\ DOMAIN s = 1 .. Len(t) + 1
         /\ \A i \in 1 .. Len(t) : s[i] = t[i]
         /\ s[Len(t) + 1] = e
BY EdgesAt, AppendProperties

LEMMA AppendingChildren ==
  ASSUME NEW t \in Seq(Edges), NEW e \in Edges, NEW s, s = Append(t, e)
  PROVE  Children(s) = Children(t) \cup {e.child}
<1> DEFINE n == Len(t)
<1>1. /\ n \in Nat /\ DOMAIN t = 1 .. n /\ DOMAIN s = 1 .. n + 1
      /\ \A i \in 1 .. n : s[i] = t[i]
      /\ s[n + 1] = e
  BY Appending
<1> HIDE DEF n
<1>2. \A i : i \in 1 .. n + 1 <=> i \in 1 .. n \/ i = n + 1
  BY <1>1
<1> QED
  BY <1>1, <1>2 DEF Children

(* A new query with a parent that has been emitted keeps a trajectory one. *)
LEMMA AppendingKeeps ==
  ASSUME NEW t \in Seq(Edges), EachChildOnce(t), OrderAssert(t),
         NEW e \in Edges, e.child \notin Children(t),
         e.parent = Root \/ e.parent \in Children(t),
         NEW s, s = Append(t, e)
  PROVE  EachChildOnce(s) /\ OrderAssert(s)
<1> DEFINE n == Len(t)
<1>1. /\ n \in Nat /\ DOMAIN t = 1 .. n /\ DOMAIN s = 1 .. n + 1
      /\ \A i \in 1 .. n : s[i] = t[i]
      /\ s[n + 1] = e
  BY Appending
<1> HIDE DEF n
<1>2. \A i \in 1 .. n : t[i].child # e.child
  BY <1>1 DEF Children
<1>3. EachChildOnce(s)
  BY <1>1, <1>2 DEF EachChildOnce
<1>4. OrderAssert(s)
  <2> SUFFICES ASSUME NEW i \in 1 .. n + 1, s[i].parent # Root
               PROVE  \E j \in 1 .. i - 1 : s[j].child = s[i].parent
    BY <1>1 DEF OrderAssert
  <2>1. CASE i \in 1 .. n
    <3>1. PICK j \in 1 .. i - 1 : t[j].child = t[i].parent
      BY <1>1, <2>1 DEF OrderAssert
    <3> QED
      BY <1>1, <2>1, <3>1
  <2>2. CASE i = n + 1
    <3>1. PICK j \in 1 .. n : t[j].child = e.parent
      BY <1>1, <2>2 DEF Children
    <3> QED
      BY <1>1, <2>2, <3>1
  <2> QED
    BY <1>1, <2>1, <2>2
<1> QED
  BY <1>3, <1>4

LEMMA LeastNumber ==
  ASSUME NEW T \in SUBSET Nat, T # {}
  PROVE  \E m \in T : \A x \in T : m <= x
<1> DEFINE R == OpToRel(<, Nat)
<1>1. PICK m \in T : \A x \in T : ~ (<<x, m>> \in R)
  <2>1. IsWellFoundedOn(R, Nat)
    BY NatLessThanWellFounded
  <2> HIDE DEF R
  <2> QED
    BY <2>1, WFMin
<1>2. \A x \in T : ~ (x < m)
  BY <1>1 DEF OpToRel
<1> QED
  BY <1>2

(* A finite set of numbers has a member of least rank, and of those of     *)
(* equal rank a least one.                                                 *)
LEMMA LeastByRank ==
  ASSUME NEW S, IsFiniteSet(S), S # {}, S \subseteq Int,
         NEW rank, \A v \in S : rank[v] \in Int
  PROVE  \E v \in S : \A w \in S : rank[v] < rank[w] \/ (rank[v] = rank[w] /\ v <= w)
<1> DEFINE Below(v) == {w \in S : rank[w] < rank[v] \/ (rank[w] = rank[v] /\ w < v)}
           F == {Below(v) : v \in S}
           R == StrictSubsetOrdering(S)
<1>1. IsWellFoundedOn(R, SUBSET S)
  BY FS_StrictSubsetOrderingWellFounded, FS_FiniteSubsetsOfFinite
<1>2. F \subseteq SUBSET S /\ F # {}
  OBVIOUS
<1>3. PICK B \in F : \A C \in F : <<C, B>> \notin R
  <2> HIDE DEF F, R
  <2> QED
    BY <1>1, <1>2, WFMin
<1>4. PICK v \in S : B = Below(v)
  BY <1>3
<1>5. \A w \in S : w \notin Below(v)
  <2> SUFFICES ASSUME NEW w \in S, w \in Below(v) PROVE FALSE
    OBVIOUS
  <2>1. /\ rank[w] \in Int /\ rank[v] \in Int /\ w \in Int /\ v \in Int
        /\ rank[w] < rank[v] \/ (rank[w] = rank[v] /\ w < v)
    OBVIOUS
  <2>2. Below(w) \subseteq Below(v)
    <3> SUFFICES ASSUME NEW x \in S, rank[x] < rank[w] \/ (rank[x] = rank[w] /\ x < w)
                 PROVE  rank[x] < rank[v] \/ (rank[x] = rank[v] /\ x < v)
      OBVIOUS
    <3>1. rank[x] \in Int /\ x \in Int
      OBVIOUS
    <3> QED
      BY <2>1, <3>1
  <2>3. w \notin Below(w)
    BY <2>1
  <2>4. Below(w) \in F /\ Below(w) # Below(v)
    BY <2>3
  <2>5. <<Below(w), Below(v)>> \in R
    BY <2>2, <2>4 DEF StrictSubsetOrdering
  <2> HIDE DEF Below, F, R
  <2> QED
    BY <1>3, <1>4, <2>4, <2>5
<1>6. \A w \in S : rank[v] < rank[w] \/ (rank[v] = rank[w] /\ v <= w)
  <2> SUFFICES ASSUME NEW w \in S
               PROVE  rank[v] < rank[w] \/ (rank[v] = rank[w] /\ v <= w)
    OBVIOUS
  <2>1. rank[w] \in Int /\ rank[v] \in Int /\ w \in Int /\ v \in Int
    OBVIOUS
  <2>2. ~ (rank[w] < rank[v] \/ (rank[w] = rank[v] /\ w < v))
    BY <1>5
  <2> QED
    BY <2>1, <2>2
<1> QED
  BY <1>6

-------------------------------------------------------------------------------
(* Sums over finite sets.                                                  *)

(* Of some subsets of a finite set one contains no other.                  *)
LEMMA LeastSet ==
  ASSUME NEW T, IsFiniteSet(T), NEW B, B \subseteq SUBSET T, B # {}
  PROVE  \E s \in B : \A y \in B : y \subseteq s => y = s
<1>1. PICK s \in B : \A y \in B : <<y, s>> \notin StrictSubsetOrdering(T)
  BY FS_StrictSubsetOrderingWellFounded, FS_FiniteSubsetsOfFinite, WFMin
<1>2. ASSUME NEW y \in B, y \subseteq s PROVE y = s
  BY <1>1, <1>2 DEF StrictSubsetOrdering
<1> QED
  BY <1>2

(* The function by which a fold adds up w.                                 *)
One(s) == CHOOSE x \in s : TRUE

Adds(f, T, w) ==
  f = [s \in SUBSET T |-> IF s = {} THEN 0 ELSE w[One(s)] + f[s \ {One(s)}]]

Sum(T, w) == (CHOOSE f : Adds(f, T, w))[T]

LEMMA WeightIs == \A T : WeightOf(T) = Sum(T, cost)
BY DEF WeightOf, MapThenSumSet, MapThenFoldSet, Sum, Adds, One

LEMMA OneIs ==
  ASSUME NEW s, s # {}
  PROVE  One(s) \in s
BY DEF One

(* It does not depend on the set that it adds up subsets of.               *)
LEMMA AddsSame ==
  ASSUME NEW T, IsFiniteSet(T), NEW U, NEW w, NEW f, NEW g, Adds(f, T, w), Adds(g, U, w)
  PROVE  \A s \in SUBSET T : s \in SUBSET U => f[s] = g[s]
<1> DEFINE B == {s \in SUBSET T : s \in SUBSET U /\ f[s] # g[s]}
<1> SUFFICES ASSUME B # {} PROVE FALSE
  OBVIOUS
<1>1. PICK s \in B : \A y \in B : y \subseteq s => y = s
  <2>1. B \subseteq SUBSET T
    OBVIOUS
  <2> HIDE DEF B
  <2> QED
    BY <2>1, LeastSet
<1>2. s # {}
  BY DEF Adds
<1> DEFINE v == s \ {One(s)}
<1>3. One(s) \in s
  BY <1>2, OneIs
<1>4. f[s] = w[One(s)] + f[v] /\ g[s] = w[One(s)] + g[v]
  BY <1>2 DEF Adds
<1>5. v \in SUBSET T /\ v \in SUBSET U /\ f[v] # g[v]
  BY <1>4
<1>6. v \subseteq s /\ v # s
  BY <1>3
<1> QED
  BY <1>1, <1>5, <1>6

LEMMA AddsExists ==
  ASSUME NEW T, IsFiniteSet(T), NEW w
  PROVE  \E f : Adds(f, T, w)
<1> DEFINE B == {s \in SUBSET T : ~ \E f : Adds(f, s, w)}
<1> SUFFICES ASSUME B # {} PROVE FALSE
  OBVIOUS
<1>1. PICK s \in B : \A y \in B : y \subseteq s => y = s
  <2>1. B \subseteq SUBSET T
    OBVIOUS
  <2> HIDE DEF B
  <2> QED
    BY <2>1, LeastSet
<1> DEFINE G(y) == CHOOSE g : Adds(g, y, w)
           f == [y \in SUBSET s |-> IF y = {} THEN 0 ELSE w[One(y)] + G(y \ {One(y)})[y \ {One(y)}]]
<1>2. ASSUME NEW y \in SUBSET s, y # s PROVE Adds(G(y), y, w) /\ IsFiniteSet(y)
  <2>1. y \in SUBSET T /\ y \notin B
    BY <1>1, <1>2
  <2> QED
    BY <2>1, FS_Subset
<1> HIDE DEF G
<1>3. ASSUME NEW y \in SUBSET s, y # s PROVE f[y] = G(y)[y]
  <2>1. CASE y = {}
    <3>1. G(y)[y] = 0
      BY <1>2, <1>3, <2>1 DEF Adds
    <3> QED
      BY <2>1, <3>1
  <2>2. CASE y # {}
    <3> DEFINE v == y \ {One(y)}
    <3>1. One(y) \in y
      BY <2>2, OneIs
    <3>2. v \in SUBSET y /\ v \in SUBSET s /\ v # s
      BY <3>1
    <3>3. G(y)[y] = w[One(y)] + G(y)[v]
      BY <1>2, <1>3, <2>2 DEF Adds
    <3>4. Adds(G(y), y, w) /\ Adds(G(v), v, w) /\ IsFiniteSet(v)
      BY <1>2, <1>3, <3>2
    <3>5. G(v)[v] = G(y)[v]
      <4> HIDE DEF v
      <4> QED
        BY <3>2, <3>4, AddsSame
    <3>6. f[y] = w[One(y)] + G(v)[v]
      BY <2>2
    <3> QED
      BY <3>3, <3>5, <3>6
  <2> QED
    BY <2>1, <2>2
<1>4. ASSUME NEW y \in SUBSET s, y # {} PROVE f[y] = w[One(y)] + f[y \ {One(y)}]
  <2>1. One(y) \in y
    BY <1>4, OneIs
  <2>2. y \ {One(y)} \in SUBSET s /\ y \ {One(y)} # s
    BY <2>1
  <2>3. f[y \ {One(y)}] = G(y \ {One(y)})[y \ {One(y)}]
    BY <1>3, <2>2
  <2> QED
    BY <1>4, <2>3
<1>5. f = [y \in SUBSET s |-> IF y = {} THEN 0 ELSE w[One(y)] + f[y \ {One(y)}]]
  <2>1. f = [y \in SUBSET s |-> f[y]]
    OBVIOUS
  <2>2. \A y \in SUBSET s : y = {} => f[y] = 0
    OBVIOUS
  <2> HIDE DEF f
  <2> QED
    BY <1>4, <2>1, <2>2
<1>6. Adds(f, s, w)
  BY <1>5 DEF Adds
<1> QED
  BY <1>1, <1>6

LEMMA SumStep ==
  ASSUME NEW T, IsFiniteSet(T), NEW w
  PROVE  /\ T = {} => Sum(T, w) = 0
         /\ T # {} => Sum(T, w) = w[One(T)] + Sum(T \ {One(T)}, w)
<1> DEFINE v == T \ {One(T)}
           f == CHOOSE g : Adds(g, T, w)
           h == CHOOSE g : Adds(g, v, w)
<1>1. IsFiniteSet(v) /\ v \in SUBSET T
  BY FS_Subset
<1>2. Adds(f, T, w) /\ Adds(h, v, w)
  BY <1>1, AddsExists
<1>3. Sum(T, w) = f[T] /\ Sum(v, w) = h[v]
  BY DEF Sum
<1> HIDE DEF f, h
<1>4. h[v] = f[v]
  <2> HIDE DEF v
  <2> QED
    BY <1>1, <1>2, AddsSame
<1>5. f[T] = IF T = {} THEN 0 ELSE w[One(T)] + f[v]
  BY <1>2 DEF Adds
<1> QED
  BY <1>3, <1>4, <1>5

(* The sum of a set is what one element has and the sum of the others.     *)
LEMMA SumTaken ==
  ASSUME NEW T, IsFiniteSet(T), NEW w, \A x \in T : w[x] \in Int
  PROVE  Sum(T, w) \in Int /\ \A x \in T : Sum(T, w) = w[x] + Sum(T \ {x}, w)
<1> DEFINE Good(s) == Sum(s, w) \in Int /\ \A x \in s : Sum(s, w) = w[x] + Sum(s \ {x}, w)
           B == {s \in SUBSET T : ~ Good(s)}
<1> SUFFICES ASSUME B # {} PROVE FALSE
  OBVIOUS
<1>1. PICK s \in B : \A y \in B : y \subseteq s => y = s
  <2>1. B \subseteq SUBSET T
    OBVIOUS
  <2> HIDE DEF B
  <2> QED
    BY <2>1, LeastSet
<1>2. s \in SUBSET T /\ IsFiniteSet(s)
  BY FS_Subset
<1>3. ASSUME NEW y \in SUBSET s, y # s PROVE Good(y) /\ IsFiniteSet(y)
  <2>1. y \in SUBSET T /\ y \notin B
    BY <1>1, <1>3
  <2> QED
    BY <2>1, FS_Subset
<1>4. s # {}
  <2> SUFFICES ASSUME s = {} PROVE Good(s)
    OBVIOUS
  <2> QED
    BY <1>2, SumStep
<1> DEFINE c == One(s)
<1>5. c \in s /\ w[c] \in Int /\ Sum(s, w) = w[c] + Sum(s \ {c}, w)
  BY <1>2, <1>4, OneIs, SumStep
<1> HIDE DEF c
<1>6. Sum(s \ {c}, w) \in Int
  BY <1>3, <1>5
<1>7. ASSUME NEW x \in s PROVE Sum(s, w) = w[x] + Sum(s \ {x}, w)
  <2>1. CASE x = c
    BY <1>5, <2>1
  <2>2. CASE x # c
    <3> DEFINE r == (s \ {c}) \ {x}
    <3>1. r = (s \ {x}) \ {c} /\ r \in SUBSET s /\ r # s
      BY <1>5
    <3>2. Sum(s \ {c}, w) = w[x] + Sum(r, w)
      BY <1>3, <1>5, <2>2
    <3>3. Sum(s \ {x}, w) = w[c] + Sum(r, w)
      <4>1. s \ {x} \in SUBSET s /\ s \ {x} # s /\ c \in s \ {x}
        BY <1>5, <2>2
      <4> QED
        BY <1>3, <3>1, <4>1
    <3>4. Sum(r, w) \in Int /\ w[x] \in Int
      BY <1>2, <1>3, <3>1
    <3> HIDE DEF r
    <3> QED
      BY <1>5, <3>2, <3>3, <3>4
  <2> QED
    BY <2>1, <2>2
<1>8. Good(s)
  BY <1>5, <1>6, <1>7
<1> QED
  BY <1>1, <1>8

(* A larger set has no less weight, if no weight is negative.              *)
LEMMA SumGrows ==
  ASSUME NEW U, IsFiniteSet(U), NEW w, \A x \in U : w[x] \in Nat, NEW T \in SUBSET U
  PROVE  Sum(T, w) <= Sum(U, w)
<1> DEFINE B == {s \in SUBSET U : T \subseteq s /\ ~ (Sum(T, w) <= Sum(s, w))}
<1> SUFFICES ASSUME B # {} PROVE FALSE
  OBVIOUS
<1>1. PICK s \in B : \A y \in B : y \subseteq s => y = s
  <2>1. B \subseteq SUBSET U
    OBVIOUS
  <2> HIDE DEF B
  <2> QED
    BY <2>1, LeastSet
<1>2. ASSUME NEW y \in SUBSET U PROVE IsFiniteSet(y) /\ Sum(y, w) \in Int
  <2>1. IsFiniteSet(y) /\ \A x \in y : w[x] \in Int
    BY FS_Subset
  <2> QED
    BY <2>1, SumTaken
<1>3. PICK x \in s : x \notin T
  <2>1. s # T
    BY <1>2
  <2> QED
    BY <2>1
<1> DEFINE v == s \ {x}
<1>4. v \in SUBSET U /\ T \subseteq v /\ v \subseteq s /\ v # s
  BY <1>3
<1>5. Sum(T, w) <= Sum(v, w)
  BY <1>1, <1>4
<1>6. Sum(s, w) = w[x] + Sum(v, w) /\ w[x] \in Nat
  <2>1. \A y \in s : w[y] \in Int
    OBVIOUS
  <2>2. IsFiniteSet(s)
    BY <1>2
  <2> QED
    BY <2>1, <2>2, SumTaken
<1> HIDE DEF v
<1> QED
  BY <1>2, <1>4, <1>5, <1>6

-------------------------------------------------------------------------------
(* Least weight.                                                           *)
Crosses(p, S) == p \cap S # {} /\ p \ S # {}

LEMMA SpansIs ==
  \A T : Spans(T) <=>
    \A S \in SUBSET Queries : (\E p \in Pairs : Crosses(p, S)) => \E p \in T : Crosses(p, S)
<1>1. ASSUME NEW S \in SUBSET Queries
      PROVE  (\E p \in Pairs : Crosses(p, S)) <=> S # {} /\ S # Queries
  <2>1. ASSUME S # {}, S # Queries PROVE \E p \in Pairs : Crosses(p, S)
    <3>1. PICK a \in Queries, b \in Queries : a \in S /\ b \notin S
      BY <2>1
    <3>2. {a, b} \in Pairs /\ Crosses({a, b}, S)
      BY <3>1 DEF Pairs, Crosses
    <3> QED
      BY <3>2
  <2>2. ASSUME NEW p \in Pairs, Crosses(p, S) PROVE S # {} /\ S # Queries
    BY <2>2 DEF Pairs, Crosses
  <2> QED
    BY <2>1, <2>2
<1> QED
  BY <1>1 DEF Spans, Crosses

LEMMA PairsFinite == IsFiniteSet(Pairs) /\ \A p \in Pairs : p \subseteq Queries
<1>1. Pairs \subseteq SUBSET Queries
  BY DEF Pairs
<1>2. IsFiniteSet(SUBSET Queries)
  BY QueriesFinite, FS_SUBSET
<1> QED
  BY <1>1, <1>2, FS_Subset

(* A pair that crosses a cut has one end on each side.                     *)
LEMMA PairEnds ==
  ASSUME NEW p \in Pairs, NEW a \in p, NEW b \in p, a # b
  PROVE  p = {a, b} /\ a \in Queries /\ b \in Queries
BY DEF Pairs

(* In a spanning set of pairs, a pair that crosses a cut may take the      *)
(* place of another one that does.                                         *)
LEMMA Exchange ==
  ASSUME NEW T \in SUBSET Pairs, Spans(T), NEW p \in Pairs,
         NEW S \in SUBSET Queries, Crosses(p, S)
  PROVE  \E q \in T : Crosses(q, S) /\ Spans((T \ {q}) \cup {p})
<1>1. PICK a \in p, b \in p : a \in S /\ b \notin S
  BY DEF Crosses
<1>2. p = {a, b} /\ a \in Queries /\ b \in Queries
  BY <1>1, PairEnds
<1>3. \A t \in T : t \subseteq Queries
  BY PairsFinite
<1> DEFINE Inside(A) == \A t \in T : t \subseteq S /\ t \cap A # {} => t \subseteq A
           X == {x \in Queries : \A A \in SUBSET Queries : a \in A /\ Inside(A) => x \in A}
<1>4. a \in X /\ X \subseteq S /\ Inside(X)
  <2>1. Inside(S)
    OBVIOUS
  <2>2. X \subseteq S
    BY <1>1, <2>1
  <2>3. Inside(X)
    BY <1>3
  <2> QED
    BY <1>2, <2>2, <2>3
<1> DEFINE Beside(A) == \A t \in T : t \cap X = {} /\ t \cap A # {} => t \subseteq A
           Y == {x \in Queries : \A A \in SUBSET Queries : b \in A /\ Beside(A) => x \in A}
<1>5. b \in Y /\ Y \cap X = {} /\ Beside(Y)
  <2>1. Beside(Queries \ X)
    BY <1>3
  <2>2. Y \subseteq Queries \ X
    <3>1. b \in Queries \ X /\ Queries \ X \in SUBSET Queries
      BY <1>1, <1>2, <1>4
    <3> HIDE DEF X, Beside
    <3> QED
      BY <2>1, <3>1
  <2>3. Beside(Y)
    BY <1>3
  <2> QED
    BY <1>2, <2>2, <2>3
<1>6. PICK q \in T : Crosses(q, Y)
  <2>1. Crosses(p, Y)
    BY <1>4, <1>5 DEF Crosses
  <2>2. Y \in SUBSET Queries
    OBVIOUS
  <2> HIDE DEF Y
  <2> QED
    BY <2>1, <2>2, SpansIs
<1>7. PICK c \in q, e \in q : c \in X /\ e \in Y
  <2>1. q \cap X # {}
    BY <1>5, <1>6 DEF Crosses
  <2> QED
    BY <1>6, <2>1 DEF Crosses
<1>8. q = {c, e}
  <2>1. q \in Pairs /\ c # e
    BY <1>5, <1>7
  <2> QED
    BY <2>1, PairEnds
<1>9. c \in S /\ e \notin S
  <2>1. c \in S
    BY <1>4, <1>7
  <2>2. ASSUME e \in S PROVE FALSE
    <3>1. q \subseteq S /\ q \cap X # {}
      BY <1>7, <1>8, <2>1, <2>2
    <3>2. q \subseteq X
      BY <1>4, <3>1
    <3> QED
      BY <1>5, <1>7, <3>2
  <2> QED
    BY <2>1, <2>2
<1> DEFINE U == (T \ {q}) \cup {p}
<1>10. Spans(U)
  <2> SUFFICES ASSUME NEW Z \in SUBSET Queries, \E g \in Pairs : Crosses(g, Z),
                      \A t \in U : ~ Crosses(t, Z)
               PROVE  FALSE
    <3> HIDE DEF U
    <3> QED
      BY SpansIs
  <2>1. Crosses(q, Z)
    <3>1. PICK t \in T : Crosses(t, Z)
      BY SpansIs
    <3>2. t = q
      BY <3>1
    <3> QED
      BY <3>1, <3>2
  <2>2. \A t \in T : t # q => t \subseteq Z \/ t \subseteq Queries \ Z
    BY <1>3 DEF Crosses
  <2>3. a \in Z <=> c \in Z
    <3>1. ASSUME NEW A \in {Z, Queries \ Z} PROVE Inside(A)
      <4> SUFFICES ASSUME NEW t \in T, t \subseteq S, t \cap A # {} PROVE t \subseteq A
        OBVIOUS
      <4>1. t # q
        BY <1>8, <1>9
      <4> QED
        BY <2>2, <3>1, <4>1
    <3>2. ASSUME NEW A \in {Z, Queries \ Z}, a \in A PROVE c \in A
      BY <1>7, <3>1, <3>2
    <3> QED
      BY <1>2, <3>2
  <2>4. b \in Z <=> e \in Z
    <3>1. ASSUME NEW A \in {Z, Queries \ Z} PROVE Beside(A)
      <4> SUFFICES ASSUME NEW t \in T, t \cap X = {}, t \cap A # {} PROVE t \subseteq A
        OBVIOUS
      <4>1. t # q
        BY <1>7
      <4> QED
        BY <2>2, <3>1, <4>1
    <3>2. ASSUME NEW A \in {Z, Queries \ Z}, b \in A PROVE e \in A
      BY <1>7, <3>1, <3>2
    <3> QED
      BY <1>2, <3>2
  <2>5. (c \in Z) # (e \in Z)
    BY <1>8, <2>1 DEF Crosses
  <2>6. Crosses(p, Z)
    BY <1>2, <2>3, <2>4, <2>5 DEF Crosses
  <2> QED
    BY <2>6
<1>11. Crosses(q, S)
  BY <1>8, <1>9 DEF Crosses
<1> QED
  BY <1>10, <1>11

(* Pairs chosen one after the other, each the lightest that crosses a cut  *)
(* which no earlier one crosses.                                           *)
ChosenByCuts(w, n, I, p, cut) ==
  /\ n \in Nat /\ I \subseteq 1 .. n
  /\ \A i \in I :
       /\ p[i] \in Pairs /\ cut[i] \in SUBSET Queries /\ Crosses(p[i], cut[i])
       /\ \A g \in Pairs : Crosses(g, cut[i]) => w[p[i]] <= w[g]
       /\ \A j \in I : j < i => ~ Crosses(p[j], cut[i])

Weights(w) == \A g \in Pairs : w[g] \in Int

(* Some set of pairs holds these ones, weighs no more than T, and is as    *)
(* large.                                                                  *)
LightWith(w, I, p, T) ==
  \E U \in SUBSET Pairs : /\ {p[i] : i \in I} \subseteq U
                      /\ Sum(U, w) <= Sum(T, w) /\ Cardinality(U) = Cardinality(T)

(* The exchange leads from any spanning set to such a one.                 *)
LEMMA ChosenAreLight ==
  ASSUME NEW w, Weights(w),
         NEW n, NEW I, NEW p, NEW cut, ChosenByCuts(w, n, I, p, cut),
         NEW T \in SUBSET Pairs, Spans(T)
  PROVE  LightWith(w, I, p, T)
<1> DEFINE A(k) == {p[j] : j \in {i \in I : i <= k}}
           Light(U) == Spans(U) /\ Sum(U, w) <= Sum(T, w) /\ Cardinality(U) = Cardinality(T)
           Has(k) == \E U \in SUBSET Pairs : A(k) \subseteq U /\ Light(U)
           B == {k \in 0 .. n : ~ Has(k)}
<1>1. n \in Nat /\ \A i \in I : i \in Int /\ 1 <= i /\ i <= n
  <2>1. n \in Nat /\ I \subseteq 1 .. n
    BY DEF ChosenByCuts
  <2> QED
    BY <2>1
<1>2. ASSUME NEW U \in SUBSET Pairs
      PROVE  /\ IsFiniteSet(U) /\ Cardinality(U) \in Nat /\ \A x \in U : w[x] \in Int
             /\ Sum(U, w) \in Int
             /\ \A x \in U : Sum(U, w) = w[x] + Sum(U \ {x}, w)
  <2>1. IsFiniteSet(U)
    BY PairsFinite, FS_Subset
  <2>2. \A x \in U : w[x] \in Int
    BY DEF Weights
  <2> QED
    BY <2>1, <2>2, SumTaken, FS_CardinalityType
<1>3. B = {}
  <2> SUFFICES ASSUME B # {} PROVE FALSE
    OBVIOUS
  <2>1. PICK k \in B : \A j \in B : k <= j
    <3>1. B \in SUBSET Nat
      OBVIOUS
    <3> HIDE DEF B
    <3> QED
      BY <3>1, LeastNumber
  <2>2. k \in 0 .. n /\ ~ Has(k)
    OBVIOUS
  <2>3. k # 0
    <3> SUFFICES ASSUME k = 0 PROVE Has(k)
      BY <2>2
    <3>1. A(k) = {}
      <4>1. {i \in I : i <= k} = {}
        BY <1>1
      <4> QED
        BY <4>1
    <3>2. Light(T)
      BY <1>2
    <3> HIDE DEF A, Light
    <3> QED
      BY <3>1, <3>2
  <2>4. PICK U \in SUBSET Pairs : A(k - 1) \subseteq U /\ Light(U)
    <3>1. k - 1 \in 0 .. n /\ k - 1 < k
      BY <1>1, <2>2, <2>3
    <3>2. k - 1 \notin B
      BY <2>1, <3>1
    <3>3. Has(k - 1)
      BY <3>1, <3>2
    <3> HIDE DEF A, Light
    <3> QED
      BY <3>3
  <2>5. A(k) = IF k \in I THEN A(k - 1) \cup {p[k]} ELSE A(k - 1)
    <3> DEFINE J == {i \in I : i <= k - 1}
    <3>1. ASSUME NEW i \in I PROVE i \in Int /\ (i <= k <=> i <= k - 1 \/ i = k)
      <4>1. i \in Int /\ k \in Int
        BY <1>1, <2>2
      <4> QED
        BY <4>1
    <3>2. CASE k \in I
      <4>1. {i \in I : i <= k} = J \cup {k}
        BY <3>1, <3>2
      <4> HIDE DEF J
      <4>2. A(k) = {p[j] : j \in J} \cup {p[k]}
        BY <4>1
      <4> QED
        BY <3>2, <4>2 DEF J
    <3>3. CASE k \notin I
      <4>1. {i \in I : i <= k} = J
        BY <3>1, <3>3
      <4> QED
        BY <3>3, <4>1
    <3> QED
      BY <3>2, <3>3
  <2>6. CASE k \notin I \/ p[k] \in U
    <3>1. A(k) \subseteq U
      BY <2>4, <2>5, <2>6
    <3> HIDE DEF A, Light
    <3> QED
      BY <2>2, <2>4, <3>1
  <2>7. CASE k \in I /\ p[k] \notin U
    <3>1. /\ p[k] \in Pairs /\ cut[k] \in SUBSET Queries /\ Crosses(p[k], cut[k])
          /\ \A g \in Pairs : Crosses(g, cut[k]) => w[p[k]] <= w[g]
          /\ \A j \in I : j < k => ~ Crosses(p[j], cut[k])
      BY <2>7 DEF ChosenByCuts
    <3>2. PICK q \in U : Crosses(q, cut[k]) /\ Spans((U \ {q}) \cup {p[k]})
      <4>1. Spans(U)
        BY <2>4
      <4> QED
        BY <3>1, <4>1, Exchange
    <3> DEFINE V == U \ {q}
               P == V \cup {p[k]}
    <3>3. q \notin A(k - 1)
      <4> SUFFICES ASSUME NEW j \in I, j <= k - 1, q = p[j] PROVE FALSE
        OBVIOUS
      <4>1. j < k
        BY <1>1, <2>2
      <4> QED
        BY <3>1, <3>2, <4>1
    <3>4. A(k) \subseteq P
      BY <2>4, <2>5, <2>7, <3>3
    <3>5. P \in SUBSET Pairs /\ V \in SUBSET Pairs /\ p[k] \notin V /\ P \ {p[k]} = V
      BY <2>7, <3>1
    <3>6. Sum(P, w) = w[p[k]] + Sum(V, w)
      <4> HIDE DEF V
      <4> QED
        BY <1>2, <3>5
    <3>7. Sum(U, w) = w[q] + Sum(V, w) /\ w[p[k]] <= w[q]
      BY <1>2, <3>1, <3>2
    <3>8. Cardinality(P) = Cardinality(U)
      <4>1. IsFiniteSet(U) /\ IsFiniteSet(V) /\ q \notin V /\ U = V \cup {q}
        BY <1>2, <3>5
      <4> HIDE DEF V
      <4>2. Cardinality(U) = Cardinality(V) + 1
        BY <4>1, FS_AddElement
      <4>3. Cardinality(P) = Cardinality(V) + 1
        BY <3>5, <4>1, FS_AddElement
      <4> QED
        BY <4>2, <4>3
    <3>9. Sum(P, w) <= Sum(T, w)
      <4>1. /\ Sum(U, w) \in Int /\ Sum(V, w) \in Int /\ Sum(T, w) \in Int
            /\ w[p[k]] \in Int /\ w[q] \in Int
        <5> HIDE DEF V
        <5> QED
          BY <1>2, <3>1, <3>2, <3>5
      <4>2. Sum(U, w) <= Sum(T, w)
        BY <2>4
      <4> HIDE DEF V, P
      <4> QED
        BY <3>6, <3>7, <4>1, <4>2
    <3>10. Light(P)
      BY <2>4, <3>2, <3>8, <3>9
    <3> HIDE DEF A, Light, P
    <3> QED
      BY <2>2, <3>4, <3>5, <3>10
  <2> QED
    BY <2>6, <2>7
<1>4. PICK U \in SUBSET Pairs : A(n) \subseteq U /\ Light(U)
  <2>1. n \in 0 .. n
    BY <1>1
  <2>2. Has(n)
    BY <1>3, <2>1
  <2> HIDE DEF A, Light
  <2> QED
    BY <2>2
<1>5. {p[i] : i \in I} = A(n)
  <2>1. I = {i \in I : i <= n}
    BY <1>1
  <2> QED
    BY <2>1
<1> QED
  BY <1>4, <1>5 DEF LightWith

LEMMA PairOf ==
  ASSUME NEW a \in Queries, NEW b \in Queries, a # b
  PROVE  {a, b} \in Pairs
BY DEF Pairs

(* A further element adds what it has.                                     *)
LEMMA SumAdds ==
  ASSUME NEW T, IsFiniteSet(T), NEW x, x \notin T, NEW w, w[x] \in Int,
         \A y \in T : w[y] \in Int
  PROVE  Sum(T \cup {x}, w) = w[x] + Sum(T, w)
<1> DEFINE P == T \cup {x}
<1>1. IsFiniteSet(P) /\ x \in P /\ P \ {x} = T /\ \A y \in P : w[y] \in Int
  BY FS_AddElement
<1> HIDE DEF P
<1>2. Sum(P, w) = w[x] + Sum(P \ {x}, w)
  BY <1>1, SumTaken
<1> QED
  BY <1>1, <1>2 DEF P

(* A tree grown query by query, t[1] first: the pair p[i] joins t[i + 1]   *)
(* to an earlier query, and no other that leaves these is lighter.         *)
Grown(n, t, p) ==
  /\ n \in Nat
  /\ Queries = {t[i] : i \in 1 .. n + 1}
  /\ \A i, j \in 1 .. n + 1 : t[i] = t[j] => i = j
  /\ \A i \in 1 .. n : \E j \in 1 .. i : p[i] = {t[j], t[i + 1]}

ByLightest(n, t, p, w) ==
  \A i \in 1 .. n : \A j \in 1 .. i, r \in Queries :
    (\A m \in 1 .. i : r # t[m]) => w[p[i]] <= w[{t[j], r}]

LEMMA GrownSpans ==
  ASSUME NEW n, NEW t, NEW p, Grown(n, t, p)
  PROVE  Spans({p[i] : i \in 1 .. n})
<1> SUFFICES ASSUME NEW S \in SUBSET Queries, S # {}, S # Queries
             PROVE  \E i \in 1 .. n : Crosses(p[i], S)
  BY DEF Spans, Crosses
<1> DEFINE P == {i \in 1 .. n + 1 : ~ (t[i] \in S <=> t[1] \in S)}
<1>1. /\ n \in Nat /\ Queries = {t[i] : i \in 1 .. n + 1}
      /\ \A i \in 1 .. n : \E j \in 1 .. i : p[i] = {t[j], t[i + 1]}
  BY DEF Grown
<1>2. P \in SUBSET Nat /\ P # {}
  <2>1. 1 \in 1 .. n + 1
    BY <1>1
  <2>2. PICK q \in Queries : ~ (q \in S <=> t[1] \in S)
    BY <1>1, <2>1
  <2>3. PICK i \in 1 .. n + 1 : t[i] = q
    BY <1>1, <2>2
  <2>4. i \in P
    BY <2>2, <2>3
  <2>5. \A k \in 1 .. n + 1 : k \in Nat
    BY <1>1
  <2> QED
    BY <2>4, <2>5
<1>3. PICK m \in P : \A x \in P : m <= x
  <2> HIDE DEF P
  <2> QED
    BY <1>2, LeastNumber
<1>4. m \in 1 .. n + 1 /\ ~ (t[m] \in S <=> t[1] \in S) /\ m # 1
  BY <1>3
<1>5. PICK i \in 1 .. n : m = i + 1
  <2>1. m - 1 \in 1 .. n /\ m = (m - 1) + 1
    BY <1>1, <1>4
  <2> QED
    BY <2>1
<1>6. PICK j \in 1 .. i : p[i] = {t[j], t[i + 1]}
  BY <1>1
<1>7. j \in 1 .. n + 1 /\ j < m
  BY <1>1, <1>5
<1>8. j \notin P
  BY <1>1, <1>3, <1>7
<1>9. t[j] \in S <=> ~ (t[m] \in S)
  BY <1>4, <1>7, <1>8
<1>10. Crosses(p[i], S)
  BY <1>5, <1>6, <1>9 DEF Crosses
<1> QED
  BY <1>10

LEMMA GrownByCuts ==
  ASSUME NEW n, NEW t, NEW p, NEW w, Grown(n, t, p), ByLightest(n, t, p, w),
         NEW cut, cut = [i \in 1 .. n |-> {t[m] : m \in 1 .. i}]
  PROVE  ChosenByCuts(w, n, 1 .. n, p, cut)
<1>1. /\ n \in Nat
      /\ \A i \in 1 .. n + 1 : t[i] \in Queries
      /\ \A i, j \in 1 .. n + 1 : t[i] = t[j] => i = j
      /\ \A i \in 1 .. n : \E j \in 1 .. i : p[i] = {t[j], t[i + 1]}
  BY DEF Grown
<1> SUFFICES ASSUME NEW i \in 1 .. n
             PROVE  /\ p[i] \in Pairs /\ cut[i] \in SUBSET Queries /\ Crosses(p[i], cut[i])
                    /\ \A g \in Pairs : Crosses(g, cut[i]) => w[p[i]] <= w[g]
                    /\ \A j \in 1 .. n : j < i => ~ Crosses(p[j], cut[i])
  BY <1>1 DEF ChosenByCuts
<1>2. \A m \in 1 .. i : m \in 1 .. n + 1 /\ m # i + 1
  BY <1>1
<1>3. cut[i] = {t[m] : m \in 1 .. i}
  OBVIOUS
<1>4. i + 1 \in 1 .. n + 1 /\ t[i + 1] \in Queries /\ t[i + 1] \notin cut[i]
  <2>1. i + 1 \in 1 .. n + 1
    BY <1>1
  <2> QED
    BY <1>1, <1>2, <1>3, <2>1
<1>5. PICK j \in 1 .. i : p[i] = {t[j], t[i + 1]}
  BY <1>1
<1>6. t[j] \in Queries /\ t[j] \in cut[i] /\ t[j] # t[i + 1]
  BY <1>1, <1>2, <1>3, <1>4
<1>7. p[i] \in Pairs /\ cut[i] \in SUBSET Queries /\ Crosses(p[i], cut[i])
  <2>1. p[i] \in Pairs
    BY <1>4, <1>5, <1>6, PairOf
  <2>2. cut[i] \in SUBSET Queries
    <3>1. \A m \in 1 .. i : t[m] \in Queries
      BY <1>1, <1>2
    <3> QED
      BY <1>3, <3>1
  <2>3. Crosses(p[i], cut[i])
    BY <1>4, <1>5, <1>6 DEF Crosses
  <2> QED
    BY <2>1, <2>2, <2>3
<1>8. ASSUME NEW g \in Pairs, Crosses(g, cut[i]) PROVE w[p[i]] <= w[g]
  <2>1. PICK a \in g, r \in g : a \in cut[i] /\ r \notin cut[i]
    BY <1>8 DEF Crosses
  <2>2. g = {a, r} /\ r \in Queries
    BY <2>1, PairEnds
  <2>3. PICK k \in 1 .. i : a = t[k]
    BY <1>3, <2>1
  <2>4. \A m \in 1 .. i : r # t[m]
    BY <1>3, <2>1
  <2> QED
    BY <2>2, <2>3, <2>4 DEF ByLightest
<1>9. ASSUME NEW k \in 1 .. n, k < i PROVE ~ Crosses(p[k], cut[i])
  <2>1. PICK l \in 1 .. k : p[k] = {t[l], t[k + 1]}
    BY <1>1
  <2>2. l \in 1 .. i /\ k + 1 \in 1 .. i
    BY <1>1, <1>9
  <2> QED
    BY <1>3, <2>1, <2>2 DEF Crosses
<1> QED
  BY <1>7, <1>8, <1>9

(* Each pair of such a tree counts once.                                   *)
LEMMA GrownCounts ==
  ASSUME NEW n, NEW t, NEW p, Grown(n, t, p)
  PROVE  LET G == {p[i] : i \in 1 .. n}
         IN  n = N - 1 /\ IsFiniteSet(G) /\ Cardinality(G) = n
<1> DEFINE G == {p[i] : i \in 1 .. n}
<1>1. /\ n \in Nat
      /\ Queries = {t[i] : i \in 1 .. n + 1}
      /\ \A i, j \in 1 .. n + 1 : t[i] = t[j] => i = j
      /\ \A i \in 1 .. n : \E j \in 1 .. i : p[i] = {t[j], t[i + 1]}
  BY DEF Grown
<1>2. IsFiniteSet(1 .. n) /\ Cardinality(1 .. n) = n
  BY <1>1, FS_Interval
<1>3. n + 1 = N
  <2>1. PICK f : f = [i \in 1 .. n + 1 |-> t[i]]
    OBVIOUS
  <2>2. f \in Injection(1 .. n + 1, Queries) /\ f \in Surjection(1 .. n + 1, Queries)
    BY <1>1, <2>1 DEF Injection, IsInjective, Surjection
  <2>3. Cardinality(1 .. n + 1) = Cardinality(Queries)
    BY <2>2, QueriesFinite, FS_Injection
  <2>4. Cardinality(1 .. n + 1) = n + 1
    <3>1. 1 \in Int /\ n + 1 \in Int /\ ~ (1 > n + 1) /\ n + 1 - 1 + 1 = n + 1
      BY <1>1
    <3> QED
      BY <3>1, FS_Interval
  <2> QED
    BY <2>3, <2>4, QueriesFinite
<1>4. ASSUME NEW i \in 1 .. n, NEW j \in 1 .. n, p[i] = p[j] PROVE ~ (j < i)
  <2> SUFFICES ASSUME j < i PROVE FALSE
    OBVIOUS
  <2>1. PICK k \in 1 .. j : p[j] = {t[k], t[j + 1]}
    BY <1>1
  <2>2. t[i + 1] \in p[j]
    BY <1>1, <1>4
  <2>3. /\ i + 1 \in 1 .. n + 1 /\ k \in 1 .. n + 1 /\ j + 1 \in 1 .. n + 1
        /\ k # i + 1 /\ j + 1 # i + 1
    BY <1>1
  <2> QED
    BY <1>1, <2>1, <2>2, <2>3
<1>5. IsFiniteSet(G) /\ Cardinality(G) = n
  <2>1. PICK f : f = [i \in 1 .. n |-> p[i]]
    OBVIOUS
  <2>2. \A i, j \in 1 .. n : p[i] = p[j] => i = j
    <3>1. \A i, j \in 1 .. n : i = j \/ i < j \/ j < i
      BY <1>1
    <3> QED
      BY <1>4, <3>1
  <2>3. f \in Injection(1 .. n, G) /\ f \in Surjection(1 .. n, G)
    BY <2>1, <2>2 DEF Injection, IsInjective, Surjection
  <2>4. IsFiniteSet(G)
    BY <1>2, <2>3, FS_Surjection
  <2>5. Cardinality(1 .. n) = Cardinality(G)
    BY <2>3, <2>4, FS_Injection
  <2> QED
    BY <1>2, <2>4, <2>5
<1>6. n = N - 1
  BY <1>1, <1>3, NAssumption
<1> QED
  BY <1>5, <1>6

(* A tree grown so is a spanning tree of least weight.                     *)
LEMMA GrownIsLeast ==
  ASSUME NEW n, NEW t, NEW p, NEW w, Weights(w), Grown(n, t, p), ByLightest(n, t, p, w),
         NEW T \in kSubset(N - 1, Pairs), Spans(T)
  PROVE  Sum({p[i] : i \in 1 .. n}, w) <= Sum(T, w)
<1> DEFINE G == {p[i] : i \in 1 .. n}
<1>1. T \in SUBSET Pairs /\ Cardinality(T) = N - 1
  BY DEF kSubset
<1>2. LightWith(w, 1 .. n, p, T)
  <2>1. PICK cut : cut = [i \in 1 .. n |-> {t[m] : m \in 1 .. i}]
    OBVIOUS
  <2>2. ChosenByCuts(w, n, 1 .. n, p, cut)
    BY <2>1, GrownByCuts
  <2> QED
    BY <1>1, <2>2, ChosenAreLight
<1>3. PICK U \in SUBSET Pairs : /\ G \subseteq U
                                /\ Sum(U, w) <= Sum(T, w) /\ Cardinality(U) = Cardinality(T)
  BY <1>2 DEF LightWith
<1>4. n = N - 1 /\ IsFiniteSet(G) /\ Cardinality(G) = n
  BY GrownCounts
<1> HIDE DEF G
<1>5. IsFiniteSet(U)
  BY PairsFinite, FS_Subset
<1>6. G = U
  BY <1>1, <1>3, <1>4, <1>5, FS_Subset
<1> QED
  BY <1>3, <1>6 DEF G

-------------------------------------------------------------------------------
(* How the iterations of the parallel loop are shared out.                 *)

LEMMA Remainder ==
  ASSUME NEW a \in Nat, NEW b \in Nat, b > 0,
         NEW q, q = a \div b, NEW r, r = a % b
  PROVE  q \in Nat /\ r \in Nat /\ r < b /\ a = b * q + r
<1>1. q \in Nat
  OBVIOUS
<1>2. r \in 0 .. b - 1
  OBVIOUS
<1>3. a = b * q + r
  OBVIOUS
<1> QED
  BY <1>1, <1>2, <1>3

LEMMA FirstBounds ==
  /\ First(0) = 0 /\ First(Cores) = N
  /\ \A t \in 0 .. Cores : First(t) \in Nat
<1> DEFINE q == N \div Cores
           r == N % Cores
<1>1. N \in Nat /\ Cores \in Nat /\ Cores > 0
  BY NAssumption, FullMstAssumption
<1>2. \A t : First(t) = q * t + (IF t < r THEN t ELSE r)
  BY DEF First
<1> HIDE DEF q, r
<1>3. q \in Nat /\ r \in Nat /\ r < Cores /\ N = Cores * q + r
  BY <1>1, Remainder DEF q, r
<1>4. First(0) = 0
  BY <1>2, <1>3
<1>5. First(Cores) = N
  BY <1>1, <1>2, <1>3
<1>6. \A t \in 0 .. Cores : q * t \in Nat /\ t \in Nat
  BY <1>1, <1>3
<1>7. \A t \in 0 .. Cores : First(t) \in Nat
  BY <1>2, <1>3, <1>6
<1> QED
  BY <1>4, <1>5, <1>7

LEMMA FirstMonotone ==
  \A s, t \in 0 .. Cores : s <= t => First(s) <= First(t)
<1> SUFFICES ASSUME NEW s \in 0 .. Cores, NEW t \in 0 .. Cores, s <= t
             PROVE  First(s) <= First(t)
  OBVIOUS
<1> DEFINE q == N \div Cores
           r == N % Cores
<1>1. q \in Nat /\ r \in Nat /\ s \in Nat /\ t \in Nat
  BY Remainder, NAssumption, FullMstAssumption
<1>2. /\ First(s) = q * s + (IF s < r THEN s ELSE r)
      /\ First(t) = q * t + (IF t < r THEN t ELSE r)
  BY DEF First
<1> HIDE DEF q, r
<1>3. q * s <= q * t /\ q * s \in Nat /\ q * t \in Nat
  BY <1>1
<1> QED
  BY <1>1, <1>2, <1>3

(* Every query is measured by some thread.                                 *)
LEMMA BlocksCover ==
  ASSUME NEW v \in Queries
  PROVE  \E t \in Threads : First(t) <= v /\ v < First(t + 1)
<1> DEFINE T == {t \in 0 .. Cores : v < First(t)}
<1>1. T \subseteq Nat /\ Cores \in T
  BY FullMstAssumption, NAssumption, FirstBounds DEF Queries
<1>2. PICK m \in T : \A x \in T : m <= x
  <2> HIDE DEF T
  <2> QED
    BY <1>1, LeastNumber
<1>3. m \in 0 .. Cores /\ v < First(m) /\ m # 0
  BY FirstBounds, NAssumption DEF Queries
<1>4. m - 1 \in Threads /\ m - 1 \in 0 .. Cores /\ m - 1 \in Nat /\ m \in Nat
  BY <1>3, FullMstAssumption DEF Threads
<1>5. m - 1 \notin T
  BY <1>2, <1>4
<1>6. First(m - 1) <= v
  BY <1>4, <1>5, FirstBounds, NAssumption DEF Queries
<1>7. (m - 1) + 1 = m
  BY <1>4
<1> QED
  BY <1>3, <1>4, <1>6, <1>7

(* Two threads never measure the same query: the blocks are disjoint.      *)
LEMMA BlocksDisjoint ==
  ASSUME NEW s \in Threads, NEW t \in Threads, s < t
  PROVE  First(s + 1) <= First(t)
<1>1. s + 1 \in 0 .. Cores /\ t \in 0 .. Cores /\ s + 1 <= t
  BY FullMstAssumption DEF Threads
<1> QED
  BY <1>1, FirstMonotone

(* What a thread measures is a query.                                      *)
LEMMA BlocksInside ==
  ASSUME NEW t \in Threads, NEW j \in Nat, j < First(t + 1)
  PROVE  j \in Queries
<1>1. t + 1 \in 0 .. Cores /\ Cores \in 0 .. Cores /\ t + 1 <= Cores
  BY FullMstAssumption DEF Threads
<1>2. First(t + 1) <= N /\ First(t + 1) \in Nat
  BY <1>1, FirstBounds, FirstMonotone
<1> QED
  BY <1>2, NAssumption DEF Queries

-------------------------------------------------------------------------------
(* The distances and the queries taken.                                    *)

LEMMA CostFacts ==
  ASSUME TypeOK, NEW a \in Queries, NEW b \in Queries, a # b
  PROVE  {a, b} \in Pairs /\ cost[{a, b}] \in Int /\ cost[{a, b}] <= Infinity
<1>1. cost \in [Pairs -> {w \in Int : w <= Infinity}]
  BY FullMstAssumption DEF TypeOK
<1>2. {a, b} \in Pairs
  BY DEF Pairs
<1> QED
  BY <1>1, <1>2

LEMMA QueryNumbers ==
  /\ 0 \in Queries /\ Root \notin Queries /\ Queries \subseteq Nat
  /\ Infinity \in Nat /\ 0 < Infinity
BY NAssumption, FullMstAssumption DEF Queries, Root

(* The search for the nearest query finds one, if there is a candidate.    *)
LEMMA NearestIsCandidate ==
  ASSUME TypeOK, Candidates # {}
  PROVE  Nearest \in Candidates /\ \A w \in Candidates : dist[Nearest] <= dist[w]
<1>1. Candidates \subseteq Queries /\ IsFiniteSet(Candidates) /\ Candidates \subseteq Int
  <2>1. Candidates \subseteq Queries
    BY DEF Candidates
  <2>2. IsFiniteSet(Candidates)
    BY <2>1, QueriesFinite, FS_Subset
  <2>3. Candidates \subseteq Int
    BY <2>1, QueryNumbers
  <2> QED
    BY <2>1, <2>2, <2>3
<1>2. \A v \in Candidates : dist[v] \in Int
  BY <1>1 DEF TypeOK
<1>3. \E v \in Candidates :
        \A w \in Candidates : dist[v] < dist[w] \/ (dist[v] = dist[w] /\ v <= w)
  BY <1>1, <1>2, LeastByRank
<1>4. /\ Nearest \in Candidates
      /\ \A w \in Candidates :
           dist[Nearest] < dist[w] \/ (dist[Nearest] = dist[w] /\ Nearest <= w)
  BY <1>3 DEF Nearest
<1> QED
  BY <1>2, <1>4

TakenOf(s) == <<0>> \o [i \in DOMAIN s |-> s[i].child]

LEMMA TakenAt ==
  ASSUME NEW s \in Seq(Edges)
  PROVE  /\ Len(s) \in Nat /\ DOMAIN s = 1 .. Len(s)
         /\ Len(TakenOf(s)) = Len(s) + 1 /\ DOMAIN TakenOf(s) = 1 .. Len(s) + 1
         /\ TakenOf(s)[1] = 0
         /\ \A i \in 1 .. Len(s) : TakenOf(s)[i + 1] = s[i].child
         /\ \A i \in 1 .. Len(s) + 1 : TakenOf(s)[i] \in Queries
<1> DEFINE n == Len(s)
           c == [i \in 1 .. n |-> s[i].child]
<1>1. n \in Nat /\ DOMAIN s = 1 .. n /\ \A i \in 1 .. n : s[i].child \in Queries
  BY EdgesAt
<1>2. c \in Seq(Queries) /\ Len(c) = n /\ \A i \in 1 .. n : c[i] = s[i].child
  BY <1>1
<1>3. <<0>> \in Seq(Queries) /\ Len(<<0>>) = 1 /\ <<0>>[1] = 0
  BY QueryNumbers
<1>4. TakenOf(s) = <<0>> \o c
  BY <1>1 DEF TakenOf
<1> HIDE DEF n, c
<1>5. /\ TakenOf(s) \in Seq(Queries) /\ Len(TakenOf(s)) = 1 + n
      /\ \A i \in 1 .. 1 + n : TakenOf(s)[i] = IF i <= 1 THEN <<0>>[i] ELSE c[i - 1]
  BY <1>2, <1>3, <1>4, ConcatProperties
<1>6. \A i \in 1 .. n : i + 1 \in 1 .. 1 + n /\ ~ (i + 1 <= 1) /\ (i + 1) - 1 = i
  BY <1>1
<1>7. \A i \in 1 .. n : TakenOf(s)[i + 1] = s[i].child
  BY <1>2, <1>5, <1>6
<1>8. TakenOf(s)[1] = 0
  BY <1>1, <1>3, <1>5
<1>9. Len(TakenOf(s)) = n + 1 /\ DOMAIN TakenOf(s) = 1 .. n + 1
  BY <1>1, <1>5
<1>10. \A i \in 1 .. n + 1 : TakenOf(s)[i] \in Queries
  BY <1>5, <1>9
<1> QED
  BY <1>1, <1>7, <1>8, <1>9, <1>10 DEF n

(* A further edge makes its child the query taken last.                    *)
LEMMA TakenAppend ==
  ASSUME NEW s \in Seq(Edges), NEW r \in Seq(Edges), NEW n \in Nat,
         Len(s) = n, Len(r) = n + 1,
         \A i \in 1 .. n : r[i] = s[i]
  PROVE  /\ \A i \in 1 .. n + 1 : TakenOf(r)[i] = TakenOf(s)[i]
         /\ TakenOf(r)[n + 2] = r[n + 1].child
<1>1. /\ TakenOf(s)[1] = 0 /\ TakenOf(r)[1] = 0
      /\ \A i \in 1 .. n : TakenOf(s)[i + 1] = s[i].child
      /\ \A i \in 1 .. n + 1 : TakenOf(r)[i + 1] = r[i].child
  BY TakenAt
<1>2. ASSUME NEW i \in 1 .. n + 1 PROVE TakenOf(r)[i] = TakenOf(s)[i]
  <2>1. CASE i = 1
    BY <1>1, <2>1
  <2>2. CASE i # 1
    <3>1. i - 1 \in 1 .. n /\ i - 1 \in 1 .. n + 1 /\ (i - 1) + 1 = i
      BY <2>2
    <3> QED
      BY <1>1, <3>1
  <2> QED
    BY <2>1, <2>2
<1>3. TakenOf(r)[n + 2] = r[n + 1].child
  <2>1. n + 1 \in 1 .. n + 1 /\ (n + 1) + 1 = n + 2
    OBVIOUS
  <2> QED
    BY <1>1, <2>1
<1> QED
  BY <1>2, <1>3

-------------------------------------------------------------------------------
(* The inductive invariant.                                                *)

Core == TypeOK /\ LagsOnly /\ TreeOK /\ CutsLightest /\ EndOK

(* The queries taken, and how many they are.                               *)
LEMMA TreeFacts ==
  ASSUME Core, visited # {}, pc # "done"
  PROVE  LET n == Len(edges)
         IN  /\ n \in Nat /\ DOMAIN edges = 1 .. n /\ DOMAIN Taken = 1 .. n + 1
             /\ Len(Taken) = n + 1 /\ Taken[1] = 0 /\ Taken = TakenOf(edges)
             /\ \A i \in 1 .. n : Taken[i + 1] = edges[i].child
             /\ visited = {Taken[i] : i \in 1 .. n + 1}
             /\ \A i \in 1 .. n + 1 : Taken[i] \in Queries /\ Taken[i] \in visited
             /\ IsFiniteSet(visited) /\ Cardinality(visited) = n + 1 /\ n + 1 <= N
<1> DEFINE n == Len(edges)
<1>1. edges \in Seq(Edges) /\ visited \in SUBSET Queries /\ Taken = TakenOf(edges)
  BY DEF Core, TypeOK, Taken, TakenOf
<1>2. /\ n \in Nat /\ DOMAIN edges = 1 .. n
      /\ Len(Taken) = n + 1 /\ DOMAIN Taken = 1 .. n + 1
      /\ Taken[1] = 0
      /\ \A i \in 1 .. n : Taken[i + 1] = edges[i].child
      /\ \A i \in 1 .. n + 1 : Taken[i] \in Queries
  BY <1>1, TakenAt
<1> HIDE DEF n
<1>3. /\ visited = {Taken[i] : i \in 1 .. n + 1}
      /\ \A i, j \in 1 .. n + 1 : Taken[i] = Taken[j] => i = j
  BY <1>2 DEF Core, TreeOK
<1>4. IsFiniteSet(visited) /\ Cardinality(visited) <= N
  BY <1>1, QueriesFinite, FS_Subset
<1>5. Cardinality(visited) = n + 1
  <2>1. PICK f : f = [i \in 1 .. n + 1 |-> Taken[i]]
    OBVIOUS
  <2>2. f \in [1 .. n + 1 -> visited]
    BY <1>3, <2>1
  <2>3. f \in Injection(1 .. n + 1, visited) /\ f \in Surjection(1 .. n + 1, visited)
    BY <1>3, <2>1, <2>2 DEF Injection, IsInjective, Surjection
  <2>4. Cardinality(1 .. n + 1) = Cardinality(visited)
    BY <1>4, <2>3, FS_Injection
  <2>5. 1 \in Int /\ n + 1 \in Int /\ ~ (1 > n + 1) /\ n + 1 - 1 + 1 = n + 1
    BY <1>2
  <2>6. Cardinality(1 .. n + 1) = n + 1
    BY <2>5, FS_Interval
  <2> QED
    BY <2>4, <2>6
<1> QED
  BY <1>1, <1>2, <1>3, <1>4, <1>5 DEF n

(* Edges that stay where they are stay as light as they were.              *)
LEMMA CutsKeep ==
  ASSUME CutsLightest, UNCHANGED cost, NEW n \in Nat, DOMAIN edges = 1 .. n,
         \A i \in 1 .. n : edges'[i] = edges[i],
         \A i \in 1 .. n : Taken'[i] = Taken[i]
  PROVE  \A i \in 1 .. n : edges'[i].parent # Root => Lightest(i)'
<1> SUFFICES ASSUME NEW i \in 1 .. n, edges'[i].parent # Root
             PROVE  Lightest(i)'
  OBVIOUS
<1>1. \A j \in 1 .. i : j \in 1 .. n
  OBVIOUS
<1>2. \A j \in 1 .. i : Taken'[j] = Taken[j]
  BY <1>1
<1>3. Lightest(i)
  BY DEF CutsLightest
<1> QED
  BY <1>2, <1>3 DEF Lightest

LEMMA InitCore == Init => Core
<1> SUFFICES ASSUME Init PROVE Core
  OBVIOUS
<1>1. dist \in [Queries -> {w \in Int : w <= Infinity}]
  BY QueryNumbers DEF Init, StartDistance
<1>2. next \in [Threads -> Nat]
  <2>1. \A t \in Threads : First(t) \in Nat
    BY FirstBounds, FullMstAssumption DEF Threads
  <2> QED
    BY <2>1 DEF Init
<1>3. edges \in Seq(Edges) /\ Len(edges) = 0
  BY DEF Init
<1>4. TypeOK
  BY <1>1, <1>2, <1>3, FS_EmptySet, NAssumption DEF Init, TypeOK
<1>5. LagsOnly /\ TreeOK /\ CutsLightest /\ EndOK
  BY DEF Init, LagsOnly, TreeOK, CutsLightest, EndOK
<1> QED
  BY <1>4, <1>5 DEF Core

(* Every key is right when no thread lags behind.                          *)
LEMMA KeysFollow ==
  ASSUME Core
  PROVE  KeysExact
<1> SUFFICES ASSUME pc = "select", visited # {}, NEW v \in Queries \ visited
             PROVE  LET near == {i \in DOMAIN Taken :
                                   /\ cost[{Taken[i], v}] < Infinity
                                   /\ \A w \in visited : cost[{Taken[i], v}] <= cost[{w, v}]}
                    IN  IF near = {}
                        THEN dist[v] = Infinity /\ parent[v] = Root
                        ELSE LET p == Taken[CHOOSE i \in near : \A j \in near : i <= j]
                             IN  parent[v] = p /\ dist[v] = cost[{p, v}]
  BY DEF KeysExact
<1> DEFINE K == Len(edges) + 1
           near == {i \in DOMAIN Taken :
                      /\ cost[{Taken[i], v}] < Infinity
                      /\ \A w \in visited : cost[{Taken[i], v}] <= cost[{w, v}]}
<1>1. /\ K \in Nat /\ DOMAIN Taken = 1 .. K /\ Len(Taken) = K
      /\ visited = {Taken[i] : i \in 1 .. K}
      /\ \A i \in 1 .. K : Taken[i] \in Queries /\ Taken[i] \in visited
  BY TreeFacts
<1>2. Measured(v, K)
  BY <1>1 DEF Core, LagsOnly
<1>3. \A i \in 1 .. K : cost[{Taken[i], v}] \in Int /\ cost[{Taken[i], v}] <= Infinity
  BY <1>1, CostFacts DEF Core
<1>4. dist[v] \in Int /\ dist[v] <= Infinity /\ Infinity \in Int
  BY QueryNumbers DEF Core, TypeOK
<1>5. \A i : i \in near <=>
        /\ i \in 1 .. K /\ cost[{Taken[i], v}] < Infinity
        /\ \A j \in 1 .. K : cost[{Taken[i], v}] <= cost[{Taken[j], v}]
  BY <1>1
<1> HIDE DEF K, near
<1>6. \A i \in 1 .. K : dist[v] <= cost[{Taken[i], v}]
  BY <1>2 DEF Measured
<1>7. CASE parent[v] = Root /\ dist[v] = Infinity
  <2>1. near = {}
    <3> SUFFICES ASSUME NEW i \in near PROVE FALSE
      OBVIOUS
    <3>1. i \in 1 .. K /\ cost[{Taken[i], v}] < Infinity
      BY <1>5
    <3>2. cost[{Taken[i], v}] \in Int /\ Infinity <= cost[{Taken[i], v}]
      BY <1>3, <1>6, <1>7, <3>1
    <3> QED
      BY <1>4, <3>1, <3>2
  <2> QED
    BY <1>7, <2>1 DEF near
<1>8. ASSUME NEW i \in 1 .. K,
             parent[v] = Taken[i], dist[v] = cost[{Taken[i], v}], dist[v] < Infinity,
             \A j \in 1 .. i - 1 : dist[v] < cost[{Taken[j], v}]
      PROVE  near # {} /\ (CHOOSE k \in near : \A j \in near : k <= j) = i
  <2>1. i \in near
    BY <1>5, <1>6, <1>8
  <2>2. \A j \in near : i <= j
    <3> SUFFICES ASSUME NEW j \in near, ~ (i <= j) PROVE FALSE
      OBVIOUS
    <3>1. j \in 1 .. K /\ cost[{Taken[j], v}] <= cost[{Taken[i], v}]
      BY <1>5
    <3>2. j \in 1 .. i - 1
      BY <1>1, <3>1
    <3>3. dist[v] < cost[{Taken[j], v}]
      BY <1>8, <3>2
    <3> QED
      BY <1>3, <1>4, <1>8, <3>1, <3>3
  <2>3. \A k \in near : (\A j \in near : k <= j) => k = i
    BY <1>1, <1>5, <2>1, <2>2
  <2> QED
    BY <2>1, <2>2, <2>3
<1>9. ASSUME NEW i \in 1 .. K,
             parent[v] = Taken[i], dist[v] = cost[{Taken[i], v}], dist[v] < Infinity,
             \A j \in 1 .. i - 1 : dist[v] < cost[{Taken[j], v}]
      PROVE  LET p == Taken[CHOOSE k \in near : \A j \in near : k <= j]
             IN  near # {} /\ parent[v] = p /\ dist[v] = cost[{p, v}]
  BY <1>8, <1>9
<1> QED
  BY <1>2, <1>7, <1>9 DEF Measured, near

LEMMA SelectKeeps ==
  ASSUME Core, Select
  PROVE  Core'
<1> DEFINE c == Nearest
           n == Len(edges)
<1>1. /\ pc = "select" /\ pc' = "relax" /\ Candidates # {}
      /\ u' = c /\ visited' = visited \cup {c}
      /\ edges' = IF parent[c] # Root THEN Append(edges, Edge(c, parent[c])) ELSE edges
      /\ totalWeight' = IF parent[c] # Root THEN totalWeight + dist[c] ELSE totalWeight
      /\ next' = [t \in Threads |-> First(t)]
      /\ UNCHANGED <<cost, dist, parent, it>>
  BY DEF Select
<1>2. TypeOK
  BY DEF Core
<1>3. c \in Queries /\ c \notin visited /\ dist[c] < Infinity
  BY <1>1, <1>2, NearestIsCandidate DEF Candidates
<1> HIDE DEF c
<1>4. /\ visited \in SUBSET Queries /\ edges \in Seq(Edges) /\ Len(edges) <= N
      /\ dist \in [Queries -> {w \in Int : w <= Infinity}]
      /\ parent \in [Queries -> Queries \cup {Root}]
      /\ it = Cardinality(visited)
  <2>1. it = Cardinality(visited) - 0 /\ Cardinality(visited) \in Nat
    BY <1>1, <1>2, QueriesFinite, FS_Subset, FS_CardinalityType DEF TypeOK
  <2> QED
    BY <1>2, <2>1 DEF TypeOK
<1>5. it' = Cardinality(visited') - 1
  <2>1. IsFiniteSet(visited) /\ Cardinality(visited) \in Nat
    BY <1>4, QueriesFinite, FS_Subset, FS_CardinalityType
  <2>2. Cardinality(visited') = Cardinality(visited) + 1
    BY <1>1, <1>3, <2>1, FS_AddElement
  <2> QED
    BY <1>1, <1>4, <2>1, <2>2
<1>6. next' \in [Threads -> Nat]
  <2>1. \A t \in Threads : First(t) \in Nat
    BY FirstBounds, FullMstAssumption DEF Threads
  <2> QED
    BY <1>1, <2>1
<1>7. \A v \in Queries : \E t \in Threads : next'[t] <= v /\ v < First(t + 1)
  BY <1>1, BlocksCover
<1>8. visited' \in SUBSET Queries /\ visited' # {} /\ u' \in Queries
  BY <1>1, <1>3, <1>4
<1>9. EndOK' /\ totalWeight' \in Int
  <2>1. totalWeight \in Int /\ dist[c] \in Int
    BY <1>2, <1>3, <1>4 DEF TypeOK
  <2> QED
    BY <1>1, <2>1 DEF EndOK
<1>10. CASE visited = {}
  <2>1. edges = << >> /\ dist = StartDistance /\ parent = [v \in Queries |-> Root]
    BY <1>10 DEF Core, TreeOK
  <2>2. c = 0 /\ parent[c] = Root
    BY <1>3, <2>1, QueryNumbers DEF StartDistance
  <2>3. edges' = << >> /\ visited' = {0} /\ u' = 0
    BY <1>1, <1>10, <2>1, <2>2
  <2>4. edges' \in Seq(Edges) /\ Len(edges') = 0 /\ 0 <= N
    BY <2>3, NAssumption
  <2>5. Taken' = TakenOf(edges')
    BY DEF Taken, TakenOf
  <2>6. Len(Taken') = 1 /\ DOMAIN Taken' = 1 .. 1 /\ Taken'[1] = 0
    <3>1. /\ Len(TakenOf(edges')) = Len(edges') + 1
          /\ DOMAIN TakenOf(edges') = 1 .. Len(edges') + 1
          /\ TakenOf(edges')[1] = 0
      BY <2>4, TakenAt
    <3> QED
      BY <2>4, <2>5, <3>1
  <2>7. TypeOK'
    BY <1>1, <1>2, <1>5, <1>6, <1>8, <1>9, <2>4 DEF TypeOK
  <2>8. TreeOK'
    <3>1. {Taken'[i] : i \in 1 .. 1} = {0}
      BY <2>6
    <3>2. \A i, j \in 1 .. 1 : i = j
      OBVIOUS
    <3>3. DOMAIN edges' = {}
      BY <2>3
    <3> QED
      BY <1>8, <2>3, <2>6, <3>1, <3>2, <3>3 DEF TreeOK
  <2>9. LagsOnly'
    <3>1. ASSUME NEW v \in Queries \ visited' PROVE Measured(v, Len(Taken) - 1)'
      <4>1. v # 0 /\ dist'[v] = Infinity /\ parent'[v] = Root
        BY <1>1, <2>1, <2>3 DEF StartDistance
      <4>2. Len(Taken') - 1 = 0 /\ \A i \in 1 .. 0 : FALSE
        BY <2>6
      <4> QED
        BY <4>1, <4>2 DEF Measured
    <3> QED
      BY <1>1, <1>7, <2>3, <2>6, <3>1 DEF LagsOnly
  <2>10. CutsLightest'
    BY <2>3 DEF CutsLightest
  <2> QED
    BY <1>9, <2>7, <2>8, <2>9, <2>10 DEF Core
<1>11. CASE visited # {}
  <2>1. /\ n \in Nat /\ DOMAIN edges = 1 .. n /\ DOMAIN Taken = 1 .. n + 1
        /\ Len(Taken) = n + 1 /\ Taken = TakenOf(edges)
        /\ visited = {Taken[i] : i \in 1 .. n + 1}
        /\ \A i \in 1 .. n + 1 : Taken[i] \in Queries /\ Taken[i] \in visited
        /\ Taken[1] = 0
        /\ n + 1 <= N
    BY <1>1, <1>11, TreeFacts
  <2>2. /\ \A i, j \in 1 .. n + 1 : Taken[i] = Taken[j] => i = j
        /\ \A i \in 1 .. n : \E j \in 1 .. i :
             /\ edges[i].parent = Taken[j]
             /\ cost[{Taken[j], edges[i].child}] < Infinity
    BY <1>1, <1>11, <2>1 DEF Core, TreeOK
  <2>3. \A v \in Queries \ visited : Measured(v, n + 1)
    BY <1>1, <1>11, <2>1 DEF Core, LagsOnly
  <2>4. PICK k \in 1 .. n + 1 :
          parent[c] = Taken[k] /\ dist[c] = cost[{Taken[k], c}]
    <3>1. Measured(c, n + 1)
      BY <1>3, <2>3
    <3>2. dist[c] # Infinity
      BY <1>3, <1>4, QueryNumbers
    <3> QED
      BY <3>1, <3>2 DEF Measured
  <2>5. PICK e \in Edges : e = Edge(c, parent[c])
    BY <1>3, <1>4 DEF Edge, Edges
  <2>6. e.child = c /\ e.parent = Taken[k]
    BY <2>4, <2>5 DEF Edge
  <2>7. edges' = Append(edges, e)
    BY <1>1, <2>1, <2>4, <2>5, QueryNumbers
  <2>8. Taken' = TakenOf(edges')
    BY DEF Taken, TakenOf
  <2> HIDE DEF n
  <2>9. /\ edges' \in Seq(Edges) /\ Len(edges') = n + 1
        /\ \A i \in 1 .. n : edges'[i] = edges[i]
        /\ edges'[n + 1] = e
    BY <1>4, <2>7, Appending DEF n
  <2>10. /\ \A i \in 1 .. n + 1 : Taken'[i] = Taken[i]
         /\ Taken'[n + 2] = c
    <3>1. /\ \A i \in 1 .. n + 1 : TakenOf(edges')[i] = TakenOf(edges)[i]
          /\ TakenOf(edges')[n + 2] = e.child
      BY <1>4, <2>1, <2>9, TakenAppend DEF n
    <3> QED
      BY <2>1, <2>6, <2>8, <3>1
  <2>11. /\ DOMAIN edges' = 1 .. n + 1
         /\ DOMAIN Taken' = 1 .. n + 2 /\ Len(Taken') = n + 2
    <3>1. Len(Taken') = Len(edges') + 1 /\ DOMAIN Taken' = 1 .. Len(edges') + 1
          /\ DOMAIN edges' = 1 .. Len(edges')
      BY <2>8, <2>9, TakenAt
    <3>2. (n + 1) + 1 = n + 2
      BY <2>1
    <3> QED
      BY <2>9, <3>1, <3>2
  <2>12. TypeOK'
    BY <1>1, <1>2, <1>5, <1>6, <1>8, <1>9, <2>1, <2>9 DEF TypeOK
  <2>13. TreeOK'
    <3>1. visited' = {Taken'[i] : i \in 1 .. n + 2}
      <4>1. \A i : i \in 1 .. n + 2 <=> i \in 1 .. n + 1 \/ i = n + 2
        <5>1. n \in Nat
          BY <2>1
        <5> QED
          BY <5>1
      <4>2. visited = {Taken'[i] : i \in 1 .. n + 1}
        BY <2>1, <2>10
      <4>3. {Taken'[i] : i \in 1 .. n + 2} = {Taken'[i] : i \in 1 .. n + 1} \cup {Taken'[n + 2]}
        BY <4>1
      <4> QED
        BY <1>1, <2>10, <4>2, <4>3
    <3>2. ASSUME NEW i \in 1 .. n + 2, NEW j \in 1 .. n + 2, Taken'[i] = Taken'[j]
          PROVE  i = j
      <4>1. \A m \in 1 .. n + 1 : Taken'[m] # c
        <5>1. \A m \in 1 .. n + 1 : Taken'[m] = Taken[m] /\ Taken[m] \in visited
          BY <2>1, <2>10
        <5> QED
          BY <1>3, <5>1
      <4>2. (i \in 1 .. n + 1 \/ i = n + 2) /\ (j \in 1 .. n + 1 \/ j = n + 2)
        <5>1. n \in Nat
          BY <2>1
        <5> QED
          BY <5>1
      <4> QED
        BY <2>2, <2>10, <3>2, <4>1, <4>2
    <3>3. ASSUME NEW i \in 1 .. n + 1
          PROVE  \E j \in 1 .. i : /\ edges'[i].parent = Taken'[j]
                                   /\ cost'[{Taken'[j], edges'[i].child}] < Infinity
      <4>1. CASE i \in 1 .. n
        <5>1. PICK j \in 1 .. i : /\ edges[i].parent = Taken[j]
                                  /\ cost[{Taken[j], edges[i].child}] < Infinity
          BY <2>2, <4>1
        <5>2. j \in 1 .. n + 1
          BY <2>1, <4>1
        <5> QED
          BY <1>1, <2>9, <2>10, <4>1, <5>1, <5>2
      <4>2. CASE i = n + 1
        <5>1. k \in 1 .. i /\ edges'[i].parent = Taken'[k]
          BY <2>6, <2>9, <2>10, <4>2
        <5>2. cost'[{Taken'[k], edges'[i].child}] < Infinity
          BY <1>1, <1>3, <2>4, <2>6, <2>9, <2>10, <4>2
        <5> QED
          BY <5>1, <5>2
      <4>3. i \in 1 .. n \/ i = n + 1
        BY <2>1
      <4> QED
        BY <4>1, <4>2, <4>3
    <3> QED
      BY <1>8, <2>11, <3>1, <3>2, <3>3 DEF TreeOK
  <2>14. LagsOnly'
    <3>1. u' = Taken'[Len(Taken')]
      BY <1>1, <2>10, <2>11
    <3>2. Len(Taken') - 1 = n + 1
      BY <2>1, <2>11
    <3>3. ASSUME NEW v \in Queries \ visited' PROVE Measured(v, Len(Taken) - 1)'
      <4>1. Measured(v, n + 1)
        BY <1>1, <2>3
      <4>2. \A i \in 1 .. n + 1 : \A j \in 1 .. i - 1 : j \in 1 .. n + 1
        BY <2>1
      <4> QED
        BY <1>1, <2>10, <3>2, <4>1, <4>2 DEF Measured
    <3> QED
      BY <1>1, <1>7, <3>1, <3>3 DEF LagsOnly
  <2>15. CutsLightest'
    <3>1. \A i \in 1 .. n : edges'[i].parent # Root => Lightest(i)'
      <4>1. CutsLightest /\ n \in Nat /\ DOMAIN edges = 1 .. n
        BY <2>1 DEF Core
      <4>2. \A i \in 1 .. n : i \in 1 .. n + 1
        BY <2>1
      <4> QED
        BY <1>1, <2>9, <2>10, <4>1, <4>2, CutsKeep
    <3>2. ASSUME NEW last, last = n + 1 PROVE Lightest(last)'
      <4> SUFFICES ASSUME NEW j \in 1 .. n + 1, NEW r \in Queries,
                          \A m \in 1 .. n + 1 : r # Taken'[m]
                   PROVE  cost'[{edges'[last].child, edges'[last].parent}]
                            <= cost'[{Taken'[j], r}]
        BY <3>2 DEF Lightest
      <4>1. r \notin visited
        BY <2>1, <2>10
      <4>2. PICK q \in visited : q = Taken[j] /\ q = Taken'[j]
        BY <2>1, <2>10
      <4>3. q \in visited /\ q \in Queries /\ r \in Queries \ visited
        BY <1>4, <4>1
      <4>4. dist[r] <= cost[{q, r}]
        BY <2>3, <4>2, <4>3 DEF Measured
      <4>5. dist[c] <= dist[r]
        <5>1. dist[c] \in Int /\ dist[r] \in Int /\ dist[r] <= Infinity /\ Infinity \in Int
          BY <1>3, <1>4, <4>3, QueryNumbers
        <5>2. CASE r \in Candidates
          BY <1>1, <1>2, <5>2, NearestIsCandidate DEF c
        <5>3. CASE r \notin Candidates
          <6>1. ~ (dist[r] < Infinity)
            BY <4>3, <5>3 DEF Candidates
          <6> QED
            BY <1>3, <5>1, <6>1
        <5> QED
          BY <5>2, <5>3
      <4>6. {edges'[last].child, edges'[last].parent} = {Taken[k], c}
        BY <2>6, <2>9, <3>2
      <4>7. dist[c] \in Int /\ dist[r] \in Int /\ cost[{q, r}] \in Int
        BY <1>2, <1>3, <1>4, <4>3, CostFacts
      <4>8. dist[c] <= cost[{q, r}]
        BY <4>4, <4>5, <4>7
      <4>9. /\ cost'[{edges'[last].child, edges'[last].parent}] = dist[c]
            /\ cost'[{Taken'[j], r}] = cost[{q, r}]
        BY <1>1, <2>4, <4>2, <4>6
      <4> QED
        BY <4>8, <4>9
    <3>3. \A i \in 1 .. n + 1 : i \in 1 .. n \/ i = n + 1
      BY <2>1
    <3>4. \A i \in 1 .. n + 1 : edges'[i].parent # Root => Lightest(i)'
      BY <3>1, <3>2, <3>3
    <3> QED
      BY <2>11, <3>4 DEF CutsLightest
  <2> QED
    BY <1>9, <2>12, <2>13, <2>14, <2>15 DEF Core
<1> QED
  BY <1>10, <1>11

(* The tree is never empty once a query has been taken.                    *)
LEMMA StopKeeps ==
  ASSUME Core, Stop
  PROVE  Core'
<1>1. /\ pc = "select" /\ pc' = "file"
      /\ it = N \/ Candidates = {}
      /\ UNCHANGED <<cost, visited, dist, parent, edges, totalWeight, u, it, next>>
  BY DEF Stop
<1>2. TypeOK
  BY DEF Core
<1>3. it = Cardinality(visited) /\ IsFiniteSet(visited) /\ visited \subseteq Queries
  <2>1. visited \subseteq Queries /\ it = Cardinality(visited) - 0
    BY <1>1, <1>2 DEF TypeOK
  <2>2. IsFiniteSet(visited) /\ Cardinality(visited) \in Nat
    BY <2>1, QueriesFinite, FS_Subset, FS_CardinalityType
  <2> QED
    BY <2>1, <2>2
<1>4. visited # {}
  <2> SUFFICES ASSUME visited = {} PROVE FALSE
    OBVIOUS
  <2>1. dist = StartDistance
    BY DEF Core, TreeOK
  <2>2. 0 \in Candidates
    BY <2>1, QueryNumbers DEF Candidates, StartDistance
  <2>3. it = 0
    BY <1>3, FS_EmptySet
  <2> QED
    BY <1>1, <2>2, <2>3, NAssumption
<1>5. visited = Queries \/ Candidates = {}
  BY <1>1, <1>3, QueriesFinite, FS_Subset
<1>6. TypeOK'
  BY <1>1, <1>2 DEF TypeOK
<1>7. Taken' = Taken
  BY <1>1 DEF Taken
<1>8. LagsOnly'
  <2>1. \A v \in Queries \ visited : Measured(v, Len(Taken))
    BY <1>1, <1>4 DEF Core, LagsOnly
  <2>2. \A v, k : Measured(v, k) => Measured(v, k)'
    BY <1>1, <1>7 DEF Measured
  <2>3. \A v \in Queries \ visited : Measured(v, Len(Taken))'
    BY <1>7, <2>1, <2>2
  <2> QED
    BY <1>1, <2>3 DEF LagsOnly
<1>9. TreeOK'
  BY <1>1, <1>4, <1>7 DEF Core, TreeOK
<1>10. EndOK'
  BY <1>1, <1>5 DEF EndOK, Candidates
<1>11. CutsLightest'
  BY <1>1, <1>7 DEF Core, CutsLightest, Lightest
<1> QED
  BY <1>6, <1>8, <1>9, <1>10, <1>11 DEF Core

(* What one step of the parallel loop does to the query it measures.       *)
LEMMA RelaxMeasures ==
  ASSUME Core, pc = "relax", NEW j \in Queries \ visited,
         Measured(j, Len(Taken)) \/ Measured(j, Len(Taken) - 1),
         IF Nearer(j)
         THEN dist'[j] = cost[{u, j}] /\ parent'[j] = u
         ELSE dist'[j] = dist[j] /\ parent'[j] = parent[j],
         UNCHANGED <<cost, edges>>
  PROVE  Measured(j, Len(Taken))'
<1> DEFINE K == Len(edges) + 1
<1>1. /\ K \in Nat /\ K >= 1 /\ Len(Taken) = K
      /\ \A i \in 1 .. K : Taken[i] \in Queries /\ Taken[i] \in visited
      /\ u = Taken[K]
  <2>1. visited # {}
    BY DEF Core, TreeOK
  <2> QED
    BY <2>1, TreeFacts DEF Core, LagsOnly
<1> HIDE DEF K
<1>2. PICK d : d = [i \in 1 .. K |-> cost[{Taken[i], j}]]
  OBVIOUS
<1>3. /\ \A i \in 1 .. K : d[i] = cost[{Taken[i], j}]
      /\ \A i \in 1 .. K : d[i] \in Int /\ d[i] <= Infinity
      /\ dist[j] \in Int /\ dist[j] <= Infinity /\ Infinity \in Int
  <2>1. \A i \in 1 .. K : cost[{Taken[i], j}] \in Int /\ cost[{Taken[i], j}] <= Infinity
    BY <1>1, CostFacts DEF Core
  <2> QED
    <3>1. dist[j] \in Int /\ dist[j] <= Infinity /\ Infinity \in Int
      BY QueryNumbers DEF Core, TypeOK
    <3> QED
      BY <1>2, <2>1, <3>1
<1>4. Taken' = Taken
  BY DEF Taken
<1>5. /\ K \in 1 .. K /\ d[K] = cost[{Taken[K], j}] /\ d[K] \in Int /\ d[K] <= Infinity
      /\ \A i \in 1 .. K : i \in 1 .. K - 1 \/ i = K
  BY <1>1, <1>3
<1>6. \A i \in 1 .. K - 1 : i \in 1 .. K
  BY <1>1
<1>7. \A i \in 1 .. K - 1 : dist[j] <= d[i]
  BY <1>1, <1>3, <1>6 DEF Measured
<1>8. CASE Nearer(j)
  <2>1. dist'[j] = d[K] /\ parent'[j] = Taken[K] /\ d[K] < dist[j]
    BY <1>1, <1>3, <1>5, <1>8 DEF Nearer
  <2>2. \A i \in 1 .. K - 1 : dist'[j] < d[i]
    BY <1>3, <1>5, <1>6, <1>7, <2>1
  <2>3. ASSUME NEW i \in 1 .. K PROVE dist'[j] <= d[i]
    <3>1. d[i] \in Int /\ dist'[j] \in Int
      BY <1>3, <1>5, <2>1
    <3>2. dist'[j] < d[i] \/ dist'[j] = d[i]
      BY <1>5, <2>1, <2>2
    <3> QED
      BY <3>1, <3>2
  <2>4. dist'[j] < Infinity
    BY <1>3, <1>5, <2>1
  <2>5. /\ \A i \in 1 .. K : dist'[j] <= cost[{Taken[i], j}]
        /\ dist'[j] = cost[{Taken[K], j}]
        /\ \A i \in 1 .. K - 1 : dist'[j] < cost[{Taken[i], j}]
    BY <1>3, <1>5, <1>6, <2>1, <2>2, <2>3
  <2>6. \E i \in 1 .. K :
          /\ parent'[j] = Taken[i] /\ dist'[j] = cost[{Taken[i], j}] /\ dist'[j] < Infinity
          /\ \A m \in 1 .. i - 1 : dist'[j] < cost[{Taken[m], j}]
    BY <1>5, <2>1, <2>4, <2>5
  <2> QED
    BY <1>1, <1>4, <2>5, <2>6 DEF Measured
<1>9. CASE ~ Nearer(j)
  <2>1. dist'[j] = dist[j] /\ parent'[j] = parent[j] /\ ~ (d[K] < dist[j])
    BY <1>1, <1>3, <1>5, <1>9 DEF Nearer
  <2>2. \A i \in 1 .. K : dist[j] <= d[i]
    BY <1>3, <1>5, <1>7, <2>1
  <2>3. \A i \in 1 .. K : dist[j] <= cost[{Taken[i], j}]
    BY <1>3, <2>2
  <2>4. \/ parent[j] = Root /\ dist[j] = Infinity
        \/ \E i \in 1 .. K :
             /\ parent[j] = Taken[i] /\ dist[j] = cost[{Taken[i], j}] /\ dist[j] < Infinity
             /\ \A m \in 1 .. i - 1 : dist[j] < cost[{Taken[m], j}]
    BY <1>1, <1>6 DEF Measured
  <2> QED
    BY <1>1, <1>4, <2>1, <2>3, <2>4 DEF Measured
<1> QED
  BY <1>8, <1>9

LEMMA RelaxKeeps ==
  ASSUME Core, NEW t \in Threads, Relax(t)
  PROVE  Core'
<1> DEFINE j == next[t]
<1>1. /\ pc = "relax" /\ j < First(t + 1)
      /\ IF Nearer(j)
         THEN /\ dist' = [dist EXCEPT ![j] = cost[{u, j}]]
              /\ parent' = [parent EXCEPT ![j] = u]
         ELSE UNCHANGED <<dist, parent>>
      /\ next' = [next EXCEPT ![t] = j + 1]
      /\ UNCHANGED <<cost, visited, edges, totalWeight, u, it, pc>>
  BY DEF Relax
<1>2. TypeOK
  BY DEF Core
<1>3. j \in Nat /\ next \in [Threads -> Nat]
  BY <1>2 DEF TypeOK
<1>4. j \in Queries
  BY <1>1, <1>3, BlocksInside
<1>5. visited # {}
  BY <1>1 DEF Core, TreeOK
<1>6. u \in Queries /\ u \in visited
  <2>1. u = Taken[Len(Taken)]
    BY <1>1, <1>5 DEF Core, LagsOnly
  <2>2. Len(Taken) = Len(edges) + 1 /\ Len(edges) \in Nat
        /\ \A i \in 1 .. Len(edges) + 1 : Taken[i] \in Queries /\ Taken[i] \in visited
    BY <1>1, <1>5, TreeFacts
  <2> QED
    BY <2>1, <2>2
<1> HIDE DEF j
<1>7. /\ dist \in [Queries -> {w \in Int : w <= Infinity}]
      /\ parent \in [Queries -> Queries \cup {Root}]
  BY <1>2 DEF TypeOK
<1>8. Nearer(j) => cost[{u, j}] \in {w \in Int : w <= Infinity}
  BY <1>2, <1>4, <1>6, CostFacts DEF Nearer
<1>9. /\ dist' \in [Queries -> {w \in Int : w <= Infinity}]
      /\ parent' \in [Queries -> Queries \cup {Root}]
  BY <1>1, <1>4, <1>6, <1>7, <1>8
<1>10. /\ IF Nearer(j)
          THEN dist'[j] = cost[{u, j}] /\ parent'[j] = u
          ELSE dist'[j] = dist[j] /\ parent'[j] = parent[j]
       /\ \A v \in Queries : v # j => dist'[v] = dist[v] /\ parent'[v] = parent[v]
  BY <1>1, <1>4, <1>7
<1>11. /\ next' \in [Threads -> Nat] /\ next'[t] = j + 1
       /\ \A s \in Threads : s # t => next'[s] = next[s]
  BY <1>1, <1>3
<1>12. TypeOK'
  BY <1>1, <1>2, <1>9, <1>11 DEF TypeOK
<1>13. Taken' = Taken
  BY <1>1 DEF Taken
<1>14. TreeOK'
  BY <1>1, <1>5, <1>13 DEF Core, TreeOK
<1>15. EndOK'
  BY <1>1 DEF EndOK
<1>16. LagsOnly'
  <2>1. u' = Taken'[Len(Taken')]
    BY <1>1, <1>5, <1>13 DEF Core, LagsOnly
  <2>2. ASSUME NEW v \in Queries \ visited
        PROVE  \/ Measured(v, Len(Taken))'
               \/ /\ Measured(v, Len(Taken) - 1)'
                  /\ \E s \in Threads : next'[s] <= v /\ v < First(s + 1)
    <3>1. \/ Measured(v, Len(Taken))
          \/ /\ Measured(v, Len(Taken) - 1)
             /\ \E s \in Threads : next[s] <= v /\ v < First(s + 1)
      BY <1>1, <1>5 DEF Core, LagsOnly
    <3>2. CASE v = j
      BY <1>1, <1>10, <3>1, <3>2, RelaxMeasures
    <3>3. CASE v # j
      <4>1. \A k : Measured(v, k) => Measured(v, k)'
        BY <1>1, <1>10, <1>13, <3>3 DEF Measured
      <4>2. \A s \in Threads : next[s] <= v => next'[s] <= v
        <5> SUFFICES ASSUME NEW s \in Threads, next[s] <= v PROVE next'[s] <= v
          OBVIOUS
        <5>1. CASE s = t
          <6>1. j <= v /\ v \in Nat
            BY <5>1, QueryNumbers DEF j
          <6> QED
            BY <1>3, <1>11, <3>3, <5>1, <6>1
        <5>2. CASE s # t
          BY <1>11, <5>2
        <5> QED
          BY <5>1, <5>2
      <4> QED
        BY <1>13, <3>1, <4>1, <4>2
    <3> QED
      BY <3>2, <3>3
  <2> QED
    BY <1>1, <2>1, <2>2 DEF LagsOnly
<1>17. CutsLightest'
  BY <1>1, <1>13 DEF Core, CutsLightest, Lightest
<1> QED
  BY <1>12, <1>14, <1>15, <1>16, <1>17 DEF Core

(* Behind the barrier no query lags.                                       *)
LEMMA JoinKeeps ==
  ASSUME Core, Join
  PROVE  Core'
<1>1. /\ pc = "relax" /\ \A t \in Threads : next[t] >= First(t + 1)
      /\ it' = it + 1 /\ pc' = "select"
      /\ UNCHANGED <<cost, visited, dist, parent, edges, totalWeight, u, next>>
  BY DEF Join
<1>2. TypeOK
  BY DEF Core
<1>3. visited # {}
  BY <1>1 DEF Core, TreeOK
<1>4. it' = Cardinality(visited') - 0
  <2>1. it = Cardinality(visited) - 1 /\ visited \subseteq Queries
    BY <1>1, <1>2 DEF TypeOK
  <2>2. Cardinality(visited) \in Nat
    BY <2>1, QueriesFinite, FS_Subset, FS_CardinalityType
  <2> QED
    BY <1>1, <2>1, <2>2
<1>5. TypeOK'
  BY <1>1, <1>2, <1>4 DEF TypeOK
<1>6. Taken' = Taken
  BY <1>1 DEF Taken
<1>7. LagsOnly'
  <2>1. ASSUME NEW v \in Queries \ visited PROVE Measured(v, Len(Taken))
    <3>1. ASSUME NEW t \in Threads, next[t] <= v, v < First(t + 1) PROVE FALSE
      <4>1. next[t] \in Nat /\ v \in Nat /\ First(t + 1) \in Nat
        <5>1. t + 1 \in 0 .. Cores
          BY FullMstAssumption DEF Threads
        <5> QED
          BY <1>2, <5>1, FirstBounds, QueryNumbers DEF TypeOK
      <4>2. next[t] >= First(t + 1)
        BY <1>1
      <4> QED
        BY <3>1, <4>1, <4>2
    <3> QED
      BY <1>1, <1>3, <3>1 DEF Core, LagsOnly
  <2>2. \A v, k : Measured(v, k) => Measured(v, k)'
    BY <1>1, <1>6 DEF Measured
  <2> QED
    BY <1>1, <1>6, <2>1, <2>2 DEF LagsOnly
<1>8. TreeOK'
  BY <1>1, <1>3, <1>6 DEF Core, TreeOK
<1>9. EndOK'
  BY <1>1 DEF EndOK
<1>10. CutsLightest'
  BY <1>1, <1>6 DEF Core, CutsLightest, Lightest
<1> QED
  BY <1>5, <1>7, <1>8, <1>9, <1>10 DEF Core

LEMMA StutterKeeps ==
  ASSUME Core, UNCHANGED vars
  PROVE  Core'
<1>1. UNCHANGED <<cost, visited, dist, parent, edges, totalWeight, u, it, next, pc>>
  BY DEF vars
<1>2. Taken' = Taken
  BY <1>1 DEF Taken
<1>3. TypeOK'
  BY <1>1 DEF Core, TypeOK
<1>4. \A v, k : Measured(v, k) => Measured(v, k)'
  BY <1>1, <1>2 DEF Measured
<1>5. LagsOnly'
  BY <1>1, <1>2, <1>4 DEF Core, LagsOnly
<1>6. TreeOK'
  BY <1>1, <1>2 DEF Core, TreeOK
<1>7. ResultIsForest => ResultIsForest'
  BY <1>1 DEF ResultIsForest, EachChildOnce, IsForest, SizeAssert, Spans
<1>8. EndOK'
  BY <1>1, <1>7 DEF Core, EndOK, Candidates
<1>9. CutsLightest'
  BY <1>1, <1>2 DEF Core, CutsLightest, Lightest
<1> QED
  BY <1>3, <1>5, <1>6, <1>8, <1>9 DEF Core

Finite == {p \in Pairs : cost[p] < Infinity}

EdgePairs == [i \in 1 .. Len(edges) |-> {edges[i].child, edges[i].parent}]

(* A tree that holds every query has grown to it by finite distances.      *)
LEMMA FileGrown ==
  ASSUME Core, pc = "file", visited = Queries, NEW n, n = Len(edges)
  PROVE  /\ n \in Nat /\ DOMAIN edges = 1 .. n
         /\ \A i \in 1 .. n : edges[i].parent # Root /\ EdgePairs[i] \in Finite
         /\ Grown(n, Taken, EdgePairs)
<1>1. visited # {}
  BY QueryNumbers
<1>2. /\ DOMAIN edges = 1 .. n /\ DOMAIN Taken = 1 .. n + 1 /\ n \in Nat
      /\ \A i \in 1 .. n : Taken[i + 1] = edges[i].child
      /\ Queries = {Taken[i] : i \in 1 .. n + 1}
      /\ \A i \in 1 .. n + 1 : Taken[i] \in Queries
  BY <1>1, TreeFacts
<1>3. /\ \A i, j \in 1 .. n + 1 : Taken[i] = Taken[j] => i = j
      /\ \A i \in 1 .. n : \E j \in 1 .. i :
           /\ edges[i].parent = Taken[j]
           /\ cost[{Taken[j], edges[i].child}] < Infinity
  BY <1>1, <1>2 DEF Core, TreeOK
<1>4. ASSUME NEW i \in 1 .. n
      PROVE  /\ edges[i].parent # Root /\ EdgePairs[i] \in Finite
             /\ \E j \in 1 .. i : EdgePairs[i] = {Taken[j], Taken[i + 1]}
  <2>1. PICK j \in 1 .. i : /\ edges[i].parent = Taken[j]
                            /\ cost[{Taken[j], edges[i].child}] < Infinity
    BY <1>3
  <2>2. j \in 1 .. n + 1 /\ i + 1 \in 1 .. n + 1 /\ j # i + 1
    BY <1>2
  <2>3. EdgePairs[i] = {Taken[j], Taken[i + 1]}
    BY <1>2, <2>1 DEF EdgePairs
  <2>4. Taken[j] \in Queries /\ Taken[i + 1] \in Queries /\ Taken[j] # Taken[i + 1]
    BY <1>2, <1>3, <2>2
  <2>5. EdgePairs[i] \in Finite
    <3>1. {Taken[j], Taken[i + 1]} \in Pairs
      BY <2>4, PairOf
    <3> QED
      BY <1>2, <2>1, <2>3, <3>1 DEF Finite
  <2> QED
    BY <2>1, <2>3, <2>4, <2>5, QueryNumbers
<1>5. Grown(n, Taken, EdgePairs)
  BY <1>2, <1>3, <1>4 DEF Grown
<1> QED
  BY <1>2, <1>4, <1>5

(* So it joins the two sides of every cut.                                 *)
LEMMA TreeJoins ==
  ASSUME Core, pc = "file", visited = Queries
  PROVE  Spans(Finite)
<1>1. PICK n : n = Len(edges)
  OBVIOUS
<1>2. Grown(n, Taken, EdgePairs) /\ \A i \in 1 .. n : EdgePairs[i] \in Finite
  BY <1>1, FileGrown
<1>3. Spans({EdgePairs[i] : i \in 1 .. n})
  BY <1>2, GrownSpans
<1>4. \A p \in {EdgePairs[i] : i \in 1 .. n} : p \in Finite
  BY <1>2
<1> QED
  BY <1>3, <1>4 DEF Spans

(* Where the loop stopped early, no finite distance leads out of the tree. *)
LEMMA CutStops ==
  ASSUME Core, pc = "file", Spans(Finite)
  PROVE  visited = Queries
<1> SUFFICES ASSUME visited # Queries PROVE FALSE
  OBVIOUS
<1>1. visited \in SUBSET Queries /\ visited # {}
  BY DEF Core, TypeOK, TreeOK
<1>2. PICK p \in Finite : p \cap visited # {} /\ p \ visited # {}
  BY <1>1 DEF Spans
<1>3. PICK a \in p : a \in visited
  BY <1>2
<1>4. PICK b \in p : b \notin visited
  BY <1>2
<1>5. p = {a, b} /\ a \in Queries /\ b \in Queries /\ a # b
  BY <1>2, <1>3, <1>4 DEF Finite, Pairs
<1>6. dist[b] = Infinity
  <2>1. b \notin Candidates
    BY DEF Core, EndOK
  <2>2. dist[b] \in Int /\ dist[b] <= Infinity /\ Infinity \in Int /\ ~ (dist[b] < Infinity)
    BY <1>4, <1>5, <2>1, QueryNumbers DEF Core, TypeOK, Candidates
  <2> QED
    BY <2>2
<1>7. Measured(b, Len(Taken))
  BY <1>1, <1>4, <1>5 DEF Core, LagsOnly
<1>8. PICK i \in 1 .. Len(Taken) : Taken[i] = a
  BY <1>1, <1>3, TreeFacts
<1>9. dist[b] <= cost[{a, b}]
  BY <1>7, <1>8 DEF Measured
<1>10. cost[{a, b}] \in Int /\ cost[{a, b}] < Infinity /\ Infinity \in Int
  BY <1>2, <1>5, CostFacts, QueryNumbers DEF Finite, Core
<1> QED
  BY <1>6, <1>9, <1>10

LEMMA AppendRootKeeps ==
  ASSUME Core, AppendRoot
  PROVE  Core'
<1> DEFINE n == Len(edges)
<1>1. /\ pc = "file" /\ pc' = "done"
      /\ edges' = Append(edges, Edge(0, Root))
      /\ UNCHANGED <<cost, visited, dist, parent, totalWeight, u, it, next>>
  BY DEF AppendRoot
<1>2. visited # {} /\ visited \in SUBSET Queries /\ edges \in Seq(Edges)
  BY <1>1 DEF Core, TypeOK, TreeOK
<1>3. /\ n \in Nat /\ DOMAIN edges = 1 .. n /\ DOMAIN Taken = 1 .. n + 1
      /\ Taken[1] = 0
      /\ \A i \in 1 .. n : Taken[i + 1] = edges[i].child
      /\ visited = {Taken[i] : i \in 1 .. n + 1}
      /\ \A i \in 1 .. n + 1 : Taken[i] \in Queries /\ Taken[i] \in visited
      /\ IsFiniteSet(visited) /\ Cardinality(visited) = n + 1 /\ n + 1 <= N
  BY <1>1, <1>2, TreeFacts
<1>4. /\ \A i, j \in 1 .. n + 1 : Taken[i] = Taken[j] => i = j
      /\ \A i \in 1 .. n : \E j \in 1 .. i : edges[i].parent = Taken[j]
  BY <1>1, <1>2, <1>3 DEF Core, TreeOK
<1>5. PICK e \in Edges : e = Edge(0, Root)
  BY QueryNumbers DEF Edge, Edges
<1>6. e.child = 0 /\ e.parent = Root
  BY <1>5 DEF Edge
<1>7. edges' = Append(edges, e)
  BY <1>1, <1>5
<1>8. /\ edges' \in Seq(Edges) /\ Len(edges') = n + 1 /\ DOMAIN edges' = 1 .. n + 1
      /\ \A i \in 1 .. n : edges'[i] = edges[i]
      /\ edges'[n + 1] = e
  BY <1>2, <1>7, Appending
<1> HIDE DEF n
<1>9. \A i \in 1 .. n + 1 :
        \/ i \in 1 .. n /\ i + 1 \in 1 .. n + 1 /\ i + 1 # 1
             /\ edges'[i].child = Taken[i + 1]
        \/ i = n + 1 /\ edges'[i].child = Taken[1]
  <2> SUFFICES ASSUME NEW i \in 1 .. n + 1
               PROVE  \/ i \in 1 .. n /\ i + 1 \in 1 .. n + 1 /\ i + 1 # 1
                           /\ edges'[i].child = Taken[i + 1]
                      \/ i = n + 1 /\ edges'[i].child = Taken[1]
    OBVIOUS
  <2>1. CASE i \in 1 .. n
    <3>1. i + 1 \in 1 .. n + 1 /\ i + 1 # 1
      <4>1. n \in Nat
        BY <1>3
      <4> QED
        BY <2>1, <4>1
    <3>2. edges'[i].child = Taken[i + 1]
      BY <1>3, <1>8, <2>1
    <3> QED
      BY <2>1, <3>1, <3>2
  <2>2. CASE i = n + 1
    BY <1>3, <1>6, <1>8, <2>2
  <2>3. i \in 1 .. n \/ i = n + 1
    BY <1>3
  <2> QED
    BY <2>1, <2>2, <2>3
<1>10. EachChildOnce(edges')
  <2> SUFFICES ASSUME NEW i \in 1 .. n + 1, NEW j \in 1 .. n + 1,
                      edges'[i].child = edges'[j].child
               PROVE  i = j
    BY <1>8 DEF EachChildOnce
  <2>1. 1 \in 1 .. n + 1
    BY <1>3
  <2>2. CASE i \in 1 .. n /\ j \in 1 .. n
    <3>1. i + 1 = j + 1
      BY <1>4, <1>9, <2>2
    <3> QED
      BY <2>2, <3>1
  <2>3. CASE i = n + 1 /\ j = n + 1
    BY <2>3
  <2> QED
    BY <1>4, <1>9, <2>1, <2>2, <2>3
<1>11. IsForest(edges')
  <2> DEFINE At(q) == CHOOSE i \in 1 .. n + 1 : Taken[i] = q
             rank == [q \in Queries |-> IF q \in visited THEN At(q) - 1 ELSE 0]
  <2>1. \A i \in 1 .. n + 1 : At(Taken[i]) = i
    BY <1>4
  <2>2. \A q \in visited : At(q) \in 1 .. n + 1
    BY <1>3
  <2> HIDE DEF At
  <2>3. \A q \in visited : At(q) - 1 \in Queries
    <3>1. \A a \in 1 .. n + 1 : a - 1 \in Queries
      BY <1>3, NAssumption DEF Queries
    <3> QED
      BY <2>2, <3>1
  <2>4. rank \in [Queries -> Queries]
    BY <2>3, QueryNumbers
  <2>5. \A i \in 1 .. n + 1 : rank[Taken[i]] = i - 1
    BY <1>3, <2>1
  <2> HIDE DEF rank
  <2>6. ASSUME NEW i \in 1 .. n + 1, edges'[i].parent # Root
        PROVE  rank[edges'[i].parent] < rank[edges'[i].child]
    <3>1. i \in 1 .. n /\ i + 1 \in 1 .. n + 1 /\ edges'[i].child = Taken[i + 1]
      BY <1>6, <1>8, <1>9, <2>6
    <3>2. PICK j \in 1 .. i : edges'[i].parent = Taken[j]
      BY <1>4, <1>8, <3>1
    <3>3. j \in 1 .. n + 1 /\ j - 1 < (i + 1) - 1
      BY <1>3, <3>1
    <3> QED
      BY <2>5, <3>1, <3>2, <3>3
  <2> QED
    BY <1>8, <2>4, <2>6 DEF IsForest
<1>12. SizeAssert(edges') <=> Spans(Finite)
  <2>1. SizeAssert(edges') <=> n + 1 = N
    BY <1>8 DEF SizeAssert
  <2>2. n + 1 = N <=> visited = Queries
    BY <1>2, <1>3, QueriesFinite, FS_Subset
  <2> QED
    BY <1>1, <2>1, <2>2, TreeJoins, CutStops
<1>13. Finite' = Finite /\ (Spans(Finite)' <=> Spans(Finite))
  BY <1>1 DEF Finite, Spans
<1>14. ResultIsForest'
  <2>1. SizeAssert(edges') <=> Spans(Finite)'
    BY <1>12, <1>13
  <2> QED
    BY <1>10, <1>11, <2>1 DEF ResultIsForest, Finite, Spans
<1>15. EndOK'
  BY <1>1, <1>14 DEF EndOK
<1>16. TypeOK'
  BY <1>1, <1>3, <1>8 DEF Core, TypeOK
<1>17. LagsOnly' /\ TreeOK'
  BY <1>1, <1>2 DEF LagsOnly, TreeOK
<1>18. CutsLightest'
  <2>1. Taken = TakenOf(edges) /\ Taken' = TakenOf(edges')
    BY DEF Taken, TakenOf
  <2>2. \A i \in 1 .. n + 1 : Taken'[i] = Taken[i]
    <3>1. Len(edges) = n
      BY DEF n
    <3> QED
      BY <1>2, <1>3, <1>8, <2>1, <3>1, TakenAppend
  <2>3. \A i \in 1 .. n : i \in 1 .. n + 1
    BY <1>3
  <2>4. CutsLightest
    BY DEF Core
  <2>5. \A i \in 1 .. n : edges'[i].parent # Root => Lightest(i)'
    BY <1>1, <1>3, <1>8, <2>2, <2>3, <2>4, CutsKeep
  <2>6. \A i \in 1 .. n + 1 : i \in 1 .. n \/ i = n + 1
    BY <1>3
  <2>7. edges'[n + 1].parent = Root
    BY <1>6, <1>8
  <2> QED
    BY <1>8, <2>5, <2>6, <2>7 DEF CutsLightest
<1> QED
  BY <1>15, <1>16, <1>17, <1>18 DEF Core

LEMMA CoreInductive == Spec => []Core
<1>1. Core /\ [Next]_vars => Core'
  BY SelectKeeps, StopKeeps, RelaxKeeps, JoinKeeps, AppendRootKeeps, StutterKeeps
  DEF Next, Work
<1> QED
  BY InitCore, <1>1, PTL DEF Spec

-------------------------------------------------------------------------------
(* Under every schedule of the threads every query outside the tree knows  *)
(* its distance to the tree after the barrier, and of the queries at that  *)
(* distance the one taken first.                                           *)
THEOREM Inductive == Spec => []IInv
<1>1. Core => IInv
  BY KeysFollow DEF Core, IInv
<1> QED
  BY CoreInductive, <1>1, PTL

(* The cut property holds under every schedule too: a query whose distance *)
(* a thread has yet to lower is never taken in place of a nearer one.      *)
THEOREM EdgesAreLightest == Spec => []CutsLightest
<1>1. IInv => CutsLightest
  BY DEF IInv
<1> QED
  BY Inductive, <1>1, PTL

(* Whatever the threads do, what mqo() is given in the end is a forest     *)
(* with every query at most once, and it has the size that the assert asks *)
(* for exactly if the finite distances connect the queries.                *)
THEOREM DoneIsForest == Spec => [](pc = "done" => ResultIsForest)
<1>1. Core => (pc = "done" => ResultIsForest)
  BY DEF Core, EndOK
<1> QED
  BY CoreInductive, <1>1, PTL

-------------------------------------------------------------------------------
(* The pairs of a sequence of edges.                                       *)

PairsOf(s) ==
  {{s[i].child, s[i].parent} : i \in {j \in DOMAIN s : s[j].parent # Root}}

(* A root adds no pair.                                                    *)
LEMMA PairsAppend ==
  ASSUME NEW s \in Seq(Edges), NEW e \in Edges
  PROVE  PairsOf(Append(s, e)) =
           IF e.parent = Root THEN PairsOf(s) ELSE PairsOf(s) \cup {{e.child, e.parent}}
<1> DEFINE r == Append(s, e)
           n == Len(s)
           I(x) == {j \in DOMAIN x : x[j].parent # Root}
<1>1. /\ n \in Nat /\ DOMAIN s = 1 .. n /\ DOMAIN r = 1 .. n + 1
      /\ \A i \in 1 .. n : r[i] = s[i]
      /\ r[n + 1] = e
  BY Appending
<1> HIDE DEF r, n
<1>2. \A i \in 1 .. n + 1 : i \in 1 .. n \/ i = n + 1
  BY <1>1
<1>3. \A i \in 1 .. n : i \in 1 .. n + 1
  BY <1>1
<1>4. n + 1 \in 1 .. n + 1
  BY <1>1
<1>5. \A x : PairsOf(x) = {{x[i].child, x[i].parent} : i \in I(x)}
  BY DEF PairsOf
<1>6. I(r) = IF e.parent = Root THEN I(s) ELSE I(s) \cup {n + 1}
  BY <1>1, <1>2, <1>3, <1>4
<1>7. \A i \in I(s) : r[i] = s[i]
  BY <1>1
<1> HIDE DEF I
<1>8. CASE e.parent = Root
  BY <1>5, <1>6, <1>7, <1>8 DEF r
<1>9. CASE e.parent # Root
  <2>1. PairsOf(r) = {{r[i].child, r[i].parent} : i \in I(s)} \cup {{e.child, e.parent}}
    <3>1. I(r) = I(s) \cup {n + 1}
      BY <1>6, <1>9
    <3>2. PairsOf(r) = {{r[i].child, r[i].parent} : i \in I(s) \cup {n + 1}}
      BY <1>5, <3>1
    <3> QED
      BY <1>1, <3>2
  <2>2. {{r[i].child, r[i].parent} : i \in I(s)} = PairsOf(s)
    BY <1>5, <1>7
  <2> QED
    BY <1>9, <2>1, <2>2 DEF r
<1> QED
  BY <1>8, <1>9

LEMMA CostsWeigh == TypeOK => Weights(cost)
<1> SUFFICES ASSUME TypeOK PROVE Weights(cost)
  OBVIOUS
<1>1. cost \in [Pairs -> {w \in Int : w <= Infinity}]
  BY FullMstAssumption DEF TypeOK
<1> QED
  BY <1>1 DEF Weights

-------------------------------------------------------------------------------
(* The weight of the tree of FullMst.                                      *)

Weighed == totalWeight = Sum(PairsOf(edges), cost)

LightestTree(G, x, w) ==
  /\ Spans(G) /\ x = Sum(G, w)
  /\ \A T \in kSubset(N - 1, Pairs) : Spans(T) => x <= Sum(T, w)

LEMMA WeighedInit == Init => Weighed
<1> SUFFICES ASSUME Init PROVE Weighed
  OBVIOUS
<1>1. PairsOf(edges) = {}
  BY DEF Init, PairsOf
<1>2. Sum({}, cost) = 0
  BY FS_EmptySet, SumStep
<1> QED
  BY <1>1, <1>2 DEF Init, Weighed

(* The tree joins only queries taken.                                      *)
LEMMA TreeWithin ==
  ASSUME Core, visited # {}, pc # "done"
  PROVE  \A p \in PairsOf(edges) : p \in Pairs /\ p \subseteq visited
<1> DEFINE n == Len(edges)
<1>1. /\ DOMAIN edges = 1 .. n /\ DOMAIN Taken = 1 .. n + 1 /\ n \in Nat
      /\ \A i \in 1 .. n : Taken[i + 1] = edges[i].child
      /\ \A i \in 1 .. n + 1 : Taken[i] \in Queries /\ Taken[i] \in visited
  BY TreeFacts
<1>2. /\ \A i, j \in 1 .. n + 1 : Taken[i] = Taken[j] => i = j
      /\ \A i \in 1 .. n : \E j \in 1 .. i : edges[i].parent = Taken[j]
  BY <1>1 DEF Core, TreeOK
<1> HIDE DEF n
<1> SUFFICES ASSUME NEW i \in 1 .. n
             PROVE  /\ {edges[i].child, edges[i].parent} \in Pairs
                    /\ {edges[i].child, edges[i].parent} \subseteq visited
  BY <1>1 DEF PairsOf
<1>3. PICK j \in 1 .. i : edges[i].parent = Taken[j]
  BY <1>2
<1>4. j \in 1 .. n + 1 /\ i + 1 \in 1 .. n + 1 /\ j # i + 1
  BY <1>1
<1>5. /\ edges[i].child \in Queries /\ edges[i].child \in visited
      /\ edges[i].parent \in Queries /\ edges[i].parent \in visited
      /\ edges[i].child # edges[i].parent
  BY <1>1, <1>2, <1>3, <1>4
<1> QED
  BY <1>5, PairOf

(* A query taken adds its key, and its key is the weight of the pair.      *)
LEMMA WeighedSelect ==
  ASSUME Core, Weighed, Select
  PROVE  Weighed'
<1> DEFINE c == Nearest
<1>1. /\ pc = "select" /\ Candidates # {} /\ cost' = cost
      /\ edges' = IF parent[c] # Root THEN Append(edges, Edge(c, parent[c])) ELSE edges
      /\ totalWeight' = IF parent[c] # Root THEN totalWeight + dist[c] ELSE totalWeight
  BY DEF Select
<1>2. TypeOK
  BY DEF Core
<1>3. c \in Queries /\ c \notin visited /\ dist[c] < Infinity
  BY <1>1, <1>2, NearestIsCandidate DEF Candidates
<1> HIDE DEF c
<1>4. CASE parent[c] = Root
  BY <1>1, <1>4 DEF Weighed
<1>5. CASE parent[c] # Root
  <2>1. visited # {}
    BY <1>3, <1>5 DEF Core, TreeOK
  <2> DEFINE n == Len(edges)
  <2>2. /\ n \in Nat /\ Len(Taken) = n + 1
        /\ \A i \in 1 .. n + 1 : Taken[i] \in Queries /\ Taken[i] \in visited
    BY <1>1, <2>1, TreeFacts
  <2> HIDE DEF n
  <2>3. Measured(c, n + 1)
    BY <1>1, <1>3, <2>1, <2>2 DEF Core, LagsOnly
  <2>4. PICK k \in 1 .. n + 1 : parent[c] = Taken[k] /\ dist[c] = cost[{Taken[k], c}]
    BY <1>5, <2>3 DEF Measured
  <2>5. parent[c] \in Queries /\ parent[c] # c
    BY <1>3, <2>2, <2>4
  <2>6. PICK e \in Edges : e = Edge(c, parent[c])
    BY <1>3, <2>5 DEF Edge, Edges
  <2>7. e.child = c /\ e.parent = parent[c]
    BY <2>6 DEF Edge
  <2> DEFINE p == {c, parent[c]}
             T == PairsOf(edges)
  <2>8. PairsOf(edges') = T \cup {p}
    <3>1. edges \in Seq(Edges) /\ edges' = Append(edges, e)
      BY <1>1, <1>2, <1>5, <2>6 DEF TypeOK
    <3> QED
      BY <1>5, <2>7, <3>1, PairsAppend
  <2>9. T \in SUBSET Pairs /\ p \notin T
    <3>1. \A x \in T : x \in Pairs /\ x \subseteq visited
      BY <1>1, <2>1, TreeWithin
    <3> QED
      BY <1>3, <3>1
  <2>10. p \in Pairs /\ p = {Taken[k], c}
    BY <1>3, <2>4, <2>5, PairOf
  <2> HIDE DEF p, T
  <2>11. Sum(T \cup {p}, cost) = cost[p] + Sum(T, cost) /\ Sum(T, cost) \in Int /\ cost[p] \in Int
    <3>1. IsFiniteSet(T) /\ cost[p] \in Int /\ \A y \in T : cost[y] \in Int
      <4>1. Weights(cost)
        BY <1>2, CostsWeigh
      <4>2. IsFiniteSet(T)
        BY <2>9, PairsFinite, FS_Subset
      <4> QED
        BY <2>9, <2>10, <4>1, <4>2 DEF Weights
    <3>2. Sum(T, cost) \in Int
      BY <3>1, SumTaken
    <3>3. Sum(T \cup {p}, cost) = cost[p] + Sum(T, cost)
      BY <2>9, <3>1, SumAdds
    <3> QED
      BY <3>1, <3>2, <3>3
  <2>12. totalWeight' = Sum(T, cost) + cost[p]
    BY <1>1, <1>5, <2>4, <2>10 DEF Weighed, T
  <2>13. totalWeight' = Sum(PairsOf(edges'), cost')
    <3>1. cost' = cost
      BY <1>1
    <3>2. totalWeight' = Sum(T \cup {p}, cost)
      BY <2>11, <2>12
    <3> QED
      BY <2>8, <3>1, <3>2
  <2> QED
    BY <2>13 DEF Weighed
<1> QED
  BY <1>4, <1>5

LEMMA RootAddsNothing ==
  ASSUME Core, AppendRoot
  PROVE  PairsOf(edges') = PairsOf(edges) /\ UNCHANGED <<cost, totalWeight>>
<1>1. edges \in Seq(Edges) /\ edges' = Append(edges, Edge(0, Root))
  BY DEF Core, TypeOK, AppendRoot
<1>2. PICK e \in Edges : e = Edge(0, Root)
  BY QueryNumbers DEF Edge, Edges
<1>3. e.parent = Root
  BY <1>2 DEF Edge
<1>4. edges' = Append(edges, e)
  BY <1>1, <1>2
<1> QED
  BY <1>1, <1>3, <1>4, PairsAppend DEF AppendRoot

LEMMA WeighedStep ==
  ASSUME Core, Weighed, [Next]_vars
  PROVE  Weighed'
<1>1. ASSUME UNCHANGED <<cost, edges, totalWeight>> PROVE Weighed'
  BY <1>1 DEF Weighed
<1>2. CASE AppendRoot
  BY <1>2, RootAddsNothing DEF Weighed
<1>3. \A t : Relax(t) => UNCHANGED <<cost, edges, totalWeight>>
  BY DEF Relax
<1>4. Stop \/ Join \/ UNCHANGED vars => UNCHANGED <<cost, edges, totalWeight>>
  BY DEF Stop, Join, vars
<1> QED
  BY <1>1, <1>2, <1>3, <1>4, WeighedSelect DEF Next, Work

(* When the loop is over and the finite distances connect the queries.     *)
LEMMA FileIsLeast ==
  ASSUME Core, Weighed, pc = "file", Spans(Finite)
  PROVE  LightestTree(PairsOf(edges), totalWeight, cost)
<1>1. PICK n : n = Len(edges)
  OBVIOUS
<1>2. /\ DOMAIN edges = 1 .. n
      /\ \A i \in 1 .. n : edges[i].parent # Root
      /\ Grown(n, Taken, EdgePairs)
  BY <1>1, CutStops, FileGrown
<1>3. \A i \in 1 .. n : EdgePairs[i] = {edges[i].child, edges[i].parent}
  BY <1>1 DEF EdgePairs
<1>4. PairsOf(edges) = {EdgePairs[i] : i \in 1 .. n}
  <2>1. {j \in DOMAIN edges : edges[j].parent # Root} = 1 .. n
    BY <1>2
  <2>2. PairsOf(edges) = {{edges[i].child, edges[i].parent} : i \in 1 .. n}
    BY <2>1 DEF PairsOf
  <2> QED
    BY <1>3, <2>2
<1>5. ByLightest(n, Taken, EdgePairs, cost)
  <2>1. \A i \in 1 .. n : Lightest(i)
    BY <1>2 DEF Core, CutsLightest
  <2> QED
    BY <1>3, <2>1 DEF Lightest, ByLightest
<1>6. Weights(cost)
  BY CostsWeigh DEF Core
<1>7. Spans(PairsOf(edges))
  BY <1>2, <1>4, GrownSpans
<1>8. \A T \in kSubset(N - 1, Pairs) : Spans(T) => totalWeight <= Sum(T, cost)
  BY <1>2, <1>4, <1>5, <1>6, GrownIsLeast DEF Weighed
<1> QED
  BY <1>7, <1>8 DEF LightestTree, Weighed

DoneLeast == pc = "done" /\ Spans(Finite) => LightestTree(PairsOf(edges), totalWeight, cost)

LEMMA DoneLeastStep ==
  ASSUME Core, Weighed, DoneLeast, [Next]_vars
  PROVE  DoneLeast'
<1>1. CASE AppendRoot
  <2>1. pc = "file" /\ cost' = cost
    BY <1>1 DEF AppendRoot
  <2>2. Finite' = Finite
    BY <2>1 DEF Finite
  <2>3. Spans(Finite)' <=> Spans(Finite)
    BY <2>2 DEF Spans
  <2> QED
    BY <1>1, <2>1, <2>3, FileIsLeast, RootAddsNothing DEF DoneLeast
<1>2. CASE UNCHANGED vars
  <2>1. Finite' = Finite
    BY <1>2 DEF Finite, vars
  <2> QED
    BY <1>2, <2>1 DEF DoneLeast, vars
<1>3. CASE Select \/ Stop \/ Work \/ Join
  BY <1>3 DEF Select, Stop, Work, Relax, Join, DoneLeast
<1> QED
  BY <1>1, <1>2, <1>3 DEF Next

(* Under every schedule, and with ties, negative and infinite distances:   *)
(* if the finite ones connect the queries, the tree is a spanning tree of  *)
(* least weight and totalWeight its weight.                                *)
THEOREM TreeIsMinimum == Spec => [](pc = "done" => LeastTree)
<1>1. Init => DoneLeast
  BY DEF Init, DoneLeast
<1>2. Spec => [](Weighed /\ DoneLeast)
  BY CoreInductive, WeighedInit, WeighedStep, DoneLeastStep, <1>1, PTL DEF Spec
<1>3. DoneLeast => (pc = "done" => LeastTree)
  BY WeightIs DEF DoneLeast, LightestTree, LeastTree, Finite, TreePairs, PairsOf
<1> QED
  BY <1>2, <1>3, PTL

-------------------------------------------------------------------------------
(* The parallel loop.                                                      *)

(* A thread never falls back behind its own block.                         *)
InBlock == \A t \in Threads : First(t) <= next[t]

(* Threads that are still at work measure different queries, so that no    *)
(* element of dist or parent is written by one and touched by another.     *)
OwnQuery ==
  pc = "relax" =>
    \A s, t \in Threads :
      (s # t /\ next[s] < First(s + 1) /\ next[t] < First(t + 1)) => next[s] # next[t]

LEMMA BlockNumbers ==
  ASSUME NEW t \in Threads
  PROVE  First(t) \in Nat /\ First(t + 1) \in Nat
<1>1. t \in 0 .. Cores /\ t + 1 \in 0 .. Cores
  BY FullMstAssumption DEF Threads
<1> QED
  BY <1>1, FirstBounds

LEMMA InBlockInit == Init => InBlock
<1> SUFFICES ASSUME Init, NEW t \in Threads
             PROVE  First(t) <= next[t]
  BY DEF InBlock
<1> QED
  BY BlockNumbers DEF Init

LEMMA InBlockStep ==
  ASSUME Core, InBlock, [Next]_vars
  PROVE  InBlock'
<1>1. next \in [Threads -> Nat]
  BY DEF Core, TypeOK
<1>2. CASE Select
  <2> SUFFICES ASSUME NEW t \in Threads
               PROVE  First(t) <= next'[t]
    BY DEF InBlock
  <2> QED
    BY <1>2, BlockNumbers DEF Select
<1>3. ASSUME NEW s \in Threads, Relax(s)
      PROVE  InBlock'
  <2>1. next' = [next EXCEPT ![s] = next[s] + 1]
    BY <1>3 DEF Relax
  <2> SUFFICES ASSUME NEW t \in Threads
               PROVE  First(t) <= next'[t]
    BY DEF InBlock
  <2>2. First(t) \in Nat /\ next[t] \in Nat /\ First(t) <= next[t]
    BY <1>1, BlockNumbers DEF InBlock
  <2>3. next'[t] = next[t] \/ next'[t] = next[t] + 1
    BY <1>1, <2>1
  <2> QED
    BY <2>2, <2>3
<1>4. CASE UNCHANGED next
  BY <1>4 DEF InBlock
<1>5. Stop \/ Join \/ AppendRoot \/ UNCHANGED vars => UNCHANGED next
  BY DEF Stop, Join, AppendRoot, vars
<1> QED
  BY <1>2, <1>3, <1>4, <1>5 DEF Next, Work

LEMMA ApartInBlocks ==
  ASSUME TypeOK, InBlock,
         NEW s \in Threads, NEW t \in Threads, s < t, next[s] < First(s + 1)
  PROVE  next[s] < next[t]
<1>1. next[s] \in Nat /\ next[t] \in Nat
  BY DEF TypeOK
<1>2. First(s + 1) <= First(t) /\ First(t) <= next[t]
  BY BlocksDisjoint DEF InBlock
<1> QED
  BY <1>1, <1>2, BlockNumbers

(* However the iterations are divided between the threads and whatever the *)
(* order of their steps, the parallel loop has no data race.               *)
THEOREM ThreadsApart == Spec => []OwnQuery
<1>1. Core /\ InBlock => OwnQuery
  <2> SUFFICES ASSUME Core, InBlock, NEW s \in Threads, NEW t \in Threads,
                      s # t, next[s] < First(s + 1), next[t] < First(t + 1)
               PROVE  next[s] # next[t]
    BY DEF OwnQuery
  <2>1. s \in Int /\ t \in Int /\ next[s] \in Nat /\ next[t] \in Nat
    BY FullMstAssumption DEF Threads, Core, TypeOK
  <2>2. s < t \/ t < s
    BY <2>1
  <2>3. next[s] < next[t] \/ next[t] < next[s]
    BY <2>2, ApartInBlocks DEF Core
  <2> QED
    BY <2>1, <2>3
<1>2. Core /\ InBlock /\ [Next]_vars => InBlock'
  BY InBlockStep
<1> QED
  BY CoreInductive, InBlockInit, <1>1, <1>2, PTL DEF Spec

-------------------------------------------------------------------------------
(* What the variables of PrimGroup are in a state of FullMst, and its      *)
(* actions in these terms.                                                 *)

Key == [v \in Queries |-> IF Lags(v) THEN cost[{u, v}] ELSE dist[v]]

From == [v \in Queries |-> IF Lags(v) THEN u ELSE parent[v]]

Order ==
  [i \in 1 .. Cardinality(visited) |-> IF i = 1 THEN Edge(0, Root) ELSE edges[i - 1]]

Phase ==
  IF visited = Queries THEN "done"
  ELSE IF pc \in {"file", "done"} THEN "overrun" ELSE "grow"

LEMMA SequentialActions ==
  /\ Sequential!Init <=>
       /\ cost \in Distances /\ Key = StartDistance
       /\ From = [v \in Queries |-> Root]
       /\ visited = {} /\ Order = << >> /\ totalWeight = 0 /\ Phase = "grow"
  /\ Sequential!Candidates = {v \in Queries \ visited : Key[v] < Infinity}
  /\ Sequential!Overrun <=>
       /\ Phase = "grow" /\ Sequential!Candidates = {} /\ Phase' = "overrun"
       /\ UNCHANGED <<cost, Key, From, visited, Order, totalWeight>>
  /\ UNCHANGED Sequential!vars <=>
       UNCHANGED <<cost, Key, From, visited, Order, totalWeight, Phase>>
<1>1. /\ Sequential!Queries = Queries /\ Sequential!Root = Root
  BY DEF Sequential!Queries, Sequential!Root, Queries, Root
<1>2. Sequential!Init <=>
        /\ cost \in Distances /\ Key = StartDistance
        /\ From = [v \in Queries |-> Root]
        /\ visited = {} /\ Order = << >> /\ totalWeight = 0 /\ Phase = "grow"
  BY <1>1 DEF Sequential!Init, StartDistance, Key, From, Order, Phase
<1>3. Sequential!Candidates = {v \in Queries \ visited : Key[v] < Infinity}
  BY <1>1 DEF Sequential!Candidates, Key
<1>4. Sequential!Overrun <=>
        /\ Phase = "grow" /\ Sequential!Candidates = {} /\ Phase' = "overrun"
        /\ UNCHANGED <<cost, Key, From, visited, Order, totalWeight>>
  BY DEF Sequential!Overrun, Key, From, Order, Phase
<1>5. UNCHANGED Sequential!vars <=>
        UNCHANGED <<cost, Key, From, visited, Order, totalWeight, Phase>>
  BY DEF Sequential!vars, Key, From, Order, Phase
<1> QED
  BY <1>2, <1>3, <1>4, <1>5

(* While no thread is at work, nothing lags.                               *)
LEMMA NothingLags ==
  ASSUME pc # "relax"
  PROVE  Key = [v \in Queries |-> dist[v]] /\ From = [v \in Queries |-> parent[v]]
BY DEF Key, From, Lags

LEMMA InitMaps == Init => Sequential!Init
<1> SUFFICES ASSUME Init PROVE Sequential!Init
  OBVIOUS
<1>1. Key = StartDistance /\ From = [v \in Queries |-> Root]
  BY NothingLags DEF Init, StartDistance
<1>2. Order = << >>
  BY FS_EmptySet DEF Order, Init
<1>3. Phase = "grow"
  BY QueryNumbers DEF Phase, Init
<1> QED
  BY <1>1, <1>2, <1>3, SequentialActions DEF Init

LEMMA SequentialGrow ==
  Sequential!Grow <=>
    /\ Phase = "grow" /\ Sequential!Candidates # {}
    /\ LET c == Sequential!Nearest
       IN  /\ visited' = visited \cup {c}
           /\ Order' = Append(Order, Edge(c, From[c]))
           /\ totalWeight' = totalWeight + Key[c]
           /\ Key' = [v \in Queries |->
                        IF v \notin visited \cup {c} /\ cost[{c, v}] < Key[v]
                        THEN cost[{c, v}] ELSE Key[v]]
           /\ From' = [v \in Queries |->
                         IF v \notin visited \cup {c} /\ cost[{c, v}] < Key[v]
                         THEN c ELSE From[v]]
           /\ Phase' = IF visited' = Queries THEN "done" ELSE "grow"
    /\ UNCHANGED cost
<1>1. Sequential!Queries = Queries
  BY DEF Sequential!Queries, Queries
<1>2. \A c : Sequential!Selected(c) = Edge(c, From[c])
  BY DEF Sequential!Selected, Sequential!Edge, Edge, From
<1>3. \A c, v : Sequential!Nearer(c, v) <=> v \notin visited \cup {c} /\ cost[{c, v}] < Key[v]
  BY DEF Sequential!Nearer, Key
<1>4. Sequential!Grow <=>
        /\ Phase = "grow" /\ Sequential!Candidates # {}
        /\ LET c == Sequential!Nearest
           IN  /\ visited' = visited \cup {c}
               /\ Order' = Append(Order, Sequential!Selected(c))
               /\ totalWeight' = totalWeight + Key[c]
               /\ Key' = [v \in Sequential!Queries |->
                            IF Sequential!Nearer(c, v) THEN cost[{c, v}] ELSE Key[v]]
               /\ From' = [v \in Sequential!Queries |->
                             IF Sequential!Nearer(c, v) THEN c ELSE From[v]]
               /\ Phase' = IF visited' = Sequential!Queries THEN "done" ELSE "grow"
        /\ UNCHANGED cost
  BY DEF Sequential!Grow, Key, From, Order, Phase
<1> QED
  BY <1>1, <1>2, <1>3, <1>4

LEMMA NearestMaps ==
  ASSUME TypeOK, pc = "select"
  PROVE  /\ Key = dist /\ From = parent
         /\ Sequential!Candidates = Candidates /\ Sequential!Nearest = Nearest
<1>1. Key = dist /\ From = parent
  BY NothingLags DEF TypeOK
<1>2. Sequential!Candidates = Candidates
  BY <1>1, SequentialActions DEF Candidates
<1>3. Sequential!Nearest =
        CHOOSE v \in Sequential!Candidates : \A w \in Sequential!Candidates :
          Key[v] < Key[w] \/ (Key[v] = Key[w] /\ v <= w)
  BY DEF Sequential!Nearest, Key
<1> QED
  BY <1>1, <1>2, <1>3 DEF Nearest

(* Taking a query into the tree is a step of PrimGroup.                    *)
LEMMA SelectMaps ==
  ASSUME Core, Select
  PROVE  Sequential!Grow
<1> DEFINE c == Nearest
           n == Cardinality(visited)
<1>1. /\ pc = "select" /\ pc' = "relax" /\ Candidates # {}
      /\ u' = c /\ visited' = visited \cup {c}
      /\ UNCHANGED <<cost, dist, parent>>
  BY DEF Select
<1>2. IF parent[c] # Root
      THEN edges' = Append(edges, Edge(c, parent[c])) /\ totalWeight' = totalWeight + dist[c]
      ELSE edges' = edges /\ totalWeight' = totalWeight
  BY DEF Select
<1>3. /\ Key = dist /\ From = parent
      /\ Sequential!Candidates = Candidates /\ Sequential!Nearest = c
  BY <1>1, NearestMaps DEF Core
<1>4. c \in Queries /\ c \notin visited /\ dist[c] < Infinity
  BY <1>1, NearestIsCandidate DEF Core, Candidates
<1> HIDE DEF c
<1>5. /\ visited \in SUBSET Queries /\ edges \in Seq(Edges) /\ totalWeight \in Int
      /\ dist \in [Queries -> {w \in Int : w <= Infinity}]
      /\ parent \in [Queries -> Queries \cup {Root}]
  BY DEF Core, TypeOK
<1>6. Phase = "grow" /\ Phase' = IF visited' = Queries THEN "done" ELSE "grow"
  BY <1>1, <1>4 DEF Phase
<1>7. \A v : Lags(v)' <=> v \notin visited \cup {c} /\ cost[{c, v}] < dist[v]
  BY <1>1 DEF Lags, Nearer
<1>8. /\ Key' = [v \in Queries |->
                   IF v \notin visited \cup {c} /\ cost[{c, v}] < Key[v]
                   THEN cost[{c, v}] ELSE Key[v]]
      /\ From' = [v \in Queries |->
                    IF v \notin visited \cup {c} /\ cost[{c, v}] < Key[v]
                    THEN c ELSE From[v]]
  <2>1. Key' = [v \in Queries |-> IF Lags(v)' THEN cost'[{u', v}] ELSE dist'[v]]
    BY DEF Key
  <2>2. From' = [v \in Queries |-> IF Lags(v)' THEN u' ELSE parent'[v]]
    BY DEF From
  <2> QED
    BY <1>1, <1>3, <1>7, <2>1, <2>2
<1>9. n \in Nat /\ Cardinality(visited') = n + 1
  <2>1. IsFiniteSet(visited) /\ n \in Nat
    BY <1>5, QueriesFinite, FS_Subset, FS_CardinalityType
  <2> QED
    BY <1>1, <1>4, <2>1, FS_AddElement
<1> HIDE DEF n
<1>10. /\ Order = [i \in 1 .. n |-> IF i = 1 THEN Edge(0, Root) ELSE edges[i - 1]]
       /\ Order' = [i \in 1 .. n + 1 |-> IF i = 1 THEN Edge(0, Root) ELSE edges'[i - 1]]
  BY <1>9 DEF Order, n
<1>11. CASE visited = {}
  <2>1. edges = << >> /\ dist = StartDistance /\ parent = [v \in Queries |-> Root]
    BY <1>11 DEF Core, TreeOK
  <2>2. c = 0 /\ parent[c] = Root /\ dist[c] = 0
    BY <1>4, <2>1, QueryNumbers DEF StartDistance
  <2>3. totalWeight' = totalWeight + dist[c]
    BY <1>2, <1>5, <2>2
  <2>4. n = 0
    BY <1>11, FS_EmptySet DEF n
  <2>5. Order = << >>
    BY <1>10, <2>4
  <2>6. Order' = << Edge(0, Root) >>
    <3>1. Order' = [i \in 1 .. 1 |-> Edge(0, Root)]
      BY <1>10, <2>4
    <3> QED
      BY <3>1
  <2>7. Order' = Append(Order, Edge(c, From[c]))
    BY <1>3, <2>2, <2>5, <2>6
  <2> QED
    BY <1>1, <1>3, <1>6, <1>8, <2>3, <2>7, SequentialGrow
<1>12. CASE visited # {}
  <2>1. Len(edges) \in Nat /\ n = Len(edges) + 1
    BY <1>1, <1>12, TreeFacts DEF n
  <2>2. parent[c] # Root
    <3>1. /\ DOMAIN Taken = 1 .. Len(Taken)
          /\ \A i \in DOMAIN Taken : Taken[i] \in Queries
      BY <1>1, <1>12, TreeFacts
    <3>2. Measured(c, Len(Taken))
      BY <1>1, <1>4, <1>12 DEF Core, LagsOnly
    <3>3. dist[c] # Infinity
      BY <1>4, <1>5, QueryNumbers
    <3> QED
      BY <3>1, <3>2, <3>3, QueryNumbers DEF Measured
  <2>3. /\ edges' = Append(edges, Edge(c, parent[c]))
        /\ totalWeight' = totalWeight + dist[c]
    BY <1>2, <2>2
  <2>4. PICK e \in Edges : e = Edge(c, parent[c])
    BY <1>4, <1>5 DEF Edge, Edges
  <2>5. /\ \A i \in 1 .. Len(edges) : edges'[i] = edges[i] /\ edges[i] \in Edges
        /\ edges'[Len(edges) + 1] = e
    BY <1>5, <2>3, <2>4, Appending, EdgesAt
  <2>6. Order' = Append(Order, e)
    <3>1. PICK r \in Edges : r = Edge(0, Root)
      BY QueryNumbers DEF Edge, Edges
    <3>2. \A i \in 1 .. n : i = 1 \/ i - 1 \in 1 .. Len(edges)
      BY <2>1
    <3>3. Order \in Seq(Edges) /\ Len(Order) = n
      <4>1. \A i \in 1 .. n : Order[i] \in Edges
        BY <1>10, <2>5, <3>1, <3>2
      <4> QED
        BY <1>9, <1>10, <4>1
    <3>4. \A i \in 1 .. n : Order'[i] = Order[i]
      <4>1. \A i \in 1 .. n : i \in 1 .. n + 1
        BY <1>9
      <4> QED
        BY <1>10, <2>5, <3>2, <4>1
    <3>5. Order'[n + 1] = e
      <4>1. n + 1 \in 1 .. n + 1 /\ n + 1 # 1 /\ (n + 1) - 1 = Len(edges) + 1
        BY <2>1
      <4> QED
        BY <1>10, <2>5, <4>1
    <3>6. \A i \in 1 .. n + 1 : i \in 1 .. n \/ i = n + 1
      BY <1>9
    <3>7. Order' \in Seq(Edges) /\ Len(Order') = n + 1
      <4>1. \A i \in 1 .. n + 1 : Order'[i] \in Edges
        <5>1. \A i \in 1 .. n : Order[i] \in Edges
          BY <3>3
        <5> QED
          BY <3>4, <3>5, <3>6, <5>1
      <4> QED
        BY <1>9, <1>10, <4>1
    <3>8. PICK s : s = Append(Order, e)
      OBVIOUS
    <3>9. /\ s \in Seq(Edges) /\ Len(s) = n + 1
          /\ \A i \in 1 .. n : s[i] = Order[i]
          /\ s[n + 1] = e
      BY <3>3, <3>8, Appending
    <3>10. ASSUME NEW i \in 1 .. n + 1 PROVE Order'[i] = s[i]
      <4>1. CASE i \in 1 .. n
        BY <3>4, <3>9, <4>1
      <4>2. CASE i = n + 1
        BY <3>5, <3>9, <4>2
      <4> QED
        BY <3>6, <4>1, <4>2
    <3>11. Order' = s
      BY <3>7, <3>9, <3>10, SeqEqual
    <3> QED
      BY <3>8, <3>11
  <2> QED
    BY <1>1, <1>3, <1>6, <1>8, <2>3, <2>4, <2>6, SequentialGrow
<1> QED
  BY <1>11, <1>12

(* Between two steps of PrimGroup nothing of what it sees changes.         *)
LEMMA RelaxMaps ==
  ASSUME Core, NEW t \in Threads, Relax(t)
  PROVE  UNCHANGED Sequential!vars
<1> DEFINE j == next[t]
<1>1. /\ pc = "relax" /\ j < First(t + 1)
      /\ IF Nearer(j)
         THEN /\ dist' = [dist EXCEPT ![j] = cost[{u, j}]]
              /\ parent' = [parent EXCEPT ![j] = u]
         ELSE UNCHANGED <<dist, parent>>
      /\ UNCHANGED <<cost, visited, edges, totalWeight, u, it, pc>>
  BY DEF Relax
<1>2. j \in Queries
  <2>1. j \in Nat
    BY DEF Core, TypeOK
  <2> QED
    BY <1>1, <2>1, BlocksInside
<1> HIDE DEF j
<1>3. /\ dist \in [Queries -> {w \in Int : w <= Infinity}]
      /\ parent \in [Queries -> Queries \cup {Root}]
  BY DEF Core, TypeOK
<1>4. ASSUME NEW v \in Queries
      PROVE  /\ (IF Lags(v) THEN cost[{u, v}] ELSE dist[v])'
                   = IF Lags(v) THEN cost[{u, v}] ELSE dist[v]
             /\ (IF Lags(v) THEN u ELSE parent[v])' = IF Lags(v) THEN u ELSE parent[v]
  <2>1. CASE v = j /\ Nearer(j)
    <3>1. dist'[v] = cost[{u, v}] /\ parent'[v] = u
      BY <1>1, <1>2, <1>3, <2>1
    <3>2. Lags(v)
      BY <1>1, <2>1 DEF Lags
    <3>3. cost[{u, v}] < dist[v] /\ v \notin visited
      BY <2>1 DEF Nearer
    <3> QED
      BY <1>1, <3>1, <3>2
  <2>2. CASE ~ (v = j /\ Nearer(j))
    <3>1. dist'[v] = dist[v] /\ parent'[v] = parent[v]
      BY <1>1, <1>2, <1>3, <2>2
    <3>2. Lags(v)' <=> Lags(v)
      BY <1>1, <3>1 DEF Lags, Nearer
    <3> QED
      BY <1>1, <3>1, <3>2
  <2> QED
    BY <2>1, <2>2
<1>5. Key' = Key /\ From' = From
  BY <1>4 DEF Key, From
<1>6. Order' = Order /\ Phase' = Phase
  BY <1>1 DEF Order, Phase
<1> QED
  BY <1>1, <1>5, <1>6, SequentialActions

LEMMA JoinMaps ==
  ASSUME Core, Join
  PROVE  UNCHANGED Sequential!vars
<1>1. /\ pc = "relax" /\ pc' = "select"
      /\ UNCHANGED <<cost, visited, dist, parent, edges, totalWeight, u, next>>
  BY DEF Join
<1>2. visited # {} /\ TypeOK
  BY <1>1 DEF Core, TreeOK
<1>3. ASSUME NEW v \in Queries \ visited PROVE ~ Nearer(v)
  <2>1. Taken' = Taken
    BY <1>1 DEF Taken
  <2>2. Measured(v, Len(Taken))'
    BY <1>1, <1>2, JoinKeeps DEF Core, LagsOnly
  <2>3. \A i \in 1 .. Len(Taken) : dist[v] <= cost[{Taken[i], v}]
    BY <1>1, <2>1, <2>2 DEF Measured
  <2>4. /\ Len(Taken) \in 1 .. Len(Taken)
        /\ u = Taken[Len(Taken)] /\ u \in Queries /\ u \in visited
    <3>1. u = Taken[Len(Taken)]
      BY <1>1, <1>2 DEF Core, LagsOnly
    <3>2. /\ Len(edges) \in Nat /\ Len(Taken) = Len(edges) + 1
          /\ \A i \in 1 .. Len(edges) + 1 : Taken[i] \in Queries /\ Taken[i] \in visited
      BY <1>1, <1>2, TreeFacts
    <3> QED
      BY <3>1, <3>2
  <2>5. dist[v] <= cost[{u, v}]
    BY <2>3, <2>4
  <2>6. dist[v] \in Int /\ cost[{u, v}] \in Int
    BY <1>2, <2>4, CostFacts DEF TypeOK
  <2> QED
    BY <2>5, <2>6 DEF Nearer
<1>4. \A v \in Queries : ~ Lags(v)
  BY <1>3 DEF Lags, Nearer
<1>5. Key = [v \in Queries |-> dist[v]] /\ From = [v \in Queries |-> parent[v]]
  BY <1>4 DEF Key, From
<1>6. \A v : ~ Lags(v)'
  BY <1>1 DEF Lags
<1>7. Key' = Key /\ From' = From
  BY <1>1, <1>5, <1>6 DEF Key, From
<1>8. Order' = Order /\ Phase' = Phase
  BY <1>1 DEF Order, Phase
<1> QED
  BY <1>1, <1>7, <1>8, SequentialActions

(* Without a candidate PrimGroup would use the index -1 here.              *)
LEMMA StopMaps ==
  ASSUME Core, Stop
  PROVE  Sequential!Overrun \/ UNCHANGED Sequential!vars
<1>1. /\ pc = "select" /\ pc' = "file"
      /\ it = N \/ Candidates = {}
      /\ UNCHANGED <<cost, visited, dist, parent, edges, totalWeight, u, it, next>>
  BY DEF Stop
<1>2. visited = Queries \/ Candidates = {}
  <2>1. EndOK'
    BY StopKeeps DEF Core
  <2> QED
    BY <1>1, <2>1 DEF EndOK, Candidates
<1>3. Key' = Key /\ From' = From /\ Order' = Order
  BY <1>1 DEF Key, From, Order, Lags
<1>4. CASE visited = Queries
  <2>1. Phase' = Phase
    BY <1>1, <1>4 DEF Phase
  <2> QED
    BY <1>1, <1>3, <2>1, SequentialActions
<1>5. CASE visited # Queries /\ Candidates = {}
  <2>1. Phase = "grow" /\ Phase' = "overrun"
    BY <1>1, <1>5 DEF Phase
  <2>2. Sequential!Candidates = {}
    BY <1>1, <1>5, NearestMaps DEF Core
  <2> QED
    BY <1>1, <1>3, <2>1, <2>2, SequentialActions
<1> QED
  BY <1>2, <1>4, <1>5

(* The appended root lies behind the edges that PrimGroup sees.            *)
LEMMA AppendRootMaps ==
  ASSUME Core, AppendRoot
  PROVE  UNCHANGED Sequential!vars
<1>1. /\ pc = "file" /\ pc' = "done"
      /\ edges' = Append(edges, Edge(0, Root))
      /\ UNCHANGED <<cost, visited, dist, parent, totalWeight, u, it, next>>
  BY DEF AppendRoot
<1>2. /\ edges \in Seq(Edges) /\ Len(edges) \in Nat
      /\ Cardinality(visited) = Len(edges) + 1
  <2>1. visited # {} /\ edges \in Seq(Edges)
    BY <1>1 DEF Core, TypeOK, TreeOK
  <2> QED
    BY <1>1, <2>1, TreeFacts
<1>3. PICK e \in Edges : e = Edge(0, Root)
  BY QueryNumbers DEF Edge, Edges
<1>4. \A i \in 1 .. Len(edges) : edges'[i] = edges[i]
  BY <1>1, <1>2, <1>3, Appending
<1>5. \A i \in 1 .. Cardinality(visited) : i # 1 => edges'[i - 1] = edges[i - 1]
  <2>1. \A i \in 1 .. Len(edges) + 1 : i # 1 => i - 1 \in 1 .. Len(edges)
    BY <1>2
  <2> QED
    BY <1>2, <1>4, <2>1
<1>6. Order' = Order
  BY <1>1, <1>5 DEF Order
<1>7. Key' = Key /\ From' = From /\ Phase' = Phase
  BY <1>1 DEF Key, From, Lags, Phase
<1> QED
  BY <1>1, <1>6, <1>7, SequentialActions

LEMMA StutterMaps ==
  ASSUME UNCHANGED vars
  PROVE  UNCHANGED Sequential!vars
<1>1. UNCHANGED <<cost, visited, dist, parent, edges, totalWeight, u, it, next, pc>>
  BY DEF vars
<1>2. Key' = Key /\ From' = From /\ Order' = Order /\ Phase' = Phase
  BY <1>1 DEF Key, From, Lags, Nearer, Order, Phase
<1> QED
  BY <1>1, <1>2, SequentialActions

(* Whatever the schedule, the team of threads computes, edge by edge, what *)
(* the sequential algorithm computes: each step is a step of PrimGroup or  *)
(* changes nothing that PrimGroup sees.                                    *)
THEOREM ImplementsSequential == Spec => ImplementsPrim
<1>1. Core /\ [Next]_vars => [Sequential!Next]_Sequential!vars
  <2> SUFFICES ASSUME Core, [Next]_vars
               PROVE  Sequential!Next \/ UNCHANGED Sequential!vars
    OBVIOUS
  <2>1. CASE Select
    BY <2>1, SelectMaps DEF Sequential!Next
  <2>2. CASE Stop
    BY <2>2, StopMaps DEF Sequential!Next
  <2>3. CASE Work
    BY <2>3, RelaxMaps DEF Work
  <2>4. CASE Join
    BY <2>4, JoinMaps
  <2>5. CASE AppendRoot
    BY <2>5, AppendRootMaps
  <2>6. CASE UNCHANGED vars
    BY <2>6, StutterMaps
  <2> QED
    BY <2>1, <2>2, <2>3, <2>4, <2>5, <2>6 DEF Next
<1> QED
  BY CoreInductive, InitMaps, <1>1, PTL DEF Spec, ImplementsPrim, Sequential!Safety

-------------------------------------------------------------------------------
(* PrimGroup itself, over variables of its own: what the optimizer of a    *)
(* group computes, whatever the number of its queries and the distances.   *)

VARIABLES gDist, gKey, gFrom, gTree, gEdges, gWeight, gPc

Group ==
  INSTANCE PrimGroup WITH
    dist <- gDist, key <- gKey, from <- gFrom, inMST <- gTree,
    trajectory <- gEdges, weight <- gWeight, pc <- gPc

GroupTypes ==
  /\ gDist \in Distances
  /\ gKey \in [Queries -> {w \in Int : w <= Infinity}]
  /\ gFrom \in [Queries -> Queries \cup {Root}]
  /\ gTree \in SUBSET Queries
  /\ gEdges \in Seq(Edges)
  /\ gWeight \in Int
  /\ gPc \in {"grow", "done", "overrun"}

(* The key of v is right with respect to the queries of S.                 *)
KeyRight(v, S) ==
  /\ \A w \in S : gKey[v] <= gDist[{w, v}]
  /\ \/ gFrom[v] \in S /\ gKey[v] = gDist[{gFrom[v], v}] /\ gKey[v] < Infinity
     \/ gFrom[v] = Root /\ gKey[v] = Infinity

GroupKeys ==
  IF gTree = {}
  THEN gKey = StartDistance /\ gFrom = [v \in Queries |-> Root]
  ELSE \A v \in Queries \ gTree : KeyRight(v, gTree)

GroupTree ==
  /\ Children(gEdges) = gTree
  /\ EachChildOnce(gEdges) /\ OrderAssert(gEdges) /\ RootsAscend(gEdges)
  /\ \A i \in DOMAIN gEdges : gEdges[i].parent = Root <=> i = 1
  /\ gPc = "done" => gTree = Queries

(* The cut property of the edge at position i.                             *)
GroupLightest(i) ==
  \A j \in 1 .. i - 1, v \in Queries :
    (\A m \in 1 .. i - 1 : v # gEdges[m].child) =>
      gDist[{gEdges[i].child, gEdges[i].parent}] <= gDist[{gEdges[j].child, v}]

GroupCuts == \A i \in DOMAIN gEdges : gEdges[i].parent # Root => GroupLightest(i)

GroupInv == GroupTypes /\ GroupKeys /\ GroupTree /\ GroupCuts

(* The definitions of the instance in the vocabulary of this module.       *)
LEMMA GroupWords ==
  /\ Group!Queries = Queries /\ Group!Root = Root /\ Group!Edges = Edges
  /\ \A c, p : Group!Edge(c, p) = Edge(c, p)
  /\ \A t : /\ Group!EachChildOnce(t) <=> EachChildOnce(t)
            /\ Group!OrderAssert(t) <=> OrderAssert(t)
            /\ Group!RootsAscend(t) <=> RootsAscend(t)
            /\ Group!CheckTrajectory(t) <=> CheckTrajectory(t)
<1>1. Group!Queries = Queries /\ Group!Root = Root
  BY DEF Group!Queries, Group!Root, Queries, Root
<1>2. Group!Edges = Edges
  BY <1>1 DEF Group!Edges, Edges
<1>3. \A c, p : Group!Edge(c, p) = Edge(c, p)
  BY DEF Group!Edge, Edge
<1>4. ASSUME NEW t
      PROVE  /\ Group!EachChildOnce(t) <=> EachChildOnce(t)
             /\ Group!OrderAssert(t) <=> OrderAssert(t)
             /\ Group!RootsAscend(t) <=> RootsAscend(t)
             /\ Group!SizeAssert(t) <=> SizeAssert(t)
             /\ Group!CoverAssert(t) <=> CoverAssert(t)
  BY <1>1 DEF Group!EachChildOnce, EachChildOnce, Group!OrderAssert, OrderAssert,
     Group!RootsAscend, RootsAscend, Group!SizeAssert, SizeAssert,
     Group!CoverAssert, CoverAssert, Group!Children, Children
<1>5. \A t : Group!CheckTrajectory(t) <=> CheckTrajectory(t)
  BY <1>4 DEF Group!CheckTrajectory, CheckTrajectory
<1> QED
  BY <1>1, <1>2, <1>3, <1>4, <1>5

LEMMA GroupGrow ==
  ASSUME Group!Grow
  PROVE  LET c == Group!Nearest
         IN  /\ gTree' = gTree \cup {c}
             /\ gEdges' = Append(gEdges, Edge(c, gFrom[c]))
             /\ gWeight' = gWeight + gKey[c]
             /\ gKey' = [v \in Queries |->
                           IF v \notin gTree \cup {c} /\ gDist[{c, v}] < gKey[v]
                           THEN gDist[{c, v}] ELSE gKey[v]]
             /\ gFrom' = [v \in Queries |->
                            IF v \notin gTree \cup {c} /\ gDist[{c, v}] < gKey[v]
                            THEN c ELSE gFrom[v]]
             /\ gPc' = (IF gTree' = Queries THEN "done" ELSE "grow")
             /\ gDist' = gDist
             /\ Group!Candidates # {}
<1>1. \A c, v : Group!Nearer(c, v) <=> v \notin gTree \cup {c} /\ gDist[{c, v}] < gKey[v]
  BY DEF Group!Nearer
<1>2. \A c : Group!Selected(c) = Edge(c, gFrom[c])
  BY GroupWords DEF Group!Selected
<1> QED
  BY <1>1, <1>2, GroupWords DEF Group!Grow

LEMMA GroupNearest ==
  ASSUME GroupTypes, Group!Candidates # {}
  PROVE  /\ Group!Nearest \in Queries \ gTree
         /\ gKey[Group!Nearest] \in Int /\ gKey[Group!Nearest] < Infinity
         /\ \A v \in Queries \ gTree : gKey[Group!Nearest] <= gKey[v]
<1> DEFINE C == Group!Candidates
           c == Group!Nearest
<1>1. C = {v \in Queries \ gTree : gKey[v] < Infinity}
  BY GroupWords DEF Group!Candidates
<1>2. IsFiniteSet(C) /\ C \subseteq Int
  <2>1. C \subseteq Queries
    BY <1>1
  <2>2. IsFiniteSet(C)
    BY <2>1, QueriesFinite, FS_Subset
  <2>3. C \subseteq Int
    BY <2>1, QueryNumbers
  <2> QED
    BY <2>2, <2>3
<1>3. \A v \in C : gKey[v] \in Int
  BY <1>1 DEF GroupTypes
<1>4. \E v \in C : \A w \in C : gKey[v] < gKey[w] \/ (gKey[v] = gKey[w] /\ v <= w)
  BY <1>2, <1>3, LeastByRank
<1>5. c \in C /\ \A w \in C : gKey[c] < gKey[w] \/ (gKey[c] = gKey[w] /\ c <= w)
  BY <1>4 DEF Group!Nearest
<1> HIDE DEF c
<1>6. gKey[c] \in Int /\ gKey[c] < Infinity /\ c \in Queries \ gTree
  BY <1>1, <1>3, <1>5
<1>7. ASSUME NEW v \in Queries \ gTree
      PROVE  gKey[c] <= gKey[v]
  <2>1. gKey[v] \in Int /\ Infinity \in Int
    BY QueryNumbers DEF GroupTypes
  <2>2. CASE v \in C
    BY <1>5, <1>6, <2>1, <2>2
  <2>3. CASE v \notin C
    BY <1>1, <1>6, <2>1, <2>3
  <2> QED
    BY <2>2, <2>3
<1> QED
  BY <1>6, <1>7 DEF c

LEMMA GroupMeans == GroupInv => Group!IInv
<1> SUFFICES ASSUME GroupInv PROVE Group!IInv
  OBVIOUS
<1>1. Group!TypeOK
  BY GroupWords DEF GroupInv, GroupTypes, Group!TypeOK
<1>2. Group!KeysExact
  BY GroupWords DEF GroupInv, GroupKeys, KeyRight, Group!KeysExact, Group!Outside
<1>3. gPc = "done" => CheckTrajectory(gEdges)
  <2> SUFFICES ASSUME gPc = "done" PROVE CheckTrajectory(gEdges)
    OBVIOUS
  <2>1. /\ gEdges \in Seq(Edges) /\ EachChildOnce(gEdges) /\ OrderAssert(gEdges)
        /\ Children(gEdges) = Queries
    BY DEF GroupInv, GroupTypes, GroupTree
  <2> QED
    BY <2>1, Pigeonhole DEF CheckTrajectory, SizeAssert, CoverAssert
<1>4. Group!GroupContract
  BY <1>3, GroupWords DEF GroupInv, GroupTree, Group!GroupContract
<1>5. Group!CutsLightest
  <2>1. \A i : Group!Lightest(i) <=> GroupLightest(i)
    BY GroupWords DEF Group!Lightest, GroupLightest
  <2> QED
    BY <2>1, GroupWords DEF GroupInv, GroupCuts, Group!CutsLightest
<1> QED
  BY <1>1, <1>2, <1>4, <1>5 DEF Group!IInv

LEMMA GroupStarts == Group!Init => GroupInv
<1> SUFFICES ASSUME Group!Init PROVE GroupInv
  OBVIOUS
<1>1. /\ gDist \in Distances /\ gKey = StartDistance
      /\ gFrom = [v \in Queries |-> Root]
      /\ gTree = {} /\ gEdges = << >> /\ gWeight = 0 /\ gPc = "grow"
  BY GroupWords DEF Group!Init, StartDistance
<1>2. GroupTypes
  <2>1. StartDistance \in [Queries -> {w \in Int : w <= Infinity}]
    BY QueryNumbers DEF StartDistance
  <2>2. << >> \in Seq(Edges)
    OBVIOUS
  <2> QED
    BY <1>1, <2>1, <2>2 DEF GroupTypes
<1>3. GroupTree
  <2>1. DOMAIN gEdges = {}
    BY <1>1
  <2> QED
    BY <1>1, <2>1 DEF GroupTree, Children, EachChildOnce, OrderAssert, RootsAscend
<1>4. GroupCuts
  BY <1>1 DEF GroupCuts
<1> QED
  BY <1>1, <1>2, <1>3, <1>4 DEF GroupInv, GroupKeys

LEMMA GroupGrowKeeps ==
  ASSUME GroupInv, Group!Grow
  PROVE  GroupInv'
<1> DEFINE c == Group!Nearest
           n == Len(gEdges)
<1>1. /\ gTree' = gTree \cup {c}
      /\ gEdges' = Append(gEdges, Edge(c, gFrom[c]))
      /\ gWeight' = gWeight + gKey[c]
      /\ gDist' = gDist
      /\ gPc' = (IF gTree' = Queries THEN "done" ELSE "grow")
  BY GroupGrow
<1>2. /\ gKey' = [v \in Queries |->
                    IF v \notin gTree \cup {c} /\ gDist[{c, v}] < gKey[v]
                    THEN gDist[{c, v}] ELSE gKey[v]]
      /\ gFrom' = [v \in Queries |->
                     IF v \notin gTree \cup {c} /\ gDist[{c, v}] < gKey[v]
                     THEN c ELSE gFrom[v]]
  BY GroupGrow
<1>3. GroupTypes
  BY DEF GroupInv
<1>4. /\ c \in Queries /\ c \notin gTree /\ gKey[c] \in Int /\ gKey[c] < Infinity
      /\ \A v \in Queries \ gTree : gKey[c] <= gKey[v]
  BY <1>3, GroupGrow, GroupNearest
<1> HIDE DEF c
<1>5. \A v, w \in Queries :
        v # w => gDist[{w, v}] \in Int /\ gDist[{w, v}] <= Infinity
  <2> SUFFICES ASSUME NEW v \in Queries, NEW w \in Queries, v # w
               PROVE  gDist[{w, v}] \in Int /\ gDist[{w, v}] <= Infinity
    OBVIOUS
  <2>1. {w, v} \in Pairs
    BY DEF Pairs
  <2>2. gDist \in [Pairs -> {x \in Int : x <= Infinity}]
    BY <1>3, FullMstAssumption DEF GroupTypes
  <2> QED
    BY <2>1, <2>2
<1>6. /\ gTree \in SUBSET Queries /\ gEdges \in Seq(Edges) /\ gWeight \in Int
      /\ gKey \in [Queries -> {w \in Int : w <= Infinity}]
      /\ gFrom \in [Queries -> Queries \cup {Root}]
  BY <1>3 DEF GroupTypes
<1>7. gTree' \in SUBSET Queries /\ gWeight' \in Int
  BY <1>1, <1>4, <1>6
<1>8. /\ gKey' \in [Queries -> {w \in Int : w <= Infinity}]
      /\ gFrom' \in [Queries -> Queries \cup {Root}]
  <2>1. ASSUME NEW v \in Queries
        PROVE  (IF v \notin gTree \cup {c} /\ gDist[{c, v}] < gKey[v]
                THEN gDist[{c, v}] ELSE gKey[v]) \in {w \in Int : w <= Infinity}
    BY <1>4, <1>5, <1>6
  <2> QED
    BY <1>2, <1>4, <1>6, <2>1
<1>9. PICK e \in Edges : e = Edge(c, gFrom[c])
  BY <1>4, <1>6 DEF Edge, Edges
<1>10. e.child = c /\ e.parent = gFrom[c]
  BY <1>9 DEF Edge
<1>11. /\ gEdges' \in Seq(Edges) /\ Len(gEdges') = n + 1
       /\ n \in Nat /\ DOMAIN gEdges = 1 .. n /\ DOMAIN gEdges' = 1 .. n + 1
       /\ \A i \in 1 .. n : gEdges'[i] = gEdges[i]
       /\ gEdges'[n + 1] = e
  BY <1>1, <1>6, <1>9, Appending
<1>12. Children(gEdges') = gTree'
  <2>1. gEdges' = Append(gEdges, e)
    BY <1>1, <1>9
  <2>2. Children(gEdges') = Children(gEdges) \cup {e.child}
    BY <1>6, <2>1, AppendingChildren
  <2>3. Children(gEdges) = gTree
    BY DEF GroupInv, GroupTree
  <2> QED
    BY <1>1, <1>10, <2>2, <2>3
<1>13. GroupTypes'
  BY <1>1, <1>3, <1>7, <1>8, <1>11 DEF GroupTypes
<1> HIDE DEF n
(* The parent of the new edge: the tree, unless the edge is the first.     *)
<1>14. \/ gTree = {} /\ n = 0 /\ c = 0 /\ gFrom[c] = Root
       \/ gTree # {} /\ n # 0 /\ gFrom[c] \in gTree /\ gFrom[c] # Root
  <2>1. CASE gTree = {}
    <3>1. gKey = StartDistance /\ gFrom = [v \in Queries |-> Root]
      BY <2>1 DEF GroupInv, GroupKeys
    <3>2. c = 0 /\ gFrom[c] = Root
      BY <1>4, <3>1, QueryNumbers DEF StartDistance
    <3>3. n = 0
      <4>1. \A i \in 1 .. n : gEdges[i].child \in Children(gEdges)
        BY <1>11 DEF Children
      <4>2. Children(gEdges) = {}
        BY <2>1 DEF GroupInv, GroupTree
      <4>3. \A i \in 1 .. n : FALSE
        BY <4>1, <4>2
      <4>4. n # 0 => 1 \in 1 .. n
        BY <1>11
      <4> QED
        BY <4>3, <4>4
    <3> QED
      BY <2>1, <3>2, <3>3
  <2>2. CASE gTree # {}
    <3>1. KeyRight(c, gTree)
      BY <1>4, <2>2 DEF GroupInv, GroupKeys
    <3>2. gKey[c] # Infinity
      BY <1>4, QueryNumbers
    <3>3. gFrom[c] \in gTree
      BY <3>1, <3>2 DEF KeyRight
    <3>4. n # 0
      <4>1. Children(gEdges) # {}
        BY <2>2 DEF GroupInv, GroupTree
      <4>2. \E i : i \in 1 .. n
        BY <1>11, <4>1 DEF Children
      <4> QED
        BY <4>2
    <3> QED
      BY <1>6, <2>2, <3>3, <3>4, QueryNumbers
  <2> QED
    BY <2>1, <2>2
<1>15. EachChildOnce(gEdges') /\ OrderAssert(gEdges')
  <2>1. Children(gEdges) = gTree /\ EachChildOnce(gEdges) /\ OrderAssert(gEdges)
    BY DEF GroupInv, GroupTree
  <2>2. e.child \notin Children(gEdges) /\ (e.parent = Root \/ e.parent \in Children(gEdges))
    BY <1>4, <1>10, <1>14, <2>1
  <2>3. gEdges' = Append(gEdges, e)
    BY <1>1, <1>9
  <2> QED
    BY <1>6, <2>1, <2>2, <2>3, AppendingKeeps
<1>16. \A i \in 1 .. n + 1 : i \in 1 .. n \/ i = n + 1
  BY <1>11
<1>17. RootsAscend(gEdges')
  <2> SUFFICES ASSUME NEW i \in 1 .. n + 1, gEdges'[i].parent = Root,
                      NEW q \in 0 .. gEdges'[i].child - 1
               PROVE  \E j \in 1 .. i - 1 : gEdges'[j].child = q
    BY <1>11 DEF RootsAscend
  <2>1. CASE i \in 1 .. n
    <3>1. RootsAscend(gEdges)
      BY DEF GroupInv, GroupTree
    <3>2. gEdges[i].parent = Root /\ q \in 0 .. gEdges[i].child - 1
      BY <1>11, <2>1
    <3>3. PICK j \in 1 .. i - 1 : gEdges[j].child = q
      BY <1>11, <2>1, <3>1, <3>2 DEF RootsAscend
    <3>4. j \in 1 .. n
      BY <1>11, <2>1
    <3> QED
      BY <1>11, <3>3, <3>4
  <2>2. CASE i = n + 1
    <3>1. e.child = 0
      BY <1>6, <1>10, <1>11, <1>14, <2>2, QueryNumbers
    <3> QED
      BY <1>11, <2>2, <3>1
  <2> QED
    BY <1>16, <2>1, <2>2
<1>18. ASSUME NEW i \in 1 .. n + 1
       PROVE  gEdges'[i].parent = Root <=> i = 1
  <2>1. CASE i \in 1 .. n
    BY <1>11, <2>1 DEF GroupInv, GroupTree
  <2>2. CASE i = n + 1
    <3>1. n + 1 = 1 <=> n = 0
      BY <1>11
    <3>2. gEdges'[i].parent = gFrom[c]
      BY <1>10, <1>11, <2>2
    <3> QED
      BY <1>14, <2>2, <3>1, <3>2
  <2> QED
    BY <1>16, <2>1, <2>2
<1>19. GroupTree'
  BY <1>1, <1>11, <1>12, <1>15, <1>17, <1>18 DEF GroupTree
<1>20. GroupKeys'
  <2> SUFFICES ASSUME NEW v \in Queries, v \notin gTree', gTree' # {}
               PROVE  KeyRight(v, gTree)'
    <3>1. gTree' # {}
      BY <1>1
    <3> QED
      BY <3>1 DEF GroupKeys
  <2>1. v \notin gTree /\ v # c
    BY <1>1
  <2>2. /\ gDist[{c, v}] \in Int /\ gDist[{c, v}] <= Infinity
        /\ gKey[v] \in Int /\ gKey[v] <= Infinity /\ Infinity \in Int
    BY <1>4, <1>5, <1>6, <2>1, QueryNumbers
  <2>3. IF gDist[{c, v}] < gKey[v]
        THEN gKey'[v] = gDist[{c, v}] /\ gFrom'[v] = c
        ELSE gKey'[v] = gKey[v] /\ gFrom'[v] = gFrom[v]
    BY <1>2, <2>1
  <2>4. gKey'[v] <= gKey[v] /\ gKey'[v] <= gDist[{c, v}] /\ gKey'[v] \in Int
    BY <2>2, <2>3
  <2>5. \A w \in gTree : gDist[{w, v}] \in Int /\ gKey[v] <= gDist[{w, v}]
    <3>1. \A w \in gTree : gKey[v] <= gDist[{w, v}]
      BY <2>1 DEF GroupInv, GroupKeys, KeyRight
    <3> QED
      BY <1>5, <1>6, <2>1, <3>1
  <2>6. \A w \in gTree : gKey'[v] <= gDist[{w, v}]
    BY <2>2, <2>4, <2>5
  <2>7. \A w \in gTree' : gKey'[v] <= gDist'[{w, v}]
    BY <1>1, <2>4, <2>6
  <2>8. CASE gDist[{c, v}] < gKey[v]
    <3>1. gKey'[v] = gDist[{c, v}] /\ gFrom'[v] = c /\ gKey'[v] < Infinity
      BY <2>2, <2>3, <2>8
    <3> QED
      BY <1>1, <2>7, <3>1 DEF KeyRight
  <2>9. CASE ~ (gDist[{c, v}] < gKey[v])
    <3>1. gKey'[v] = gKey[v] /\ gFrom'[v] = gFrom[v]
      BY <2>3, <2>9
    <3>2. \/ gFrom[v] \in gTree /\ gKey[v] = gDist[{gFrom[v], v}] /\ gKey[v] < Infinity
          \/ gFrom[v] = Root /\ gKey[v] = Infinity
      <4>1. CASE gTree = {}
        <5>1. gKey = StartDistance /\ gFrom = [x \in Queries |-> Root]
          BY <4>1 DEF GroupInv, GroupKeys
        <5>2. v # 0
          BY <1>14, <2>1, <4>1
        <5> QED
          BY <5>1, <5>2 DEF StartDistance
      <4>2. CASE gTree # {}
        BY <2>1, <4>2 DEF GroupInv, GroupKeys, KeyRight
      <4> QED
        BY <4>1, <4>2
    <3> QED
      BY <1>1, <2>7, <3>1, <3>2 DEF KeyRight
  <2> QED
    BY <2>8, <2>9
<1>21. ASSUME NEW j \in 1 .. n, NEW v \in Queries, gFrom[c] # Root,
              \A m \in 1 .. n : v # gEdges[m].child
       PROVE  gDist[{c, gFrom[c]}] <= gDist[{gEdges[j].child, v}]
  <2> DEFINE w == gEdges[j].child
  <2>1. w \in gTree /\ v \notin gTree
    BY <1>11, <1>21 DEF GroupInv, GroupTree, Children
  <2>2. KeyRight(c, gTree) /\ KeyRight(v, gTree)
    BY <1>4, <1>21, <2>1 DEF GroupInv, GroupKeys
  <2>3. gKey[c] = gDist[{gFrom[c], c}] /\ {gFrom[c], c} = {c, gFrom[c]}
    BY <1>21, <2>2 DEF KeyRight
  <2>4. gKey[v] <= gDist[{w, v}]
    BY <2>1, <2>2 DEF KeyRight
  <2>5. gDist[{w, v}] \in Int
    BY <1>5, <1>6, <2>1
  <2>6. gKey[v] \in Int /\ gKey[c] <= gKey[v]
    BY <1>4, <1>6, <1>21, <2>1
  <2> QED
    BY <1>4, <2>3, <2>4, <2>5, <2>6
<1>22. GroupCuts'
  <2> SUFFICES ASSUME NEW i \in 1 .. n + 1, gEdges'[i].parent # Root,
                      NEW j \in 1 .. i - 1, NEW v \in Queries,
                      \A m \in 1 .. i - 1 : v # gEdges'[m].child
               PROVE  gDist'[{gEdges'[i].child, gEdges'[i].parent}]
                        <= gDist'[{gEdges'[j].child, v}]
    BY <1>11 DEF GroupCuts, GroupLightest
  <2>1. j \in 1 .. n /\ \A m \in 1 .. i - 1 : m \in 1 .. n
    BY <1>11
  <2>2. gEdges'[j] = gEdges[j] /\ \A m \in 1 .. i - 1 : v # gEdges[m].child
    BY <1>11, <2>1
  <2>3. CASE i \in 1 .. n
    <3>1. gEdges'[i] = gEdges[i]
      BY <1>11, <2>3
    <3>2. GroupLightest(i)
      BY <1>11, <2>3, <3>1 DEF GroupInv, GroupCuts
    <3> QED
      BY <1>1, <2>2, <3>1, <3>2 DEF GroupLightest
  <2>4. CASE i = n + 1
    <3>1. i - 1 = n
      BY <1>11, <2>4
    <3>2. gEdges'[i].child = c /\ gEdges'[i].parent = gFrom[c]
      BY <1>10, <1>11, <2>4
    <3> QED
      BY <1>1, <1>21, <2>1, <2>2, <3>1, <3>2
  <2> QED
    BY <1>16, <2>3, <2>4
<1> QED
  BY <1>13, <1>19, <1>20, <1>22 DEF GroupInv

LEMMA GroupStays ==
  ASSUME UNCHANGED <<gDist, gKey, gFrom, gTree, gEdges>>
  PROVE  (GroupKeys' <=> GroupKeys) /\ (GroupCuts' <=> GroupCuts)
<1>1. GroupKeys' <=> GroupKeys
  BY DEF GroupKeys, KeyRight
<1>2. GroupCuts' <=> GroupCuts
  BY DEF GroupCuts, GroupLightest
<1> QED
  BY <1>1, <1>2

LEMMA GroupInvStep ==
  ASSUME GroupInv, [Group!Next]_Group!vars
  PROVE  GroupInv'
<1>1. CASE Group!Grow
  BY <1>1, GroupGrowKeeps
<1>2. CASE Group!Overrun
  <2>1. /\ gPc' = "overrun"
        /\ UNCHANGED <<gDist, gKey, gFrom, gTree, gEdges, gWeight>>
    BY <1>2 DEF Group!Overrun
  <2> QED
    BY <2>1, GroupStays DEF GroupInv, GroupTypes, GroupTree
<1>3. CASE UNCHANGED Group!vars
  <2>1. UNCHANGED <<gDist, gKey, gFrom, gTree, gEdges, gWeight, gPc>>
    BY <1>3 DEF Group!vars
  <2> QED
    BY <2>1, GroupStays DEF GroupInv, GroupTypes, GroupTree
<1> QED
  BY <1>1, <1>2, <1>3 DEF Group!Next

(* The sequential algorithm, with ties and with negative and infinite      *)
(* distances: every key is the distance to the tree, and what it returns   *)
(* meets at every step what GroupLoop expects of the optimizer of a group; *)
(* no edge is heavier than another that leaves the tree where it did.      *)
THEOREM GroupMeetsContract == Group!Spec => []Group!IInv
BY GroupStarts, GroupMeans, GroupInvStep, PTL DEF Group!Spec

-------------------------------------------------------------------------------
(* The weight of the tree of PrimGroup.                                    *)

GroupWeighed == gWeight = Sum(PairsOf(gEdges), gDist)

LEMMA SameCardinality == \A S : Group!Cardinality(S) = Cardinality(S)
BY DEF Group!Cardinality, Cardinality, Group!IsFiniteSet, IsFiniteSet

LEMMA GroupWeights ==
  /\ Group!Pairs = Pairs
  /\ Group!TreePairs = PairsOf(gEdges)
  /\ \A T : /\ Group!WeightOf(T) = Sum(T, gDist)
            /\ Group!Spans(T) <=> Spans(T)
  /\ \A k : Group!kSubset(k, Pairs) = kSubset(k, Pairs)
<1>1. Group!Pairs = Pairs
  BY GroupWords DEF Group!Pairs, Pairs
<1>2. Group!TreePairs = PairsOf(gEdges)
  BY GroupWords DEF Group!TreePairs, PairsOf
<1>3. \A T : Group!WeightOf(T) = Sum(T, gDist)
  BY DEF Group!WeightOf, Group!MapThenSumSet, Group!MapThenFoldSet, Sum, Adds, One
<1>4. \A T : Group!Spans(T) <=> Spans(T)
  BY GroupWords DEF Group!Spans, Group!Joins, Spans
<1>5. \A k : Group!kSubset(k, Pairs) = kSubset(k, Pairs)
  BY SameCardinality DEF Group!kSubset, kSubset
<1> QED
  BY <1>1, <1>2, <1>3, <1>4, <1>5

(* The tree joins only queries taken, and only the first edge is no pair.  *)
LEMMA GroupWithin ==
  ASSUME GroupInv, NEW n, n = Len(gEdges)
  PROVE  /\ n \in Nat /\ DOMAIN gEdges = 1 .. n
         /\ \A i \in 1 .. n : gEdges[i].child \in Queries /\ gEdges[i].child \in gTree
         /\ \A i \in 1 .. n :
              i # 1 => /\ gEdges[i].parent # Root
                       /\ \E j \in 1 .. i - 1 : gEdges[i].parent = gEdges[j].child
         /\ \A i, j \in 1 .. n : gEdges[i].child = gEdges[j].child => i = j
         /\ \A p \in PairsOf(gEdges) : p \in Pairs /\ p \subseteq gTree
<1>1. /\ n \in Nat /\ DOMAIN gEdges = 1 .. n
      /\ \A i \in 1 .. n : gEdges[i].child \in Queries
  BY EdgesAt DEF GroupInv, GroupTypes
<1>2. /\ gTree = Children(gEdges) /\ EachChildOnce(gEdges) /\ OrderAssert(gEdges)
      /\ \A i \in 1 .. n : gEdges[i].parent = Root <=> i = 1
  BY <1>1 DEF GroupInv, GroupTree
<1>3. \A i \in 1 .. n : gEdges[i].child \in gTree
  BY <1>1, <1>2 DEF Children
<1>4. \A i, j \in 1 .. n : gEdges[i].child = gEdges[j].child => i = j
  BY <1>1, <1>2 DEF EachChildOnce
<1>5. ASSUME NEW i \in 1 .. n, i # 1
      PROVE  /\ gEdges[i].parent # Root
             /\ \E j \in 1 .. i - 1 : gEdges[i].parent = gEdges[j].child
  BY <1>1, <1>2, <1>5 DEF OrderAssert
<1>6. ASSUME NEW i \in 1 .. n, gEdges[i].parent # Root
      PROVE  /\ {gEdges[i].child, gEdges[i].parent} \in Pairs
             /\ {gEdges[i].child, gEdges[i].parent} \subseteq gTree
  <2>1. PICK j \in 1 .. i - 1 : gEdges[i].parent = gEdges[j].child
    BY <1>2, <1>5, <1>6
  <2>2. j \in 1 .. n /\ j # i
    BY <1>1
  <2>3. gEdges[i].child # gEdges[i].parent
    BY <1>4, <2>1, <2>2
  <2> QED
    BY <1>1, <1>3, <2>1, <2>2, <2>3, PairOf
<1>7. ASSUME NEW p \in PairsOf(gEdges) PROVE p \in Pairs /\ p \subseteq gTree
  <2>1. PICK i \in 1 .. n :
          gEdges[i].parent # Root /\ p = {gEdges[i].child, gEdges[i].parent}
    BY <1>1 DEF PairsOf
  <2> QED
    BY <1>6, <2>1
<1> QED
  BY <1>1, <1>3, <1>4, <1>5, <1>7

LEMMA GroupWeigh == GroupTypes => Weights(gDist)
<1> SUFFICES ASSUME GroupTypes PROVE Weights(gDist)
  OBVIOUS
<1>1. gDist \in [Pairs -> {w \in Int : w <= Infinity}]
  BY FullMstAssumption DEF GroupTypes
<1> QED
  BY <1>1 DEF Weights

LEMMA GroupWeighedGrow ==
  ASSUME GroupInv, GroupWeighed, Group!Grow
  PROVE  GroupWeighed'
<1> DEFINE c == Group!Nearest
<1>1. /\ gEdges' = Append(gEdges, Edge(c, gFrom[c]))
      /\ gWeight' = gWeight + gKey[c]
  BY GroupGrow
<1>2. gDist' = gDist
  BY GroupGrow
<1>3. GroupTypes
  BY DEF GroupInv
<1>4. c \in Queries /\ c \notin gTree /\ gKey[c] \in Int /\ gKey[c] < Infinity
  BY <1>3, GroupGrow, GroupNearest
<1> HIDE DEF c
<1>5. gEdges \in Seq(Edges) /\ gFrom[c] \in Queries \cup {Root} /\ gWeight \in Int
  BY <1>3, <1>4 DEF GroupTypes
<1>6. PICK e \in Edges : e = Edge(c, gFrom[c])
  BY <1>4, <1>5 DEF Edge, Edges
<1>7. e.child = c /\ e.parent = gFrom[c] /\ gEdges' = Append(gEdges, e)
  BY <1>1, <1>6 DEF Edge
<1> DEFINE T == PairsOf(gEdges)
           p == {c, gFrom[c]}
<1>8. CASE gTree = {}
  <2>1. gKey = StartDistance /\ gFrom = [v \in Queries |-> Root]
    BY <1>8 DEF GroupInv, GroupKeys
  <2>2. c = 0
    BY <1>4, <2>1 DEF StartDistance
  <2>3. gKey[c] = 0 /\ gFrom[c] = Root
    BY <1>4, <2>1, <2>2 DEF StartDistance
  <2>4. PairsOf(gEdges') = T
    BY <1>5, <1>7, <2>3, PairsAppend
  <2>5. gWeight' = gWeight
    BY <1>1, <1>5, <2>3
  <2> QED
    BY <1>2, <2>4, <2>5 DEF GroupWeighed
<1>9. CASE gTree # {}
  <2>1. KeyRight(c, gTree)
    BY <1>4, <1>9 DEF GroupInv, GroupKeys
  <2>2. gKey[c] # Infinity
    BY <1>4, QueryNumbers
  <2>3. gFrom[c] \in gTree /\ gKey[c] = gDist[{gFrom[c], c}]
    BY <2>1, <2>2 DEF KeyRight
  <2>4. gFrom[c] \in Queries /\ gFrom[c] # Root /\ gFrom[c] # c
    BY <1>3, <1>4, <2>3, QueryNumbers DEF GroupTypes
  <2>5. PairsOf(gEdges') = T \cup {p}
    BY <1>5, <1>7, <2>4, PairsAppend
  <2>6. T \in SUBSET Pairs /\ p \notin T
    <3>1. \A x \in T : x \in Pairs /\ x \subseteq gTree
      BY GroupWithin
    <3> QED
      BY <1>4, <3>1
  <2>7. p \in Pairs /\ p = {gFrom[c], c}
    BY <1>4, <2>4, PairOf
  <2> HIDE DEF p, T
  <2>8. IsFiniteSet(T) /\ gDist[p] \in Int /\ \A y \in T : gDist[y] \in Int
    <3>1. Weights(gDist)
      BY <1>3, GroupWeigh
    <3>2. IsFiniteSet(T)
      BY <2>6, PairsFinite, FS_Subset
    <3> QED
      BY <2>6, <2>7, <3>1, <3>2 DEF Weights
  <2>9. Sum(T, gDist) \in Int
    BY <2>8, SumTaken
  <2>10. Sum(T \cup {p}, gDist) = gDist[p] + Sum(T, gDist)
    BY <2>6, <2>8, SumAdds
  <2>11. gWeight' = Sum(T, gDist) + gDist[p]
    BY <1>1, <2>3, <2>7 DEF GroupWeighed, T
  <2>12. gWeight' = Sum(T \cup {p}, gDist)
    BY <2>8, <2>9, <2>10, <2>11
  <2> QED
    BY <1>2, <2>5, <2>12 DEF GroupWeighed
<1> QED
  BY <1>8, <1>9

(* When all queries of the group are in the tree.                          *)
LEMMA GroupLeast ==
  ASSUME GroupInv, GroupWeighed, gPc = "done"
  PROVE  LightestTree(PairsOf(gEdges), gWeight, gDist)
<1>1. PICK m : m = Len(gEdges)
  OBVIOUS
<1>2. /\ m \in Nat /\ DOMAIN gEdges = 1 .. m
      /\ \A i \in 1 .. m :
           i # 1 => /\ gEdges[i].parent # Root
                    /\ \E j \in 1 .. i - 1 : gEdges[i].parent = gEdges[j].child
      /\ \A i, j \in 1 .. m : gEdges[i].child = gEdges[j].child => i = j
  BY <1>1, GroupWithin
<1>3. Queries = {gEdges[i].child : i \in 1 .. m} /\ Queries # {}
  BY <1>2, QueryNumbers DEF GroupInv, GroupTree, Children
<1>4. m # 0
  BY <1>3
<1>5. PICK n \in Nat : m = n + 1
  <2>1. m - 1 \in Nat /\ m = (m - 1) + 1
    BY <1>2, <1>4
  <2> QED
    BY <2>1
<1> DEFINE t == [i \in 1 .. n + 1 |-> gEdges[i].child]
           p == [i \in 1 .. n |-> {gEdges[i + 1].child, gEdges[i + 1].parent}]
<1>6. PairsOf(gEdges) = {p[i] : i \in 1 .. n}
  <2>1. \A i \in 1 .. n + 1 : gEdges[i].parent # Root <=> i # 1
    BY <1>2, <1>5 DEF GroupInv, GroupTree
  <2>2. \A i \in 1 .. n : i + 1 \in 1 .. n + 1 /\ i + 1 # 1
    OBVIOUS
  <2>3. \A i \in 1 .. n + 1 : i # 1 => i - 1 \in 1 .. n /\ (i - 1) + 1 = i
    OBVIOUS
  <2>4. PairsOf(gEdges) =
          {{gEdges[i].child, gEdges[i].parent} : i \in {j \in 1 .. n + 1 : j # 1}}
    BY <1>2, <1>5, <2>1 DEF PairsOf
  <2>5. ASSUME NEW x \in PairsOf(gEdges) PROVE x \in {p[i] : i \in 1 .. n}
    <3>1. PICK i \in 1 .. n + 1 : i # 1 /\ x = {gEdges[i].child, gEdges[i].parent}
      BY <2>4
    <3>2. i - 1 \in 1 .. n /\ p[i - 1] = x
      BY <2>3, <3>1
    <3> QED
      BY <3>2
  <2>6. ASSUME NEW i \in 1 .. n PROVE p[i] \in PairsOf(gEdges)
    BY <2>2, <2>4
  <2> QED
    BY <2>5, <2>6
<1>7. Grown(n, t, p)
  <2>1. ASSUME NEW i \in 1 .. n PROVE \E j \in 1 .. i : p[i] = {t[j], t[i + 1]}
    <3>1. i + 1 \in 1 .. n + 1 /\ i + 1 # 1 /\ (i + 1) - 1 = i
      OBVIOUS
    <3>2. PICK j \in 1 .. i : gEdges[i + 1].parent = gEdges[j].child
      BY <1>2, <1>5, <3>1
    <3>3. j \in 1 .. n + 1
      OBVIOUS
    <3>4. p[i] = {t[j], t[i + 1]}
      BY <3>1, <3>2, <3>3
    <3> QED
      BY <3>4
  <2>2. Queries = {t[i] : i \in 1 .. n + 1}
    BY <1>3, <1>5
  <2>3. \A i, j \in 1 .. n + 1 : t[i] = t[j] => i = j
    BY <1>2, <1>5
  <2> HIDE DEF p, t
  <2> QED
    BY <2>1, <2>2, <2>3 DEF Grown
<1>8. ByLightest(n, t, p, gDist)
  <2> SUFFICES ASSUME NEW i \in 1 .. n, NEW j \in 1 .. i, NEW r \in Queries,
                      \A k \in 1 .. i : r # t[k]
               PROVE  gDist[p[i]] <= gDist[{t[j], r}]
    BY DEF ByLightest
  <2>1. i + 1 \in 1 .. n + 1 /\ i + 1 # 1 /\ (i + 1) - 1 = i
    OBVIOUS
  <2>2. GroupLightest(i + 1)
    BY <1>2, <1>5, <2>1 DEF GroupInv, GroupCuts
  <2>3. \A k \in 1 .. i : k \in 1 .. n + 1 /\ t[k] = gEdges[k].child
    OBVIOUS
  <2>4. p[i] = {gEdges[i + 1].child, gEdges[i + 1].parent}
    OBVIOUS
  <2> HIDE DEF p, t
  <2>5. \A k \in 1 .. i : r # gEdges[k].child
    BY <2>3
  <2> QED
    BY <2>1, <2>2, <2>3, <2>4, <2>5 DEF GroupLightest
<1>9. Weights(gDist)
  BY GroupWeigh DEF GroupInv
<1> HIDE DEF p, t
<1>10. Spans(PairsOf(gEdges))
  BY <1>6, <1>7, GrownSpans
<1>11. \A T \in kSubset(N - 1, Pairs) : Spans(T) => gWeight <= Sum(T, gDist)
  BY <1>6, <1>7, <1>8, <1>9, GrownIsLeast DEF GroupWeighed
<1> QED
  BY <1>10, <1>11 DEF LightestTree, GroupWeighed

LEMMA GroupWeighedStep ==
  ASSUME GroupInv, GroupWeighed, [Group!Next]_Group!vars
  PROVE  GroupWeighed'
<1>1. CASE Group!Overrun \/ UNCHANGED Group!vars
  BY <1>1 DEF Group!Overrun, Group!vars, GroupWeighed
<1> QED
  BY <1>1, GroupWeighedGrow DEF Group!Next

(* Whatever the distances of a group, a tree that is finished is a         *)
(* spanning tree of least weight, and groupMSTWeight is its weight.        *)
THEOREM GroupTreeIsMinimum == Group!Spec => [](gPc = "done" => Group!LeastTree)
<1>1. Group!Init => GroupWeighed
  <2> SUFFICES ASSUME Group!Init PROVE GroupWeighed
    OBVIOUS
  <2>1. gEdges = << >> /\ gWeight = 0
    BY DEF Group!Init
  <2>2. PairsOf(gEdges) = {}
    BY <2>1 DEF PairsOf
  <2>3. Sum({}, gDist) = 0
    BY FS_EmptySet, SumStep
  <2> QED
    BY <2>1, <2>2, <2>3 DEF GroupWeighed
<1>2. Group!Spec => [](GroupInv /\ GroupWeighed)
  BY GroupStarts, GroupInvStep, GroupWeighedStep, <1>1, PTL DEF Group!Spec
<1>3. GroupInv /\ GroupWeighed => (gPc = "done" => Group!LeastTree)
  <2> SUFFICES ASSUME GroupInv, GroupWeighed, gPc = "done" PROVE Group!LeastTree
    OBVIOUS
  <2>1. LightestTree(PairsOf(gEdges), gWeight, gDist)
    BY GroupLeast
  <2> QED
    BY <2>1, GroupWeights DEF LightestTree, Group!LeastTree
<1> QED
  BY <1>2, <1>3, PTL
===============================================================================
