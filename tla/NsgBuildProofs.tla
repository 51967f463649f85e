---------------------------- MODULE NsgBuildProofs ----------------------------
(***************************************************************************)
(* Proofs about NsgBuild, for every team of threads, every size of the     *)
(* pools and of the graph, and every symmetric distance.                   *)
(*                                                                         *)
(* The invariant is BuildInv, in four parts that rest on each other:       *)
(*   JoinInv    the pools and the work of the threads in NN-descent, and   *)
(*              how far the join of a round has come for every pool;       *)
(*   ListInv    the lists that the next round is built from, and the rows  *)
(*              of the graph that is left in the end;                      *)
(*   CutInv     the slots of cut_graph_ that are in use;                   *)
(*   TreeInv    what the walk of tree_grow has reached.                    *)
(***************************************************************************)
EXTENDS NsgBuild, FiniteSetTheorems, SequenceTheorems, WellFoundedInduction, TLAPS

(* A nonempty set of numbers has a least member.                           *)
LEMMA LeastNumber ==
  ASSUME NEW T \in SUBSET Nat, T # {}
  PROVE  \E m \in T : \A x \in T : m <= x
<1> DEFINE R1 == OpToRel(<, Nat)
<1>1. PICK m \in T : \A x \in T : ~ (<<x, m>> \in R1)
  <2>1. IsWellFoundedOn(R1, Nat)
    BY NatLessThanWellFounded
  <2> HIDE DEF R1
  <2> QED
    BY <2>1, WFMin
<1>2. \A x \in T : ~ (x < m)
  BY <1>1 DEF OpToRel
<1> QED
  BY <1>2

(* Of a nonempty finite set one element has the greatest value.            *)
LEMMA GreatestValue ==
  ASSUME NEW T, IsFiniteSet(T), T # {}, NEW v, \A a \in T : v[a] \in Int
  PROVE  \E a \in T : \A b \in T : v[b] <= v[a]
<1> DEFINE Above(a) == {b \in T : v[b] > v[a]}
           F == {Above(a) : a \in T}
           Smaller == StrictSubsetOrdering(T)
<1>1. IsWellFoundedOn(Smaller, SUBSET T)
  BY FS_StrictSubsetOrderingWellFounded, FS_FiniteSubsetsOfFinite
<1>2. F \subseteq SUBSET T /\ F # {}
  OBVIOUS
<1>3. PICK B \in F : \A G \in F : <<G, B>> \notin Smaller
  <2> HIDE DEF F, Smaller
  <2> QED
    BY <1>1, <1>2, WFMin
<1>4. PICK a \in T : B = Above(a)
  BY <1>3
<1>5. ASSUME NEW b \in T PROVE v[b] <= v[a]
  <2> SUFFICES ASSUME ~ (v[b] <= v[a]) PROVE FALSE
    OBVIOUS
  <2>1. v[b] \in Int /\ v[a] \in Int /\ v[b] > v[a]
    OBVIOUS
  <2>2. Above(b) \subseteq Above(a)
    <3> SUFFICES ASSUME NEW e \in T, v[e] > v[b] PROVE v[e] > v[a]
      OBVIOUS
    <3>1. v[e] \in Int
      OBVIOUS
    <3> QED
      BY <2>1, <3>1
  <2>3. b \in Above(a) /\ b \notin Above(b)
    BY <2>1
  <2>4. Above(b) \in F /\ Above(b) # Above(a)
    BY <2>3
  <2>5. <<Above(b), Above(a)>> \in Smaller
    BY <2>2, <2>4 DEF StrictSubsetOrdering
  <2> HIDE DEF Above, F, Smaller
  <2> QED
    BY <1>3, <1>4, <2>4, <2>5
<1> QED
  BY <1>5

(* An index of a list with one element more is an old index or the last.   *)
LEMMA LastIndex ==
  ASSUME NEW k \in Nat, NEW i \in 1 .. k + 1
  PROVE  i \in 1 .. k \/ i = k + 1
OBVIOUS

(* A function on the first n numbers is a sequence.                        *)
LEMMA AsSeq ==
  ASSUME NEW T, NEW n \in Nat, NEW f \in [1 .. n -> T]
  PROVE  f \in Seq(T) /\ Len(f) = n /\ DOMAIN f = 1 .. n
OBVIOUS

(* A member of a sequence is its head or a member of its tail.             *)
LEMMA HeadOrTail ==
  ASSUME NEW T, NEW s \in Seq(T), s # << >>
  PROVE  /\ Head(s) \in T /\ Tail(s) \in Seq(T) /\ Head(s) \in Range(s)
         /\ \A k \in Range(s) : k = Head(s) \/ k \in Range(Tail(s))
         /\ Range(Tail(s)) \subseteq Range(s)
<1> DEFINE n == Len(s)
           r == Tail(s)
<1>1. /\ n \in Nat /\ n # 0 /\ DOMAIN s = 1 .. n /\ Head(s) = s[1] /\ Head(s) \in T
      /\ r \in Seq(T) /\ Len(r) = n - 1 /\ \A i \in 1 .. n - 1 : r[i] = s[i + 1]
  OBVIOUS
<1>2. DOMAIN r = 1 .. n - 1
  <2> HIDE DEF r, n
  <2> QED
    BY <1>1
<1> HIDE DEF n, r
<1>3. ASSUME NEW i \in 1 .. n PROVE s[i] = Head(s) \/ s[i] \in Range(r)
  <2>1. CASE i = 1
    BY <1>1, <2>1
  <2>2. CASE i # 1
    <3>1. i - 1 \in 1 .. n - 1 /\ i - 1 + 1 = i
      BY <1>1, <2>2
    <3>2. r[i - 1] = s[i]
      BY <1>1, <3>1
    <3> QED
      BY <1>2, <3>1, <3>2 DEF Range
  <2> QED
    BY <2>1, <2>2
<1>4. ASSUME NEW i \in 1 .. n - 1 PROVE r[i] \in Range(s)
  <2>1. i + 1 \in 1 .. n
    BY <1>1
  <2> QED
    BY <1>1, <2>1 DEF Range
<1>5. 1 \in 1 .. n
  BY <1>1
<1>6. Head(s) \in Range(s)
  BY <1>1, <1>5 DEF Range
<1> QED
  BY <1>1, <1>2, <1>3, <1>4, <1>6 DEF Range, r

-------------------------------------------------------------------------------
(* The constants.                                                          *)
LEMMA ConstantFacts ==
  /\ Size \in Nat \ {0} /\ S \in Nat \ {0} /\ LN \in Nat \ {0} /\ RN \in Nat \ {0}
  /\ K \in Nat \ {0} /\ Iter \in Nat \ {0} /\ Chunk \in Nat \ {0}
  /\ S <= LN /\ K <= LN
  /\ IsFiniteSet(Threads)
BY NnAssumption

LEMMA NodesFinite ==
  Nodes \subseteq Int /\ IsFiniteSet(Nodes) /\ Cardinality(Nodes) = Size
<1>1. 0 \in Int /\ Size - 1 \in Int /\ ~ (0 > Size - 1) /\ (Size - 1) - 0 + 1 = Size
  BY ConstantFacts
<1> QED
  BY <1>1, FS_Interval DEF Nodes

LEMMA EntriesFinite == IsFiniteSet(Entries)
<1> DEFINE f == [p \in Nodes \X BOOLEAN |-> [id |-> p[1], flag |-> p[2]]]
<1>1. IsFiniteSet(BOOLEAN)
  <2>1. IsFiniteSet({TRUE} \cup {FALSE})
    BY FS_Singleton, FS_AddElement
  <2>2. BOOLEAN = {TRUE} \cup {FALSE}
    OBVIOUS
  <2> QED
    BY <2>1, <2>2
<1>2. IsFiniteSet(Nodes \X BOOLEAN)
  BY <1>1, NodesFinite, FS_Product
<1>3. f \in [Nodes \X BOOLEAN -> Entries]
  BY DEF Entries
<1>4. ASSUME NEW e \in Entries PROVE \E p \in Nodes \X BOOLEAN : f[p] = e
  <2>1. <<e.id, e.flag>> \in Nodes \X BOOLEAN /\ e = [id |-> e.id, flag |-> e.flag]
    BY DEF Entries
  <2> QED
    BY <2>1
<1> HIDE DEF f
<1>5. f \in Surjection(Nodes \X BOOLEAN, Entries)
  BY <1>3, <1>4 DEF Surjection
<1> QED
  BY <1>2, <1>5, FS_Surjection

(* Where ids are unique a pool has as many entries as ids.                 *)
LEMMA PoolFacts ==
  ASSUME NEW P \in SUBSET Entries
  PROVE  /\ IsFiniteSet(P) /\ IsFiniteSet(Ids(P)) /\ Ids(P) \subseteq Nodes
         /\ (\A e, f \in P : e.id = f.id => e = f) => Cardinality(Ids(P)) = Cardinality(P)
         /\ Cardinality(P) \in Nat
<1> DEFINE g == [e \in P |-> e.id]
<1>1. IsFiniteSet(P)
  BY EntriesFinite, FS_Subset
<1>2. g \in Surjection(P, Ids(P))
  BY DEF Surjection, Ids
<1>3. IsFiniteSet(Ids(P)) /\ Ids(P) \subseteq Nodes
  <2>1. IsFiniteSet(Ids(P))
    <3> HIDE DEF g
    <3> QED
      BY <1>1, <1>2, FS_Surjection
  <2>2. Ids(P) \subseteq Nodes
    BY DEF Ids, Entries
  <2> QED
    BY <2>1, <2>2
<1>4. ASSUME \A e, f \in P : e.id = f.id => e = f
      PROVE  Cardinality(Ids(P)) = Cardinality(P)
  <2>1. g \in Injection(P, Ids(P))
    BY <1>4 DEF Injection, IsInjective, Ids
  <2> HIDE DEF g
  <2> QED
    BY <1>1, <1>2, <2>1, FS_Surjection
<1>5. Cardinality(P) \in Nat
  BY <1>1, FS_CardinalityType
<1> QED
  BY <1>1, <1>3, <1>4, <1>5

LEMMA DistanceFacts ==
  ASSUME world \in Worlds
  PROVE  \A x, y \in Nodes : d(x, y) \in Int
BY NnAssumption DEF d

(* The farthest id of a pool.                                              *)
LEMMA FarthestFacts ==
  ASSUME world \in Worlds, NEW x \in Nodes, pool[x] \in SUBSET Entries, pool[x] # {}
  PROVE  /\ Farthest(x) \in Int
         /\ \E y \in Ids(pool[x]) : d(x, y) = Farthest(x)
         /\ \A y \in Ids(pool[x]) : d(x, y) <= Farthest(x)
<1> DEFINE T == Ids(pool[x])
           v == [y \in T |-> d(x, y)]
<1>1. T \subseteq Nodes /\ IsFiniteSet(T) /\ T # {}
  BY PoolFacts DEF Ids
<1> HIDE DEF T
<1>2. \A y \in T : v[y] \in Int /\ v[y] = d(x, y)
  BY <1>1, DistanceFacts
<1>3. PICK a \in T : \A b \in T : v[b] <= v[a]
  <2> HIDE DEF v
  <2> QED
    BY <1>1, <1>2, GreatestValue
<1>4. d(x, a) \in {d(x, y) : y \in T} /\ \A b \in T : d(x, b) <= d(x, a)
  BY <1>2, <1>3
<1>5. \E far \in {d(x, y) : y \in T} : \A y \in T : d(x, y) <= far
  BY <1>4
<1>6. Farthest(x) \in {d(x, y) : y \in T} /\ \A y \in T : d(x, y) <= Farthest(x)
  BY <1>5 DEF Farthest, T
<1> QED
  BY <1>2, <1>6 DEF T

-------------------------------------------------------------------------------
(* What the operators of NnDescent return.                                 *)

(* The function that FlattenSeq builds.                                    *)
Flat(f, s, n) == f = [i \in 1 .. n |-> IF i = 1 THEN s[i] ELSE f[i - 1] \o s[i]]

LEMMA FlatExists ==
  ASSUME NEW s, NEW n \in Nat
  PROVE  \E f : Flat(f, s, n)
<1> DEFINE T == {k \in Nat : ~ \E f : Flat(f, s, k)}
<1>1. T = {}
  <2> SUFFICES ASSUME T # {} PROVE FALSE
    OBVIOUS
  <2>1. PICK k \in T : \A j \in T : k <= j
    <3>1. T \in SUBSET Nat
      OBVIOUS
    <3> HIDE DEF T
    <3> QED
      BY <3>1, LeastNumber
  <2>2. CASE k = 0
    <3>1. Flat([i \in 1 .. 0 |-> s[i]], s, 0)
      BY DEF Flat
    <3> QED
      BY <2>1, <2>2, <3>1
  <2>3. CASE k # 0
    <3>1. k \in Nat /\ k - 1 \in Nat /\ k - 1 \notin T
      <4>1. k \in Nat
        BY <2>1
      <4>2. k - 1 \in Nat /\ ~ (k <= k - 1)
        BY <4>1, <2>3
      <4> HIDE DEF T
      <4> QED
        BY <2>1, <4>1, <4>2
    <3>2. PICK f : Flat(f, s, k - 1)
      BY <3>1
    <3> DEFINE g == [i \in 1 .. k |-> IF i \in 1 .. k - 1 THEN f[i]
                                      ELSE IF i = 1 THEN s[i] ELSE f[i - 1] \o s[i]]
    <3>3. \A i \in 1 .. k : g[i] = IF i = 1 THEN s[i] ELSE g[i - 1] \o s[i]
      <4> SUFFICES ASSUME NEW i \in 1 .. k
                   PROVE  g[i] = IF i = 1 THEN s[i] ELSE g[i - 1] \o s[i]
        OBVIOUS
      <4>1. g[i] = IF i = 1 THEN s[i] ELSE f[i - 1] \o s[i]
        BY <3>2 DEF Flat
      <4>2. i # 1 => i - 1 \in 1 .. k /\ i - 1 \in 1 .. k - 1
        BY <3>1
      <4>3. i # 1 => g[i - 1] = f[i - 1]
        BY <4>2
      <4> HIDE DEF g
      <4> QED
        BY <4>1, <4>3
    <3>4. g = [i \in 1 .. k |-> g[i]]
      OBVIOUS
    <3> HIDE DEF g
    <3>5. Flat(g, s, k)
      BY <3>3, <3>4 DEF Flat
    <3> QED
      BY <2>1, <3>5
  <2> QED
    BY <2>2, <2>3
<1> QED
  BY <1>1

LEMMA FlattenType ==
  ASSUME NEW T, NEW s \in Seq(Seq(T))
  PROVE  FlattenSeq(s) \in Seq(T)
<1> DEFINE n == Len(s)
           f == CHOOSE g : Flat(g, s, n)
<1>1. n \in Nat /\ \A i \in 1 .. n : s[i] \in Seq(T)
  OBVIOUS
<1>2. CASE n = 0
  <2>1. s = << >> /\ FlattenSeq(s) = s
    BY <1>2 DEF FlattenSeq
  <2>2. << >> \in Seq(T)
    OBVIOUS
  <2> QED
    BY <2>1, <2>2
<1>3. CASE n # 0
  <2>1. FlattenSeq(s) = f[n]
    BY <1>3 DEF FlattenSeq, Flat
  <2> HIDE DEF n
  <2>2. Flat(f, s, n)
    BY <1>1, FlatExists
  <2> HIDE DEF f
  <2> DEFINE B == {i \in Nat : i \in 1 .. n /\ f[i] \notin Seq(T)}
  <2>3. B = {}
    <3> SUFFICES ASSUME B # {} PROVE FALSE
      OBVIOUS
    <3>1. PICK i \in B : \A j \in B : i <= j
      <4>1. B \in SUBSET Nat
        OBVIOUS
      <4> HIDE DEF B
      <4> QED
        BY <4>1, LeastNumber
    <3>2. i \in 1 .. n /\ f[i] \notin Seq(T) /\ s[i] \in Seq(T)
      BY <1>1, <3>1
    <3>3. f[i] = IF i = 1 THEN s[i] ELSE f[i - 1] \o s[i]
      BY <2>2, <3>2 DEF Flat
    <3>4. CASE i = 1
      BY <3>2, <3>3, <3>4
    <3>5. CASE i # 1
      <4>1. i - 1 \in Nat /\ i - 1 \in 1 .. n /\ ~ (i <= i - 1)
        BY <1>1, <3>2, <3>5
      <4>2. i - 1 \notin B
        <5> HIDE DEF B
        <5> QED
          BY <3>1, <4>1
      <4>3. f[i - 1] \in Seq(T)
        BY <4>1, <4>2
      <4>4. f[i - 1] \o s[i] \in Seq(T)
        BY <4>3, <3>2
      <4> QED
        BY <3>2, <3>3, <3>5, <4>4
    <3> QED
      BY <3>4, <3>5
  <2>4. n \in Nat /\ n \in 1 .. n
    BY <1>1, <1>3
  <2> QED
    BY <2>1, <2>3, <2>4
<1> QED
  BY <1>2, <1>3

(* What is joined at a node are pairs of nodes.                            *)
LEMMA PairsType ==
  ASSUME nnNew \in [Nodes -> Seq(Nodes)], nnOld \in [Nodes -> Seq(Nodes)], NEW x \in Nodes
  PROVE  Pairs(x) \in Seq(Nodes \X Nodes)
<1> DEFINE P == Nodes \X Nodes
           new == nnNew[x]
           old == nnOld[x]
           near(i) == [j \in DOMAIN new |-> IF new[i] < new[j] THEN <<<<new[i], new[j]>>>> ELSE << >>]
           far(i) == [j \in DOMAIN old |-> <<new[i], old[j]>>]
           part == [i \in DOMAIN new |-> FlattenSeq(near(i)) \o far(i)]
<1>1. new \in Seq(Nodes) /\ old \in Seq(Nodes)
  OBVIOUS
<1>2. Pairs(x) = FlattenSeq(part)
  BY DEF Pairs
<1> HIDE DEF new, old
<1>3. /\ Len(new) \in Nat /\ DOMAIN new = 1 .. Len(new) /\ \A i \in DOMAIN new : new[i] \in Nodes
      /\ Len(old) \in Nat /\ DOMAIN old = 1 .. Len(old) /\ \A i \in DOMAIN old : old[i] \in Nodes
  BY <1>1
<1>4. ASSUME NEW i \in DOMAIN new PROVE FlattenSeq(near(i)) \o far(i) \in Seq(P)
  <2>1. near(i) \in Seq(Seq(P))
    <3>1. ASSUME NEW j \in DOMAIN new
          PROVE  (IF new[i] < new[j] THEN <<<<new[i], new[j]>>>> ELSE << >>) \in Seq(P)
      <4>1. <<new[i], new[j]>> \in P
        BY <1>3
      <4> HIDE DEF P
      <4>2. <<<<new[i], new[j]>>>> \in Seq(P) /\ << >> \in Seq(P)
        BY <4>1
      <4> QED
        BY <4>2
    <3> HIDE DEF P
    <3>2. near(i) \in [1 .. Len(new) -> Seq(P)]
      BY <1>3, <3>1
    <3> HIDE DEF near
    <3> QED
      BY <1>3, <3>2, AsSeq
  <2>2. far(i) \in Seq(P)
    <3>1. far(i) \in [1 .. Len(old) -> P]
      BY <1>3
    <3> HIDE DEF far, P
    <3> QED
      BY <1>3, <3>1, AsSeq
  <2> HIDE DEF near, far, P
  <2>3. FlattenSeq(near(i)) \in Seq(P)
    BY <2>1, FlattenType
  <2> QED
    BY <2>2, <2>3
<1>5. part \in Seq(Seq(P))
  <2>1. part \in [1 .. Len(new) -> Seq(P)]
    <3> HIDE DEF P, near, far
    <3> QED
      BY <1>3, <1>4
  <2> HIDE DEF part, P
  <2> QED
    BY <1>3, <2>1, AsSeq
<1>6. Pairs(x) \in Seq(P)
  <2> HIDE DEF part, P
  <2> QED
    BY <1>2, <1>5, FlattenType
<1> QED
  BY <1>6 DEF P

(* The insertions of a node are pairs of different nodes.                  *)
LEMMA InsertsType ==
  ASSUME nnNew \in [Nodes -> Seq(Nodes)], nnOld \in [Nodes -> Seq(Nodes)], NEW x \in Nodes
  PROVE  /\ Inserts(x) \in Seq(Nodes \X Nodes)
         /\ \A p \in Range(Inserts(x)) : p[1] # p[2]
<1> DEFINE P == Nodes \X Nodes
           A == {p \in P : p[1] # p[2]}
           both(p) == IF p[1] = p[2] THEN << >> ELSE <<<<p[1], p[2]>>, <<p[2], p[1]>>>>
           calls == [i \in DOMAIN Pairs(x) |-> both(Pairs(x)[i])]
<1>1. Inserts(x) = FlattenSeq(calls)
  BY DEF Inserts
<1>2. Pairs(x) \in Seq(P)
  BY PairsType
<1>3. ASSUME NEW p \in P PROVE both(p) \in Seq(A)
  <2>1. CASE p[1] = p[2]
    BY <2>1
  <2>2. CASE p[1] # p[2]
    <3>1. <<p[1], p[2]>> \in A /\ <<p[2], p[1]>> \in A
      BY <2>2
    <3> HIDE DEF A
    <3>2. <<<<p[1], p[2]>>, <<p[2], p[1]>>>> \in Seq(A)
      BY <3>1
    <3> QED
      BY <2>2, <3>2
  <2> QED
    BY <2>1, <2>2
<1>4. calls \in Seq(Seq(A))
  <2> HIDE DEF P, A, both
  <2>1. Len(Pairs(x)) \in Nat /\ DOMAIN Pairs(x) = 1 .. Len(Pairs(x))
        /\ \A i \in DOMAIN Pairs(x) : Pairs(x)[i] \in P
    BY <1>2
  <2>2. calls \in [1 .. Len(Pairs(x)) -> Seq(A)]
    BY <1>3, <2>1
  <2> HIDE DEF calls
  <2> QED
    BY <2>1, <2>2, AsSeq
<1>5. Inserts(x) \in Seq(A)
  <2> HIDE DEF calls, A
  <2> QED
    BY <1>1, <1>4, FlattenType
<1>6. Inserts(x) \in Seq(P) /\ Range(Inserts(x)) \subseteq A
  <2>1. A \subseteq P
    OBVIOUS
  <2> HIDE DEF A, P
  <2> QED
    BY <1>5, <2>1 DEF Range
<1> QED
  BY <1>6

(* What First of Sortings is: the first n elements, in all orders.         *)
Sorted(F, T, dist, m) ==
  F = [n \in 0 .. m |->
         IF n = 0 THEN {<< >>}
         ELSE UNION {{Append(s, a) : a \in {b \in T \ Range(s) : \A c \in T \ Range(s) : dist[b] <= dist[c]}} :
                     s \in F[n - 1]}]

LEMMA SortedExists ==
  ASSUME NEW T, NEW dist, NEW m \in Nat
  PROVE  \E F : Sorted(F, T, dist, m)
<1> DEFINE More(A) == UNION {{Append(s, a) : a \in {b \in T \ Range(s) : \A c \in T \ Range(s) : dist[b] <= dist[c]}} :
                             s \in A}
           B == {k \in Nat : ~ \E F : Sorted(F, T, dist, k)}
<1>1. B = {}
  <2> SUFFICES ASSUME B # {} PROVE FALSE
    OBVIOUS
  <2>1. PICK k \in B : \A j \in B : k <= j
    <3>1. B \in SUBSET Nat
      OBVIOUS
    <3> HIDE DEF B
    <3> QED
      BY <3>1, LeastNumber
  <2>2. CASE k = 0
    <3>1. Sorted([n \in 0 .. 0 |-> {<< >>}], T, dist, 0)
      <4>1. \A n \in 0 .. 0 : n = 0
        OBVIOUS
      <4> QED
        BY <4>1 DEF Sorted
    <3> QED
      BY <2>1, <2>2, <3>1
  <2>3. CASE k # 0
    <3>1. k \in Nat /\ k - 1 \in Nat /\ k - 1 \notin B
      <4>1. k \in Nat
        BY <2>1
      <4>2. k - 1 \in Nat /\ ~ (k <= k - 1)
        BY <4>1, <2>3
      <4> HIDE DEF B
      <4> QED
        BY <2>1, <4>1, <4>2
    <3>2. PICK F : Sorted(F, T, dist, k - 1)
      BY <3>1
    <3>3. \A n \in 0 .. k - 1 : F[n] = IF n = 0 THEN {<< >>} ELSE More(F[n - 1])
      BY <3>2 DEF Sorted
    <3> DEFINE G == [n \in 0 .. k |-> IF n \in 0 .. k - 1 THEN F[n] ELSE More(F[n - 1])]
    <3>4. \A n \in 0 .. k : G[n] = IF n = 0 THEN {<< >>} ELSE More(G[n - 1])
      <4> SUFFICES ASSUME NEW n \in 0 .. k
                   PROVE  G[n] = IF n = 0 THEN {<< >>} ELSE More(G[n - 1])
        OBVIOUS
      <4> HIDE DEF More
      <4>1. n = 0 => n \in 0 .. k - 1
        BY <3>1
      <4>2. G[n] = IF n = 0 THEN {<< >>} ELSE More(F[n - 1])
        BY <3>3, <4>1
      <4>3. n # 0 => n - 1 \in 0 .. k /\ n - 1 \in 0 .. k - 1
        BY <3>1
      <4>4. n # 0 => G[n - 1] = F[n - 1]
        BY <4>3
      <4> HIDE DEF G
      <4> QED
        BY <4>2, <4>4
    <3>5. G = [n \in 0 .. k |-> G[n]]
      OBVIOUS
    <3> HIDE DEF G
    <3>6. Sorted(G, T, dist, k)
      BY <3>4, <3>5 DEF Sorted
    <3> QED
      BY <2>1, <3>6
  <2> QED
    BY <2>2, <2>3
<1> QED
  BY <1>1

(* An order of the elements of T is a sequence of as many of them.         *)
LEMMA SortingsType ==
  ASSUME NEW dist, NEW T, T = DOMAIN dist, IsFiniteSet(T)
  PROVE  \A s \in Sortings(dist) : s \in Seq(T) /\ Len(s) = Cardinality(T)
<1> DEFINE m == Cardinality(T)
           F == CHOOSE G : Sorted(G, T, dist, m)
<1>1. m \in Nat
  BY FS_CardinalityType
<1>2. Sortings(dist) = F[m]
  BY DEF Sortings, Sorted
<1> HIDE DEF m
<1>3. Sorted(F, T, dist, m)
  BY <1>1, SortedExists
<1> HIDE DEF F
<1> DEFINE B == {n \in Nat : n <= m /\ ~ \A s \in F[n] : s \in Seq(T) /\ Len(s) = n}
<1>4. B = {}
  <2> SUFFICES ASSUME B # {} PROVE FALSE
    OBVIOUS
  <2>1. PICK n \in B : \A j \in B : n <= j
    <3>1. B \in SUBSET Nat
      OBVIOUS
    <3> HIDE DEF B
    <3> QED
      BY <3>1, LeastNumber
  <2>2. n \in Nat /\ n <= m /\ n \in 0 .. m
    BY <1>1, <2>1
  <2>3. PICK s \in F[n] : ~ (s \in Seq(T) /\ Len(s) = n)
    BY <2>1
  <2>4. CASE n = 0
    <3>1. F[n] = {<< >>}
      BY <1>3, <2>2, <2>4 DEF Sorted
    <3>2. << >> \in Seq(T) /\ Len(<< >>) = 0
      OBVIOUS
    <3> QED
      BY <2>3, <2>4, <3>1, <3>2
  <2>5. CASE n # 0
    <3>1. n - 1 \in Nat /\ n - 1 <= m /\ ~ (n <= n - 1) /\ n - 1 + 1 = n
      BY <1>1, <2>2, <2>5
    <3>2. n - 1 \notin B
      <4> HIDE DEF B
      <4> QED
        BY <2>1, <3>1
    <3>3. \A r \in F[n - 1] : r \in Seq(T) /\ Len(r) = n - 1
      BY <3>1, <3>2
    <3>4. PICK r \in F[n - 1], a \in T : s = Append(r, a)
      <4>1. F[n] = UNION {{Append(r, a) : a \in {b \in T \ Range(r) : \A c \in T \ Range(r) : dist[b] <= dist[c]}} :
                          r \in F[n - 1]}
        BY <1>3, <2>2, <2>5 DEF Sorted
      <4> QED
        BY <2>3, <4>1
    <3>5. r \in Seq(T) /\ Len(r) = n - 1
      BY <3>3
    <3>6. Append(r, a) \in Seq(T) /\ Len(Append(r, a)) = Len(r) + 1
      BY <3>5
    <3> QED
      BY <2>3, <3>1, <3>4, <3>5, <3>6
  <2> QED
    BY <2>4, <2>5
<1>5. m <= m
  BY <1>1
<1> QED
  BY <1>1, <1>2, <1>4, <1>5 DEF m

(* How much of a pool takes part: S new entries at most.                   *)
LEMMA ExtentType ==
  ASSUME NEW x \in Nodes, M[x] \in Nat, NEW s \in Seq(Entries)
  PROVE  /\ Extent(x, s) \in 0 .. Len(s)
         /\ Cardinality({i \in 1 .. Extent(x, s) : s[i].flag}) <= S
<1> DEFINE most == IF M[x] + S < Len(s) THEN M[x] + S ELSE Len(s)
           news(l) == Cardinality({i \in 1 .. l : s[i].flag})
           Q == {l \in Nat : l \in 0 .. most /\ (l = most \/ news(l) >= S)}
           E(l) == (l = most \/ news(l) >= S) /\ \A h \in 0 .. l - 1 : news(h) < S
<1>1. Len(s) \in Nat /\ S \in Nat
  BY ConstantFacts
<1>2. most \in Nat /\ most <= Len(s)
  BY <1>1
<1>3. Extent(x, s) = CHOOSE l \in 0 .. most : E(l)
  BY DEF Extent
<1> HIDE DEF most
<1>4. \A l \in Nat : news(l) \in Nat
  <2> SUFFICES ASSUME NEW l \in Nat PROVE news(l) \in Nat
    OBVIOUS
  <2>1. IsFiniteSet(1 .. l)
    BY FS_Interval
  <2>2. IsFiniteSet({i \in 1 .. l : s[i].flag})
    BY <2>1, FS_Subset
  <2> QED
    BY <2>2, FS_CardinalityType
<1> HIDE DEF news
<1>5. PICK l \in Q : \A h \in Q : l <= h
  <2>1. Q \in SUBSET Nat /\ most \in Q
    BY <1>2
  <2> HIDE DEF Q
  <2> QED
    BY <2>1, LeastNumber
<1>6. l \in 0 .. most /\ (l = most \/ news(l) >= S)
  BY <1>5
<1>7. ASSUME NEW h \in 0 .. l - 1 PROVE news(h) < S
  <2>1. h \in Nat /\ h \in 0 .. most /\ ~ (l <= h)
    BY <1>2, <1>6
  <2>2. h \notin Q
    <3> HIDE DEF Q
    <3> QED
      BY <1>5, <2>1
  <2>3. ~ (news(h) >= S) /\ news(h) \in Nat
    BY <1>4, <2>1, <2>2
  <2> QED
    BY <1>1, <2>3
<1>8. E(l)
  BY <1>6, <1>7
<1>9. E(CHOOSE i \in 0 .. most : E(i)) /\ (CHOOSE i \in 0 .. most : E(i)) \in 0 .. most
  <2> HIDE DEF E
  <2> QED
    BY <1>6, <1>8
<1> DEFINE m == CHOOSE i \in 0 .. most : E(i)
<1>10. m \in 0 .. most /\ \A h \in 0 .. m - 1 : news(h) < S
  BY <1>9
<1> HIDE DEF E, m
<1>11. news(m) <= S
  <2>1. CASE m = 0
    <3>1. {i \in 1 .. 0 : s[i].flag} = {} /\ Cardinality({}) = 0
      BY FS_EmptySet
    <3>2. news(0) = 0
      BY <3>1 DEF news
    <3> QED
      BY <1>1, <2>1, <3>2
  <2>2. CASE m # 0
    <3>1. m - 1 \in Nat /\ m - 1 \in 0 .. m - 1 /\ m \in Nat
      BY <1>2, <1>10, <2>2
    <3>2. news(m - 1) < S /\ news(m - 1) \in Nat
      BY <1>4, <1>10, <3>1
    <3> DEFINE A == {i \in 1 .. m - 1 : s[i].flag}
               B == {i \in 1 .. m : s[i].flag}
    <3>3. IsFiniteSet(A)
      <4>1. IsFiniteSet(1 .. m - 1)
        BY <3>1, FS_Interval
      <4> QED
        BY <4>1, FS_Subset
    <3>4. B \subseteq A \cup {m}
      <4> SUFFICES ASSUME NEW i \in 1 .. m, s[i].flag, i # m PROVE i \in A
        OBVIOUS
      <4>1. i \in 1 .. m - 1
        BY <3>1
      <4> QED
        BY <4>1
    <3>5. news(m - 1) = Cardinality(A) /\ news(m) = Cardinality(B)
      BY DEF news
    <3> HIDE DEF A, B
    <3>6. IsFiniteSet(A \cup {m}) /\ Cardinality(A \cup {m}) <= Cardinality(A) + 1
      <4>1. IsFiniteSet(A \cup {m})
        BY <3>3, FS_AddElement
      <4>2. Cardinality(A \cup {m}) = Cardinality(A) \/ Cardinality(A \cup {m}) = Cardinality(A) + 1
        BY <3>3, FS_AddElement
      <4>3. Cardinality(A) \in Nat
        BY <3>3, FS_CardinalityType
      <4> QED
        BY <4>1, <4>2, <4>3
    <3>7. Cardinality(B) <= Cardinality(A \cup {m}) /\ Cardinality(B) \in Nat /\ Cardinality(A \cup {m}) \in Nat
      BY <3>4, <3>6, FS_Subset, FS_CardinalityType
    <3> QED
      BY <1>1, <3>2, <3>5, <3>6, <3>7
  <2> QED
    BY <2>1, <2>2
<1>12. Extent(x, s) = m
  BY <1>3 DEF m, E
<1>13. Cardinality({i \in 1 .. m : s[i].flag}) <= S
  BY <1>11 DEF news
<1> QED
  BY <1>1, <1>2, <1>10, <1>12, <1>13

(* The ends of the shares lie in the loop, and in the order of the threads.*)
LEMMA ShareEnd ==
  ASSUME NEW n \in Nat \ {0}, NEW m \in Nat, NEW j \in 0 .. n
  PROVE  (j * m) \div n \in 0 .. m
<1> DEFINE p == j * m
           q == p \div n
           e == n * m
           f == n * q
<1>1. p \in Nat
  OBVIOUS
<1>2. p <= e /\ e \in Nat
  OBVIOUS
<1> HIDE DEF p
<1>3. q \in Nat
  BY <1>1
<1>4. f <= p /\ f \in Nat
  BY <1>1
<1> HIDE DEF q
<1>5. CASE q <= m
  BY <1>3, <1>5 DEF q, p
<1>6. CASE q >= m + 1
  <2>1. n * q >= n * (m + 1)
    BY <1>3, <1>6
  <2>2. n * (m + 1) = e + n
    OBVIOUS
  <2> HIDE DEF e, f
  <2>3. f >= e + n
    BY <2>1, <2>2 DEF f
  <2> QED
    BY <1>1, <1>2, <1>4, <2>3
<1> QED
  BY <1>3, <1>5, <1>6

LEMMA ShareOrder ==
  ASSUME NEW n \in Nat \ {0}, NEW m \in Nat, NEW i \in Nat, NEW j \in Nat, i <= j
  PROVE  (i * m) \div n <= (j * m) \div n
<1> DEFINE p == i * m
           q == j * m
           a == p \div n
           b == q \div n
<1>1. p \in Nat /\ q \in Nat
  OBVIOUS
<1>2. p <= q
  OBVIOUS
<1> HIDE DEF p, q
<1>3. a \in Nat /\ b \in Nat
  BY <1>1
<1>4. n * a <= p /\ q < n * (b + 1)
  BY <1>1
<1> HIDE DEF a, b
<1>5. CASE a <= b
  BY <1>5 DEF a, b, p, q
<1>6. CASE a >= b + 1
  <2>1. n * a >= n * (b + 1)
    BY <1>3, <1>6
  <2> DEFINE f == n * a
             g == n * (b + 1)
  <2>2. f \in Nat /\ g \in Nat /\ f >= g /\ f <= p /\ q < g
    BY <1>3, <1>4, <2>1
  <2> HIDE DEF f, g
  <2> QED
    BY <1>1, <1>2, <2>2
<1> QED
  BY <1>3, <1>5, <1>6

(* Where the j-th thread's share ends.                                     *)
Ends(j) == (j * Size) \div Cardinality(Threads)

LEMMA EndsFacts ==
  LET c == Cardinality(Threads) IN
    /\ c \in Nat \ {0}
    /\ \A j \in 0 .. c : Ends(j) \in 0 .. Size
    /\ \A i, j \in 0 .. c : i <= j => Ends(i) <= Ends(j)
<1> DEFINE c == Cardinality(Threads)
<1>1. c \in Nat \ {0}
  BY ConstantFacts, NnAssumption, FS_CardinalityType, FS_EmptySet
<1>3. ASSUME NEW j \in 0 .. c PROVE Ends(j) \in 0 .. Size
  <2> HIDE DEF c
  <2>1. (j * Size) \div c \in 0 .. Size
    BY <1>1, ConstantFacts, ShareEnd
  <2> QED
    BY <2>1 DEF Ends, c
<1>4. ASSUME NEW i \in 0 .. c, NEW j \in 0 .. c, i <= j PROVE Ends(i) <= Ends(j)
  <2> HIDE DEF c
  <2>1. (i * Size) \div c <= (j * Size) \div c
    BY <1>1, <1>4, ConstantFacts, ShareOrder
  <2> QED
    BY <2>1 DEF Ends, c
<1> QED
  BY <1>1, <1>3, <1>4

(* The share of a thread lies between two ends.                            *)
LEMMA ShareIs ==
  ASSUME NEW t \in Threads
  PROVE  \E i \in 1 .. Cardinality(Threads) :
           /\ SetToSeq(Threads)[i] = t
           /\ Share(t) = [j \in 1 .. Ends(i) - Ends(i - 1) |-> Ends(i - 1) + j - 1]
<1> DEFINE c == Cardinality(Threads)
           order == SetToSeq(Threads)
           i == CHOOSE i \in DOMAIN order : order[i] = t
<1>1. c \in Nat \ {0} /\ IsFiniteSet(1 .. c) /\ Cardinality(1 .. c) = c
  <2>1. c \in Nat /\ c # 0
    BY ConstantFacts, FS_CardinalityType, FS_EmptySet
  <2>2. 1 \in Int /\ c \in Int /\ ~ (1 > c) /\ c - 1 + 1 = c
    BY <2>1
  <2> HIDE DEF c
  <2> QED
    BY <2>1, <2>2, FS_Interval
<1>2. order \in [1 .. c -> Threads] /\ IsInjective(order)
  <2>1. \E f \in [1 .. c -> Threads] : IsInjective(f)
    BY ConstantFacts, FS_CardinalityType DEF ExistsBijection, Bijection, Injection
  <2> QED
    BY <2>1 DEF SetToSeq
<1> HIDE DEF order
<1>3. order \in Surjection(1 .. c, Threads)
  <2>1. order \in Injection(1 .. c, Threads)
    BY <1>2 DEF Injection
  <2> QED
    BY <1>1, <2>1, ConstantFacts, FS_Injection
<1>4. i \in 1 .. c /\ order[i] = t
  <2>1. \E j \in DOMAIN order : order[j] = t
    BY <1>2, <1>3 DEF Surjection
  <2> QED
    BY <1>2, <2>1
<1>5. Share(t) = [j \in 1 .. Ends(i) - Ends(i - 1) |-> Ends(i - 1) + j - 1]
  BY DEF Share, order, Ends
<1> HIDE DEF i
<1> QED
  BY <1>4, <1>5 DEF order

LEMMA ShareFacts ==
  ASSUME NEW t \in Threads
  PROVE  /\ Share(t) \in Seq(Nodes)
         /\ \E i \in 1 .. Cardinality(Threads) :
              /\ SetToSeq(Threads)[i] = t
              /\ \A j \in DOMAIN Share(t) : /\ j \in Nat
                                            /\ Share(t)[j] = Ends(i - 1) + j - 1
                                            /\ Ends(i - 1) <= Share(t)[j] /\ Share(t)[j] < Ends(i)
<1> DEFINE c == Cardinality(Threads)
<1>1. PICK i \in 1 .. c :
        /\ SetToSeq(Threads)[i] = t
        /\ Share(t) = [j \in 1 .. Ends(i) - Ends(i - 1) |-> Ends(i - 1) + j - 1]
  BY ShareIs
<1>2. Ends(i) \in 0 .. Size /\ Ends(i - 1) \in 0 .. Size
  <2>1. c \in Nat \ {0} /\ \A j \in 0 .. c : Ends(j) \in 0 .. Size
    BY EndsFacts
  <2> HIDE DEF c
  <2>2. i \in 0 .. c /\ i - 1 \in 0 .. c
    BY <2>1
  <2> QED
    BY <2>1, <2>2
<1> DEFINE a == Ends(i - 1)
           b == Ends(i)
<1>3. a \in 0 .. Size /\ b \in 0 .. Size /\ Share(t) = [j \in 1 .. b - a |-> a + j - 1]
  BY <1>1, <1>2
<1> HIDE DEF a, b
<1>4. \A j \in 1 .. b - a : a + j - 1 \in Nodes /\ j \in Nat /\ a <= a + j - 1 /\ a + j - 1 < b
  BY <1>3, ConstantFacts DEF Nodes
<1>5. \A j \in DOMAIN Share(t) : /\ j \in Nat
                                 /\ Share(t)[j] = a + j - 1
                                 /\ a <= Share(t)[j] /\ Share(t)[j] < b
  BY <1>3, <1>4
<1>6. Share(t) \in Seq(Nodes)
  <2>1. CASE b - a \in Nat
    <3>1. Share(t) \in [1 .. b - a -> Nodes]
      BY <1>3, <1>4
    <3> QED
      BY <2>1, <3>1, AsSeq
  <2>2. CASE ~ (b - a \in Nat)
    <3>1. 1 .. b - a = 1 .. 0
      BY <1>3, <2>2, ConstantFacts
    <3>2. Share(t) \in [1 .. 0 -> Nodes]
      BY <1>3, <3>1
    <3>3. 0 \in Nat
      OBVIOUS
    <3> QED
      BY <3>2, <3>3, AsSeq
  <2> QED
    BY <2>1, <2>2
<1> QED
  BY <1>1, <1>5, <1>6 DEF a, b

LEMMA ShareType ==
  ASSUME NEW t \in Threads
  PROVE  Share(t) \in Seq(Nodes)
BY ShareFacts

(* No node is in two shares, nor twice in one.                             *)
LEMMA ShareApart ==
  ASSUME NEW t \in Threads, NEW u \in Threads,
         NEW i \in DOMAIN Share(t), NEW j \in DOMAIN Share(u), Share(t)[i] = Share(u)[j]
  PROVE  t = u /\ i = j
<1> DEFINE c == Cardinality(Threads)
<1>1. PICK h \in 1 .. c : /\ SetToSeq(Threads)[h] = t /\ i \in Nat
                          /\ Share(t)[i] = Ends(h - 1) + i - 1
                          /\ Ends(h - 1) <= Share(t)[i] /\ Share(t)[i] < Ends(h)
  BY ShareFacts
<1>2. PICK k \in 1 .. c : /\ SetToSeq(Threads)[k] = u /\ j \in Nat
                          /\ Share(u)[j] = Ends(k - 1) + j - 1
                          /\ Ends(k - 1) <= Share(u)[j] /\ Share(u)[j] < Ends(k)
  BY ShareFacts
<1>3. /\ c \in Nat \ {0}
      /\ \A a \in 0 .. c : Ends(a) \in 0 .. Size
      /\ \A a, b \in 0 .. c : a <= b => Ends(a) <= Ends(b)
  BY EndsFacts
<1>4. Share(t) \in Seq(Nodes) /\ Share(t)[i] \in Int /\ Size \in Int
  <2>1. Share(t) \in Seq(Nodes)
    BY ShareType
  <2>2. Share(t)[i] \in Nodes
    BY <2>1
  <2> QED
    BY <2>1, <2>2, ConstantFacts DEF Nodes
<1> HIDE DEF c
<1>5. h \in 0 .. c /\ h - 1 \in 0 .. c /\ k \in 0 .. c /\ k - 1 \in 0 .. c
  BY <1>3
<1>6. h = k
  <2>1. /\ Ends(h) \in Int /\ Ends(h - 1) \in Int
        /\ Ends(k) \in Int /\ Ends(k - 1) \in Int
    BY <1>3, <1>5
  <2>2. /\ Ends(h - 1) <= Share(t)[i] /\ Share(t)[i] < Ends(h)
        /\ Ends(k - 1) <= Share(t)[i] /\ Share(t)[i] < Ends(k)
    BY <1>1, <1>2
  <2>3. CASE h < k
    <3>1. h <= k - 1
      BY <1>3, <2>3
    <3>2. Ends(h) <= Ends(k - 1)
      BY <1>3, <1>5, <3>1
    <3> QED
      BY <1>4, <2>1, <2>2, <3>2
  <2>4. CASE k < h
    <3>1. k <= h - 1
      BY <1>3, <2>4
    <3>2. Ends(k) <= Ends(h - 1)
      BY <1>3, <1>5, <3>1
    <3> QED
      BY <1>4, <2>1, <2>2, <3>2
  <2> QED
    BY <1>3, <2>3, <2>4
<1>7. t = u
  BY <1>1, <1>2, <1>6
<1>8. Ends(h - 1) + i - 1 = Ends(h - 1) + j - 1 /\ Ends(h - 1) \in Int
  <2>1. Ends(h - 1) \in Int
    BY <1>3, <1>5
  <2>2. Share(u)[j] = Ends(h - 1) + j - 1
    BY <1>2, <1>6
  <2>3. Share(t)[i] = Ends(h - 1) + i - 1 /\ Share(t)[i] = Share(u)[j]
    BY <1>1
  <2> QED
    BY <2>1, <2>2, <2>3
<1>9. i = j
  BY <1>1, <1>2, <1>8
<1> QED
  BY <1>7, <1>9

-------------------------------------------------------------------------------
(* The join of a round, for one pool.                                      *)

(* JoinOK for a pool of the ids now, once old, of those that it should     *)
(* hold if nothing gave way, those not yet offered, its distances, and     *)
(* whether it is full.                                                     *)
Settled(now, old, all, pending, dist, full) ==
  /\ now \subseteq all
  /\ \A y \in all \ now : y \in pending \/ (full /\ \A z \in now : dist[z] <= dist[y])
  /\ ~ full => old \subseteq now

(* A node that is too far, or that the pool has, is offered in vain.       *)
LEMMA Refused ==
  ASSUME NEW now \in SUBSET Nodes, NEW old \in SUBSET Nodes, NEW all \in SUBSET Nodes,
         NEW pending, NEW rest, NEW dist \in [Nodes -> Int], NEW full \in BOOLEAN, NEW far \in Int,
         NEW y \in Nodes,
         Settled(now, old, all, pending, dist, full),
         \A z \in now : dist[z] <= far,
         \A v \in all \ old : \E z \in old : dist[v] <= dist[z],
         dist[y] > far \/ y \in now,
         \A v \in pending : v = y \/ v \in rest
  PROVE  Settled(now, old, all, rest, dist, full)
<1>1. ASSUME NEW v \in all \ now, ~ (v \in rest)
      PROVE  full /\ \A z \in now : dist[z] <= dist[v]
  <2>1. CASE v \in pending
    <3>1. v = y /\ y \notin now /\ dist[y] > far /\ dist[y] \in Int
      BY <1>1, <2>1
    <3>2. full
      <4> SUFFICES ASSUME ~ full PROVE FALSE
        OBVIOUS
      <4>1. old \subseteq now
        BY DEF Settled
      <4>2. v \notin old
        BY <1>1, <4>1
      <4>3. PICK z \in old : dist[v] <= dist[z]
        BY <1>1, <4>2
      <4>4. dist[z] <= far /\ dist[z] \in Int
        BY <4>1, <4>3
      <4> QED
        BY <3>1, <4>3, <4>4
    <3>3. ASSUME NEW z \in now PROVE dist[z] <= dist[v]
      <4>1. dist[z] <= far /\ dist[z] \in Int
        OBVIOUS
      <4> QED
        BY <3>1, <4>1
    <3> QED
      BY <3>2, <3>3
  <2>2. CASE v \notin pending
    BY <1>1, <2>2 DEF Settled
  <2> QED
    BY <2>1, <2>2
<1> QED
  BY <1>1 DEF Settled

(* A near node y, offered to such a pool, whose farthest distance is far;  *)
(* the pool gives up out.                                                  *)
Enters(now, all, pending, rest, dist, full, far, y, out) ==
  /\ \A z \in now : dist[z] <= far
  /\ \E z \in now : dist[z] = far
  /\ out \subseteq now /\ \A z \in out : dist[z] = far
  /\ ~ full => out = {}
  /\ dist[y] <= far /\ y \in all
  /\ \A v \in pending : v = y \/ v \in rest

(* It is taken, and a full pool gives up a farthest node.                  *)
LEMMA Taken ==
  ASSUME NEW now \in SUBSET Nodes, NEW old \in SUBSET Nodes, NEW all \in SUBSET Nodes,
         NEW pending, NEW rest, NEW dist \in [Nodes -> Int], NEW full \in BOOLEAN, NEW far \in Int,
         NEW y \in Nodes, NEW out,
         Settled(now, old, all, pending, dist, full),
         Enters(now, all, pending, rest, dist, full, far, y, out)
  PROVE  Settled((now \ out) \cup {y}, old, all, rest, dist, full)
<1> DEFINE after == (now \ out) \cup {y}
<1>0. /\ \A z \in now : dist[z] <= far
      /\ \E z \in now : dist[z] = far
      /\ out \subseteq now /\ \A z \in out : dist[z] = far
      /\ ~ full => out = {}
      /\ dist[y] <= far /\ y \in all
      /\ \A v \in pending : v = y \/ v \in rest
  BY DEF Enters
<1>1. after \subseteq all
  BY <1>0 DEF Settled
<1>2. ASSUME NEW v \in all \ after, ~ (v \in rest)
      PROVE  full /\ \A z \in after : dist[z] <= dist[v]
  <2>1. dist[v] \in Int /\ dist[y] \in Int /\ v # y
    BY <1>2
  <2>2. full /\ far <= dist[v]
    <3>1. CASE v \in out
      BY <1>0, <2>1, <3>1
    <3>2. CASE v \notin now
      <4>1. full /\ \A z \in now : dist[z] <= dist[v]
        BY <1>0, <1>2, <2>1, <3>2 DEF Settled
      <4>2. PICK z \in now : dist[z] = far
        BY <1>0
      <4> QED
        BY <4>1, <4>2
    <3> QED
      BY <1>2, <3>1, <3>2
  <2>3. ASSUME NEW z \in after PROVE dist[z] <= dist[v]
    <3>1. dist[z] <= far /\ dist[z] \in Int
      BY <1>0, <2>3
    <3> QED
      BY <2>1, <2>2, <3>1
  <2> QED
    BY <2>2, <2>3
<1>3. ~ full => old \subseteq after
  BY <1>0 DEF Settled
<1> QED
  BY <1>1, <1>2, <1>3 DEF Settled

-------------------------------------------------------------------------------
(* Offers, and what they do not depend on.                                 *)
LEMMA OffersType ==
  ASSUME nnNew \in [Nodes -> Seq(Nodes)], nnOld \in [Nodes -> Seq(Nodes)]
  PROVE  Offers(Nodes) \subseteq Nodes \X Nodes
<1> SUFFICES ASSUME NEW n \in Nodes, NEW i \in DOMAIN Inserts(n) PROVE Inserts(n)[i] \in Nodes \X Nodes
  BY DEF Offers, Range
<1> QED
  BY InsertsType

LEMMA IntroducedIs ==
  ASSUME NEW x, NEW offers \in SUBSET (Nodes \X Nodes)
  PROVE  \A y : y \in Introduced(x, offers) <=> <<x, y>> \in offers
<1>1. ASSUME NEW y, y \in Introduced(x, offers) PROVE <<x, y>> \in offers
  <2>1. PICK i \in offers : i[1] = x /\ i[2] = y
    BY <1>1 DEF Introduced
  <2> QED
    BY <2>1
<1>2. ASSUME NEW y, <<x, y>> \in offers PROVE y \in Introduced(x, offers)
  <2>1. <<x, y>>[1] = x /\ <<x, y>>[2] = y
    OBVIOUS
  <2> QED
    BY <1>2, <2>1 DEF Introduced
<1> QED
  BY <1>1, <1>2

(* What is still to come.                                                  *)
Untaken == {n \in Nodes : n >= next \/ \E t \in Threads : n \in Range(chunk[t])}

LEMMA PendingIs ==
  /\ Pending = Offers(Untaken) \cup UNION {Range(work[t]) : t \in Threads}
  /\ Pending' = Offers(Untaken)' \cup UNION {Range(work'[t]) : t \in Threads}
BY DEF Pending, Untaken

LEMMA SameOffers ==
  ASSUME nnNew' = nnNew, nnOld' = nnOld
  PROVE  /\ \A n : Inserts(n)' = Inserts(n)
         /\ Offers(Nodes)' = Offers(Nodes)
<1>1. \A n : Inserts(n)' = Inserts(n)
  BY DEF Inserts, Pairs
<1> QED
  BY <1>1 DEF Offers, Range

(* JoinOK, said pool by pool.                                              *)
JoinAt(x) ==
  Settled(Ids(pool[x]), Ids(base[x]), Wanted(x, Offers(Nodes)), Introduced(x, Pending),
          world.dist[x], Cardinality(pool[x]) = LN)

JoinInv == NnTypeOK /\ PoolsOK /\ WorkOK /\ (phase = "join" => \A x \in Nodes : JoinAt(x))

LEMMA JoinIs ==
  ASSUME NnTypeOK, PoolsOK
  PROVE  JoinOK <=> (phase = "join" => \A x \in Nodes : JoinAt(x))
<1>1. phase = "join" =>
        \A x \in Nodes : Cardinality(pool[x]) < LN <=> ~ (Cardinality(pool[x]) = LN)
  <2> SUFFICES ASSUME phase = "join", NEW x \in Nodes
               PROVE  Cardinality(pool[x]) < LN <=> ~ (Cardinality(pool[x]) = LN)
    OBVIOUS
  <2>1. Cardinality(pool[x]) \in Nat
    BY PoolFacts DEF NnTypeOK
  <2>2. Cardinality(pool[x]) <= LN
    BY DEF PoolsOK
  <2> QED
    BY <2>1, <2>2, ConstantFacts
<1> QED
  BY <1>1 DEF JoinOK, JoinAt, Settled, d

LEMMA SameWanted ==
  ASSUME nnNew' = nnNew, nnOld' = nnOld, base' = base, world' = world, NEW x
  PROVE  Wanted(x, Offers(Nodes))' = Wanted(x, Offers(Nodes))
<1>1. Offers(Nodes)' = Offers(Nodes)
  BY SameOffers
<1> QED
  BY <1>1 DEF Wanted, Introduced, Ids, d

(* A step that leaves a pool alone and takes no offer away.                *)
LEMMA JoinAtKept ==
  ASSUME NEW x \in Nodes, JoinAt(x), pool'[x] = pool[x],
         nnNew' = nnNew, nnOld' = nnOld, base' = base, world' = world,
         \A p \in Pending : p[1] = x => p \in Pending'
  PROVE  JoinAt(x)'
<1>1. Introduced(x, Pending) \subseteq Introduced(x, Pending')
  BY DEF Introduced
<1>2. Wanted(x, Offers(Nodes))' = Wanted(x, Offers(Nodes))
  BY SameWanted
<1>3. Settled(Ids(pool[x]), Ids(base[x]), Wanted(x, Offers(Nodes)), Introduced(x, Pending'),
              world.dist[x], Cardinality(pool[x]) = LN)
  BY <1>1 DEF JoinAt, Settled
<1> QED
  BY <1>2, <1>3 DEF JoinAt

(* The node that a thread takes, and what is left for all.                 *)
LEMMA TakeFacts ==
  ASSUME NnTypeOK, NEW t \in Threads, Take(t)
  PROVE  \E n \in Nodes, c \in Seq(Nodes) :
           /\ chunk' = [chunk EXCEPT ![t] = c]
           /\ work' = [work EXCEPT ![t] = Inserts(n)]
           /\ next' \in 0 .. Size
           /\ \A k \in Nodes : k >= next => k = n \/ k >= next' \/ k \in Range(c)
           /\ \A k \in Range(chunk[t]) : k = n \/ k \in Range(c)
<1>1. chunk[t] \in Seq(Nodes) /\ next \in 0 .. Size /\ next \in Int /\ Size \in Int
  BY ConstantFacts DEF NnTypeOK
<1>2. CASE chunk[t] # << >>
  <2>1. /\ chunk' = [chunk EXCEPT ![t] = Tail(chunk[t])]
        /\ work' = [work EXCEPT ![t] = Inserts(Head(chunk[t]))]
        /\ next' = next
    BY <1>2 DEF Take
  <2>2. Head(chunk[t]) \in Nodes /\ Tail(chunk[t]) \in Seq(Nodes)
    BY <1>1, <1>2
  <2>3. \A k \in Range(chunk[t]) : k = Head(chunk[t]) \/ k \in Range(Tail(chunk[t]))
    BY <1>1, <1>2, HeadOrTail
  <2> QED
    BY <1>1, <2>1, <2>2, <2>3
<1>3. CASE chunk[t] = << >>
  <2> DEFINE m == next'
             c == [i \in 1 .. m - next - 1 |-> next + i]
  <2>1. /\ chunk' = [chunk EXCEPT ![t] = c]
        /\ work' = [work EXCEPT ![t] = Inserts(next)]
        /\ next < Size /\ m = Upto(next + Chunk)
    BY <1>3 DEF Take
  <2>2. m \in 0 .. Size /\ next < m /\ m \in Int
    BY <1>1, <2>1, ConstantFacts DEF Upto
  <2> HIDE DEF m
  <2>3. m - next - 1 \in Nat /\ next \in Nodes
    BY <1>1, <2>1, <2>2 DEF Nodes
  <2>4. c \in [1 .. m - next - 1 -> Nodes]
    BY <1>1, <2>2, <2>3 DEF Nodes
  <2>5. c \in Seq(Nodes)
    <3> HIDE DEF c
    <3> QED
      BY <2>3, <2>4, AsSeq
  <2>6. ASSUME NEW k \in Nodes, k >= next, k # next, ~ (k >= m) PROVE k \in Range(c)
    <3>1. k \in Int /\ k - next \in 1 .. m - next - 1 /\ next + (k - next) = k
      BY <1>1, <2>2, <2>6 DEF Nodes
    <3>2. k - next \in DOMAIN c /\ c[k - next] = k
      BY <3>1
    <3> HIDE DEF c
    <3> QED
      BY <3>2 DEF Range
  <2>7. Range(chunk[t]) = {}
    BY <1>3 DEF Range
  <2> HIDE DEF c
  <2> QED
    BY <2>1, <2>2, <2>3, <2>5, <2>6, <2>7 DEF m
<1> QED
  BY <1>2, <1>3

LEMMA TakeStep ==
  ASSUME JoinInv, NEW t \in Threads, Take(t)
  PROVE  JoinInv'
<1>1. /\ phase = "join" /\ work[t] = << >>
      /\ UNCHANGED <<world, phase, round, pool, M, nnNew, nnOld, rnnNew, rnnOld, base, heaped, rows>>
  BY DEF Take, lists
<1>2. PICK n \in Nodes, c \in Seq(Nodes) :
           /\ chunk' = [chunk EXCEPT ![t] = c]
           /\ work' = [work EXCEPT ![t] = Inserts(n)]
           /\ next' \in 0 .. Size
           /\ \A k \in Nodes : k >= next => k = n \/ k >= next' \/ k \in Range(c)
           /\ \A k \in Range(chunk[t]) : k = n \/ k \in Range(c)
  BY TakeFacts DEF JoinInv
<1>3. /\ chunk \in [Threads -> Seq(Nodes)] /\ work \in [Threads -> Seq(Nodes \X Nodes)]
      /\ UNION {Range(work[u]) : u \in Threads} \subseteq Offers(Nodes)
      /\ nnNew \in [Nodes -> Seq(Nodes)] /\ nnOld \in [Nodes -> Seq(Nodes)]
  BY <1>1 DEF JoinInv, NnTypeOK, WorkOK
<1>4. NnTypeOK'
  BY <1>1, <1>2, <1>3 DEF JoinInv, NnTypeOK
<1>5. PoolsOK'
  BY <1>1 DEF JoinInv, PoolsOK
<1>6. \A u \in Threads : /\ chunk'[u] = IF u = t THEN c ELSE chunk[u]
                         /\ work'[u] = IF u = t THEN Inserts(n) ELSE work[u]
  BY <1>2, <1>3
<1>7. WorkOK'
  <2>1. Inserts(n) \in Seq(Nodes \X Nodes)
    BY <1>3, InsertsType
  <2>2. work' \in [Threads -> Seq(Nodes \X Nodes)]
    BY <1>2, <1>3, <2>1
  <2>3. \A u \in Threads : Range(work'[u]) \subseteq Offers(Nodes)
    <3>1. Range(Inserts(n)) \subseteq Offers(Nodes)
      BY DEF Offers
    <3> QED
      BY <1>3, <1>6, <3>1
  <2>4. Offers(Nodes)' = Offers(Nodes)
    BY <1>1, SameOffers
  <2> QED
    BY <1>1, <2>2, <2>3, <2>4 DEF WorkOK
<1>8. Pending \subseteq Pending'
  <2>1. ASSUME NEW u \in Threads, NEW p \in Range(work[u]) PROVE p \in Pending'
    <3>1. u # t
      BY <1>1 DEF Range
    <3>2. p \in Range(work'[u])
      BY <1>6, <3>1
    <3> QED
      BY <3>2, PendingIs
  <2>2. ASSUME NEW k \in Untaken, NEW p \in Range(Inserts(k)) PROVE p \in Pending'
    <3>1. CASE k = n
      <4>1. p \in Range(work'[t])
        BY <1>6, <3>1
      <4> QED
        BY <4>1, PendingIs
    <3>2. CASE k # n
      <4>1. k \in Nodes /\ (k >= next \/ \E u \in Threads : k \in Range(chunk[u]))
        BY DEF Untaken
      <4>2. k >= next' \/ \E u \in Threads : k \in Range(chunk'[u])
        <5>1. CASE k >= next
          BY <1>2, <1>6, <3>2, <4>1, <5>1
        <5>2. ASSUME NEW u \in Threads, k \in Range(chunk[u])
              PROVE  \E w \in Threads : k \in Range(chunk'[w])
          <6>1. CASE u = t
            BY <1>2, <1>6, <3>2, <5>2, <6>1
          <6>2. CASE u # t
            BY <1>6, <5>2, <6>2
          <6> QED
            BY <6>1, <6>2
        <5> QED
          BY <4>1, <5>1, <5>2
      <4>3. k \in Untaken'
        BY <4>1, <4>2 DEF Untaken
      <4>4. Inserts(k)' = Inserts(k)
        BY <1>1, SameOffers
      <4>5. p \in Offers(Untaken)'
        BY <4>3, <4>4 DEF Offers, Range
      <4> QED
        BY <4>5, PendingIs
    <3> QED
      BY <3>1, <3>2
  <2> QED
    BY <2>1, <2>2, PendingIs DEF Offers
<1>9. ASSUME NEW x \in Nodes PROVE JoinAt(x)'
  <2>1. JoinAt(x)
    BY <1>1 DEF JoinInv
  <2> QED
    BY <1>1, <1>8, <2>1, JoinAtKept
<1> QED
  BY <1>4, <1>5, <1>7, <1>9 DEF JoinInv

(* What Insert changes.                                                    *)
LEMMA InsertFacts ==
  ASSUME JoinInv, NEW t \in Threads, Insert(t)
  PROVE  /\ phase = "join" /\ work[t] # << >>
         /\ UNCHANGED <<world, phase, round, M, nnNew, nnOld, rnnNew, rnnOld, base, next, chunk, heaped, rows>>
         /\ work' = [work EXCEPT ![t] = Tail(work[t])]
         /\ \E x, y \in Nodes :
              /\ Head(work[t]) = <<x, y>> /\ <<x, y>> \in Offers(Nodes)
              /\ \/ /\ Near(x, y) /\ y \notin Ids(pool[x])
                    /\ \E o \in Out(x) : pool' = [pool EXCEPT ![x] = (pool[x] \ o) \cup {[id |-> y, flag |-> TRUE]}]
                 \/ (~ Near(x, y) \/ y \in Ids(pool[x])) /\ pool' = pool
<1>1. /\ phase = "join" /\ work[t] # << >>
      /\ UNCHANGED <<world, phase, round, M, nnNew, nnOld, rnnNew, rnnOld, base, next, chunk, heaped, rows>>
  BY DEF Insert, lists, loop
<1>2. work[t] \in Seq(Nodes \X Nodes) /\ work \in [Threads -> Seq(Nodes \X Nodes)]
      /\ Range(work[t]) \subseteq Offers(Nodes)
  BY <1>1 DEF JoinInv, WorkOK
<1>3. work' = [work EXCEPT ![t] = Tail(work[t])]
  BY <1>2 DEF Insert
<1>4. Head(work[t]) \in Nodes \X Nodes /\ Head(work[t]) \in Offers(Nodes)
  BY <1>1, <1>2, HeadOrTail
<1>5. PICK x \in Nodes, y \in Nodes : Head(work[t]) = <<x, y>>
  BY <1>4
<1>6. \/ /\ Near(x, y) /\ y \notin Ids(pool[x])
         /\ \E o \in Out(x) : pool' = [pool EXCEPT ![x] = (pool[x] \ o) \cup {[id |-> y, flag |-> TRUE]}]
      \/ (~ Near(x, y) \/ y \in Ids(pool[x])) /\ pool' = pool
  <2>1. Head(work[t])[1] = x /\ Head(work[t])[2] = y
    BY <1>5
  <2>2. pool[x] = pool[x] /\ pool \in [Nodes -> SUBSET Entries]
    BY DEF JoinInv, NnTypeOK
  <2> QED
    BY <2>1, <2>2 DEF Insert
<1> QED
  BY <1>1, <1>3, <1>4, <1>5, <1>6

(* A pool P in which y takes the place of o, if o has to give way.         *)
Exchange(P, y, o, Q) ==
  /\ y \notin Ids(P) /\ (\A e, f \in P : e.id = f.id => e = f) /\ Cardinality(P) <= LN
  /\ o \in SUBSET P
  /\ (Cardinality(P) < LN /\ o = {}) \/ (Cardinality(P) = LN /\ \E e \in P : o = {e})
  /\ Q = (P \ o) \cup {[id |-> y, flag |-> TRUE]}

(* A pool that takes a node keeps its size if it gave one up.              *)
LEMMA PoolTakes ==
  ASSUME NEW P \in SUBSET Entries, NEW y \in Nodes, NEW o, NEW Q, Exchange(P, y, o, Q)
  PROVE  /\ Q \in SUBSET Entries /\ Q # {}
         /\ \A e, f \in Q : e.id = f.id => e = f
         /\ Ids(Q) = (Ids(P) \ Ids(o)) \cup {y}
         /\ Cardinality(Q) <= LN
         /\ Cardinality(P) = LN => Cardinality(Q) = LN
<1>0. /\ y \notin Ids(P) /\ (\A e, f \in P : e.id = f.id => e = f) /\ Cardinality(P) <= LN
      /\ o \in SUBSET P
      /\ (Cardinality(P) < LN /\ o = {}) \/ (Cardinality(P) = LN /\ \E e \in P : o = {e})
      /\ Q = (P \ o) \cup {[id |-> y, flag |-> TRUE]}
  BY DEF Exchange
<1> DEFINE n == [id |-> y, flag |-> TRUE]
<1>1. n \in Entries /\ n.id = y /\ n \notin P
  BY <1>0 DEF Entries, Ids
<1>2. Q \in SUBSET Entries /\ Q # {}
  BY <1>0, <1>1
<1>3. ASSUME NEW e \in Q, NEW f \in Q, e.id = f.id PROVE e = f
  <2>1. \A g \in P : g.id # y
    BY <1>0 DEF Ids
  <2>2. (e \in P \/ e = n) /\ (f \in P \/ f = n)
    BY <1>0
  <2> HIDE DEF n
  <2> QED
    BY <1>0, <1>1, <1>3, <2>1, <2>2
<1>4. Ids(Q) = (Ids(P) \ Ids(o)) \cup {y}
  <2>1. ASSUME NEW e \in P \ o PROVE e.id \notin Ids(o)
    BY <1>0 DEF Ids
  <2>5. \A g \in Q : g \in P \ o \/ g = n
    BY <1>0
  <2>6. \A g \in P \ o : g \in Q
    BY <1>0
  <2> HIDE DEF n
  <2>2. ASSUME NEW g \in Q PROVE g.id \in (Ids(P) \ Ids(o)) \cup {y}
    <3>1. CASE g = n
      BY <1>1, <3>1
    <3>2. CASE g # n
      <4>1. g \in P \ o
        BY <2>5, <3>2
      <4> QED
        BY <2>1, <4>1 DEF Ids
    <3> QED
      BY <3>1, <3>2
  <2>3. ASSUME NEW v \in Ids(P) \ Ids(o) PROVE v \in Ids(Q)
    <3>1. PICK g \in P : g.id = v
      BY DEF Ids
    <3>2. g \notin o
      BY <3>1 DEF Ids
    <3>3. g \in Q
      BY <2>6, <3>1, <3>2
    <3> QED
      BY <3>1, <3>3 DEF Ids
  <2>4. y \in Ids(Q)
    BY <1>0, <1>1 DEF Ids, n
  <2> QED
    BY <2>2, <2>3, <2>4 DEF Ids
<1> HIDE DEF n
<1>5. IsFiniteSet(P) /\ Cardinality(P) \in Nat /\ LN \in Nat
  BY PoolFacts, ConstantFacts
<1>6. CASE Cardinality(P) < LN /\ o = {}
  <2>1. Q = P \cup {n}
    BY <1>0, <1>6 DEF n
  <2>2. Cardinality(Q) = Cardinality(P) + 1
    <3>1. Cardinality(P \cup {n}) = Cardinality(P) + 1
      BY <1>1, <1>5, FS_AddElement
    <3> QED
      BY <2>1, <3>1
  <2>3. Cardinality(Q) <= LN /\ Cardinality(P) # LN
    BY <1>5, <1>6, <2>2
  <2> QED
    BY <1>2, <1>3, <1>4, <2>3
<1>7. CASE Cardinality(P) = LN /\ \E e \in P : o = {e}
  <2>1. PICK e \in P : o = {e}
    BY <1>7
  <2> DEFINE R0 == P \ {e}
  <2>2. IsFiniteSet(R0) /\ Cardinality(R0) = Cardinality(P) - 1
    BY <1>5, FS_RemoveElement
  <2>3. Q = R0 \cup {n} /\ n \notin R0
    BY <1>0, <1>1, <2>1 DEF n
  <2> HIDE DEF R0
  <2>4. Cardinality(Q) = Cardinality(P) - 1 + 1
    <3>1. Cardinality(R0 \cup {n}) = Cardinality(R0) + 1
      BY <2>2, <2>3, FS_AddElement
    <3> QED
      BY <2>2, <2>3, <3>1
  <2>5. Cardinality(Q) = LN
    BY <1>5, <1>7, <2>4
  <2> QED
    BY <1>2, <1>3, <1>4, <1>5, <2>5
<1> QED
  BY <1>0, <1>6, <1>7

(* An insertion is an offer less, and what the pool makes of it.           *)
LEMMA InsertStep ==
  ASSUME JoinInv, NEW t \in Threads, Insert(t)
  PROVE  JoinInv'
<1>1. /\ phase = "join" /\ work[t] # << >>
      /\ UNCHANGED <<world, phase, round, M, nnNew, nnOld, rnnNew, rnnOld, base, next, chunk, heaped, rows>>
      /\ work' = [work EXCEPT ![t] = Tail(work[t])]
  BY InsertFacts
<1>2. PICK x \in Nodes, y \in Nodes :
         /\ Head(work[t]) = <<x, y>> /\ <<x, y>> \in Offers(Nodes)
         /\ \/ /\ Near(x, y) /\ y \notin Ids(pool[x])
               /\ \E o \in Out(x) : pool' = [pool EXCEPT ![x] = (pool[x] \ o) \cup {[id |-> y, flag |-> TRUE]}]
            \/ (~ Near(x, y) \/ y \in Ids(pool[x])) /\ pool' = pool
  BY InsertFacts
<1>3. /\ work \in [Threads -> Seq(Nodes \X Nodes)]
      /\ UNION {Range(work[u]) : u \in Threads} \subseteq Offers(Nodes)
      /\ world \in Worlds /\ pool \in [Nodes -> SUBSET Entries]
      /\ base \in [Nodes -> SUBSET Entries]
      /\ nnNew \in [Nodes -> Seq(Nodes)] /\ nnOld \in [Nodes -> Seq(Nodes)]
      /\ pool[x] \in SUBSET Entries /\ pool[x] # {} /\ Cardinality(pool[x]) <= LN
      /\ \A e, f \in pool[x] : e.id = f.id => e = f
      /\ Cardinality(pool[x]) \in Nat /\ LN \in Nat
  BY <1>1, PoolFacts, ConstantFacts DEF JoinInv, NnTypeOK, WorkOK, PoolsOK
<1>4. /\ Tail(work[t]) \in Seq(Nodes \X Nodes) /\ Range(Tail(work[t])) \subseteq Range(work[t])
      /\ \A p \in Range(work[t]) : p = <<x, y>> \/ p \in Range(Tail(work[t]))
  BY <1>1, <1>2, <1>3, HeadOrTail
<1>5. \A u \in Threads : work'[u] = IF u = t THEN Tail(work[t]) ELSE work[u]
  BY <1>1, <1>3
<1>6. WorkOK'
  <2>1. work' \in [Threads -> Seq(Nodes \X Nodes)]
    BY <1>1, <1>3, <1>4
  <2>2. \A u \in Threads : Range(work'[u]) \subseteq Offers(Nodes)
    BY <1>3, <1>4, <1>5
  <2>3. Offers(Nodes)' = Offers(Nodes)
    BY <1>1, SameOffers
  <2> QED
    BY <1>1, <2>1, <2>2, <2>3 DEF WorkOK
<1>7. \A p \in Pending : p = <<x, y>> \/ p \in Pending'
  <2>1. Offers(Untaken)' = Offers(Untaken)
    <3>1. Untaken' = Untaken
      BY <1>1 DEF Untaken
    <3>2. \A n : Inserts(n)' = Inserts(n)
      BY <1>1, SameOffers
    <3> QED
      BY <3>1, <3>2 DEF Offers, Range
  <2>2. ASSUME NEW u \in Threads, NEW p \in Range(work[u]), p # <<x, y>>
        PROVE  p \in Range(work'[u])
    BY <1>4, <1>5, <2>2
  <2> QED
    BY <2>1, <2>2, PendingIs
<1> DEFINE far == Farthest(x)
           dist == world.dist[x]
           all == Wanted(x, Offers(Nodes))
           old == Ids(base[x])
           now == Ids(pool[x])
           pending == Introduced(x, Pending)
           rest == Introduced(x, Pending')
           full == Cardinality(pool[x]) = LN
<1>8. /\ Settled(now, old, all, pending, dist, full)
      /\ dist \in [Nodes -> Int] /\ far \in Int
      /\ now \in SUBSET Nodes /\ old \in SUBSET Nodes /\ all \in SUBSET Nodes
      /\ \A z \in now : dist[z] <= far
      /\ \E z \in now : dist[z] = far
      /\ \A v \in all \ old : \E z \in old : dist[v] <= dist[z]
      /\ \A v \in pending : v = y \/ v \in rest
      /\ y \in Introduced(x, Offers(Nodes))
      /\ \A v \in Introduced(x, Offers(Nodes)), z \in old : dist[v] <= dist[z] => v \in all
      /\ \A v \in all : v \in old \/ \E z \in old : dist[v] <= dist[z]
  <2>1. Settled(now, old, all, pending, dist, full)
    BY <1>1 DEF JoinInv, JoinAt
  <2>2. dist \in [Nodes -> Int]
    BY <1>3, NnAssumption
  <2>3. far \in Int /\ (\A z \in now : dist[z] <= far) /\ (\E z \in now : dist[z] = far)
    BY <1>3, FarthestFacts DEF d
  <2>4. now \in SUBSET Nodes /\ old \in SUBSET Nodes
    BY <1>3, PoolFacts
  <2>5. Offers(Nodes) \in SUBSET (Nodes \X Nodes)
    BY <1>3, OffersType
  <2>6. Introduced(x, Offers(Nodes)) \subseteq Nodes /\ y \in Introduced(x, Offers(Nodes))
    <3>1. \A v : v \in Introduced(x, Offers(Nodes)) <=> <<x, v>> \in Offers(Nodes)
      BY <2>5, IntroducedIs
    <3>2. \A v : <<x, v>> \in Offers(Nodes) => v \in Nodes
      BY <2>5
    <3> QED
      BY <1>2, <3>1, <3>2
  <2>7. /\ all = old \cup {v \in Introduced(x, Offers(Nodes)) : \E z \in old : dist[v] <= dist[z]}
    BY DEF Wanted, d
  <2> HIDE DEF all, old
  <2>8. all \in SUBSET Nodes
    BY <2>4, <2>6, <2>7
  <2>9. \A v \in pending : v = y \/ v \in rest
    BY <1>7 DEF Introduced
  <2> QED
    BY <2>1, <2>2, <2>3, <2>4, <2>6, <2>7, <2>8, <2>9
<1>9. ASSUME NEW u \in Nodes \ {x}, pool'[u] = pool[u] PROVE JoinAt(u)'
  <2>1. JoinAt(u)
    BY <1>1 DEF JoinInv
  <2>2. \A p \in Pending : p[1] = u => p \in Pending'
    BY <1>7
  <2> QED
    BY <1>1, <1>9, <2>1, <2>2, JoinAtKept
<1>10. ASSUME NEW after, NEW filled, after = Ids(pool'[x]), filled = (Cardinality(pool'[x]) = LN),
              Settled(after, old, all, rest, dist, filled)
       PROVE  JoinAt(x)'
  <2>1. Wanted(x, Offers(Nodes))' = all
    BY <1>1, SameWanted
  <2>2. JoinAt(x)' = Settled(Ids(pool'[x]), Ids(base'[x]), Wanted(x, Offers(Nodes))', Introduced(x, Pending'),
                             world'.dist[x], Cardinality(pool'[x]) = LN)
    BY DEF JoinAt
  <2> HIDE DEF all
  <2> QED
    BY <1>1, <1>10, <2>1, <2>2
<1>11. CASE (~ Near(x, y) \/ y \in Ids(pool[x])) /\ pool' = pool
  <2>1. Settled(now, old, all, rest, dist, full)
    <3>1. dist[y] > far \/ y \in now
      <4>1. Near(x, y) <=> dist[y] <= far
        BY DEF Near, d
      <4>2. dist[y] \in Int
        BY <1>8
      <4> HIDE DEF dist, far
      <4> QED
        BY <1>8, <1>11, <4>1, <4>2
    <3>2. full \in BOOLEAN
      OBVIOUS
    <3> HIDE DEF dist, far, all, old, now, pending, rest, full
    <3> QED
      BY <1>8, <3>1, <3>2, Refused
  <2>2. \A u \in Nodes : JoinAt(u)'
    BY <1>9, <1>10, <1>11, <2>1
  <2>3. NnTypeOK' /\ PoolsOK'
    BY <1>1, <1>11 DEF JoinInv, NnTypeOK, PoolsOK
  <2> QED
    BY <1>6, <2>2, <2>3 DEF JoinInv
<1>12. CASE /\ Near(x, y) /\ y \notin Ids(pool[x])
            /\ \E o \in Out(x) : pool' = [pool EXCEPT ![x] = (pool[x] \ o) \cup {[id |-> y, flag |-> TRUE]}]
  <2>1. PICK o \in Out(x) : pool' = [pool EXCEPT ![x] = (pool[x] \ o) \cup {[id |-> y, flag |-> TRUE]}]
    BY <1>12
  <2> DEFINE Q == (pool[x] \ o) \cup {[id |-> y, flag |-> TRUE]}
  <2>2. pool'[x] = Q /\ \A u \in Nodes \ {x} : pool'[u] = pool[u]
    BY <1>3, <2>1
  <2>3. /\ (Cardinality(pool[x]) < LN /\ o = {}) \/ (full /\ \E e \in pool[x] : o = {e})
        /\ o \in SUBSET pool[x] /\ \A z \in Ids(o) : dist[z] = far
    <3>1. CASE Cardinality(pool[x]) < LN
      BY <3>1 DEF Out, Ids
    <3>2. CASE ~ (Cardinality(pool[x]) < LN)
      <4>1. full
        BY <1>3, <3>2
      <4>2. PICK e \in pool[x] : o = {e} /\ d(x, e.id) = Farthest(x)
        BY <3>2 DEF Out
      <4> QED
        BY <4>1, <4>2 DEF Ids, d
    <3> QED
      BY <3>1, <3>2
  <2>4. /\ Q \in SUBSET Entries /\ Q # {} /\ Cardinality(Q) <= LN
        /\ \A e, f \in Q : e.id = f.id => e = f
        /\ Ids(Q) = (now \ Ids(o)) \cup {y}
        /\ full => Cardinality(Q) = LN
    <3>1. PICK P \in SUBSET Entries : P = pool[x]
      BY <1>3
    <3>2. Exchange(P, y, o, Q)
      BY <1>3, <1>12, <2>3, <3>1 DEF Exchange
    <3> HIDE DEF Q
    <3>3. /\ Q \in SUBSET Entries /\ Q # {} /\ Cardinality(Q) <= LN
          /\ \A e, f \in Q : e.id = f.id => e = f
          /\ Ids(Q) = (Ids(P) \ Ids(o)) \cup {y}
          /\ Cardinality(P) = LN => Cardinality(Q) = LN
      BY <3>2, PoolTakes
    <3> QED
      BY <3>1, <3>3
  <2> HIDE DEF Q
  <2>5. NnTypeOK' /\ PoolsOK'
    <3>1. pool' \in [Nodes -> SUBSET Entries]
      BY <1>3, <2>1, <2>4 DEF Q
    <3>2. \A u \in Nodes : /\ pool'[u] # {} /\ base[u] # {} /\ Cardinality(pool'[u]) <= LN
                           /\ \A e, f \in pool'[u] : e.id = f.id => e = f
      BY <1>1, <2>2, <2>4 DEF JoinInv, PoolsOK
    <3> QED
      BY <1>1, <1>3, <3>1, <3>2 DEF JoinInv, NnTypeOK, PoolsOK
  <2> DEFINE after == Ids(Q)
             filled == Cardinality(Q) = LN
             out == Ids(o)
  <2>6. Settled(after, old, all, rest, dist, filled)
    <3>1. dist[y] <= far
      BY <1>12 DEF Near, d
    <3>2. y \in all
      <4>1. PICK z \in now : dist[z] = far
        BY <1>8
      <4>2. z \in all
        BY <1>8, <4>1 DEF Settled
      <4>3. PICK w \in old : dist[z] <= dist[w]
        <5>1. z \in old => dist[z] <= dist[z]
          <6>1. dist[z] \in Int
            BY <1>8
          <6> HIDE DEF dist
          <6> QED
            BY <6>1
        <5> QED
          BY <1>8, <4>2, <5>1
      <4>4. dist[y] <= dist[w]
        <5>1. dist[y] \in Int /\ dist[z] \in Int /\ dist[w] \in Int
          BY <1>8
        <5> HIDE DEF dist, far
        <5> QED
          BY <3>1, <4>1, <4>3, <5>1
      <4> QED
        BY <1>8, <4>4
    <3>3. out \subseteq now /\ (~ full => out = {}) /\ \A z \in out : dist[z] = far
      <4>1. out \subseteq now
        BY <2>3 DEF Ids
      <4>2. ~ full => out = {}
        BY <2>3 DEF Ids
      <4> QED
        BY <2>3, <4>1, <4>2
    <3>4. after = (now \ out) \cup {y} /\ (full => filled)
      BY <2>4
    <3>5. full \in BOOLEAN
      OBVIOUS
    <3> HIDE DEF dist, far, all, old, now, pending, rest, full, after, filled, out
    <3>6. Enters(now, all, pending, rest, dist, full, far, y, out)
      BY <1>8, <3>1, <3>2, <3>3 DEF Enters
    <3>7. /\ now \in SUBSET Nodes /\ old \in SUBSET Nodes /\ all \in SUBSET Nodes
          /\ dist \in [Nodes -> Int] /\ far \in Int
          /\ Settled(now, old, all, pending, dist, full)
      BY <1>8
    <3>8. Settled((now \ out) \cup {y}, old, all, rest, dist, full)
      BY <3>5, <3>6, <3>7, Taken
    <3> QED
      BY <3>4, <3>8 DEF Settled
  <2>7. JoinAt(x)'
    BY <1>10, <2>2, <2>6
  <2>8. \A u \in Nodes : JoinAt(u)'
    BY <1>9, <2>2, <2>7
  <2> QED
    BY <1>6, <2>5, <2>8 DEF JoinInv
<1> QED
  BY <1>2, <1>11, <1>12

-------------------------------------------------------------------------------
(* The other steps.                                                        *)

(* A join begins: nothing is taken, and every pool is what it was.         *)
LEMMA JoinBegins ==
  next = 0 /\ base = pool => \A x \in Nodes : JoinAt(x)
<1> SUFFICES ASSUME next = 0, base = pool, NEW x \in Nodes PROVE JoinAt(x)
  OBVIOUS
<1>1. Untaken = Nodes
  BY ConstantFacts DEF Untaken, Nodes
<1>2. Introduced(x, Offers(Nodes)) \subseteq Introduced(x, Pending)
  BY <1>1, PendingIs DEF Introduced
<1>3. Wanted(x, Offers(Nodes)) \subseteq Ids(pool[x]) \cup Introduced(x, Pending)
  BY <1>2 DEF Wanted
<1>4. Ids(pool[x]) \subseteq Wanted(x, Offers(Nodes))
  BY DEF Wanted
<1> QED
  BY <1>3, <1>4 DEF JoinAt, Settled

LEMMA InitInv == NnInit => JoinInv
<1> SUFFICES ASSUME NnInit PROVE JoinInv
  OBVIOUS
<1>1. PICK s \in Starts :
        /\ pool = [x \in Nodes |-> {[id |-> y, flag |-> TRUE] : y \in s.pool[x] \ {x}}]
        /\ nnNew = s.new
  BY DEF NnInit
<1>2. \A x \in Nodes : s.pool[x] \in SUBSET Nodes /\ Cardinality(s.pool[x]) = S /\ s.pool[x] # {x}
  <2> SUFFICES ASSUME NEW x \in Nodes
               PROVE  s.pool[x] \in SUBSET Nodes /\ Cardinality(s.pool[x]) = S /\ s.pool[x] # {x}
    OBVIOUS
  <2>1. \A r \in Starts, y \in Nodes :
          r.pool[y] \in SUBSET Nodes /\ Cardinality(r.pool[y]) = S /\ r.pool[y] # {y}
    BY Zenon, NnAssumption
  <2> QED
    BY <2>1
<1>3. s.new \in [Nodes -> [1 .. 2 * S -> Nodes]]
  BY NnAssumption
<1>4. world \in Worlds /\ phase = "join" /\ round = 1 /\ M = [x \in Nodes |-> S]
      /\ nnOld = [x \in Nodes |-> << >>] /\ rnnNew = nnOld /\ rnnOld = nnOld /\ base = pool
      /\ next = 0 /\ chunk = Nothing /\ work = Nothing /\ heaped = {} /\ rows = nnOld
  BY DEF NnInit
<1>5. pool \in [Nodes -> SUBSET Entries]
  <2> DEFINE start(x) == {[id |-> y, flag |-> TRUE] : y \in s.pool[x] \ {x}}
  <2>1. ASSUME NEW x \in Nodes PROVE start(x) \in SUBSET Entries
    <3>1. ASSUME NEW y \in s.pool[x] \ {x} PROVE [id |-> y, flag |-> TRUE] \in Entries
      <4>1. y \in Nodes
        BY <1>2
      <4> QED
        BY <4>1 DEF Entries
    <3> QED
      BY <3>1
  <2>2. pool = [x \in Nodes |-> start(x)]
    BY <1>1
  <2> HIDE DEF start
  <2> QED
    BY <2>1, <2>2
<1>6. nnNew \in [Nodes -> Seq(Nodes)]
  <2>1. 2 * S \in Nat
    BY ConstantFacts
  <2>2. \A f \in [1 .. 2 * S -> Nodes] : f \in Seq(Nodes)
    BY <2>1, AsSeq
  <2> QED
    BY <1>1, <1>3, <2>2
<1>7. Nothing \in [Threads -> Seq(Nodes)] /\ Nothing \in [Threads -> Seq(Nodes \X Nodes)]
      /\ \A t \in Threads : Range(Nothing[t]) = {}
  BY DEF Nothing, Range
<1>8. NnTypeOK
  <2>1. nnOld \in [Nodes -> Seq(Nodes)]
    BY <1>4
  <2>2. 1 \in 1 .. Iter /\ S \in 0 .. LN /\ 0 \in 0 .. Size
    BY ConstantFacts
  <2> QED
    BY <1>4, <1>5, <1>6, <1>7, <2>1, <2>2 DEF NnTypeOK
<1>9. PoolsOK
  <2>1. ASSUME NEW x \in Nodes
        PROVE  /\ pool[x] # {} /\ Cardinality(pool[x]) <= LN
               /\ \A e, f \in pool[x] : e.id = f.id => e = f
    <3>1. pool[x] = {[id |-> y, flag |-> TRUE] : y \in s.pool[x] \ {x}}
      BY <1>1
    <3>2. IsFiniteSet(s.pool[x]) /\ s.pool[x] # {}
      <4>1. IsFiniteSet(s.pool[x])
        BY <1>2, NodesFinite, FS_Subset
      <4>2. Cardinality(s.pool[x]) # 0
        BY <1>2, ConstantFacts
      <4> QED
        BY <4>1, <4>2, FS_EmptySet
    <3>3. PICK y \in s.pool[x] : y # x
      BY <1>2, <3>2
    <3>4. pool[x] # {}
      BY <3>1, <3>3
    <3>5. \A e, f \in pool[x] : e.id = f.id => e = f
      <4>1. \A e \in pool[x] : e = [id |-> e.id, flag |-> TRUE]
        BY <3>1
      <4> QED
        BY <4>1
    <3>6. Ids(pool[x]) \subseteq s.pool[x]
      BY <3>1 DEF Ids
    <3>7. pool[x] \in SUBSET Entries
      BY <1>5
    <3>8. Cardinality(pool[x]) = Cardinality(Ids(pool[x])) /\ Cardinality(pool[x]) \in Nat
      BY <3>5, <3>7, PoolFacts
    <3>9. Cardinality(Ids(pool[x])) <= S
      BY <1>2, <3>2, <3>6, FS_Subset
    <3>10. Cardinality(pool[x]) <= LN
      BY <3>8, <3>9, ConstantFacts
    <3> QED
      BY <3>4, <3>5, <3>10
  <2> QED
    BY <1>4, <1>5, <2>1 DEF PoolsOK
<1>10. WorkOK
  BY <1>4, <1>7 DEF WorkOK
<1> QED
  BY <1>4, <1>8, <1>9, <1>10, JoinBegins DEF JoinInv

LEMMA ClearStep ==
  ASSUME JoinInv, Clear
  PROVE  JoinInv'
<1>1. /\ phase = "join" /\ phase' = "update" /\ \A t \in Threads : work[t] = << >>
      /\ nnNew' = [x \in Nodes |-> << >>] /\ nnOld' = nnNew'
      /\ chunk' = [t \in Threads |-> Share(t)]
      /\ UNCHANGED <<world, round, pool, M, rnnNew, rnnOld, base, next, work, heaped, rows>>
  BY DEF Clear, Joined
<1>2. chunk' \in [Threads -> Seq(Nodes)]
  BY <1>1, ShareType
<1>3. NnTypeOK'
  <2>1. nnNew' \in [Nodes -> Seq(Nodes)]
    BY <1>1
  <2> QED
    BY <1>1, <1>2, <2>1 DEF JoinInv, NnTypeOK
<1>4. PoolsOK'
  BY <1>1 DEF JoinInv, PoolsOK
<1>5. WorkOK'
  <2>1. work \in [Threads -> Seq(Nodes \X Nodes)]
    BY <1>1 DEF JoinInv, WorkOK
  <2>2. work \in [Threads -> Seq(Entries)]
    BY <1>1, <2>1
  <2> QED
    BY <1>1, <2>2 DEF WorkOK
<1> QED
  BY <1>1, <1>3, <1>4, <1>5 DEF JoinInv

(* The first entries of a sequence.                                        *)
LEMMA PrefixType ==
  ASSUME NEW T, NEW s \in Seq(T), NEW n \in 0 .. Len(s)
  PROVE  SubSeq(s, 1, n) \in Seq(T)
OBVIOUS

LEMMA MemberOf ==
  ASSUME NEW T, NEW s \in Seq(T)
  PROVE  Range(s) \subseteq T
BY DEF Range

LEMMA BeginStep ==
  ASSUME JoinInv, NEW t \in Threads, Begin(t)
  PROVE  JoinInv'
<1> DEFINE x == Head(chunk[t])
<1>1. /\ phase = "update" /\ work[t] = << >> /\ chunk[t] # << >>
      /\ UNCHANGED <<world, phase, round, pool, nnNew, nnOld, rnnNew, rnnOld, base, next, chunk, heaped, rows>>
  BY DEF Begin, lists, loop
<1>2. /\ chunk[t] \in Seq(Nodes) /\ M \in [Nodes -> 0 .. LN] /\ pool \in [Nodes -> SUBSET Entries]
      /\ work \in [Threads -> Seq(Entries)]
  BY <1>1 DEF JoinInv, NnTypeOK, WorkOK
<1>3. x \in Nodes
  BY <1>1, <1>2
<1>4. PICK s \in Sortings([e \in pool[x] |-> d(x, e.id)]) :
         /\ M' = [M EXCEPT ![x] = Extent(x, s)]
         /\ work' = [work EXCEPT ![t] = SubSeq(s, 1, M'[x])]
  BY DEF Begin
<1> HIDE DEF x
<1>5. s \in Seq(pool[x]) /\ Len(s) = Cardinality(pool[x])
  <2>1. IsFiniteSet(pool[x])
    BY <1>2, <1>3, PoolFacts
  <2>2. pool[x] = DOMAIN [e \in pool[x] |-> d(x, e.id)]
    OBVIOUS
  <2> QED
    BY <2>1, <2>2, SortingsType
<1>6. s \in Seq(Entries)
  BY <1>2, <1>3, <1>5
<1>7. Extent(x, s) \in 0 .. Len(s)
  <2>1. M[x] \in Nat
    BY <1>2, <1>3, ConstantFacts
  <2> QED
    BY <1>3, <1>6, <2>1, ExtentType
<1>8. Extent(x, s) \in 0 .. LN
  <2>1. Cardinality(pool[x]) <= LN /\ Cardinality(pool[x]) \in Nat
    BY <1>1, <1>2, <1>3, PoolFacts DEF JoinInv, PoolsOK
  <2> QED
    BY <1>5, <1>7, <2>1, ConstantFacts
<1>9. M' \in [Nodes -> 0 .. LN] /\ M'[x] = Extent(x, s)
  BY <1>2, <1>3, <1>4, <1>8
<1> DEFINE part == SubSeq(s, 1, Extent(x, s))
<1>10. part \in Seq(pool[x]) /\ part \in Seq(Entries)
  BY <1>5, <1>6, <1>7, PrefixType
<1>11. work' = [work EXCEPT ![t] = part]
  BY <1>4, <1>9
<1> HIDE DEF part
<1>12. WorkOK'
  <2>1. work' \in [Threads -> Seq(Entries)]
    BY <1>2, <1>10, <1>11
  <2>2. ASSUME NEW u \in Threads, work'[u] # << >>
        PROVE  chunk[u] # << >> /\ \A e \in Range(work'[u]) : e.id \in Ids(pool[Head(chunk[u])])
    <3>1. CASE u = t
      <4>1. work'[u] = part /\ Range(part) \subseteq pool[x]
        BY <1>2, <1>10, <1>11, <3>1, MemberOf
      <4> QED
        BY <1>1, <3>1, <4>1 DEF x, Ids
    <3>2. CASE u # t
      <4>1. work'[u] = work[u]
        BY <1>2, <1>11, <3>2
      <4> QED
        BY <1>1, <2>2, <4>1 DEF JoinInv, WorkOK
    <3> QED
      BY <3>1, <3>2
  <2>3. \A u \in Threads : work'[u] # << >> =>
          chunk'[u] # << >> /\ \A e \in Range(work'[u]) : e.id \in Ids(pool'[Head(chunk'[u])])
    BY <1>1, <2>2
  <2> QED
    BY <1>1, <2>1, <2>3 DEF WorkOK, Range, Ids
<1>13. NnTypeOK'
  BY <1>1, <1>9 DEF JoinInv, NnTypeOK
<1>14. PoolsOK'
  BY <1>1 DEF JoinInv, PoolsOK
<1> QED
  BY <1>1, <1>12, <1>13, <1>14 DEF JoinInv

(* An entry of a pool, or what was one, is marked as old.                  *)
LEMMA Marked ==
  ASSUME NEW P \in SUBSET Entries, NEW e \in Entries, e.flag, e.id \in Ids(P),
         \A f, g \in P : f.id = g.id => f = g,
         NEW Q, Q = (P \ {e}) \cup {[id |-> e.id, flag |-> FALSE]}
  PROVE  /\ Q \in SUBSET Entries /\ Q # {}
         /\ Ids(Q) = Ids(P)
         /\ \A f, g \in Q : f.id = g.id => f = g
         /\ Cardinality(Q) = Cardinality(P)
<1> DEFINE n == [id |-> e.id, flag |-> FALSE]
<1>1. n \in Entries /\ n.id = e.id /\ n.flag = FALSE
  BY DEF Entries
<1>2. \A f \in Entries : f.id = e.id => f = e \/ f = n
  <2> SUFFICES ASSUME NEW f \in Entries, f.id = e.id PROVE f = e \/ f = n
    OBVIOUS
  <2>0. \A g \in Entries : g = [id |-> g.id, flag |-> g.flag] /\ g.flag \in BOOLEAN
    BY DEF Entries
  <2> HIDE DEF n
  <2>1. /\ f = [id |-> f.id, flag |-> f.flag] /\ e = [id |-> e.id, flag |-> e.flag]
        /\ n = [id |-> n.id, flag |-> n.flag] /\ f.flag \in BOOLEAN /\ e.flag \in BOOLEAN
    BY <1>1, <2>0
  <2>2. CASE f.flag = TRUE
    <3>1. e.flag = TRUE
      BY <2>1
    <3> QED
      BY <2>1, <2>2, <3>1
  <2>3. CASE f.flag = FALSE
    <3> HIDE DEF n
    <3> QED
      BY <1>1, <2>1, <2>3
  <2> QED
    BY <2>1, <2>2, <2>3
<1>3. Q = (P \ {e}) \cup {n}
  OBVIOUS
<1> HIDE DEF n
<1>4. Q \in SUBSET Entries /\ Q # {}
  BY <1>1, <1>3
<1>5. \A f \in Q : f = n \/ (f \in P /\ f # e)
  BY <1>3
<1>6. \A f, g \in Q : f.id = g.id => f = g
  <2> SUFFICES ASSUME NEW f \in Q, NEW g \in Q, f.id = g.id PROVE f = g
    OBVIOUS
  <2>1. f \in Entries /\ g \in Entries
    BY <1>4
  <2> QED
    BY <1>1, <1>2, <1>5, <2>1
<1>7. Ids(Q) = Ids(P)
  <2>1. ASSUME NEW f \in Q PROVE f.id \in Ids(P)
    BY <1>1, <1>5 DEF Ids
  <2>2. ASSUME NEW f \in P PROVE f.id \in Ids(Q)
    <3>1. CASE f = e
      BY <1>1, <1>3, <3>1 DEF Ids
    <3>2. CASE f # e
      BY <1>3, <3>2 DEF Ids
    <3> QED
      BY <3>1, <3>2
  <2> QED
    BY <2>1, <2>2 DEF Ids
<1>8. Cardinality(Q) = Cardinality(P)
  BY <1>4, <1>6, <1>7, PoolFacts
<1> QED
  BY <1>4, <1>6, <1>7, <1>8

(* A reverse list stays a list of nodes.                                   *)
LEMMA ReversedType ==
  ASSUME NEW list \in Seq(Nodes), NEW x \in Nodes
  PROVE  \A r \in Reversed(list, x) : r \in Seq(Nodes)
<1>1. \A i \in 1 .. RN : [list EXCEPT ![i] = x] \in Seq(Nodes)
  <2> DEFINE n == Len(list)
  <2>1. n \in Nat /\ list \in [1 .. n -> Nodes]
    OBVIOUS
  <2> HIDE DEF n
  <2>2. \A i : [list EXCEPT ![i] = x] \in [1 .. n -> Nodes]
    BY <2>1
  <2> QED
    BY <2>1, <2>2, AsSeq
<1>2. Append(list, x) \in Seq(Nodes)
  OBVIOUS
<1> QED
  BY <1>1, <1>2 DEF Reversed

(* What Introduce changes.                                                 *)
LEMMA IntroduceFacts ==
  ASSUME JoinInv, NEW t \in Threads, Introduce(t)
  PROVE  /\ phase = "update" /\ work[t] # << >> /\ chunk[t] # << >>
         /\ UNCHANGED <<world, phase, round, M, base, next, rows>>
         /\ work' = [work EXCEPT ![t] = Tail(work[t])]
         /\ Head(chunk[t]) \in Nodes /\ Head(work[t]) \in Entries
         /\ Head(work[t]).id \in Ids(pool[Head(chunk[t])])
         /\ \/ pool' = pool
            \/ /\ Head(work[t]).flag
               /\ pool' = [pool EXCEPT ![Head(chunk[t])] =
                             (pool[Head(chunk[t])] \ {Head(work[t])}) \cup {[id |-> Head(work[t]).id, flag |-> FALSE]}]
         /\ nnNew' \in [Nodes -> Seq(Nodes)] /\ nnOld' \in [Nodes -> Seq(Nodes)]
         /\ rnnNew' \in [Nodes -> Seq(Nodes)] /\ rnnOld' \in [Nodes -> Seq(Nodes)]
         /\ work'[t] # << >> => chunk' = chunk
         /\ chunk' = chunk \/ chunk' = [chunk EXCEPT ![t] = Tail(chunk[t])]
         /\ heaped' \subseteq Nodes
<1> DEFINE x == Head(chunk[t])
           e == Head(work[t])
<1>1. /\ phase = "update" /\ work[t] # << >>
      /\ UNCHANGED <<world, phase, round, M, base, next, rows>>
  BY DEF Introduce
<1>2. /\ work \in [Threads -> Seq(Entries)] /\ chunk \in [Threads -> Seq(Nodes)]
      /\ chunk[t] # << >> /\ \A f \in Range(work[t]) : f.id \in Ids(pool[x])
      /\ pool \in [Nodes -> SUBSET Entries] /\ heaped \subseteq Nodes
      /\ nnNew \in [Nodes -> Seq(Nodes)] /\ nnOld \in [Nodes -> Seq(Nodes)]
      /\ rnnNew \in [Nodes -> Seq(Nodes)] /\ rnnOld \in [Nodes -> Seq(Nodes)]
  BY <1>1 DEF JoinInv, NnTypeOK, WorkOK
<1>3. x \in Nodes
  BY <1>2
<1>4. e \in Entries /\ e \in Range(work[t])
  BY <1>1, <1>2, HeadOrTail
<1>5. e.id \in Ids(pool[x]) /\ e.id \in Nodes
  BY <1>2, <1>4 DEF Entries
<1>6. work' = [work EXCEPT ![t] = Tail(work[t])]
  BY <1>2 DEF Introduce
<1>7. /\ IF work'[t] = << >>
         THEN /\ chunk' = [chunk EXCEPT ![t] = Tail(chunk[t])]
              /\ heaped' = heaped \cup {x}
         ELSE UNCHANGED <<chunk, heaped>>
  BY <1>2 DEF Introduce
<1>8. /\ work'[t] # << >> => chunk' = chunk
      /\ chunk' = chunk \/ chunk' = [chunk EXCEPT ![t] = Tail(chunk[t])]
      /\ heaped' \subseteq Nodes
  BY <1>2, <1>3, <1>7
<1>9. PICK back \in Backs(e.id) :
         IF e.flag
         THEN /\ nnNew' = [nnNew EXCEPT ![x] = Append(@, e.id)]
              /\ IF d(x, e.id) > back
                 THEN \E r \in Reversed(rnnNew[e.id], x) : rnnNew' = [rnnNew EXCEPT ![e.id] = r]
                 ELSE rnnNew' = rnnNew
              /\ pool' = [pool EXCEPT ![x] = (@ \ {e}) \cup {[id |-> e.id, flag |-> FALSE]}]
              /\ UNCHANGED <<nnOld, rnnOld>>
         ELSE /\ nnOld' = [nnOld EXCEPT ![x] = Append(@, e.id)]
              /\ IF d(x, e.id) > back
                 THEN \E r \in Reversed(rnnOld[e.id], x) : rnnOld' = [rnnOld EXCEPT ![e.id] = r]
                 ELSE rnnOld' = rnnOld
              /\ UNCHANGED <<nnNew, rnnNew, pool>>
  BY DEF Introduce
<1> HIDE DEF x, e
<1>10. /\ [nnNew EXCEPT ![x] = Append(@, e.id)] \in [Nodes -> Seq(Nodes)]
       /\ [nnOld EXCEPT ![x] = Append(@, e.id)] \in [Nodes -> Seq(Nodes)]
  <2>1. Append(nnNew[x], e.id) \in Seq(Nodes) /\ Append(nnOld[x], e.id) \in Seq(Nodes)
    <3>1. nnNew[x] \in Seq(Nodes) /\ nnOld[x] \in Seq(Nodes)
      BY <1>2, <1>3
    <3> QED
      BY <1>5, <3>1
  <2> QED
    BY <1>2, <1>3, <2>1
<1>11. /\ \A r \in Reversed(rnnNew[e.id], x) : [rnnNew EXCEPT ![e.id] = r] \in [Nodes -> Seq(Nodes)]
       /\ \A r \in Reversed(rnnOld[e.id], x) : [rnnOld EXCEPT ![e.id] = r] \in [Nodes -> Seq(Nodes)]
  <2>1. rnnNew[e.id] \in Seq(Nodes) /\ rnnOld[e.id] \in Seq(Nodes)
    BY <1>2, <1>5
  <2>2. /\ \A r \in Reversed(rnnNew[e.id], x) : r \in Seq(Nodes)
        /\ \A r \in Reversed(rnnOld[e.id], x) : r \in Seq(Nodes)
    BY <1>3, <2>1, ReversedType
  <2> QED
    BY <1>2, <1>5, <2>2
<1>12. CASE e.flag
  <2>1. nnNew' \in [Nodes -> Seq(Nodes)] /\ nnOld' = nnOld /\ rnnOld' = rnnOld
    BY <1>9, <1>10, <1>12
  <2>2. rnnNew' \in [Nodes -> Seq(Nodes)]
    <3>1. \/ \E r \in Reversed(rnnNew[e.id], x) : rnnNew' = [rnnNew EXCEPT ![e.id] = r]
          \/ rnnNew' = rnnNew
      BY <1>9, <1>12
    <3>2. CASE rnnNew' = rnnNew
      BY <1>2, <3>2
    <3>3. ASSUME NEW r \in Reversed(rnnNew[e.id], x), rnnNew' = [rnnNew EXCEPT ![e.id] = r]
          PROVE  rnnNew' \in [Nodes -> Seq(Nodes)]
      BY <1>11, <3>3
    <3> QED
      BY <3>1, <3>2, <3>3
  <2>3. pool' = [pool EXCEPT ![x] = (pool[x] \ {e}) \cup {[id |-> e.id, flag |-> FALSE]}]
    BY <1>2, <1>3, <1>9, <1>12
  <2> QED
    BY <1>1, <1>2, <1>3, <1>4, <1>5, <1>6, <1>8, <1>12, <2>1, <2>2, <2>3 DEF x, e
<1>13. CASE ~ e.flag
  <2>1. nnOld' \in [Nodes -> Seq(Nodes)] /\ nnNew' = nnNew /\ rnnNew' = rnnNew /\ pool' = pool
    BY <1>9, <1>10, <1>13
  <2>2. rnnOld' \in [Nodes -> Seq(Nodes)]
    <3>1. \/ \E r \in Reversed(rnnOld[e.id], x) : rnnOld' = [rnnOld EXCEPT ![e.id] = r]
          \/ rnnOld' = rnnOld
      BY <1>9, <1>13
    <3>2. CASE rnnOld' = rnnOld
      BY <1>2, <3>2
    <3>3. ASSUME NEW r \in Reversed(rnnOld[e.id], x), rnnOld' = [rnnOld EXCEPT ![e.id] = r]
          PROVE  rnnOld' \in [Nodes -> Seq(Nodes)]
      BY <1>11, <3>3
    <3> QED
      BY <3>1, <3>2, <3>3
  <2> QED
    BY <1>1, <1>2, <1>3, <1>4, <1>5, <1>6, <1>8, <2>1, <2>2 DEF x, e
<1> QED
  BY <1>12, <1>13

LEMMA IntroduceStep ==
  ASSUME JoinInv, NEW t \in Threads, Introduce(t)
  PROVE  JoinInv'
<1> DEFINE x == Head(chunk[t])
           e == Head(work[t])
<1>1. /\ phase = "update" /\ work[t] # << >> /\ chunk[t] # << >>
      /\ UNCHANGED <<world, phase, round, M, base, next, rows>>
      /\ work' = [work EXCEPT ![t] = Tail(work[t])]
      /\ x \in Nodes /\ e \in Entries /\ e.id \in Ids(pool[x])
      /\ pool' = pool \/ (e.flag /\ pool' = [pool EXCEPT ![x] = (pool[x] \ {e}) \cup {[id |-> e.id, flag |-> FALSE]}])
      /\ nnNew' \in [Nodes -> Seq(Nodes)] /\ nnOld' \in [Nodes -> Seq(Nodes)]
      /\ rnnNew' \in [Nodes -> Seq(Nodes)] /\ rnnOld' \in [Nodes -> Seq(Nodes)]
      /\ work'[t] # << >> => chunk' = chunk
      /\ chunk' = chunk \/ chunk' = [chunk EXCEPT ![t] = Tail(chunk[t])]
      /\ heaped' \subseteq Nodes
  BY IntroduceFacts
<1>2. /\ work \in [Threads -> Seq(Entries)] /\ chunk \in [Threads -> Seq(Nodes)]
      /\ \A u \in Threads : work[u] # << >> =>
           chunk[u] # << >> /\ \A f \in Range(work[u]) : f.id \in Ids(pool[Head(chunk[u])])
      /\ pool \in [Nodes -> SUBSET Entries] /\ base \in [Nodes -> SUBSET Entries]
      /\ \A y \in Nodes : /\ pool[y] # {} /\ base[y] # {} /\ Cardinality(pool[y]) <= LN
                          /\ \A f, g \in pool[y] : f.id = g.id => f = g
  BY <1>1 DEF JoinInv, NnTypeOK, WorkOK, PoolsOK
<1> HIDE DEF x, e
<1>3. /\ pool' \in [Nodes -> SUBSET Entries]
      /\ \A y \in Nodes : /\ pool'[y] # {} /\ Cardinality(pool'[y]) <= LN
                          /\ \A f, g \in pool'[y] : f.id = g.id => f = g
                          /\ Ids(pool'[y]) = Ids(pool[y])
  <2>1. CASE pool' = pool
    BY <1>2, <2>1
  <2>2. CASE e.flag /\ pool' = [pool EXCEPT ![x] = (pool[x] \ {e}) \cup {[id |-> e.id, flag |-> FALSE]}]
    <3> DEFINE P == pool[x]
               Q == (P \ {e}) \cup {[id |-> e.id, flag |-> FALSE]}
    <3>1. P \in SUBSET Entries /\ (\A f, g \in P : f.id = g.id => f = g) /\ Cardinality(P) <= LN
      BY <1>1, <1>2
    <3>2. pool' = [pool EXCEPT ![x] = Q] /\ e.id \in Ids(P)
      BY <1>1, <2>2
    <3>3. /\ Q \in SUBSET Entries /\ Q # {}
          /\ Ids(Q) = Ids(P)
          /\ \A f, g \in Q : f.id = g.id => f = g
          /\ Cardinality(Q) = Cardinality(P)
      <4> HIDE DEF P
      <4> QED
        BY <1>1, <2>2, <3>1, <3>2, Marked
    <3> HIDE DEF Q
    <3>4. \A y \in Nodes : pool'[y] = IF y = x THEN Q ELSE pool[y]
      BY <1>2, <3>2
    <3> QED
      BY <1>1, <1>2, <3>1, <3>2, <3>3, <3>4
  <2> QED
    BY <1>1, <2>1, <2>2
<1>4. Tail(work[t]) \in Seq(Entries) /\ Range(Tail(work[t])) \subseteq Range(work[t])
  BY <1>1, <1>2, HeadOrTail
<1>5. WorkOK'
  <2>1. work' \in [Threads -> Seq(Entries)]
    BY <1>1, <1>2, <1>4
  <2>5. ASSUME NEW u \in Threads, u # t PROVE chunk'[u] = chunk[u]
    BY <1>1, <1>2, <2>5
  <2>2. ASSUME NEW u \in Threads, work'[u] # << >>
        PROVE  chunk'[u] # << >> /\ \A f \in Range(work'[u]) : f.id \in Ids(pool'[Head(chunk'[u])])
    <3>1. Range(work'[u]) \subseteq Range(work[u]) /\ work[u] # << >>
      BY <1>1, <1>2, <1>4, <2>2
    <3>2. chunk'[u] = chunk[u]
      <4>1. CASE u = t
        BY <1>1, <2>2, <4>1
      <4>2. CASE u # t
        BY <2>5, <4>2
      <4> QED
        BY <4>1, <4>2
    <3>3. chunk[u] # << >> /\ \A f \in Range(work[u]) : f.id \in Ids(pool[Head(chunk[u])])
      BY <1>2, <3>1
    <3>4. Head(chunk[u]) \in Nodes
      BY <1>2, <3>3
    <3> QED
      BY <1>3, <3>1, <3>2, <3>3, <3>4
  <2> QED
    BY <1>1, <2>1, <2>2 DEF WorkOK, Range, Ids
<1>6. NnTypeOK'
  <2>1. chunk' \in [Threads -> Seq(Nodes)]
    <3>1. chunk[t] \in Seq(Nodes) /\ chunk[t] # << >>
      BY <1>1, <1>2
    <3>2. Tail(chunk[t]) \in Seq(Nodes)
      BY <3>1
    <3>3. chunk' = chunk \/ chunk' = [chunk EXCEPT ![t] = Tail(chunk[t])]
      BY <1>1
    <3> QED
      BY <1>2, <3>2, <3>3
  <2> QED
    BY <1>1, <1>3, <2>1 DEF JoinInv, NnTypeOK
<1>7. PoolsOK'
  BY <1>1, <1>2, <1>3 DEF PoolsOK
<1> QED
  BY <1>1, <1>5, <1>6, <1>7 DEF JoinInv

LEMMA MergeStep ==
  ASSUME JoinInv, Merge
  PROVE  JoinInv'
<1> DEFINE all(x) == nnOld[x] \o rnnOld[x]
           upto(x) == IF Len(all(x)) > 2 * RN THEN 2 * RN ELSE Len(all(x))
<1>1. /\ phase = "update" /\ round < Iter /\ \A t \in Threads : chunk[t] = << >>
      /\ nnNew' = [x \in Nodes |-> nnNew[x] \o rnnNew[x]]
      /\ nnOld' = [x \in Nodes |-> SubSeq(all(x), 1, upto(x))]
      /\ rnnNew' = [x \in Nodes |-> << >>] /\ rnnOld' = rnnNew'
      /\ base' = pool
      /\ phase' = "join" /\ round' = round + 1
      /\ next' = 0
      /\ heaped' = {}
      /\ UNCHANGED <<world, pool, M, chunk, work, rows>>
  BY DEF Merge, Renewed
<1>2. /\ work \in [Threads -> Seq(Entries)]
      /\ \A t \in Threads : work[t] = << >>
      /\ pool \in [Nodes -> SUBSET Entries] /\ \A x \in Nodes : pool[x] # {}
      /\ nnNew \in [Nodes -> Seq(Nodes)] /\ nnOld \in [Nodes -> Seq(Nodes)]
      /\ rnnNew \in [Nodes -> Seq(Nodes)] /\ rnnOld \in [Nodes -> Seq(Nodes)]
      /\ round \in 1 .. Iter
  BY <1>1 DEF JoinInv, NnTypeOK, WorkOK, PoolsOK
<1>3. /\ \A x \in Nodes : all(x) \in Seq(Nodes) /\ nnNew[x] \o rnnNew[x] \in Seq(Nodes)
      /\ rnnNew' \in [Nodes -> Seq(Nodes)]
  BY <1>1, <1>2
<1>4. \A x \in Nodes : SubSeq(all(x), 1, upto(x)) \in Seq(Nodes)
  <2> SUFFICES ASSUME NEW x \in Nodes PROVE SubSeq(all(x), 1, upto(x)) \in Seq(Nodes)
    OBVIOUS
  <2>1. all(x) \in Seq(Nodes)
    BY <1>3
  <2> HIDE DEF all
  <2>2. upto(x) \in 0 .. Len(all(x))
    BY <2>1, ConstantFacts
  <2> HIDE DEF upto
  <2> QED
    BY <2>1, <2>2, PrefixType
<1>5. nnNew' \in [Nodes -> Seq(Nodes)] /\ nnOld' \in [Nodes -> Seq(Nodes)]
  <2> HIDE DEF all, upto
  <2> QED
    BY <1>1, <1>3, <1>4
<1>6. NnTypeOK'
  <2>1. round' \in 1 .. Iter /\ next' \in 0 .. Size
    BY <1>1, <1>2, ConstantFacts
  <2> QED
    BY <1>1, <1>3, <1>5, <2>1 DEF JoinInv, NnTypeOK
<1>7. PoolsOK'
  BY <1>1, <1>2 DEF JoinInv, PoolsOK
<1>8. WorkOK'
  <2>1. work \in [Threads -> Seq(Nodes \X Nodes)]
    BY <1>2
  <2>2. \A t \in Threads : Range(work'[t]) = {}
    BY <1>1, <1>2 DEF Range
  <2> QED
    BY <1>1, <2>1, <2>2 DEF WorkOK
<1>9. (next = 0 /\ base = pool)' => (\A x \in Nodes : JoinAt(x))'
  BY JoinBegins, PTL
<1>10. \A x \in Nodes : JoinAt(x)'
  BY <1>1, <1>9
<1> QED
  BY <1>1, <1>6, <1>7, <1>8, <1>10 DEF JoinInv

(* The function that Rows is.                                              *)
Longer(A, n) == {Append(all, r) : all \in A, r \in Row(n - 1)}

RowsTo(F, m) == F = [n \in 0 .. m |-> IF n = 0 THEN {<< >>} ELSE Longer(F[n - 1], n)]

LEMMA RowsExist ==
  ASSUME NEW m \in Nat
  PROVE  \E F : RowsTo(F, m)
<1> DEFINE B == {k \in Nat : ~ \E F : RowsTo(F, k)}
<1>1. B = {}
  <2> SUFFICES ASSUME B # {} PROVE FALSE
    OBVIOUS
  <2>1. PICK k \in B : \A j \in B : k <= j
    <3>1. B \in SUBSET Nat
      OBVIOUS
    <3> HIDE DEF B
    <3> QED
      BY <3>1, LeastNumber
  <2>2. CASE k = 0
    <3>1. RowsTo([n \in 0 .. 0 |-> {<< >>}], 0)
      <4>1. \A n \in 0 .. 0 : n = 0
        OBVIOUS
      <4> QED
        BY <4>1 DEF RowsTo
    <3> QED
      BY <2>1, <2>2, <3>1
  <2>3. CASE k # 0
    <3>1. k \in Nat /\ k - 1 \in Nat /\ k - 1 \notin B
      <4>1. k \in Nat
        BY <2>1
      <4>2. k - 1 \in Nat /\ ~ (k <= k - 1)
        BY <4>1, <2>3
      <4> HIDE DEF B
      <4> QED
        BY <2>1, <4>1, <4>2
    <3>2. PICK F : RowsTo(F, k - 1)
      BY <3>1
    <3>3. \A n \in 0 .. k - 1 : F[n] = IF n = 0 THEN {<< >>} ELSE Longer(F[n - 1], n)
      BY <3>2 DEF RowsTo
    <3> DEFINE G == [n \in 0 .. k |-> IF n \in 0 .. k - 1 THEN F[n] ELSE Longer(F[n - 1], n)]
    <3>4. \A n \in 0 .. k : G[n] = IF n = 0 THEN {<< >>} ELSE Longer(G[n - 1], n)
      <4> SUFFICES ASSUME NEW n \in 0 .. k
                   PROVE  G[n] = IF n = 0 THEN {<< >>} ELSE Longer(G[n - 1], n)
        OBVIOUS
      <4>1. n = 0 => n \in 0 .. k - 1
        BY <3>1
      <4>2. G[n] = IF n = 0 THEN {<< >>} ELSE Longer(F[n - 1], n)
        BY <3>3, <4>1
      <4>3. n # 0 => n - 1 \in 0 .. k /\ n - 1 \in 0 .. k - 1
        BY <3>1
      <4>4. n # 0 => G[n - 1] = F[n - 1]
        BY <4>3
      <4> HIDE DEF G
      <4> QED
        BY <4>2, <4>4
    <3>5. G = [n \in 0 .. k |-> G[n]]
      OBVIOUS
    <3> HIDE DEF G
    <3>6. RowsTo(G, k)
      BY <3>4, <3>5 DEF RowsTo
    <3> QED
      BY <2>1, <3>6
  <2> QED
    BY <2>2, <2>3
<1> QED
  BY <1>1

(* A row is a list of nodes, where the pool has enough of them.            *)
LEMMA RowType ==
  ASSUME NEW x \in Nodes, pool[x] \in SUBSET Entries, Cardinality(pool[x]) >= K,
         \A e, f \in pool[x] : e.id = f.id => e = f
  PROVE  \A r \in Row(x) : r \in Seq(Nodes)
<1> DEFINE T == Ids(pool[x])
           dist == [y \in T |-> d(x, y)]
<1>1. IsFiniteSet(T) /\ T \subseteq Nodes /\ Cardinality(T) >= K /\ Cardinality(T) \in Nat
  BY PoolFacts
<1> HIDE DEF T
<1>2. T = DOMAIN dist
  OBVIOUS
<1> HIDE DEF dist
<1>3. \A s \in Sortings(dist) : s \in Seq(T) /\ Len(s) = Cardinality(T)
  BY <1>1, <1>2, SortingsType
<1>4. ASSUME NEW s \in Sortings(dist) PROVE SubSeq(s, 1, K) \in Seq(Nodes)
  <2>1. s \in Seq(Nodes)
    <3>1. s \in Seq(T)
      BY <1>3
    <3> QED
      BY <1>1, <3>1
  <2>2. K \in 0 .. Len(s)
    BY <1>1, <1>3, ConstantFacts
  <2> QED
    BY <2>1, <2>2, PrefixType
<1>5. Row(x) = {SubSeq(s, 1, K) : s \in Sortings(dist)}
  BY DEF Row, dist, T
<1> QED
  BY <1>4, <1>5

LEMMA RowsType ==
  ASSUME \A x \in Nodes : \A r \in Row(x) : r \in Seq(Nodes)
  PROVE  \A all \in Rows[Size] : all \in Seq(Seq(Nodes)) /\ Len(all) = Size
<1> DEFINE m == Size
           F == CHOOSE G : RowsTo(G, m)
           T == Seq(Nodes)
<1>1. m \in Nat
  BY ConstantFacts
<1>2. Rows = F
  BY DEF Rows, RowsTo, Longer
<1>9. \A n \in 1 .. m : \A r \in Row(n - 1) : r \in T
  BY <1>1 DEF Nodes
<1> HIDE DEF m, T
<1>3. RowsTo(F, m)
  BY <1>1, RowsExist
<1> HIDE DEF F
<1> DEFINE B == {n \in Nat : n <= m /\ ~ \A s \in F[n] : s \in Seq(T) /\ Len(s) = n}
<1>4. B = {}
  <2> SUFFICES ASSUME B # {} PROVE FALSE
    OBVIOUS
  <2>1. PICK n \in B : \A j \in B : n <= j
    <3>1. B \in SUBSET Nat
      OBVIOUS
    <3> HIDE DEF B
    <3> QED
      BY <3>1, LeastNumber
  <2>2. n \in Nat /\ n <= m /\ n \in 0 .. m
    BY <1>1, <2>1
  <2>3. PICK s \in F[n] : ~ (s \in Seq(T) /\ Len(s) = n)
    BY <2>1
  <2>4. CASE n = 0
    <3>1. F[n] = {<< >>}
      BY <1>3, <2>2, <2>4 DEF RowsTo
    <3>2. << >> \in Seq(T) /\ Len(<< >>) = 0
      OBVIOUS
    <3> QED
      BY <2>3, <2>4, <3>1, <3>2
  <2>5. CASE n # 0
    <3>1. n - 1 \in Nat /\ n - 1 <= m /\ ~ (n <= n - 1) /\ n - 1 + 1 = n /\ n \in 1 .. m
      BY <1>1, <2>2, <2>5
    <3>2. n - 1 \notin B
      <4> HIDE DEF B
      <4> QED
        BY <2>1, <3>1
    <3>3. \A r \in F[n - 1] : r \in Seq(T) /\ Len(r) = n - 1
      BY <3>1, <3>2
    <3>4. PICK p \in F[n - 1], r \in Row(n - 1) : s = Append(p, r)
      <4>1. F[n] = {Append(p, r) : p \in F[n - 1], r \in Row(n - 1)}
        <5>1. F[n] = Longer(F[n - 1], n)
          BY <1>3, <2>2, <2>5 DEF RowsTo
        <5> QED
          BY <5>1 DEF Longer
      <4> QED
        BY <2>3, <4>1
    <3>5. p \in Seq(T) /\ Len(p) = n - 1 /\ r \in T
      BY <1>9, <3>1, <3>3
    <3>6. Append(p, r) \in Seq(T) /\ Len(Append(p, r)) = Len(p) + 1
      BY <3>5
    <3> QED
      BY <2>3, <3>1, <3>4, <3>5, <3>6
  <2> QED
    BY <2>4, <2>5
<1>5. m <= m
  BY <1>1
<1> QED
  BY <1>1, <1>2, <1>4, <1>5 DEF m, T

LEMMA BuildStep ==
  ASSUME JoinInv, Build
  PROVE  JoinInv'
<1>1. /\ phase = "update" /\ phase' \in {"built", "overrun"}
      /\ pool' = [x \in Nodes |-> {}]
      /\ M' = [x \in Nodes |-> 0]
      /\ nnNew' = [x \in Nodes |-> << >>]
      /\ nnOld' = nnNew' /\ rnnNew' = nnNew' /\ rnnOld' = nnNew'
      /\ UNCHANGED <<world, round, next, chunk, work, heaped>>
  BY DEF Build, Renewed, loop
<1>2. rows' \in [Nodes -> Seq(Nodes)]
  <2>1. CASE \A x \in Nodes : Cardinality(pool[x]) >= K
    <3>1. PICK all \in Rows[Size] : rows' = [x \in Nodes |-> all[x + 1]]
      BY <2>1 DEF Build
    <3>2. \A x \in Nodes : \A r \in Row(x) : r \in Seq(Nodes)
      BY <1>1, <2>1, RowType DEF JoinInv, NnTypeOK, PoolsOK
    <3>3. all \in Seq(Seq(Nodes)) /\ Len(all) = Size
      BY <3>2, RowsType
    <3>4. \A x \in Nodes : x + 1 \in 1 .. Size
      BY ConstantFacts DEF Nodes
    <3>5. \A x \in Nodes : all[x + 1] \in Seq(Nodes)
      BY <3>3, <3>4
    <3> QED
      BY <3>1, <3>5
  <2>2. CASE ~ \A x \in Nodes : Cardinality(pool[x]) >= K
    BY <2>2 DEF Build, JoinInv, NnTypeOK
  <2> QED
    BY <2>1, <2>2
<1>3. NnTypeOK'
  <2>1. /\ pool' \in [Nodes -> SUBSET Entries] /\ M' \in [Nodes -> 0 .. LN]
        /\ nnNew' \in [Nodes -> Seq(Nodes)]
    BY <1>1, ConstantFacts
  <2> QED
    BY <1>1, <1>2, <2>1 DEF JoinInv, NnTypeOK
<1> QED
  BY <1>1, <1>3 DEF JoinInv, PoolsOK, WorkOK

(* The construction of the NSG leaves all of this alone.                   *)
LEMMA NnStutter ==
  ASSUME JoinInv, UNCHANGED nnVars
  PROVE  JoinInv'
<1>1. UNCHANGED <<world, phase, round, pool, M, nnNew, nnOld, rnnNew, rnnOld, base, next, chunk, work, heaped, rows>>
  BY DEF nnVars, lists, loop
<1>2. NnTypeOK' /\ PoolsOK'
  BY <1>1 DEF JoinInv, NnTypeOK, PoolsOK
<1>3. WorkOK'
  <2>1. Offers(Nodes)' = Offers(Nodes)
    BY <1>1, SameOffers
  <2> QED
    BY <1>1, <2>1 DEF JoinInv, WorkOK
<1>4. Pending \subseteq Pending'
  <2>1. \A n : Inserts(n)' = Inserts(n)
    BY <1>1, SameOffers
  <2> QED
    BY <1>1, <2>1 DEF Pending, Offers, Range
<1>5. phase' = "join" => \A x \in Nodes : JoinAt(x)'
  BY <1>1, <1>4, JoinAtKept DEF JoinInv
<1> QED
  BY <1>2, <1>3, <1>5 DEF JoinInv

LEMMA StepInv ==
  ASSUME JoinInv, [Next]_vars
  PROVE  JoinInv'
<1>1. ASSUME NEW t \in Threads, NnStep(t) PROVE JoinInv'
  BY <1>1, TakeStep, InsertStep, BeginStep, IntroduceStep DEF NnStep
<1>2. CASE NnMain
  BY <1>2, ClearStep, MergeStep, BuildStep DEF NnMain
<1>3. CASE UNCHANGED nnVars
  BY <1>3, NnStutter
<1> QED
  BY <1>1, <1>2, <1>3 DEF Next, NnNext, vars

-------------------------------------------------------------------------------
(* What the invariant says when a join is over.                            *)
LEMMA InvImplies == JoinInv => JoinExact
<1> SUFFICES ASSUME JoinInv, Joined, NEW x \in Nodes
             PROVE  LET all == Wanted(x, Offers(Nodes))
                        now == Ids(pool[x])
                    IN /\ now \subseteq all
                       /\ Cardinality(now) = IF Cardinality(all) > LN THEN LN ELSE Cardinality(all)
                       /\ \A y \in all \ now, z \in now : d(x, z) <= d(x, y)
  BY DEF JoinExact
<1> DEFINE all == Wanted(x, Offers(Nodes))
           now == Ids(pool[x])
<1>1. Introduced(x, Pending) = {}
  <2>1. Untaken = {}
    <3>1. \A n \in Nodes : ~ (n >= next)
      BY ConstantFacts DEF Joined, Nodes
    <3>2. \A t \in Threads : Range(chunk[t]) = {}
      BY DEF Joined, Range
    <3> QED
      BY <3>1, <3>2 DEF Untaken
  <2>2. \A t \in Threads : Range(work[t]) = {}
    BY DEF Joined, Range
  <2>3. Pending = {}
    BY <2>1, <2>2, PendingIs DEF Offers
  <2> QED
    BY <2>3 DEF Introduced
<1>2. /\ now \subseteq all
      /\ \A y \in all \ now : Cardinality(pool[x]) = LN /\ \A z \in now : d(x, z) <= d(x, y)
  BY <1>1 DEF Joined, JoinInv, JoinAt, Settled, d
<1>3. /\ pool[x] \in SUBSET Entries /\ base[x] \in SUBSET Entries
      /\ \A e, f \in pool[x] : e.id = f.id => e = f
      /\ Cardinality(pool[x]) <= LN
      /\ Offers(Nodes) \subseteq Nodes \X Nodes
  BY OffersType DEF Joined, JoinInv, NnTypeOK, PoolsOK
<1>4. Cardinality(now) = Cardinality(pool[x]) /\ Cardinality(now) \in Nat
  BY <1>3, PoolFacts
<1>5. IsFiniteSet(all) /\ Cardinality(all) \in Nat
  <2>1. Ids(base[x]) \subseteq Nodes
    BY <1>3, PoolFacts
  <2>2. Introduced(x, Offers(Nodes)) \subseteq Nodes
    <3>1. \A y \in Introduced(x, Offers(Nodes)) : <<x, y>> \in Nodes \X Nodes
      BY <1>3, IntroducedIs
    <3> QED
      BY <3>1
  <2>3. all \subseteq Nodes
    BY <2>1, <2>2 DEF Wanted
  <2> HIDE DEF all
  <2> QED
    BY <2>3, NodesFinite, FS_Subset, FS_CardinalityType
<1>6. Cardinality(now) <= Cardinality(all)
  BY <1>2, <1>5, FS_Subset
<1>7. CASE all \subseteq now
  <2>1. all = now
    BY <1>2, <1>7
  <2> QED
    BY <1>2, <1>3, <1>4, <2>1, ConstantFacts
<1>8. CASE ~ (all \subseteq now)
  <2>1. Cardinality(pool[x]) = LN
    BY <1>2, <1>8
  <2>2. Cardinality(now) = IF Cardinality(all) > LN THEN LN ELSE Cardinality(all)
    <3> HIDE DEF all, now
    <3> QED
      BY <1>4, <1>5, <1>6, <2>1, ConstantFacts
  <2> QED
    BY <1>2, <2>2
<1> QED
  BY <1>7, <1>8

(* However the threads interleave, a round's join leaves in every pool the *)
(* nearest of what it held and of the nodes introduced to it.              *)
THEOREM ExactJoin == Spec => []JoinExact
<1>1. Init => JoinInv
  BY InitInv DEF Init
<1>2. JoinInv /\ [Next]_vars => JoinInv'
  BY StepInv
<1>3. JoinInv => JoinExact
  BY InvImplies
<1> QED
  BY <1>1, <1>2, <1>3, PTL DEF Spec

(* A sequence whose elements differ and ascend by dist.                    *)
Ascending(s, dist) ==
  \A i, j \in 1 .. Len(s) : i < j => s[i] # s[j] /\ dist[s[i]] <= dist[s[j]]

(* A sorted sequence takes an element that is not nearer than its others.  *)
LEMMA AscendingAppend ==
  ASSUME NEW T, NEW dist, NEW r \in Seq(T), NEW a \in T, a \notin Range(r),
         Ascending(r, dist), \A i \in 1 .. Len(r) : dist[r[i]] <= dist[a]
  PROVE  Ascending(Append(r, a), dist)
<1> DEFINE n == Len(r)
           s == Append(r, a)
<1>1. n \in Nat /\ Len(s) = n + 1 /\ s[n + 1] = a /\ \A i \in 1 .. n : s[i] = r[i] /\ i \in DOMAIN r
  OBVIOUS
<1>2. \A i \in 1 .. n : r[i] # a
  BY <1>1 DEF Range
<1> HIDE DEF s
<1>3. ASSUME NEW i \in 1 .. n + 1, NEW j \in 1 .. n + 1, i < j
      PROVE  s[i] # s[j] /\ dist[s[i]] <= dist[s[j]]
  <2>1. i \in 1 .. n
    BY <1>1, <1>3
  <2>2. CASE j = n + 1
    BY <1>1, <1>2, <2>1, <2>2
  <2>3. CASE j # n + 1
    <3>1. j \in 1 .. n
      BY <1>1, <2>3
    <3> QED
      BY <1>1, <1>3, <2>1, <3>1 DEF Ascending
  <2> QED
    BY <2>2, <2>3
<1> QED
  BY <1>1, <1>3 DEF Ascending, s

(* An order of the elements of T ascends.                                  *)
LEMMA SortingsAscend ==
  ASSUME NEW dist, NEW T, T = DOMAIN dist, IsFiniteSet(T), \A a \in T : dist[a] \in Int
  PROVE  \A s \in Sortings(dist) : Ascending(s, dist)
<1> DEFINE m == Cardinality(T)
           F == CHOOSE G : Sorted(G, T, dist, m)
           Good(s) == /\ s \in Seq(T)
                      /\ Ascending(s, dist)
                      /\ \A i \in 1 .. Len(s), b \in T \ Range(s) : dist[s[i]] <= dist[b]
<1>1. m \in Nat
  BY FS_CardinalityType
<1>2. Sortings(dist) = F[m]
  BY DEF Sortings, Sorted
<1> HIDE DEF m
<1>3. Sorted(F, T, dist, m)
  BY <1>1, SortedExists
<1> HIDE DEF F
<1> DEFINE B == {n \in Nat : n <= m /\ ~ \A s \in F[n] : Good(s)}
<1>4. B = {}
  <2> SUFFICES ASSUME B # {} PROVE FALSE
    OBVIOUS
  <2>1. PICK n \in B : \A j \in B : n <= j
    <3>1. B \in SUBSET Nat
      OBVIOUS
    <3> HIDE DEF B
    <3> QED
      BY <3>1, LeastNumber
  <2>2. n \in Nat /\ n <= m /\ n \in 0 .. m
    BY <1>1, <2>1
  <2>3. PICK s \in F[n] : ~ Good(s)
    BY <2>1
  <2>4. CASE n = 0
    <3>1. F[n] = {<< >>}
      BY <1>3, <2>2, <2>4 DEF Sorted
    <3>2. << >> \in Seq(T) /\ Len(<< >>) = 0
      OBVIOUS
    <3>3. Good(<< >>)
      BY <3>2 DEF Ascending
    <3> QED
      BY <2>3, <3>1, <3>3
  <2>5. CASE n # 0
    <3>1. n - 1 \in Nat /\ n - 1 <= m /\ ~ (n <= n - 1)
      BY <1>1, <2>2, <2>5
    <3>2. n - 1 \notin B
      <4> HIDE DEF B
      <4> QED
        BY <2>1, <3>1
    <3>3. \A r \in F[n - 1] : Good(r)
      BY <3>1, <3>2
    <3>4. PICK r \in F[n - 1], a \in T :
             /\ s = Append(r, a) /\ a \notin Range(r)
             /\ \A c \in T \ Range(r) : dist[a] <= dist[c]
      <4>1. F[n] = UNION {{Append(r, a) : a \in {b \in T \ Range(r) : \A c \in T \ Range(r) : dist[b] <= dist[c]}} :
                          r \in F[n - 1]}
        BY <1>3, <2>2, <2>5 DEF Sorted
      <4> QED
        BY <2>3, <4>1
    <3>5. Good(r)
      BY <3>3
    <3>6. r \in Seq(T) /\ a \in T /\ a \notin Range(r) /\ Ascending(r, dist)
      BY <3>4, <3>5
    <3>7. \A i \in 1 .. Len(r) : dist[r[i]] <= dist[a]
      <4>1. \A i \in 1 .. Len(r), b \in T \ Range(r) : dist[r[i]] <= dist[b]
        BY <3>5
      <4> QED
        BY <3>6, <4>1
    <3>8. Ascending(Append(r, a), dist) /\ Append(r, a) \in Seq(T)
      BY <3>6, <3>7, AscendingAppend
    <3>9. ASSUME NEW i \in 1 .. Len(Append(r, a)), NEW b \in T \ Range(Append(r, a))
          PROVE  dist[Append(r, a)[i]] <= dist[b]
      <4>1. /\ Len(r) \in Nat /\ Len(Append(r, a)) = Len(r) + 1 /\ Append(r, a)[Len(r) + 1] = a
            /\ \A h \in 1 .. Len(r) : Append(r, a)[h] = r[h]
            /\ DOMAIN Append(r, a) = 1 .. Len(r) + 1 /\ DOMAIN r = 1 .. Len(r)
        BY <3>6
      <4>2. b \in T \ Range(r)
        <5>1. ASSUME NEW h \in 1 .. Len(r) PROVE r[h] # b
          <6>1. h \in 1 .. Len(r) + 1 /\ Append(r, a)[h] = r[h]
            BY <4>1
          <6> QED
            BY <3>9, <4>1, <6>1 DEF Range
        <5> QED
          BY <3>9, <4>1, <5>1 DEF Range
      <4>3. CASE i \in 1 .. Len(r)
        BY <3>5, <4>1, <4>2, <4>3
      <4>4. CASE i = Len(r) + 1
        BY <3>4, <4>1, <4>2, <4>4
      <4> QED
        BY <3>9, <4>1, <4>3, <4>4
    <3>10. Good(s)
      BY <3>4, <3>8, <3>9
    <3> QED
      BY <2>3, <3>10
  <2> QED
    BY <2>4, <2>5
<1>5. m <= m
  BY <1>1
<1> HIDE DEF Good
<1>6. \A s \in F[m] : Good(s)
  BY <1>1, <1>4, <1>5
<1> QED
  BY <1>2, <1>6 DEF Good

(* A row: K other nodes, the nearest first.                                *)
RowOK(x, r) ==
  /\ r \in Seq(Nodes)
  /\ x \notin Range(r) /\ Cardinality(Range(r)) = K
  /\ \A i \in 1 .. K - 1 : d(x, r[i]) <= d(x, r[i + 1])

(* Every row that Build may make of a pool names K other nodes.            *)
LEMMA RowFacts ==
  ASSUME world \in Worlds, NEW x \in Nodes, pool[x] \in SUBSET Entries, Cardinality(pool[x]) >= K,
         \A e, f \in pool[x] : e.id = f.id => e = f, x \notin Ids(pool[x])
  PROVE  \A r \in Row(x) : RowOK(x, r)
<1> DEFINE T == Ids(pool[x])
           dist == [y \in T |-> d(x, y)]
<1>1. IsFiniteSet(T) /\ T \subseteq Nodes /\ Cardinality(T) >= K /\ Cardinality(T) \in Nat /\ x \notin T
  BY PoolFacts
<1> HIDE DEF T
<1>2. T = DOMAIN dist /\ \A y \in T : dist[y] = d(x, y) /\ dist[y] \in Int
  BY <1>1, DistanceFacts
<1>3. Row(x) = {SubSeq(s, 1, K) : s \in Sortings(dist)}
  BY DEF Row, dist, T
<1> HIDE DEF dist
<1>4. \A s \in Sortings(dist) : s \in Seq(T) /\ Len(s) = Cardinality(T) /\ Ascending(s, dist)
  <2>1. \A s \in Sortings(dist) : s \in Seq(T) /\ Len(s) = Cardinality(T)
    BY <1>1, <1>2, SortingsType
  <2>2. \A s \in Sortings(dist) : Ascending(s, dist)
    BY <1>1, <1>2, SortingsAscend
  <2> QED
    BY <2>1, <2>2
<1>5. ASSUME NEW s \in Sortings(dist) PROVE RowOK(x, SubSeq(s, 1, K))
  <2> DEFINE r == SubSeq(s, 1, K)
  <2>1. s \in Seq(T) /\ Len(s) \in Nat /\ K \in Nat \ {0} /\ K <= Len(s)
    BY <1>1, <1>4, ConstantFacts
  <2>2. /\ r \in [1 .. K -> T] /\ Len(r) = K /\ DOMAIN r = 1 .. K
        /\ \A i \in 1 .. K : r[i] = s[i] /\ r[i] \in T /\ i \in 1 .. Len(s)
    <3>1. \A i \in 1 .. K : i \in 1 .. Len(s) /\ s[i] \in T
      BY <2>1
    <3>2. r = [i \in 1 .. K |-> s[i]]
      BY <2>1
    <3> HIDE DEF r
    <3>3. r \in [1 .. K -> T]
      BY <3>1, <3>2
    <3> QED
      BY <2>1, <3>1, <3>2, <3>3, AsSeq
  <2> HIDE DEF r
  <2>3. r \in Seq(Nodes)
    <3>1. r \in [1 .. K -> Nodes]
      BY <1>1, <2>2
    <3> QED
      BY <2>1, <3>1, AsSeq
  <2>4. x \notin Range(r)
    BY <1>1, <2>2 DEF Range
  <2>5. Cardinality(Range(r)) = K
    <3>1. IsFiniteSet(1 .. K) /\ Cardinality(1 .. K) = K
      <4>1. 1 \in Int /\ K \in Int /\ ~ (1 > K) /\ K - 1 + 1 = K
        BY <2>1
      <4> QED
        BY <4>1, FS_Interval
    <3>2. r \in Surjection(1 .. K, Range(r))
      BY <2>2 DEF Surjection, Range
    <3>3. ASSUME NEW i \in 1 .. K, NEW j \in 1 .. K, r[i] = r[j] PROVE i = j
      <4>1. s[i] = s[j] /\ i \in 1 .. Len(s) /\ j \in 1 .. Len(s)
        BY <2>2, <3>3
      <4>2. ~ (i < j) /\ ~ (j < i)
        BY <1>4, <4>1 DEF Ascending
      <4> QED
        BY <4>2
    <3>4. r \in Injection(1 .. K, Range(r))
      BY <2>2, <3>3 DEF Injection, IsInjective, Range
    <3> QED
      BY <3>1, <3>2, <3>4, FS_Surjection
  <2>6. ASSUME NEW i \in 1 .. K - 1 PROVE d(x, r[i]) <= d(x, r[i + 1])
    <3>1. i \in 1 .. K /\ i + 1 \in 1 .. K /\ i < i + 1
      BY <2>1
    <3>2. dist[s[i]] <= dist[s[i + 1]]
      BY <1>4, <2>2, <3>1 DEF Ascending
    <3> QED
      BY <1>2, <2>2, <3>1, <3>2
  <2> QED
    BY <2>3, <2>4, <2>5, <2>6 DEF RowOK, r
<1> QED
  BY <1>3, <1>5

(* So it is with the rows of all nodes.                                    *)
LEMMA RowsAre ==
  \A all \in Rows[Size] : \A x \in Nodes : all[x + 1] \in Row(x)
<1> DEFINE m == Size
           F == CHOOSE G : RowsTo(G, m)
           T == UNION {Row(x) : x \in Nodes}
           Good(s, n) == s \in Seq(T) /\ Len(s) = n /\ \A i \in 1 .. n : s[i] \in Row(i - 1)
<1>1. m \in Nat
  BY ConstantFacts
<1>2. Rows = F
  BY DEF Rows, RowsTo, Longer
<1>9. \A n \in 1 .. m : \A r \in Row(n - 1) : r \in T
  BY <1>1 DEF Nodes
<1>10. \A x \in Nodes : x \in Int /\ x + 1 \in 1 .. m
  BY <1>1 DEF Nodes
<1> HIDE DEF m, T
<1>3. RowsTo(F, m)
  BY <1>1, RowsExist
<1> HIDE DEF F
<1> DEFINE B == {n \in Nat : n <= m /\ ~ \A s \in F[n] : Good(s, n)}
<1>4. B = {}
  <2> SUFFICES ASSUME B # {} PROVE FALSE
    OBVIOUS
  <2>1. PICK n \in B : \A j \in B : n <= j
    <3>1. B \in SUBSET Nat
      OBVIOUS
    <3> HIDE DEF B
    <3> QED
      BY <3>1, LeastNumber
  <2>2. n \in Nat /\ n <= m /\ n \in 0 .. m
    BY <1>1, <2>1
  <2>3. PICK s \in F[n] : ~ Good(s, n)
    BY <2>1
  <2>4. CASE n = 0
    <3>1. F[n] = {<< >>}
      BY <1>3, <2>2, <2>4 DEF RowsTo
    <3>2. << >> \in Seq(T) /\ Len(<< >>) = 0 /\ \A i \in 1 .. 0 : FALSE
      OBVIOUS
    <3> QED
      BY <2>3, <2>4, <3>1, <3>2
  <2>5. CASE n # 0
    <3>1. n - 1 \in Nat /\ n - 1 <= m /\ ~ (n <= n - 1) /\ n - 1 + 1 = n /\ n \in 1 .. m
      BY <1>1, <2>2, <2>5
    <3>2. n - 1 \notin B
      <4> HIDE DEF B
      <4> QED
        BY <2>1, <3>1
    <3>3. \A r \in F[n - 1] : Good(r, n - 1)
      BY <3>1, <3>2
    <3>4. PICK p \in F[n - 1], r \in Row(n - 1) : s = Append(p, r)
      <4>1. F[n] = {Append(p, r) : p \in F[n - 1], r \in Row(n - 1)}
        <5>1. F[n] = Longer(F[n - 1], n)
          BY <1>3, <2>2, <2>5 DEF RowsTo
        <5> QED
          BY <5>1 DEF Longer
      <4> QED
        BY <2>3, <4>1
    <3>5. p \in Seq(T) /\ Len(p) = n - 1 /\ r \in T /\ \A i \in 1 .. n - 1 : p[i] \in Row(i - 1)
      BY <1>9, <3>1, <3>3
    <3>6. /\ Append(p, r) \in Seq(T) /\ Len(Append(p, r)) = Len(p) + 1
          /\ Append(p, r)[Len(p) + 1] = r
          /\ \A i \in 1 .. Len(p) : Append(p, r)[i] = p[i]
      BY <3>5
    <3>7. ASSUME NEW i \in 1 .. n PROVE s[i] \in Row(i - 1)
      <4>1. CASE i = n
        BY <3>1, <3>4, <3>5, <3>6, <4>1
      <4>2. CASE i # n
        <5>1. i \in 1 .. n - 1
          BY <3>1, <4>2
        <5> QED
          BY <3>4, <3>5, <3>6, <5>1
      <4> QED
        BY <4>1, <4>2
    <3> QED
      BY <2>3, <3>1, <3>4, <3>5, <3>6, <3>7
  <2> QED
    BY <2>4, <2>5
<1>5. m <= m
  BY <1>1
<1>6. \A s \in F[m] : Good(s, m)
  BY <1>1, <1>4, <1>5
<1>7. ASSUME NEW s \in F[m], NEW x \in Nodes PROVE s[x + 1] \in Row(x)
  <2>1. \A i \in 1 .. m : s[i] \in Row(i - 1)
    BY <1>6
  <2>2. PICK i \in 1 .. m : i = x + 1 /\ i - 1 = x
    <3>1. x \in Int /\ x + 1 \in 1 .. m
      BY <1>10
    <3>2. x + 1 - 1 = x
      BY <3>1
    <3> QED
      BY <3>1, <3>2
  <2>3. s[i] \in Row(i - 1)
    BY <2>1
  <2> QED
    BY <2>2, <2>3
<1> QED
  BY <1>2, <1>7 DEF m

-------------------------------------------------------------------------------
(* The lists of NN-descent.                                                *)

(* Of the new entries of a node's pool some are in nnNew, the others still *)
(* in the work of the thread that has the node, S together at most; no two *)
(* threads have the same node.                                             *)
News(w) == Cardinality({i \in DOMAIN w : w[i].flag})

BudgetOK ==
  /\ \A t, u \in Threads : \A i \in DOMAIN chunk[t], j \in DOMAIN chunk[u] :
       chunk[t][i] = chunk[u][j] => t = u /\ i = j
  /\ \A x \in Nodes : Len(nnNew[x]) <= S
  /\ \A t \in Threads : \A i \in DOMAIN chunk[t] :
       i > 1 \/ work[t] = << >> => nnNew[chunk[t][i]] = << >>
  /\ \A t \in Threads : work[t] # << >> => Len(nnNew[Head(chunk[t])]) + News(work[t]) <= S

(* What ListsBounded says of a node, but for what PoolsOK says, and what   *)
(* is left when Build has given the pools back.                            *)
LimitsAt(x) ==
  /\ x \notin Ids(pool[x])
  /\ Len(rnnNew[x]) <= RN /\ Len(rnnOld[x]) <= RN
  /\ x \notin Range(rnnNew[x]) /\ x \notin Range(rnnOld[x])
  /\ round > 1 => Len(nnNew[x]) <= S + RN
  /\ phase = "join" => Len(nnOld[x]) <= 2 * RN
  /\ phase = "built" => RowOK(x, rows[x])
  /\ phase \in {"built", "overrun"} => pool[x] = {}

ListInv ==
  /\ \A x \in Nodes : LimitsAt(x)
  /\ phase = "update" => BudgetOK

(* The start of NN-descent.                                                *)
LEMMA ListInit == NnInit => ListInv
<1> SUFFICES ASSUME NnInit, NEW x \in Nodes PROVE LimitsAt(x)
  BY DEF ListInv, NnInit
<1>1. PICK s \in Starts :
        pool = [y \in Nodes |-> {[id |-> z, flag |-> TRUE] : z \in s.pool[y] \ {y}}]
  BY DEF NnInit
<1>2. /\ phase = "join" /\ round = 1
      /\ nnOld = [y \in Nodes |-> << >>] /\ rnnNew = nnOld /\ rnnOld = nnOld
  BY DEF NnInit
<1>3. x \notin Ids(pool[x])
  BY <1>1 DEF Ids
<1>4. nnOld[x] = << >> /\ rnnNew[x] = << >> /\ rnnOld[x] = << >> /\ Len(<< >>) = 0 /\ Range(<< >>) = {}
  BY <1>2 DEF Range
<1> QED
  BY <1>2, <1>3, <1>4, ConstantFacts DEF LimitsAt

(* Where the lists and pools stay as they are.                             *)
LEMMA LimitsKept ==
  ASSUME NEW x \in Nodes, LimitsAt(x), phase' = phase,
         UNCHANGED <<world, round, nnNew, nnOld, rnnNew, rnnOld, rows>>,
         Ids(pool'[x]) = Ids(pool[x]), phase \in {"built", "overrun"} => pool' = pool
  PROVE  LimitsAt(x)'
BY DEF LimitsAt, Range, Ids, RowOK, d

(* The steps of the join leave the lists alone.                            *)
LEMMA ListTake ==
  ASSUME JoinInv, ListInv, NEW t \in Threads, Take(t)
  PROVE  ListInv'
<1>1. /\ phase = "join"
      /\ UNCHANGED <<world, phase, round, pool, M, nnNew, nnOld, rnnNew, rnnOld, base, heaped, rows>>
  BY DEF Take, lists
<1>2. \A x \in Nodes : LimitsAt(x)'
  BY <1>1, LimitsKept DEF ListInv
<1> QED
  BY <1>1, <1>2 DEF ListInv

(* An insertion adds no node to its own pool, and moves no list.           *)
LEMMA ListInsert ==
  ASSUME JoinInv, ListInv, NEW t \in Threads, Insert(t)
  PROVE  ListInv'
<1>1. /\ phase = "join" /\ work[t] # << >>
      /\ UNCHANGED <<world, phase, round, M, nnNew, nnOld, rnnNew, rnnOld, base, next, chunk, heaped, rows>>
      /\ \E x, y \in Nodes :
           /\ Head(work[t]) = <<x, y>> /\ <<x, y>> \in Offers(Nodes)
           /\ \/ /\ Near(x, y) /\ y \notin Ids(pool[x])
                 /\ \E o \in Out(x) : pool' = [pool EXCEPT ![x] = (pool[x] \ o) \cup {[id |-> y, flag |-> TRUE]}]
              \/ (~ Near(x, y) \/ y \in Ids(pool[x])) /\ pool' = pool
  BY InsertFacts
<1>2. PICK x \in Nodes, y \in Nodes :
        /\ <<x, y>> \in Offers(Nodes)
        /\ \/ \E o : pool' = [pool EXCEPT ![x] = (pool[x] \ o) \cup {[id |-> y, flag |-> TRUE]}]
           \/ pool' = pool
  BY <1>1
<1>3. x # y
  <2>1. PICK n \in Nodes : <<x, y>> \in Range(Inserts(n))
    BY <1>2 DEF Offers
  <2>2. nnNew \in [Nodes -> Seq(Nodes)] /\ nnOld \in [Nodes -> Seq(Nodes)]
    BY DEF JoinInv, NnTypeOK
  <2>3. \A p \in Range(Inserts(n)) : p[1] # p[2]
    BY <2>2, InsertsType
  <2>4. <<x, y>>[1] # <<x, y>>[2]
    BY <2>1, <2>3
  <2> QED
    BY <2>4
<1>4. pool \in [Nodes -> SUBSET Entries]
  BY DEF JoinInv, NnTypeOK
<1>5. ASSUME NEW z \in Nodes PROVE z \notin Ids(pool'[z])
  <2>1. z \notin Ids(pool[z])
    BY DEF ListInv, LimitsAt
  <2>2. CASE pool' = pool
    BY <2>1, <2>2
  <2>3. ASSUME NEW o, pool' = [pool EXCEPT ![x] = (pool[x] \ o) \cup {[id |-> y, flag |-> TRUE]}]
        PROVE  z \notin Ids(pool'[z])
    <3>1. CASE z = x
      <4>1. pool'[z] = (pool[x] \ o) \cup {[id |-> y, flag |-> TRUE]}
        BY <1>4, <2>3, <3>1
      <4> QED
        BY <1>3, <2>1, <3>1, <4>1 DEF Ids
    <3>2. CASE z # x
      BY <1>4, <2>1, <2>3, <3>2
    <3> QED
      BY <3>1, <3>2
  <2> QED
    BY <1>2, <2>2, <2>3
<1>6. ASSUME NEW z \in Nodes PROVE LimitsAt(z)'
  BY <1>1, <1>5 DEF ListInv, LimitsAt, Range, Ids
<1> QED
  BY <1>1, <1>6 DEF ListInv

(* The update begins with empty lists, and with no node taken twice.       *)
LEMMA ListClear ==
  ASSUME JoinInv, ListInv, Clear
  PROVE  ListInv'
<1>1. /\ phase = "join" /\ phase' = "update" /\ \A t \in Threads : work[t] = << >>
      /\ nnNew' = [x \in Nodes |-> << >>]
      /\ chunk' = [t \in Threads |-> Share(t)]
      /\ UNCHANGED <<world, round, pool, M, rnnNew, rnnOld, base, next, work, heaped, rows>>
  BY DEF Clear, Joined
<1>2. Len(<< >>) = 0 /\ S \in Nat /\ RN \in Nat
  BY ConstantFacts
<1>3. ASSUME NEW x \in Nodes PROVE LimitsAt(x)'
  <2>1. nnNew'[x] = << >>
    BY <1>1
  <2> QED
    BY <1>1, <1>2, <2>1 DEF ListInv, LimitsAt, Range, Ids
<1>4. BudgetOK'
  <2>1. \A t \in Threads : chunk'[t] = Share(t) /\ work'[t] = << >>
    BY <1>1
  <2>2. ASSUME NEW t \in Threads, NEW u \in Threads, NEW i \in DOMAIN chunk'[t], NEW j \in DOMAIN chunk'[u],
               chunk'[t][i] = chunk'[u][j]
        PROVE  t = u /\ i = j
    BY <2>1, <2>2, ShareApart
  <2>3. \A x \in Nodes : nnNew'[x] = << >> /\ Len(nnNew'[x]) <= S
    BY <1>1, <1>2
  <2>4. ASSUME NEW t \in Threads, NEW i \in DOMAIN chunk'[t] PROVE nnNew'[chunk'[t][i]] = << >>
    <3>1. Share(t) \in Seq(Nodes)
      BY ShareType
    <3>2. chunk'[t][i] \in Nodes
      BY <2>1, <3>1
    <3> QED
      BY <2>3, <3>2
  <2> QED
    BY <2>1, <2>2, <2>3, <2>4 DEF BudgetOK
<1> QED
  BY <1>1, <1>3, <1>4 DEF ListInv

(* The work of a node has S new entries at most, and nnNew none yet.       *)
LEMMA ListBegin ==
  ASSUME JoinInv, ListInv, NEW t \in Threads, Begin(t)
  PROVE  ListInv'
<1> DEFINE x == Head(chunk[t])
<1>1. /\ phase = "update" /\ work[t] = << >> /\ chunk[t] # << >>
      /\ UNCHANGED <<world, phase, round, pool, nnNew, nnOld, rnnNew, rnnOld, base, next, chunk, heaped, rows>>
  BY DEF Begin, lists, loop
<1>2. /\ chunk[t] \in Seq(Nodes) /\ M \in [Nodes -> 0 .. LN] /\ pool \in [Nodes -> SUBSET Entries]
      /\ work \in [Threads -> Seq(Entries)]
  BY <1>1 DEF JoinInv, NnTypeOK, WorkOK
<1>3. x \in Nodes /\ x = chunk[t][1] /\ 1 \in DOMAIN chunk[t]
  BY <1>1, <1>2
<1>4. PICK s \in Sortings([e \in pool[x] |-> d(x, e.id)]) :
         /\ M' = [M EXCEPT ![x] = Extent(x, s)]
         /\ work' = [work EXCEPT ![t] = SubSeq(s, 1, M'[x])]
  BY DEF Begin
<1> HIDE DEF x
<1>5. s \in Seq(Entries)
  <2>1. IsFiniteSet(pool[x])
    BY <1>2, <1>3, PoolFacts
  <2>2. pool[x] = DOMAIN [e \in pool[x] |-> d(x, e.id)]
    OBVIOUS
  <2>3. s \in Seq(pool[x])
    BY <2>1, <2>2, SortingsType
  <2> QED
    BY <1>2, <1>3, <2>3
<1>6. /\ Extent(x, s) \in 0 .. Len(s)
      /\ Cardinality({i \in 1 .. Extent(x, s) : s[i].flag}) <= S
  <2>1. M[x] \in Nat
    BY <1>2, <1>3, ConstantFacts
  <2> QED
    BY <1>3, <1>5, <2>1, ExtentType
<1> DEFINE n == Extent(x, s)
           part == SubSeq(s, 1, n)
<1>7. work' = [work EXCEPT ![t] = part]
  BY <1>2, <1>3, <1>4
<1>8. News(part) <= S
  <2>1. n \in 0 .. Len(s)
    BY <1>6
  <2> HIDE DEF n
  <2>2. DOMAIN part = 1 .. n /\ \A i \in 1 .. n : part[i] = s[i]
    BY <1>5, <2>1
  <2>3. {i \in DOMAIN part : part[i].flag} = {i \in 1 .. n : s[i].flag}
    BY <2>2
  <2> QED
    BY <1>6, <2>3 DEF News, n
<1> HIDE DEF part
<1>9. BudgetOK'
  <2>1. BudgetOK
    BY <1>1 DEF ListInv
  <2>2. ASSUME NEW u \in Threads PROVE u # t => work'[u] = work[u]
    BY <1>2, <1>7
  <2>3. work'[t] = part
    BY <1>2, <1>7
  <2>4. nnNew[x] = << >> /\ Len(nnNew[x]) = 0
    BY <1>1, <1>3, <2>1 DEF BudgetOK
  <2>5. ASSUME NEW u \in Threads, work'[u] # << >> PROVE Len(nnNew[Head(chunk[u])]) + News(work'[u]) <= S
    <3>1. CASE u = t
      <4>1. Len(nnNew[Head(chunk[u])]) = 0 /\ News(work'[u]) <= S /\ News(work'[u]) \in Nat
        <5>1. News(part) \in Nat
          <6>1. IsFiniteSet(DOMAIN part)
            <7>1. part \in Seq(Entries)
              BY <1>5, <1>6, PrefixType DEF part
            <7>2. Len(part) \in Nat /\ DOMAIN part = 1 .. Len(part)
              BY <7>1
            <7>3. IsFiniteSet(1 .. Len(part))
              BY <7>2, FS_Interval
            <7> QED
              BY <7>2, <7>3
          <6> QED
            BY <6>1, FS_Subset, FS_CardinalityType DEF News
        <5> QED
          BY <1>8, <2>3, <2>4, <3>1, <5>1 DEF x
      <4> QED
        BY <4>1, ConstantFacts
    <3>2. CASE u # t
      BY <2>1, <2>2, <2>5, <3>2 DEF BudgetOK
    <3> QED
      BY <3>1, <3>2
  <2>6. ASSUME NEW u \in Threads, NEW i \in DOMAIN chunk[u], i > 1 \/ work'[u] = << >>
        PROVE  nnNew[chunk[u][i]] = << >>
    <3>1. CASE u = t
      BY <1>1, <2>1, <3>1 DEF BudgetOK
    <3>2. CASE u # t
      BY <2>1, <2>2, <2>6, <3>2 DEF BudgetOK
    <3> QED
      BY <3>1, <3>2
  <2>7. nnNew' = nnNew /\ chunk' = chunk
    BY <1>1
  <2> QED
    BY <2>1, <2>5, <2>6, <2>7 DEF BudgetOK, News
<1>10. \A z \in Nodes : LimitsAt(z)'
  BY <1>1, LimitsKept DEF ListInv
<1> QED
  BY <1>9, <1>10 DEF ListInv

(* The lists and the reverse lists put together, S + RN and 2 * RN nodes   *)
(* at most.                                                                *)
LEMMA ListMerge ==
  ASSUME JoinInv, ListInv, Merge
  PROVE  ListInv'
<1> DEFINE all(x) == nnOld[x] \o rnnOld[x]
           upto(x) == IF Len(all(x)) > 2 * RN THEN 2 * RN ELSE Len(all(x))
<1>1. /\ phase = "update"
      /\ nnNew' = [x \in Nodes |-> nnNew[x] \o rnnNew[x]]
      /\ nnOld' = [x \in Nodes |-> SubSeq(all(x), 1, upto(x))]
      /\ rnnNew' = [x \in Nodes |-> << >>] /\ rnnOld' = rnnNew'
      /\ phase' = "join" /\ pool' = pool
  BY DEF Merge, Renewed
<1>2. /\ nnNew \in [Nodes -> Seq(Nodes)] /\ nnOld \in [Nodes -> Seq(Nodes)]
      /\ rnnNew \in [Nodes -> Seq(Nodes)] /\ rnnOld \in [Nodes -> Seq(Nodes)]
  BY DEF JoinInv, NnTypeOK
<1>3. ASSUME NEW x \in Nodes PROVE LimitsAt(x)'
  <2>1. Len(nnNew'[x]) <= S + RN
    <3>1. Len(nnNew[x]) <= S /\ Len(rnnNew[x]) <= RN
      BY <1>1 DEF ListInv, BudgetOK, LimitsAt
    <3>2. nnNew[x] \in Seq(Nodes) /\ rnnNew[x] \in Seq(Nodes)
      BY <1>2
    <3>3. Len(nnNew[x] \o rnnNew[x]) = Len(nnNew[x]) + Len(rnnNew[x])
      <4> DEFINE a == nnNew[x]
                 b == rnnNew[x]
      <4>1. a \in Seq(Nodes) /\ b \in Seq(Nodes)
        BY <3>2
      <4> HIDE DEF a, b
      <4>2. Len(a \o b) = Len(a) + Len(b)
        BY <4>1
      <4> QED
        BY <4>2 DEF a, b
    <3>4. nnNew'[x] = nnNew[x] \o rnnNew[x]
      BY <1>1
    <3>5. Len(nnNew[x]) \in Nat /\ Len(rnnNew[x]) \in Nat
      BY <3>2
    <3> DEFINE p == Len(nnNew[x])
               q == Len(rnnNew[x])
    <3>6. p \in Nat /\ q \in Nat /\ p <= S /\ q <= RN /\ S \in Nat /\ RN \in Nat
      BY <3>1, <3>5, ConstantFacts
    <3>7. Len(nnNew'[x]) = p + q
      BY <3>3, <3>4
    <3> HIDE DEF p, q
    <3> QED
      BY <3>6, <3>7
  <2>2. Len(nnOld'[x]) <= 2 * RN
    <3>1. nnOld'[x] = SubSeq(all(x), 1, upto(x))
      <4> HIDE DEF all, upto
      <4> QED
        BY <1>1
    <3>2. all(x) \in Seq(Nodes)
      BY <1>2
    <3> HIDE DEF all
    <3>3. Len(all(x)) \in Nat
      BY <3>2
    <3>4. upto(x) \in 0 .. Len(all(x)) /\ upto(x) <= 2 * RN
      BY <3>3, ConstantFacts
    <3> HIDE DEF upto
    <3>5. Len(SubSeq(all(x), 1, upto(x))) = upto(x)
      BY <3>2, <3>4
    <3> QED
      BY <3>1, <3>4, <3>5
  <2>3. rnnNew'[x] = << >> /\ rnnOld'[x] = << >> /\ Len(<< >>) = 0 /\ Range(<< >>) = {}
    BY <1>1 DEF Range
  <2>4. x \notin Ids(pool[x])
    BY DEF ListInv, LimitsAt
  <2>5. Len(rnnNew'[x]) <= RN /\ Len(rnnOld'[x]) <= RN /\ x \notin Range(rnnNew'[x]) /\ x \notin Range(rnnOld'[x])
    BY <2>3, ConstantFacts
  <2>6. x \notin Ids(pool'[x]) /\ phase' = "join"
    BY <1>1, <2>4
  <2> QED
    BY <2>1, <2>2, <2>5, <2>6 DEF LimitsAt, Range, Ids
<1> QED
  BY <1>1, <1>3 DEF ListInv

(* The rows replace the pools.                                             *)
LEMMA ListBuild ==
  ASSUME JoinInv, ListInv, Build
  PROVE  ListInv'
<1>1. /\ phase = "update" /\ phase' \in {"built", "overrun"}
      /\ pool' = [x \in Nodes |-> {}]
      /\ nnNew' = [x \in Nodes |-> << >>]
      /\ nnOld' = nnNew' /\ rnnNew' = nnNew' /\ rnnOld' = nnNew'
      /\ UNCHANGED <<world, round>>
  BY DEF Build, Renewed
<1>2. world \in Worlds /\ pool \in [Nodes -> SUBSET Entries]
      /\ \A x \in Nodes : \A e, f \in pool[x] : e.id = f.id => e = f
  BY <1>1 DEF JoinInv, NnTypeOK, PoolsOK
<1>3. ASSUME NEW x \in Nodes, phase' = "built" PROVE RowOK(x, rows[x])'
  <2>1. /\ \A y \in Nodes : Cardinality(pool[y]) >= K
        /\ \E all \in Rows[Size] : rows' = [y \in Nodes |-> all[y + 1]]
    BY <1>3 DEF Build
  <2>2. PICK all \in Rows[Size] : rows' = [y \in Nodes |-> all[y + 1]]
    BY <2>1
  <2>3. rows'[x] = all[x + 1] /\ all[x + 1] \in Row(x)
    BY <2>2, RowsAre
  <2>4. x \notin Ids(pool[x])
    BY DEF ListInv, LimitsAt
  <2>5. RowOK(x, rows'[x])
    BY <1>2, <2>1, <2>3, <2>4, RowFacts
  <2> QED
    BY <1>1, <2>5 DEF RowOK, d
<1>4. ASSUME NEW x \in Nodes PROVE LimitsAt(x)'
  <2>1. nnNew'[x] = << >> /\ rnnNew'[x] = << >> /\ rnnOld'[x] = << >> /\ pool'[x] = {}
    BY <1>1
  <2>2. Len(<< >>) = 0 /\ Range(<< >>) = {} /\ Ids({}) = {}
    BY DEF Range, Ids
  <2>3. x \notin Ids(pool'[x]) /\ x \notin Range(rnnNew'[x]) /\ x \notin Range(rnnOld'[x])
    BY <2>1, <2>2
  <2>4. Len(nnNew'[x]) <= S + RN /\ Len(rnnNew'[x]) <= RN /\ Len(rnnOld'[x]) <= RN
    BY <2>1, <2>2, ConstantFacts
  <2> QED
    BY <1>1, <1>3, <2>1, <2>3, <2>4 DEF LimitsAt, Ids, Range
<1> QED
  BY <1>1, <1>4 DEF ListInv

(* The construction of the NSG leaves the lists alone.                     *)
LEMMA ListStutter ==
  ASSUME ListInv, UNCHANGED nnVars
  PROVE  ListInv'
<1>1. UNCHANGED <<world, phase, round, pool, M, nnNew, nnOld, rnnNew, rnnOld, base, next, chunk, work, heaped, rows>>
  BY DEF nnVars, lists, loop
<1>2. \A x \in Nodes : LimitsAt(x)'
  BY <1>1, LimitsKept DEF ListInv
<1>3. phase = "update" => BudgetOK'
  BY <1>1 DEF ListInv, BudgetOK, News
<1> QED
  BY <1>1, <1>2, <1>3 DEF ListInv

(* A reverse list keeps its length, and takes no node but x.               *)
LEMMA ReversedFacts ==
  ASSUME NEW list \in Seq(Nodes), Len(list) <= RN, NEW x \in Nodes, NEW r \in Reversed(list, x)
  PROVE  Len(r) <= RN /\ Range(r) \subseteq Range(list) \cup {x}
<1> DEFINE n == Len(list)
<1>1. n \in Nat /\ DOMAIN list = 1 .. n /\ RN \in Nat
  BY ConstantFacts
<1>2. CASE n < RN
  <2>1. r = Append(list, x)
    BY <1>2 DEF Reversed
  <2>2. /\ Len(r) = n + 1 /\ DOMAIN r = 1 .. n + 1 /\ r[n + 1] = x
        /\ \A i \in 1 .. n : r[i] = list[i]
    BY <2>1
  <2>3. ASSUME NEW i \in 1 .. n + 1 PROVE r[i] \in Range(list) \cup {x}
    <3>1. CASE i \in 1 .. n
      BY <1>1, <2>2, <3>1 DEF Range
    <3>2. CASE i = n + 1
      BY <2>2, <3>2
    <3> QED
      BY <1>1, <3>1, <3>2
  <2>4. Range(r) \subseteq Range(list) \cup {x}
    <3> HIDE DEF n
    <3> QED
      BY <2>2, <2>3 DEF Range
  <2> QED
    BY <1>1, <1>2, <2>2, <2>4
<1>3. CASE ~ (n < RN)
  <2>1. PICK i \in 1 .. RN : r = [list EXCEPT ![i] = x]
    BY <1>3 DEF Reversed
  <2>2. DOMAIN r = DOMAIN list /\ \A j \in DOMAIN list : r[j] = IF j = i THEN x ELSE list[j]
    BY <2>1
  <2>3. Range(r) \subseteq Range(list) \cup {x}
    BY <2>2 DEF Range
  <2>4. Len(r) = n
    <3>1. list \in [1 .. n -> Nodes]
      OBVIOUS
    <3> HIDE DEF n
    <3>2. r \in [1 .. n -> Nodes]
      BY <2>1, <3>1
    <3> QED
      BY <1>1, <3>2, AsSeq
  <2> QED
    BY <2>3, <2>4
<1> QED
  BY <1>2, <1>3

(* What is left of a thread's work has one new entry less, if the first is *)
(* new.                                                                    *)
LEMMA NewsTail ==
  ASSUME NEW w \in Seq(Entries), w # << >>
  PROVE  /\ News(Tail(w)) \in Nat /\ News(w) \in Nat
         /\ News(Tail(w)) <= News(w)
         /\ Head(w).flag => News(Tail(w)) + 1 <= News(w)
<1> DEFINE n == Len(w)
           A == {i \in DOMAIN w : w[i].flag}
           B == {i \in DOMAIN Tail(w) : Tail(w)[i].flag}
           f == [i \in B |-> i + 1]
<1>1. /\ n \in Nat /\ n # 0 /\ DOMAIN w = 1 .. n /\ Head(w) = w[1] /\ 1 \in 1 .. n
      /\ Tail(w) \in Seq(Entries) /\ Len(Tail(w)) = n - 1
      /\ \A i \in 1 .. n - 1 : Tail(w)[i] = w[i + 1]
  OBVIOUS
<1>2. DOMAIN Tail(w) = 1 .. n - 1
  <2> DEFINE r == Tail(w)
  <2>1. r \in Seq(Entries) /\ Len(r) = n - 1
    BY <1>1
  <2> HIDE DEF r, n
  <2>2. DOMAIN r = 1 .. n - 1
    BY <2>1
  <2> QED
    BY <2>2 DEF r
<1> HIDE DEF n
<1>3. IsFiniteSet(A) /\ IsFiniteSet(B)
  <2>1. IsFiniteSet(1 .. n) /\ IsFiniteSet(1 .. n - 1)
    BY <1>1, FS_Interval
  <2>2. A \subseteq 1 .. n /\ B \subseteq 1 .. n - 1
    BY <1>1, <1>2
  <2> HIDE DEF A, B
  <2> QED
    BY <2>1, <2>2, FS_Subset
<1>4. \A i \in B : i \in Int /\ i + 1 \in A \ {1}
  <2> SUFFICES ASSUME NEW i \in B PROVE i \in Int /\ i + 1 \in A \ {1}
    OBVIOUS
  <2>1. i \in 1 .. n - 1 /\ Tail(w)[i].flag
    BY <1>2
  <2>2. i \in Int /\ i + 1 \in 1 .. n /\ i + 1 # 1
    BY <1>1, <2>1
  <2>3. w[i + 1].flag
    BY <1>1, <2>1
  <2> QED
    BY <1>1, <2>2, <2>3
<1>5. f \in Injection(B, A \ {1})
  <2> HIDE DEF A, B
  <2>1. f \in [B -> A \ {1}]
    BY <1>4
  <2>2. \A i, j \in B : f[i] = f[j] => i = j
    BY <1>4
  <2> QED
    BY <2>1, <2>2 DEF Injection, IsInjective
<1>6. Head(w).flag => 1 \in A
  BY <1>1
<1>7. News(w) = Cardinality(A) /\ News(Tail(w)) = Cardinality(B)
  BY DEF News
<1> HIDE DEF A, B, f
<1>8. /\ Cardinality(A) \in Nat /\ Cardinality(B) \in Nat /\ Cardinality(A \ {1}) \in Nat
      /\ IsFiniteSet(A \ {1})
  <2>1. IsFiniteSet(A \ {1})
    BY <1>3, FS_Subset
  <2> QED
    BY <1>3, <2>1, FS_CardinalityType
<1>9. Cardinality(B) <= Cardinality(A \ {1})
  BY <1>3, <1>5, <1>8, FS_Injection
<1>10. Cardinality(A \ {1}) = IF 1 \in A THEN Cardinality(A) - 1 ELSE Cardinality(A)
  BY <1>3, FS_RemoveElement
<1> QED
  BY <1>6, <1>7, <1>8, <1>9, <1>10

(* What Introduce does to the lists.                                       *)
LEMMA IntroduceLists ==
  ASSUME JoinInv, NEW t \in Threads, Introduce(t)
  PROVE  LET x == Head(chunk[t])  e == Head(work[t]) IN
         /\ \/ e.flag /\ nnNew' = [nnNew EXCEPT ![x] = Append(nnNew[x], e.id)]
            \/ nnNew' = nnNew
         /\ \A y \in Nodes : rnnNew'[y] = rnnNew[y] \/ (y = e.id /\ rnnNew'[y] \in Reversed(rnnNew[y], x))
         /\ \A y \in Nodes : rnnOld'[y] = rnnOld[y] \/ (y = e.id /\ rnnOld'[y] \in Reversed(rnnOld[y], x))
         /\ work'[t] # << >> => chunk' = chunk
         /\ work'[t] = << >> => chunk' = [chunk EXCEPT ![t] = Tail(chunk[t])]
<1> DEFINE x == Head(chunk[t])
           e == Head(work[t])
<1>1. phase = "update"
  BY DEF Introduce
<1>2. /\ nnNew \in [Nodes -> Seq(Nodes)] /\ chunk \in [Threads -> Seq(Nodes)]
      /\ rnnNew \in [Nodes -> Seq(Nodes)] /\ rnnOld \in [Nodes -> Seq(Nodes)]
  BY DEF JoinInv, NnTypeOK
<1>3. x \in Nodes /\ e.id \in Nodes
  <2>1. x \in Nodes /\ e \in Entries
    BY IntroduceFacts
  <2> QED
    BY <2>1 DEF Entries
<1>4. PICK back \in Backs(e.id) :
         IF e.flag
         THEN /\ nnNew' = [nnNew EXCEPT ![x] = Append(@, e.id)]
              /\ IF d(x, e.id) > back
                 THEN \E r \in Reversed(rnnNew[e.id], x) : rnnNew' = [rnnNew EXCEPT ![e.id] = r]
                 ELSE rnnNew' = rnnNew
              /\ UNCHANGED <<nnOld, rnnOld>>
         ELSE /\ IF d(x, e.id) > back
                 THEN \E r \in Reversed(rnnOld[e.id], x) : rnnOld' = [rnnOld EXCEPT ![e.id] = r]
                 ELSE rnnOld' = rnnOld
              /\ UNCHANGED <<nnNew, rnnNew>>
  BY DEF Introduce
<1>5. IF work'[t] = << >>
      THEN chunk' = [chunk EXCEPT ![t] = Tail(chunk[t])]
      ELSE chunk' = chunk
  BY <1>2 DEF Introduce
<1> HIDE DEF x, e
<1>6. CASE e.flag
  <2>1. nnNew' = [nnNew EXCEPT ![x] = Append(nnNew[x], e.id)] /\ rnnOld' = rnnOld
    BY <1>2, <1>3, <1>4, <1>6
  <2>2. rnnNew' = rnnNew \/ \E r \in Reversed(rnnNew[e.id], x) : rnnNew' = [rnnNew EXCEPT ![e.id] = r]
    BY <1>4, <1>6
  <2>3. \A y \in Nodes : rnnNew'[y] = rnnNew[y] \/ (y = e.id /\ rnnNew'[y] \in Reversed(rnnNew[y], x))
    BY <1>2, <1>3, <2>2
  <2> QED
    BY <1>5, <1>6, <2>1, <2>3 DEF x, e
<1>7. CASE ~ e.flag
  <2>1. nnNew' = nnNew /\ rnnNew' = rnnNew
    BY <1>4, <1>7
  <2>2. rnnOld' = rnnOld \/ \E r \in Reversed(rnnOld[e.id], x) : rnnOld' = [rnnOld EXCEPT ![e.id] = r]
    BY <1>4, <1>7
  <2>3. \A y \in Nodes : rnnOld'[y] = rnnOld[y] \/ (y = e.id /\ rnnOld'[y] \in Reversed(rnnOld[y], x))
    BY <1>2, <1>3, <2>2
  <2> QED
    BY <1>5, <1>7, <2>1, <2>3 DEF x, e
<1> QED
  BY <1>6, <1>7

(* An entry of the work goes to nnNew or nnOld, and to a reverse list that *)
(* keeps to RN.                                                            *)
LEMMA ListIntroduce ==
  ASSUME JoinInv, ListInv, NEW t \in Threads, Introduce(t)
  PROVE  ListInv'
<1> DEFINE x == Head(chunk[t])
           e == Head(work[t])
           Pool(y) == Ids(pool'[y]) = Ids(pool[y])
<1>1. /\ phase = "update" /\ phase' = phase /\ work[t] # << >> /\ chunk[t] # << >>
      /\ UNCHANGED <<world, round, rows>>
      /\ work' = [work EXCEPT ![t] = Tail(work[t])]
      /\ x \in Nodes /\ e \in Entries /\ e.id \in Ids(pool[x])
      /\ pool' = pool \/ (e.flag /\ pool' = [pool EXCEPT ![x] = (pool[x] \ {e}) \cup {[id |-> e.id, flag |-> FALSE]}])
  BY IntroduceFacts
<1>2. /\ \/ e.flag /\ nnNew' = [nnNew EXCEPT ![x] = Append(nnNew[x], e.id)]
         \/ nnNew' = nnNew
      /\ \A y \in Nodes : rnnNew'[y] = rnnNew[y] \/ (y = e.id /\ rnnNew'[y] \in Reversed(rnnNew[y], x))
      /\ \A y \in Nodes : rnnOld'[y] = rnnOld[y] \/ (y = e.id /\ rnnOld'[y] \in Reversed(rnnOld[y], x))
      /\ work'[t] # << >> => chunk' = chunk
      /\ work'[t] = << >> => chunk' = [chunk EXCEPT ![t] = Tail(chunk[t])]
  BY IntroduceLists
<1>3. /\ nnNew \in [Nodes -> Seq(Nodes)] /\ chunk \in [Threads -> Seq(Nodes)]
      /\ rnnNew \in [Nodes -> Seq(Nodes)] /\ rnnOld \in [Nodes -> Seq(Nodes)]
      /\ work \in [Threads -> Seq(Entries)] /\ pool \in [Nodes -> SUBSET Entries]
  BY <1>1 DEF JoinInv, NnTypeOK, WorkOK
<1>4. x = chunk[t][1] /\ 1 \in DOMAIN chunk[t] /\ e.id \in Nodes
  <2>1. chunk[t] \in Seq(Nodes)
    BY <1>3
  <2> QED
    BY <1>1, <2>1 DEF Entries
<1> HIDE DEF x, e
<1>5. BudgetOK /\ \A y \in Nodes : LimitsAt(y)
  BY <1>1 DEF ListInv
<1>6. e.id # x
  BY <1>1, <1>5 DEF LimitsAt
<1>7. ASSUME NEW y \in Nodes PROVE y \notin Ids(pool'[y])
  <2>1. y \notin Ids(pool[y])
    BY <1>5 DEF LimitsAt
  <2>2. CASE pool' = pool
    BY <2>1, <2>2
  <2>3. CASE pool' = [pool EXCEPT ![x] = (pool[x] \ {e}) \cup {[id |-> e.id, flag |-> FALSE]}]
    <3>1. CASE y = x
      <4>1. pool'[y] = (pool[x] \ {e}) \cup {[id |-> e.id, flag |-> FALSE]}
        BY <1>1, <1>3, <2>3, <3>1
      <4> QED
        BY <1>6, <2>1, <3>1, <4>1 DEF Ids
    <3>2. CASE y # x
      BY <1>3, <2>1, <2>3, <3>2
    <3> QED
      BY <3>1, <3>2
  <2> QED
    BY <1>1, <2>2, <2>3
<1>8. work'[t] = Tail(work[t]) /\ work[t] \in Seq(Entries) /\ \A u \in Threads : u # t => work'[u] = work[u]
  BY <1>1, <1>3
<1>9. News(work'[t]) \in Nat /\ News(work'[t]) <= News(work[t]) /\ News(work[t]) \in Nat
      /\ (e.flag => News(work'[t]) + 1 <= News(work[t]))
  BY <1>1, <1>8, NewsTail DEF e
<1>10. /\ Len(nnNew[x]) \in Nat /\ Len(nnNew'[x]) \in Nat
       /\ Len(nnNew'[x]) + News(work'[t]) <= S
       /\ \A y \in Nodes : y # x => nnNew'[y] = nnNew[y]
  <2>1. Len(nnNew[x]) + News(work[t]) <= S /\ nnNew[x] \in Seq(Nodes)
    BY <1>1, <1>3, <1>5 DEF BudgetOK, x
  <2>2. CASE nnNew' = nnNew
    BY <1>9, <2>1, <2>2, ConstantFacts
  <2>3. CASE e.flag /\ nnNew' = [nnNew EXCEPT ![x] = Append(nnNew[x], e.id)]
    <3>1. nnNew'[x] = Append(nnNew[x], e.id) /\ \A y \in Nodes : y # x => nnNew'[y] = nnNew[y]
      BY <1>1, <1>3, <2>3
    <3>2. Len(nnNew'[x]) = Len(nnNew[x]) + 1
      BY <2>1, <3>1
    <3> QED
      BY <1>9, <2>1, <2>3, <3>1, <3>2, ConstantFacts
  <2> QED
    BY <1>2, <2>2, <2>3
<1>11. \A y \in Nodes : Len(nnNew'[y]) <= S
  <2>1. Len(nnNew'[x]) <= S
    BY <1>9, <1>10, ConstantFacts
  <2> QED
    BY <1>5, <1>10, <2>1 DEF BudgetOK
<1>12. ASSUME NEW y \in Nodes PROVE LimitsAt(y)'
  <2>1. /\ Len(rnnNew[y]) <= RN /\ Len(rnnOld[y]) <= RN
        /\ y \notin Range(rnnNew[y]) /\ y \notin Range(rnnOld[y])
        /\ rnnNew[y] \in Seq(Nodes) /\ rnnOld[y] \in Seq(Nodes)
    BY <1>3, <1>5 DEF LimitsAt
  <2>2. Len(rnnNew'[y]) <= RN /\ y \notin Range(rnnNew'[y])
    <3>1. CASE rnnNew'[y] = rnnNew[y]
      BY <2>1, <3>1
    <3>2. CASE y = e.id /\ rnnNew'[y] \in Reversed(rnnNew[y], x)
      <4>1. Len(rnnNew'[y]) <= RN /\ Range(rnnNew'[y]) \subseteq Range(rnnNew[y]) \cup {x}
        BY <1>1, <2>1, <3>2, ReversedFacts
      <4> QED
        BY <1>6, <2>1, <3>2, <4>1
    <3> QED
      BY <1>2, <3>1, <3>2
  <2>3. Len(rnnOld'[y]) <= RN /\ y \notin Range(rnnOld'[y])
    <3>1. CASE rnnOld'[y] = rnnOld[y]
      BY <2>1, <3>1
    <3>2. CASE y = e.id /\ rnnOld'[y] \in Reversed(rnnOld[y], x)
      <4>1. Len(rnnOld'[y]) <= RN /\ Range(rnnOld'[y]) \subseteq Range(rnnOld[y]) \cup {x}
        BY <1>1, <2>1, <3>2, ReversedFacts
      <4> QED
        BY <1>6, <2>1, <3>2, <4>1
    <3> QED
      BY <1>2, <3>1, <3>2
  <2>4. Len(nnNew'[y]) <= S + RN
    <3>1. Len(nnNew'[y]) \in Nat
      <4>1. nnNew' \in [Nodes -> Seq(Nodes)]
        BY IntroduceFacts
      <4> QED
        BY <4>1
    <3> QED
      BY <1>11, <3>1, ConstantFacts
  <2> QED
    BY <1>1, <1>7, <2>2, <2>3, <2>4 DEF LimitsAt, Ids, Range
<1>13. ASSUME NEW u \in Threads, NEW i \in DOMAIN chunk'[u]
       PROVE  \E j \in DOMAIN chunk[u] : /\ chunk'[u][i] = chunk[u][j]
                                         /\ j = (IF u = t /\ work'[t] = << >> THEN i + 1 ELSE i)
                                         /\ i \in Int
  <2>1. chunk[u] \in Seq(Nodes) /\ chunk[t] \in Seq(Nodes)
    BY <1>3
  <2>2. CASE u = t /\ work'[t] = << >>
    <3>1. chunk'[u] = Tail(chunk[u]) /\ chunk[u] # << >>
      BY <1>1, <1>2, <1>3, <2>2
    <3> DEFINE c == chunk[u]
               r == Tail(c)
    <3>2. c \in Seq(Nodes) /\ c # << >> /\ i \in DOMAIN r
      BY <2>1, <3>1, <1>13
    <3> HIDE DEF c
    <3>3. i \in 1 .. Len(c) - 1 /\ i + 1 \in DOMAIN c /\ r[i] = c[i + 1]
      <4>1. r \in Seq(Nodes) /\ Len(r) = Len(c) - 1 /\ Len(c) \in Nat
        BY <3>2
      <4>2. DOMAIN r = 1 .. Len(c) - 1
        <5> HIDE DEF r
        <5> QED
          BY <4>1
      <4>3. i \in 1 .. Len(c) - 1
        BY <3>2, <4>2
      <4> QED
        BY <3>2, <4>1, <4>3
    <3> QED
      BY <2>2, <3>1, <3>3 DEF c
  <2>3. CASE ~ (u = t /\ work'[t] = << >>)
    <3>1. chunk'[u] = chunk[u]
      BY <1>2, <1>3, <2>3
    <3>2. i \in DOMAIN chunk[u] /\ i \in Int
      BY <2>1, <3>1
    <3> QED
      BY <2>3, <3>1, <3>2
  <2> QED
    BY <2>2, <2>3
<1>14. BudgetOK'
  <2>1. ASSUME NEW u \in Threads, NEW v \in Threads, NEW i \in DOMAIN chunk'[u], NEW j \in DOMAIN chunk'[v],
               chunk'[u][i] = chunk'[v][j]
        PROVE  u = v /\ i = j
    <3>1. PICK h \in DOMAIN chunk[u] : /\ chunk'[u][i] = chunk[u][h] /\ i \in Int
                                       /\ h = (IF u = t /\ work'[t] = << >> THEN i + 1 ELSE i)
      BY <1>13
    <3>2. PICK k \in DOMAIN chunk[v] : /\ chunk'[v][j] = chunk[v][k] /\ j \in Int
                                       /\ k = (IF v = t /\ work'[t] = << >> THEN j + 1 ELSE j)
      BY <1>13
    <3>3. u = v /\ h = k
      <4>1. chunk[u][h] = chunk[v][k]
        BY <2>1, <3>1, <3>2
      <4>2. \A a \in DOMAIN chunk[u], b \in DOMAIN chunk[v] : chunk[u][a] = chunk[v][b] => u = v /\ a = b
        BY <1>5 DEF BudgetOK
      <4> QED
        BY <3>1, <3>2, <4>1, <4>2
    <3> QED
      BY <3>1, <3>2, <3>3
  <2>2. ASSUME NEW u \in Threads, NEW i \in DOMAIN chunk'[u], i > 1 \/ work'[u] = << >>
        PROVE  nnNew'[chunk'[u][i]] = << >>
    <3>1. PICK h \in DOMAIN chunk[u] : /\ chunk'[u][i] = chunk[u][h] /\ i \in Int
                                       /\ h = (IF u = t /\ work'[t] = << >> THEN i + 1 ELSE i)
      BY <1>13
    <3>2. chunk[u] \in Seq(Nodes)
      BY <1>3
    <3>3. chunk[u][h] \in Nodes /\ h \in Int /\ h >= 1
      BY <3>1, <3>2
    <3>4. h > 1 \/ (u # t /\ work[u] = << >>)
      <4>1. CASE u = t
        <5>1. DOMAIN chunk'[u] = DOMAIN chunk'[u] /\ i >= 1
          <6>1. chunk' \in [Threads -> Seq(Nodes)]
            BY IntroduceStep DEF JoinInv, NnTypeOK
          <6>2. chunk'[u] \in Seq(Nodes)
            BY <6>1
          <6> QED
            BY <6>2
        <5> QED
          BY <2>2, <3>1, <4>1, <5>1
      <4>2. CASE u # t
        BY <1>8, <2>2, <3>1, <4>2
      <4> QED
        BY <4>1, <4>2
    <3>5. nnNew[chunk[u][h]] = << >>
      BY <1>5, <3>4 DEF BudgetOK
    <3>6. chunk[u][h] # x
      <4>1. CASE chunk[u][h] = x
        <5>1. u = t /\ h = 1
          BY <1>4, <1>5, <4>1 DEF BudgetOK
        <5> QED
          BY <3>4, <5>1
      <4> QED
        BY <4>1
    <3> QED
      BY <1>10, <3>1, <3>3, <3>5, <3>6
  <2>3. ASSUME NEW u \in Threads, work'[u] # << >>
        PROVE  Len(nnNew'[Head(chunk'[u])]) + News(work'[u]) <= S
    <3>1. CASE u = t
      BY <1>2, <1>10, <2>3, <3>1 DEF x
    <3>2. CASE u # t
      <4>1. work'[u] = work[u] /\ work[u] # << >> /\ chunk'[u] = chunk[u]
        BY <1>2, <1>3, <1>8, <2>3, <3>2
      <4>2. chunk[u] # << >>
        BY <1>1, <4>1 DEF JoinInv, WorkOK
      <4>3. chunk[u] \in Seq(Nodes)
        BY <1>3
      <4>4. Head(chunk[u]) \in Nodes /\ Head(chunk[u]) = chunk[u][1] /\ 1 \in DOMAIN chunk[u]
        BY <4>2, <4>3
      <4>5. Head(chunk[u]) # x
        BY <1>4, <1>5, <3>2, <4>4 DEF BudgetOK
      <4>6. nnNew'[Head(chunk[u])] = nnNew[Head(chunk[u])]
        BY <1>10, <4>4, <4>5
      <4>7. Len(nnNew[Head(chunk[u])]) + News(work[u]) <= S
        BY <1>5, <4>1 DEF BudgetOK
      <4> QED
        BY <4>1, <4>6, <4>7
    <3> QED
      BY <3>1, <3>2
  <2> QED
    BY <1>11, <2>1, <2>2, <2>3 DEF BudgetOK, News
<1> QED
  BY <1>1, <1>12, <1>14 DEF ListInv

(* The steps of NN-descent, one by one.                                    *)
LEMMA ListStep ==
  ASSUME JoinInv, ListInv, [Next]_vars
  PROVE  ListInv'
<1>1. ASSUME NEW t \in Threads, NnStep(t) PROVE ListInv'
  BY <1>1, ListTake, ListInsert, ListBegin, ListIntroduce DEF NnStep
<1>2. CASE NnMain
  BY <1>2, ListClear, ListMerge, ListBuild DEF NnMain
<1>3. CASE UNCHANGED nnVars
  BY <1>3, ListStutter
<1> QED
  BY <1>1, <1>2, <1>3 DEF Next, NnNext, vars

(* What the lists keep is what the runs check of them.                     *)
LEMMA ListsAreBounded ==
  ASSUME JoinInv, ListInv
  PROVE  ListsBounded
<1> SUFFICES ASSUME NEW x \in Nodes
             PROVE  /\ x \notin Ids(pool[x])
                    /\ Cardinality(Ids(pool[x])) = Cardinality(pool[x]) /\ Cardinality(pool[x]) <= LN
                    /\ Len(rnnNew[x]) <= RN /\ Len(rnnOld[x]) <= RN
                    /\ round > 1 => Len(nnNew[x]) <= S + RN
                    /\ phase = "join" => Len(nnOld[x]) <= 2 * RN
                    /\ x \notin Range(rnnNew[x]) \cup Range(rnnOld[x])
                    /\ phase = "built" =>
                         /\ x \notin Range(rows[x]) /\ Cardinality(Range(rows[x])) = K
                         /\ \A i \in 1 .. K - 1 : d(x, rows[x][i]) <= d(x, rows[x][i + 1])
  BY DEF ListsBounded
<1>1. LimitsAt(x)
  BY DEF ListInv
<1>2. Cardinality(Ids(pool[x])) = Cardinality(pool[x]) /\ Cardinality(pool[x]) <= LN
  <2>1. phase \in {"join", "update", "built", "overrun"} /\ pool[x] \in SUBSET Entries
    BY DEF JoinInv, NnTypeOK
  <2>2. CASE phase \in {"join", "update"}
    <3>1. Cardinality(pool[x]) <= LN /\ \A e, f \in pool[x] : e.id = f.id => e = f
      BY <2>2 DEF JoinInv, PoolsOK
    <3> QED
      BY <2>1, <3>1, PoolFacts
  <2>3. CASE phase \in {"built", "overrun"}
    <3>1. pool[x] = {} /\ Ids({}) = {} /\ Cardinality({}) = 0
      BY <1>1, <2>3, FS_EmptySet DEF LimitsAt, Ids
    <3> QED
      BY <3>1, ConstantFacts
  <2> QED
    BY <2>1, <2>2, <2>3
<1> QED
  BY <1>1, <1>2 DEF LimitsAt, RowOK

-------------------------------------------------------------------------------
(* The recursion of a loop.                                                *)

(* A loop that turns a state by T, and ends in Z.                          *)
Loops(f, X, Z, T) == f = [s \in X |-> IF s \in Z THEN s ELSE f[T[s]]]

(* A set that the loop does not leave.                                     *)
Stays(A, Z, T) == \A v \in A \ Z : T[v] \in A

(* Such a function exists, whether the loop ends or not.                   *)
LEMMA LoopExists ==
  ASSUME NEW X, NEW Z, NEW T, \A s \in X \ Z : T[s] \in X
  PROVE  \E f : Loops(f, X, Z, T)
<1> DEFINE O(s) == {u \in X : \A A \in SUBSET X : s \in A /\ Stays(A, Z, T) => u \in A}
           f == [s \in X |-> CHOOSE u : u \in O(s) /\ u \in Z]
<1>1. ASSUME NEW s \in X PROVE s \in O(s) /\ O(s) \in SUBSET X
  OBVIOUS
<1>2. ASSUME NEW s \in X, s \in Z PROVE f[s] = s
  <2>1. {s} \in SUBSET X /\ Stays({s}, Z, T)
    BY <1>2 DEF Stays
  <2>2. \A u \in O(s) : u \in {s}
    BY <2>1
  <2>3. \A u : u \in O(s) /\ u \in Z <=> u = s
    BY <1>1, <1>2, <2>2
  <2>4. f[s] = CHOOSE u : u \in O(s) /\ u \in Z
    OBVIOUS
  <2> HIDE DEF O, f
  <2> QED
    BY <2>3, <2>4
<1>3. ASSUME NEW s \in X \ Z, NEW t, t = T[s] PROVE O(s) \cap Z = O(t) \cap Z
  <2>1. t \in X
    BY <1>3
  <2>2. ASSUME NEW u \in O(t) PROVE u \in O(s)
    <3> SUFFICES ASSUME NEW A \in SUBSET X, s \in A, Stays(A, Z, T) PROVE u \in A
      OBVIOUS
    <3>1. t \in A
      BY <1>3 DEF Stays
    <3> QED
      BY <2>2, <3>1
  <2>3. ASSUME NEW u \in O(s), u # s PROVE u \in O(t)
    <3> DEFINE A == {s} \cup O(t)
    <3>1. A \in SUBSET X /\ s \in A
      OBVIOUS
    <3>2. Stays(A, Z, T)
      <4>1. T[s] \in A
        BY <1>1, <1>3, <2>1
      <4>2. ASSUME NEW v \in O(t), v \notin Z PROVE T[v] \in O(t)
        <5>1. v \in X /\ T[v] \in X
          BY <4>2
        <5>2. ASSUME NEW B \in SUBSET X, t \in B, Stays(B, Z, T) PROVE T[v] \in B
          <6>1. v \in B
            BY <5>2
          <6> QED
            BY <4>2, <5>2, <6>1 DEF Stays
        <5> QED
          BY <5>1, <5>2
      <4> HIDE DEF O
      <4> QED
        BY <4>1, <4>2 DEF Stays
    <3>3. u \in A
      <4> HIDE DEF A
      <4> QED
        BY <2>3, <3>1, <3>2
    <3> QED
      BY <2>3, <3>3
  <2> HIDE DEF O
  <2> QED
    BY <1>3, <2>2, <2>3
<1>4. ASSUME NEW s \in X \ Z PROVE f[s] = f[T[s]]
  <2>1. O(s) \cap Z = O(T[s]) \cap Z /\ T[s] \in X
    BY <1>3
  <2>2. f[s] = (CHOOSE u : u \in O(s) /\ u \in Z) /\ f[T[s]] = CHOOSE u : u \in O(T[s]) /\ u \in Z
    BY <2>1
  <2>3. \A u : (u \in O(s) /\ u \in Z) <=> (u \in O(T[s]) /\ u \in Z)
    <3> HIDE DEF O
    <3> QED
      BY <2>1
  <2> HIDE DEF O, f
  <2> QED
    BY <2>2, <2>3
<1>5. f = [s \in X |-> f[s]]
  OBVIOUS
<1> HIDE DEF f
<1> QED
  BY <1>2, <1>4, <1>5 DEF Loops

(* In a nonempty set some element has the least value.                     *)
LEMMA LeastValue ==
  ASSUME NEW B, B # {}, NEW v, \A a \in B : v[a] \in Nat
  PROVE  \E a \in B : \A b \in B : v[a] <= v[b]
<1>1. {v[a] : a \in B} \in SUBSET Nat /\ {v[a] : a \in B} # {}
  OBVIOUS
<1>2. PICK m \in {v[a] : a \in B} : \A x \in {v[a] : a \in B} : m <= x
  BY <1>1, LeastNumber
<1> QED
  BY <1>2

(* A turn lowers the first of five numbers that it changes.                *)
Lowers(s, t, v1, v2, v3, v4, v5) ==
  \/ v1[t] < v1[s]
  \/ v1[t] = v1[s] /\ v2[t] < v2[s]
  \/ v1[t] = v1[s] /\ v2[t] = v2[s] /\ v3[t] < v3[s]
  \/ v1[t] = v1[s] /\ v2[t] = v2[s] /\ v3[t] = v3[s] /\ v4[t] < v4[s]
  \/ v1[t] = v1[s] /\ v2[t] = v2[s] /\ v3[t] = v3[s] /\ v4[t] = v4[s] /\ v5[t] < v5[s]

Numbers(X, v1, v2, v3, v4, v5) ==
  \A s \in X : v1[s] \in Nat /\ v2[s] \in Nat /\ v3[s] \in Nat /\ v4[s] \in Nat /\ v5[s] \in Nat

Lowering(X, Z, T, v1, v2, v3, v4, v5) ==
  \A s \in X \ Z : T[s] \in X /\ Lowers(s, T[s], v1, v2, v3, v4, v5)

(* A loop whose turns do so ends.                                          *)
LEMMA LoopEnds ==
  ASSUME NEW X, NEW Z, NEW T, NEW f, Loops(f, X, Z, T),
         NEW v1, NEW v2, NEW v3, NEW v4, NEW v5,
         Numbers(X, v1, v2, v3, v4, v5), Lowering(X, Z, T, v1, v2, v3, v4, v5)
  PROVE  \A s \in X : f[s] \in Z /\ f[s] \in X
<1> DEFINE B == {s \in X : f[s] \notin Z \/ f[s] \notin X}
<1>1. ASSUME NEW s \in B PROVE s \in X \ Z /\ T[s] \in B
  BY DEF Loops, Lowering
<1>2. \A s \in B : v1[s] \in Nat /\ v2[s] \in Nat /\ v3[s] \in Nat /\ v4[s] \in Nat /\ v5[s] \in Nat
  BY DEF Numbers
<1>3. \A s \in B : Lowers(s, T[s], v1, v2, v3, v4, v5)
  BY <1>1 DEF Lowering
<1>4. B = {}
  <2> HIDE DEF B
  <2> SUFFICES ASSUME B # {} PROVE FALSE
    OBVIOUS
  <2>1. PICK a1 \in B : \A b \in B : v1[a1] <= v1[b]
    BY <1>2, LeastValue
  <2> DEFINE B1 == {b \in B : v1[b] = v1[a1]}
  <2>2. PICK a2 \in B1 : \A b \in B1 : v2[a2] <= v2[b]
    <3>1. B1 # {} /\ \A b \in B1 : v2[b] \in Nat
      BY <1>2
    <3> HIDE DEF B1
    <3> QED
      BY <3>1, LeastValue
  <2> DEFINE B2 == {b \in B1 : v2[b] = v2[a2]}
  <2>3. PICK a3 \in B2 : \A b \in B2 : v3[a3] <= v3[b]
    <3>1. B2 # {} /\ \A b \in B2 : v3[b] \in Nat
      BY <1>2, <2>2
    <3> HIDE DEF B2
    <3> QED
      BY <3>1, LeastValue
  <2> DEFINE B3 == {b \in B2 : v3[b] = v3[a3]}
  <2>4. PICK a4 \in B3 : \A b \in B3 : v4[a4] <= v4[b]
    <3>1. B3 # {} /\ \A b \in B3 : v4[b] \in Nat
      BY <1>2, <2>3
    <3> HIDE DEF B3
    <3> QED
      BY <3>1, LeastValue
  <2> DEFINE B4 == {b \in B3 : v4[b] = v4[a4]}
  <2>5. PICK a5 \in B4 : \A b \in B4 : v5[a5] <= v5[b]
    <3>1. B4 # {} /\ \A b \in B4 : v5[b] \in Nat
      BY <1>2, <2>4
    <3> HIDE DEF B4
    <3> QED
      BY <3>1, LeastValue
  <2> DEFINE t == T[a5]
  <2>6. a5 \in B /\ t \in B /\ Lowers(a5, t, v1, v2, v3, v4, v5)
    BY <1>1, <1>3, <2>5
  <2>7. v1[a5] = v1[a1] /\ v2[a5] = v2[a2] /\ v3[a5] = v3[a3] /\ v4[a5] = v4[a4]
    BY <2>5
  <2> HIDE DEF t
  <2>8. v1[t] \in Nat /\ v1[a5] \in Nat /\ v1[a5] <= v1[t]
    BY <1>2, <2>1, <2>6, <2>7
  <2>9. v1[t] = v1[a5] => v2[t] \in Nat /\ v2[a5] \in Nat /\ v2[a5] <= v2[t]
    BY <1>2, <2>2, <2>6, <2>7
  <2>10. v1[t] = v1[a5] /\ v2[t] = v2[a5] => v3[t] \in Nat /\ v3[a5] \in Nat /\ v3[a5] <= v3[t]
    BY <1>2, <2>3, <2>6, <2>7
  <2>11. v1[t] = v1[a5] /\ v2[t] = v2[a5] /\ v3[t] = v3[a5] =>
           v4[t] \in Nat /\ v4[a5] \in Nat /\ v4[a5] <= v4[t]
    BY <1>2, <2>4, <2>6, <2>7
  <2>12. v1[t] = v1[a5] /\ v2[t] = v2[a5] /\ v3[t] = v3[a5] /\ v4[t] = v4[a5] =>
           v5[t] \in Nat /\ v5[a5] \in Nat /\ v5[a5] <= v5[t]
    BY <1>2, <2>5, <2>6, <2>7
  <2> QED
    BY <2>6, <2>8, <2>9, <2>10, <2>11, <2>12 DEF Lowers
<1> QED
  BY <1>4

-------------------------------------------------------------------------------
(* The searches.                                                           *)
LEMMA NsgFacts ==
  /\ NL \in Nat \ {0} /\ NR \in Nat \ {0} /\ C \in Nat \ {0} /\ NL <= Size
  /\ \A w \in Worlds : w.center \in [Nodes -> Int]
BY NsgAssumption

(* The pool takes an entry and loses its last one.                         *)
LEMMA PoolInserted ==
  ASSUME NEW T, NEW n \in Nat \ {0}, NEW p \in [1 .. n -> T], NEW r \in 1 .. n, NEW e \in T
  PROVE  SubSeq(InsertAt(p, r, e), 1, n) \in [1 .. n -> T]
<1> DEFINE a == SubSeq(p, 1, r - 1)
           b == SubSeq(p, r, n)
           l == a \o <<e>> \o b
<1>1. p \in Seq(T) /\ Len(p) = n
  BY AsSeq
<1>2. a \in Seq(T) /\ Len(a) = r - 1
  BY <1>1
<1>3. b \in Seq(T) /\ Len(b) = n - r + 1
  BY <1>1
<1>4. InsertAt(p, r, e) = l
  BY <1>1 DEF InsertAt
<1>5. l \in Seq(T) /\ Len(l) = n + 1
  <2>1. <<e>> \in Seq(T) /\ Len(<<e>>) = 1
    OBVIOUS
  <2> HIDE DEF a, b
  <2>2. a \o <<e>> \in Seq(T) /\ Len(a \o <<e>>) = r
    BY <1>2, <2>1
  <2> QED
    BY <1>3, <2>2
<1> HIDE DEF l
<1>6. SubSeq(l, 1, n) \in Seq(T) /\ Len(SubSeq(l, 1, n)) = n
  BY <1>5
<1>7. SubSeq(l, 1, n) \in [1 .. n -> T]
  <2> DEFINE u == SubSeq(l, 1, n)
  <2>1. u \in Seq(T) /\ Len(u) = n
    BY <1>6
  <2> HIDE DEF u
  <2>2. u \in [1 .. n -> T]
    BY <2>1
  <2> QED
    BY <2>2 DEF u
<1> QED
  BY <1>4, <1>7

(* To examine a link marks it as seen; a link seen before changes nothing  *)
(* else.                                                                   *)
LEMMA ExamineFacts ==
  ASSUME NEW q \in [Nodes -> Int], NEW s \in SearchStates, s.scan # << >>
  PROVE  /\ Examine(s, q) \in SearchStates
         /\ Examine(s, q).seen = s.seen \cup {Head(s.scan)}
         /\ Head(s.scan) \in s.seen =>
              /\ Examine(s, q).pool = s.pool /\ Examine(s, q).nk = s.nk /\ Examine(s, q).k = s.k
              /\ Examine(s, q).scan = Tail(s.scan)
<1> DEFINE x == Head(s.scan)
           far(i) == q[s.pool[i].id] > q[x]
           R(i) == q[s.pool[i].id] > q[x] /\ \A j \in 1 .. i - 1 : q[s.pool[j].id] <= q[x]
           r == CHOOSE i \in 1 .. NL : R(i)
           t == [s EXCEPT !.scan = Tail(@), !.seen = @ \cup {x},
                          !.full = IF x \in s.seen THEN @ ELSE @ \cup {x}]
<1>1. /\ s = [pool |-> s.pool, seen |-> s.seen, full |-> s.full, k |-> s.k, nk |-> s.nk, scan |-> s.scan]
      /\ s.pool \in [1 .. NL -> Entries] /\ s.seen \in SUBSET Nodes /\ s.full \in SUBSET Nodes
      /\ s.k \in 1 .. NL + 1 /\ s.nk \in 1 .. NL + 1 /\ s.scan \in Seq(Nodes)
  BY DEF SearchStates
<1>2. x \in Nodes /\ Tail(s.scan) \in Seq(Nodes)
  BY <1>1
<1> DEFINE tail == Tail(s.scan)
           seen == s.seen \cup {x}
           full == IF x \in s.seen THEN s.full ELSE s.full \cup {x}
<1>3. t = [s EXCEPT !.scan = tail, !.seen = seen, !.full = full]
  OBVIOUS
<1>4. t \in SearchStates /\ t.pool = s.pool /\ t.seen = s.seen \cup {x} /\ t.nk = s.nk
      /\ t.k = s.k /\ t.scan = Tail(s.scan) /\ t.full \in SUBSET Nodes
  <2>1. tail \in Seq(Nodes) /\ seen \in SUBSET Nodes /\ full \in SUBSET Nodes
    BY <1>1, <1>2
  <2> HIDE DEF t, tail, seen, full
  <2>2. /\ t \in SearchStates /\ t.scan = tail /\ t.seen = seen /\ t.full = full
        /\ t.pool = s.pool /\ t.k = s.k /\ t.nk = s.nk
    BY <1>3, <2>1 DEF SearchStates
  <2> QED
    BY <2>1, <2>2 DEF tail, seen
<1>5. Examine(s, q) = IF x \in s.seen \/ q[x] >= q[s.pool[NL].id] THEN t
                      ELSE [t EXCEPT !.pool = SubSeq(InsertAt(@, r, [id |-> x, flag |-> TRUE]), 1, NL),
                                     !.nk = IF r < @ THEN r ELSE @]
  BY DEF Examine
<1>6. CASE x \in s.seen \/ q[x] >= q[s.pool[NL].id]
  BY <1>4, <1>5, <1>6
<1>7. CASE ~ (x \in s.seen \/ q[x] >= q[s.pool[NL].id])
  <2>1. r \in 1 .. NL
    <3>1. NL \in 1 .. NL /\ \A i \in 1 .. NL : s.pool[i].id \in Nodes /\ q[s.pool[i].id] \in Int
      BY <1>1, NsgFacts DEF Entries
    <3>2. q[x] \in Int
      BY <1>2
    <3> HIDE DEF x
    <3> DEFINE F == {i \in 1 .. NL : q[s.pool[i].id] > q[x]}
    <3>3. F \in SUBSET Nat /\ F # {}
      BY <1>7, <3>1, <3>2
    <3>4. PICK m \in F : \A i \in F : m <= i
      <4> HIDE DEF F
      <4> QED
        BY <3>3, LeastNumber
    <3>5. \A j \in 1 .. m - 1 : j \in 1 .. NL /\ j \notin F
      <4>1. m \in 1 .. NL /\ \A j \in 1 .. m - 1 : j \in 1 .. NL /\ ~ (m <= j)
        BY NsgFacts
      <4> HIDE DEF F
      <4> QED
        BY <3>4, <4>1
    <3>6. m \in 1 .. NL /\ R(m)
      BY <3>1, <3>2, <3>5
    <3> HIDE DEF R
    <3> QED
      BY <3>6
  <2>2. [id |-> x, flag |-> TRUE] \in Entries
    <3> HIDE DEF x
    <3> QED
      BY <1>2 DEF Entries
  <2> DEFINE p == SubSeq(InsertAt(s.pool, r, [id |-> x, flag |-> TRUE]), 1, NL)
             m == IF r < s.nk THEN r ELSE s.nk
  <2> HIDE DEF r, x
  <2>3. p \in [1 .. NL -> Entries]
    BY <1>1, <2>1, <2>2, NsgFacts, PoolInserted
  <2>4. m \in 1 .. NL + 1
    BY <1>1, <2>1, NsgFacts
  <2>5. Examine(s, q) = [t EXCEPT !.pool = p, !.nk = m]
    BY <1>4, <1>5, <1>7
  <2> HIDE DEF p, m, t
  <2>6. Examine(s, q) \in SearchStates /\ Examine(s, q).seen = t.seen
    BY <1>4, <2>3, <2>4, <2>5 DEF SearchStates
  <2> QED
    BY <1>4, <1>7, <2>6 DEF x
<1> QED
  BY <1>6, <1>7

(* A search that is over.                                                  *)
Over == {s \in SearchStates : s.scan = << >> /\ s.k > NL}

(* The nodes not evaluated, the entries to expand, whether the cursor is   *)
(* to jump, how far it is from the end, and the links to examine.          *)
Unseen == [s \in SearchStates |-> Size - Cardinality(s.seen)]
Flagged == [s \in SearchStates |-> Cardinality({i \in 1 .. NL : s.pool[i].flag})]
Jumps == [s \in SearchStates |-> IF s.nk <= NL THEN 1 ELSE 0]
ToGo == [s \in SearchStates |-> NL + 1 - s.k]
Links == [s \in SearchStates |-> Len(s.scan)]

(* The five parts of the measure are numbers.                              *)
LEMMA MeasureType == Numbers(SearchStates, Unseen, Flagged, Jumps, ToGo, Links)
<1> SUFFICES ASSUME NEW s \in SearchStates
             PROVE  Unseen[s] \in Nat /\ Flagged[s] \in Nat /\ Jumps[s] \in Nat /\ ToGo[s] \in Nat /\ Links[s] \in Nat
  BY DEF Numbers
<1>1. /\ s.pool \in [1 .. NL -> Entries] /\ s.seen \in SUBSET Nodes
      /\ s.k \in 1 .. NL + 1 /\ s.nk \in 1 .. NL + 1 /\ s.scan \in Seq(Nodes)
  BY DEF SearchStates
<1>2. Unseen[s] \in Nat
  <2>1. Cardinality(s.seen) \in Nat /\ Cardinality(s.seen) <= Size
    BY <1>1, NodesFinite, FS_Subset, FS_CardinalityType
  <2> QED
    BY <2>1, ConstantFacts DEF Unseen
<1>3. Flagged[s] \in Nat
  <2> DEFINE F == {i \in 1 .. NL : s.pool[i].flag}
  <2>1. IsFiniteSet(1 .. NL)
    <3>1. 1 \in Int /\ NL \in Int
      BY NsgFacts
    <3> QED
      BY <3>1, FS_Interval
  <2>2. IsFiniteSet(F)
    BY <2>1, FS_Subset
  <2> HIDE DEF F
  <2>3. Cardinality(F) \in Nat
    BY <2>2, FS_CardinalityType
  <2> QED
    BY <2>3 DEF F, Flagged
<1>4. ToGo[s] \in Nat
  BY <1>1, NsgFacts DEF ToGo
<1>5. Links[s] \in Nat /\ Jumps[s] \in Nat
  BY <1>1 DEF Links, Jumps
<1> QED
  BY <1>2, <1>3, <1>4, <1>5

(* Every turn of a search lowers the measure: a node is seen for the first *)
(* time, or none is and an entry is expanded, or neither and the cursor    *)
(* jumps back, or goes on, or a link is done with.                         *)
LEMMA TurnFacts ==
  ASSUME NEW g \in [Nodes -> Seq(Nodes)], NEW q \in [Nodes -> Int], NEW s \in SearchStates, s \notin Over
  PROVE  /\ Turn(s, g, q) \in SearchStates
         /\ Lowers(s, Turn(s, g, q), Unseen, Flagged, Jumps, ToGo, Links)
<1> DEFINE t == Turn(s, g, q)
<1>1. /\ s.pool \in [1 .. NL -> Entries] /\ s.seen \in SUBSET Nodes /\ s.full \in SUBSET Nodes
      /\ s.k \in 1 .. NL + 1 /\ s.nk \in 1 .. NL + 1 /\ s.scan \in Seq(Nodes)
  BY DEF SearchStates
<1>2. s.scan = << >> => s.k \in 1 .. NL
  BY <1>1, NsgFacts DEF Over
<1>3. CASE s.scan # << >>
  <2>1. t = Examine(s, q)
    BY <1>3 DEF Turn
  <2>2. /\ t \in SearchStates /\ t.seen = s.seen \cup {Head(s.scan)}
        /\ Head(s.scan) \in s.seen =>
             t.pool = s.pool /\ t.nk = s.nk /\ t.k = s.k /\ t.scan = Tail(s.scan)
    BY <1>3, <2>1, ExamineFacts
  <2> HIDE DEF t
  <2>3. CASE Head(s.scan) \in s.seen
    <3>1. t.seen = s.seen
      BY <2>2, <2>3
    <3>2. Unseen[t] = Unseen[s]
      BY <2>2, <3>1 DEF Unseen
    <3>3. Flagged[t] = Flagged[s]
      BY <2>2, <2>3 DEF Flagged
    <3>4. Jumps[t] = Jumps[s] /\ ToGo[t] = ToGo[s]
      BY <2>2, <2>3 DEF Jumps, ToGo
    <3>5. Links[t] < Links[s]
      <4>1. Len(Tail(s.scan)) = Len(s.scan) - 1 /\ Len(s.scan) \in Nat
        BY <1>1, <1>3
      <4>2. Links[t] = Len(t.scan) /\ Links[s] = Len(s.scan) /\ t.scan = Tail(s.scan)
        BY <2>2, <2>3 DEF Links
      <4> DEFINE a == Len(Tail(s.scan))
                 b == Len(s.scan)
      <4>3. a = b - 1 /\ b \in Nat /\ Links[t] = a /\ Links[s] = b
        BY <4>1, <4>2
      <4> HIDE DEF a, b
      <4> QED
        BY <4>3
    <3> QED
      BY <2>2, <3>2, <3>3, <3>4, <3>5 DEF Lowers, t
  <2>4. CASE Head(s.scan) \notin s.seen
    <3>1. Head(s.scan) \in Nodes
      BY <1>1, <1>3
    <3>2. IsFiniteSet(s.seen)
      BY <1>1, NodesFinite, FS_Subset
    <3>3. Cardinality(t.seen) = Cardinality(s.seen) + 1 /\ Cardinality(s.seen) \in Nat
      BY <2>2, <2>4, <3>2, FS_AddElement, FS_CardinalityType
    <3>4. Unseen[t] < Unseen[s]
      <4> DEFINE a == Cardinality(t.seen)
                 b == Cardinality(s.seen)
      <4>1. Unseen[t] = Size - a /\ Unseen[s] = Size - b /\ a = b + 1 /\ b \in Nat /\ Size \in Nat
        BY <2>2, <3>3, ConstantFacts DEF Unseen
      <4> HIDE DEF a, b
      <4> QED
        BY <4>1
    <3> QED
      BY <2>2, <3>4 DEF Lowers, t
  <2> QED
    BY <2>3, <2>4
<1>4. CASE s.scan = << >> /\ s.nk <= s.k
  <2>1. t = [s EXCEPT !.k = s.nk, !.nk = NL + 1]
    BY <1>4 DEF Turn
  <2>2. NL + 1 \in 1 .. NL + 1 /\ ~ (NL + 1 <= NL) /\ s.nk <= NL
    BY <1>1, <1>2, <1>4, NsgFacts
  <2> HIDE DEF t
  <2>3. /\ t \in SearchStates /\ t.seen = s.seen /\ t.pool = s.pool /\ t.nk = NL + 1
    BY <1>1, <2>1, <2>2 DEF SearchStates
  <2>4. Unseen[t] = Unseen[s] /\ Flagged[t] = Flagged[s]
    BY <2>3 DEF Unseen, Flagged
  <2>5. Jumps[t] = 0 /\ Jumps[s] = 1
    BY <2>2, <2>3 DEF Jumps
  <2> QED
    BY <2>3, <2>4, <2>5 DEF Lowers, t
<1>5. CASE s.scan = << >> /\ ~ (s.nk <= s.k) /\ s.pool[s.k].flag
  <2> DEFINE e == s.pool[s.k]
             p == [s.pool EXCEPT ![s.k].flag = FALSE]
             l == g[s.pool[s.k].id]
  <2>1. t = [s EXCEPT !.pool = p, !.scan = l]
    BY <1>5 DEF Turn
  <2>2. e \in Entries /\ s.k \in 1 .. NL
    BY <1>1, <1>2, <1>5
  <2>3. [e EXCEPT !.flag = FALSE] \in Entries
    <3> HIDE DEF e
    <3> QED
      BY <2>2 DEF Entries
  <2>4. /\ p \in [1 .. NL -> Entries] /\ ~ p[s.k].flag
        /\ \A i \in 1 .. NL : i # s.k => p[i] = s.pool[i]
    BY <1>1, <2>2, <2>3 DEF Entries
  <2>5. l \in Seq(Nodes)
    BY <2>2 DEF Entries
  <2> HIDE DEF t, p, l
  <2>6. t \in SearchStates /\ t.seen = s.seen /\ t.pool = p
    BY <2>1, <2>4, <2>5 DEF SearchStates
  <2>7. Unseen[t] = Unseen[s]
    BY <2>6 DEF Unseen
  <2>8. Flagged[t] < Flagged[s]
    <3> DEFINE A == {i \in 1 .. NL : s.pool[i].flag}
               B == {i \in 1 .. NL : p[i].flag}
    <3>1. IsFiniteSet(A)
      <4>1. 1 \in Int /\ NL \in Int
        BY NsgFacts
      <4>2. IsFiniteSet(1 .. NL)
        BY <4>1, FS_Interval
      <4> QED
        BY <4>2, FS_Subset
    <3>2. B = A \ {s.k} /\ s.k \in A
      BY <1>5, <2>2, <2>4
    <3>3. Flagged[t] = Cardinality(B) /\ Flagged[s] = Cardinality(A)
      BY <2>6 DEF Flagged
    <3> HIDE DEF A, B
    <3>4. Cardinality(B) = Cardinality(A) - 1 /\ Cardinality(A) \in Nat
      BY <3>1, <3>2, FS_RemoveElement, FS_CardinalityType
    <3> QED
      BY <3>3, <3>4
  <2> QED
    BY <2>6, <2>7, <2>8 DEF Lowers, t
<1>6. CASE s.scan = << >> /\ ~ (s.nk <= s.k) /\ ~ s.pool[s.k].flag
  <2>1. t = [s EXCEPT !.k = s.k + 1, !.nk = NL + 1]
    BY <1>6 DEF Turn
  <2>2. NL + 1 \in 1 .. NL + 1 /\ ~ (NL + 1 <= NL) /\ s.k + 1 \in 1 .. NL + 1
    BY <1>1, <1>2, <1>6, NsgFacts
  <2> HIDE DEF t
  <2>3. /\ t \in SearchStates /\ t.seen = s.seen /\ t.pool = s.pool /\ t.nk = NL + 1 /\ t.k = s.k + 1
    BY <1>1, <2>1, <2>2 DEF SearchStates
  <2>4. Unseen[t] = Unseen[s] /\ Flagged[t] = Flagged[s]
    BY <2>3 DEF Unseen, Flagged
  <2>5. Jumps[t] = 0 /\ Jumps[s] \in {0, 1}
    BY <2>2, <2>3 DEF Jumps
  <2>6. ToGo[t] < ToGo[s]
    <3>1. s.k \in Int /\ NL \in Int
      BY <1>1, NsgFacts
    <3> QED
      BY <2>3, <3>1 DEF ToGo
  <2>7. Jumps[t] = Jumps[s] \/ Jumps[t] < Jumps[s]
    BY <2>5
  <2> QED
    BY <2>3, <2>4, <2>6, <2>7 DEF Lowers, t
<1> QED
  BY <1>3, <1>4, <1>5, <1>6

(* A sequence of the elements of a finite set.                             *)
LEMMA SetToSeqType ==
  ASSUME NEW F, IsFiniteSet(F)
  PROVE  SetToSeq(F) \in Seq(F) /\ Len(SetToSeq(F)) = Cardinality(F)
<1> DEFINE n == Cardinality(F)
<1>1. n \in Nat
  BY FS_CardinalityType
<1>2. \E f \in [1 .. n -> F] : IsInjective(f)
  <2>1. ExistsBijection(1 .. n, F)
    BY FS_NatBijection, FS_CountingElements, <1>1
  <2>2. PICK f \in Bijection(1 .. n, F) : TRUE
    BY <2>1 DEF ExistsBijection
  <2>3. f \in [1 .. n -> F] /\ \A a, b \in 1 .. n : f[a] = f[b] => a = b
    BY <2>2 DEF Bijection, Injection, Surjection, IsInjective
  <2> QED
    BY <2>3 DEF IsInjective
<1>3. SetToSeq(F) \in [1 .. n -> F]
  BY <1>2 DEF SetToSeq
<1> HIDE DEF n
<1> DEFINE s == SetToSeq(F)
<1>4. s \in [1 .. n -> F]
  BY <1>3
<1> HIDE DEF s
<1> QED
  BY <1>1, <1>4, AsSeq DEF s, n

Picked(l, F, o) == [i \in 1 .. NL |-> (l \o SetToSeq(F))[o[i]]]

(* A pool that is filled from the links and other nodes, and sorted.       *)
LEMMA FirstPool ==
  ASSUME NEW l \in Seq(Nodes), NEW F, F \subseteq Nodes, Cardinality(F) = NL - Len(l),
         NEW dist, DOMAIN dist = 1 .. NL, NEW o, o \in Sortings(dist)
  PROVE  Picked(l, F, o) \in [1 .. NL -> Nodes]
<1> DEFINE b == SetToSeq(F)
           a == l \o b
<1>1. b \in Seq(F) /\ Len(b) = NL - Len(l)
  BY NodesFinite, FS_Subset, SetToSeqType
<1> HIDE DEF b
<1>2. b \in Seq(Nodes)
  BY <1>1
<1>3. a \in Seq(Nodes) /\ Len(a) = NL
  <2>1. a \in Seq(Nodes) /\ Len(a) = Len(l) + Len(b)
    BY <1>2
  <2>2. Len(l) \in Nat
    OBVIOUS
  <2> HIDE DEF a
  <2> QED
    BY <1>1, <2>1, <2>2, NsgFacts
<1>4. 1 \in Int /\ NL \in Int /\ NL - 1 + 1 = NL /\ ~ (1 > NL)
  BY NsgFacts
<1>5. IsFiniteSet(1 .. NL) /\ Cardinality(1 .. NL) = NL
  BY <1>4, FS_Interval
<1>6. o \in Seq(1 .. NL) /\ Len(o) = NL
  BY <1>5, SortingsType
<1> HIDE DEF a
<1>7. [i \in 1 .. NL |-> a[o[i]]] \in [1 .. NL -> Nodes]
  BY <1>3, <1>6, NsgFacts
<1> QED
  BY <1>7 DEF a, b, Picked

(* The pools that a search may start from have NL nodes.                   *)
LEMMA PoolsType ==
  ASSUME NEW g \in [Nodes -> Seq(Nodes)], NEW q \in [Nodes -> Int], NEW e \in Nodes
  PROVE  \A p \in Pools(g, q, e) : p \in [1 .. NL -> Nodes]
<1> DEFINE linked == SubSeq(g[e], 1, IF Len(g[e]) < NL THEN Len(g[e]) ELSE NL)
           rest == {F \in SUBSET (Nodes \ Range(linked)) : Cardinality(F) = NL - Len(linked)}
           far(F) == [i \in 1 .. NL |-> q[(linked \o SetToSeq(F))[i]]]
           pools(F) == {Picked(linked, F, o) : o \in Sortings(far(F))}
<1>1. Pools(g, q, e) = UNION {pools(F) : F \in rest}
  BY DEF Pools, Picked
<1>2. linked \in Seq(Nodes)
  BY NsgFacts
<1> HIDE DEF linked
<1>3. ASSUME NEW F \in rest, NEW p \in pools(F) PROVE p \in [1 .. NL -> Nodes]
  <2>1. F \subseteq Nodes /\ Cardinality(F) = NL - Len(linked)
    OBVIOUS
  <2>2. PICK o : o \in Sortings(far(F)) /\ p = Picked(linked, F, o)
    OBVIOUS
  <2> DEFINE dist == far(F)
  <2>3. DOMAIN dist = 1 .. NL /\ o \in Sortings(dist)
    BY <2>2
  <2> HIDE DEF dist
  <2>4. Picked(linked, F, o) \in [1 .. NL -> Nodes]
    BY <1>2, <2>1, <2>3, FirstPool
  <2> QED
    BY <2>2, <2>4
<1> HIDE DEF rest, pools
<1> QED
  BY <1>1, <1>3

(* A search ends, and in a state of a search.                              *)
LEMMA SearchesType ==
  ASSUME NEW g \in [Nodes -> Seq(Nodes)], NEW q \in [Nodes -> Int], NEW e \in Nodes,
         NEW s \in Searches(g, q, e)
  PROVE  s \in SearchStates
<1> DEFINE turn == [u \in SearchStates |-> Turn(u, g, q)]
           first(p) == [pool |-> [i \in 1 .. NL |-> [id |-> p[i], flag |-> TRUE]],
                        seen |-> Range(p), full |-> {}, k |-> 1, nk |-> NL + 1, scan |-> << >>]
           Is(f) == f = [u \in SearchStates |-> IF u.scan = << >> /\ u.k > NL THEN u ELSE f[Turn(u, g, q)]]
           run == CHOOSE f : Is(f)
<1>1. /\ \A u \in SearchStates \ Over : turn[u] \in SearchStates
      /\ \A u \in SearchStates \ Over : Lowers(u, turn[u], Unseen, Flagged, Jumps, ToGo, Links)
  <2>1. \A u \in SearchStates : turn[u] = Turn(u, g, q)
    OBVIOUS
  <2> HIDE DEF turn
  <2> QED
    BY <2>1, TurnFacts
<1>2. ASSUME NEW f PROVE Is(f) <=> Loops(f, SearchStates, Over, turn)
  <2>1. ASSUME NEW u \in SearchStates
        PROVE  (IF u.scan = << >> /\ u.k > NL THEN u ELSE f[Turn(u, g, q)])
               = (IF u \in Over THEN u ELSE f[turn[u]])
    BY DEF Over
  <2> DEFINE a == [u \in SearchStates |-> IF u.scan = << >> /\ u.k > NL THEN u ELSE f[Turn(u, g, q)]]
             b == [u \in SearchStates |-> IF u \in Over THEN u ELSE f[turn[u]]]
  <2>2. a = b
    <3> HIDE DEF turn
    <3> QED
      BY <2>1
  <2> QED
    BY <2>2 DEF Loops
<1>3. Loops(run, SearchStates, Over, turn)
  <2>1. \E f : Loops(f, SearchStates, Over, turn)
    <3> HIDE DEF turn
    <3> QED
      BY <1>1, LoopExists
  <2>2. \E f : Is(f)
    <3> HIDE DEF Is, turn
    <3> QED
      BY <1>2, <2>1
  <2> HIDE DEF Is, turn
  <2>3. Is(run)
    BY <2>2
  <2> QED
    BY <1>2, <2>3
<1>4. \A u \in SearchStates : run[u] \in Over /\ run[u] \in SearchStates
  <2> HIDE DEF turn, run
  <2>1. Lowering(SearchStates, Over, turn, Unseen, Flagged, Jumps, ToGo, Links)
    BY <1>1 DEF Lowering
  <2> QED
    BY <1>3, <2>1, MeasureType, LoopEnds
<1>5. PICK p \in Pools(g, q, e) : s = run[first(p)]
  BY Zenon DEF Searches
<1>6. first(p) \in SearchStates
  <2>1. p \in [1 .. NL -> Nodes]
    BY PoolsType
  <2>2. Range(p) \in SUBSET Nodes
    BY <2>1 DEF Range
  <2>3. [i \in 1 .. NL |-> [id |-> p[i], flag |-> TRUE]] \in [1 .. NL -> Entries]
    BY <2>1 DEF Entries
  <2>4. 1 \in 1 .. NL + 1 /\ NL + 1 \in 1 .. NL + 1 /\ << >> \in Seq(Nodes)
    BY NsgFacts
  <2> QED
    BY <2>2, <2>3, <2>4 DEF SearchStates
<1> HIDE DEF run, first
<1> QED
  BY <1>4, <1>5, <1>6

-------------------------------------------------------------------------------
(* Recursion on a number, from a to b by the step h.                       *)
Steps(F, a, b, e, h) == F[a] = e /\ \A n \in a + 1 .. b : F[n] = h[<<n, F[n - 1]>>]

(* A function by recursion on a number exists, and has its values in D.    *)
LEMMA Recursion ==
  ASSUME NEW D, NEW a \in Nat, NEW m \in Nat, NEW e \in D, NEW h \in [(a + 1 .. a + m) \X D -> D]
  PROVE  \E F \in [a .. a + m -> D] : Steps(F, a, a + m, e, h)
<1> DEFINE Has(k) == \E F \in [a .. a + k -> D] : Steps(F, a, a + k, e, h)
           B == {k \in Nat : k <= m /\ ~ Has(k)}
<1>1. B = {}
  <2> SUFFICES ASSUME B # {} PROVE FALSE
    OBVIOUS
  <2>1. PICK k \in B : \A j \in B : k <= j
    <3>1. B \in SUBSET Nat
      OBVIOUS
    <3> HIDE DEF B
    <3> QED
      BY <3>1, LeastNumber
  <2>2. k \in Nat /\ k <= m /\ ~ Has(k)
    BY <2>1
  <2>3. CASE k = 0
    <3> DEFINE F == [n \in a .. a + 0 |-> e]
    <3>1. F \in [a .. a + 0 -> D] /\ F[a] = e
      OBVIOUS
    <3>2. \A n \in a + 1 .. a + 0 : FALSE
      OBVIOUS
    <3> HIDE DEF F
    <3>3. Steps(F, a, a + 0, e, h)
      BY <3>1, <3>2 DEF Steps
    <3> QED
      BY <2>2, <2>3, <3>1, <3>3
  <2>4. CASE k # 0
    <3>1. k - 1 \in Nat /\ k - 1 <= m /\ ~ (k <= k - 1)
      BY <2>2, <2>4
    <3>2. k - 1 \notin B
      <4> HIDE DEF B
      <4> QED
        BY <2>1, <3>1
    <3>3. PICK F \in [a .. a + (k - 1) -> D] : Steps(F, a, a + (k - 1), e, h)
      BY <3>1, <3>2
    <3> DEFINE l == a + k
               G == [n \in a .. l |-> IF n = l THEN h[<<l, F[l - 1]>>] ELSE F[n]]
    <3>4. l \in a + 1 .. a + m /\ l - 1 = a + (k - 1) /\ l - 1 \in a .. l - 1 /\ a # l /\ a \in a .. l - 1
      BY <2>2, <2>4
    <3>5. F \in [a .. l - 1 -> D] /\ F[a] = e /\ \A n \in a + 1 .. l - 1 : F[n] = h[<<n, F[n - 1]>>]
      BY <3>3, <3>4 DEF Steps
    <3> HIDE DEF l
    <3>6. h[<<l, F[l - 1]>>] \in D
      BY <3>4, <3>5
    <3>7. G \in [a .. l -> D] /\ G[a] = e
      <4>1. \A n \in a .. l : n # l => n \in a .. l - 1
        BY <3>4
      <4>2. a \in a .. l
        BY <3>4
      <4> QED
        BY <3>4, <3>5, <3>6, <4>1, <4>2
    <3>8. ASSUME NEW n \in a + 1 .. l PROVE G[n] = h[<<n, G[n - 1]>>]
      <4>1. n \in a .. l /\ n - 1 \in a .. l /\ n - 1 # l /\ (n # l => n \in a + 1 .. l - 1)
        BY <3>4, <3>8
      <4>2. G[n - 1] = F[n - 1]
        BY <4>1
      <4>3. CASE n = l
        BY <4>1, <4>2, <4>3
      <4>4. CASE n # l
        <5>1. G[n] = F[n] /\ F[n] = h[<<n, F[n - 1]>>]
          BY <3>5, <4>1, <4>4
        <5> HIDE DEF G
        <5> QED
          BY <4>2, <5>1
      <4> QED
        BY <4>3, <4>4
    <3> HIDE DEF G
    <3>9. Steps(G, a, l, e, h)
      BY <3>7, <3>8 DEF Steps
    <3> QED
      BY <2>2, <3>7, <3>9 DEF l
  <2> QED
    BY <2>3, <2>4
<1>2. m <= m
  OBVIOUS
<1> QED
  BY <1>1, <1>2

(* What a function has at a and keeps from one number to the next.         *)
LEMMA Keeps ==
  ASSUME NEW D, NEW a \in Nat, NEW b \in Nat, NEW F, F[a] \in D,
         \A n \in a + 1 .. b : F[n - 1] \in D => F[n] \in D
  PROVE  \A n \in a .. b : F[n] \in D
<1> DEFINE B == {n \in a .. b : F[n] \notin D}
<1>1. B = {}
  <2> SUFFICES ASSUME B # {} PROVE FALSE
    OBVIOUS
  <2>1. PICK n \in B : \A j \in B : n <= j
    <3>1. B \in SUBSET Nat
      OBVIOUS
    <3> HIDE DEF B
    <3> QED
      BY <3>1, LeastNumber
  <2>2. n \in a .. b /\ n # a
    OBVIOUS
  <2>3. n \in a + 1 .. b /\ n - 1 \in a .. b /\ ~ (n <= n - 1)
    BY <2>2
  <2>4. n - 1 \notin B
    <3> HIDE DEF B
    <3> QED
      BY <2>1, <2>3
  <2> QED
    BY <2>3, <2>4
<1> QED
  BY <1>1

-------------------------------------------------------------------------------
(* The choice.                                                             *)

(* What Chosen of Select is.                                               *)
ChosenIs(F, list) ==
  F = [n \in 1 .. Len(list) |->
         IF n = 1 THEN <<list[1]>>
         ELSE LET r == F[n - 1] IN
                IF Len(r) >= NR \/ Occluded(r, list[n]) THEN r ELSE Append(r, list[n])]

(* sync_prune keeps 1 .. NR of the candidates.                             *)
LEMMA SelectFacts ==
  ASSUME NEW T, NEW list \in Seq(T), Len(list) >= 1
  PROVE  Select(list) \in Seq(T) /\ Len(Select(list)) \in 1 .. NR
<1> DEFINE l == Len(list)
           D == {r \in Seq(T) : Len(r) \in 1 .. NR}
           More(n, r) == IF Len(r) >= NR \/ Occluded(r, list[n]) THEN r ELSE Append(r, list[n])
<1>1. l \in Nat /\ l >= 1 /\ NR \in Nat /\ NR >= 1 /\ \A n \in 1 .. l : list[n] \in T
  BY NsgFacts
<1>2. <<list[1]>> \in D
  <2>1. list[1] \in T
    BY <1>1
  <2>2. <<list[1]>> \in Seq(T) /\ Len(<<list[1]>>) = 1
    BY <2>1
  <2> QED
    BY <1>1, <2>2
<1> HIDE DEF l
<1>3. ASSUME NEW n \in 1 .. l, NEW r \in D PROVE More(n, r) \in D
  <2>1. CASE Len(r) >= NR \/ Occluded(r, list[n])
    BY <2>1
  <2>2. CASE ~ (Len(r) >= NR \/ Occluded(r, list[n]))
    <3> DEFINE c == list[n]
    <3>1. c \in T /\ r \in Seq(T) /\ Len(r) \in 1 .. NR /\ Len(r) < NR
      BY <1>1, <2>2
    <3> HIDE DEF c
    <3>2. Append(r, c) \in Seq(T) /\ Len(Append(r, c)) = Len(r) + 1
      BY <3>1
    <3>3. Len(Append(r, c)) \in 1 .. NR
      BY <1>1, <3>1, <3>2
    <3> QED
      BY <2>2, <3>2, <3>3 DEF c
  <2> QED
    BY <2>1, <2>2
<1> HIDE DEF D, More
<1>4. \A F : ChosenIs(F, list) <=> F = [n \in 1 .. l |-> IF n = 1 THEN <<list[1]>> ELSE More(n, F[n - 1])]
  BY DEF ChosenIs, More, l
<1>5. \E F : ChosenIs(F, list)
  <2> DEFINE h == [c \in (1 + 1 .. 1 + (l - 1)) \X D |-> More(c[1], c[2])]
  <2>1. l - 1 \in Nat /\ 1 + (l - 1) = l
    BY <1>1
  <2>2. h \in [(1 + 1 .. 1 + (l - 1)) \X D -> D]
    <3>1. \A c \in (1 + 1 .. 1 + (l - 1)) \X D : c[1] \in 1 .. l /\ c[2] \in D
      BY <1>1
    <3> QED
      BY <1>3, <3>1
  <2>3. \A n \in 2 .. l, r \in D : h[<<n, r>>] = More(n, r)
    BY <1>1
  <2> HIDE DEF h
  <2>4. PICK F \in [1 .. 1 + (l - 1) -> D] : Steps(F, 1, 1 + (l - 1), <<list[1]>>, h)
    BY <1>2, <2>1, <2>2, Recursion
  <2>5. F \in [1 .. l -> D] /\ F[1] = <<list[1]>> /\ \A n \in 2 .. l : F[n] = h[<<n, F[n - 1]>>]
    BY <2>1, <2>4 DEF Steps
  <2>6. ASSUME NEW n \in 1 .. l PROVE F[n] = IF n = 1 THEN <<list[1]>> ELSE More(n, F[n - 1])
    <3>1. n # 1 => n \in 2 .. l /\ n - 1 \in 1 .. l
      BY <1>1
    <3>2. n # 1 => F[n - 1] \in D
      BY <2>5, <3>1
    <3>3. CASE n = 1
      BY <2>5, <3>3
    <3>4. CASE n # 1
      <4>1. F[n] = h[<<n, F[n - 1]>>]
        BY <2>5, <3>1, <3>4
      <4>2. h[<<n, F[n - 1]>>] = More(n, F[n - 1])
        BY <2>3, <3>1, <3>2, <3>4
      <4> QED
        BY <3>4, <4>1, <4>2
    <3> QED
      BY <3>3, <3>4
  <2>7. F = [n \in 1 .. l |-> IF n = 1 THEN <<list[1]>> ELSE More(n, F[n - 1])]
    <3>1. F = [n \in 1 .. l |-> F[n]]
      BY <2>5
    <3> HIDE DEF l
    <3> QED
      BY <2>6, <3>1
  <2> QED
    BY <1>4, <2>7
<1> DEFINE G == CHOOSE F : ChosenIs(F, list)
<1>6. Select(list) = G[l]
  BY DEF Select, ChosenIs, l
<1>7. \A n \in 1 .. l : G[n] = IF n = 1 THEN <<list[1]>> ELSE More(n, G[n - 1])
  <2>1. ChosenIs(G, list)
    BY <1>5
  <2> HIDE DEF G
  <2>2. G = [n \in 1 .. l |-> IF n = 1 THEN <<list[1]>> ELSE More(n, G[n - 1])]
    BY <1>4, <2>1
  <2> QED
    BY <2>2
<1> HIDE DEF G
<1>8. \A n \in 1 .. l : G[n] \in D
  <2>1. G[1] \in D
    BY <1>1, <1>2, <1>7
  <2>2. ASSUME NEW n \in 1 + 1 .. l, G[n - 1] \in D PROVE G[n] \in D
    <3>1. n \in 1 .. l /\ n # 1
      BY <1>1
    <3> QED
      BY <1>3, <1>7, <2>2, <3>1
  <2> QED
    BY <1>1, <2>1, <2>2, Keeps
<1> QED
  BY <1>1, <1>6, <1>8 DEF D

-------------------------------------------------------------------------------
(* The slots of cut_graph_.                                                *)
CutSlots == [id : Nodes \cup {-1}, distance : Int]

(* The slots that may be chosen for x.                                     *)
SlotsOf(x) == {Slot(x, y) : y \in Nodes}

(* The first n slots of x are in use, one at least, and the next is marked.*)
Filled(x, slots, n) ==
  /\ n \in 1 .. NR
  /\ \A i \in 1 .. n : slots[i] \in SlotsOf(x)
  /\ n < NR => slots[n + 1].distance = -1

CutAt(x) == \E n \in 1 .. NR : Filled(x, cut[x], n)

(* The slots of a node name nodes by their distance.                       *)
LEMMA SlotFacts ==
  ASSUME world \in Worlds, NEW x \in Nodes
  PROVE  /\ SlotsOf(x) \subseteq CutSlots /\ IsFiniteSet(SlotsOf(x))
         /\ \A s \in SlotsOf(x) : s.id \in Nodes /\ s.distance = d(x, s.id) /\ s.distance \in Int
<1>1. SlotsOf(x) \subseteq CutSlots
  BY DistanceFacts DEF SlotsOf, Slot, CutSlots
<1>2. IsFiniteSet(SlotsOf(x))
  <2> DEFINE f == [y \in Nodes |-> Slot(x, y)]
  <2>1. f \in Surjection(Nodes, SlotsOf(x))
    BY DEF SlotsOf, Surjection
  <2> HIDE DEF f
  <2> QED
    BY <2>1, NodesFinite, FS_Surjection
<1>3. \A s \in SlotsOf(x) : s.id \in Nodes /\ s.distance = d(x, s.id) /\ s.distance \in Int
  BY DistanceFacts DEF SlotsOf, Slot
<1> QED
  BY <1>1, <1>2, <1>3

(* The slots before the first mark.                                        *)
LEMMA UsedFacts ==
  ASSUME NEW slots \in [1 .. NR -> CutSlots]
  PROVE  /\ Used(slots) \in Seq(CutSlots) /\ Len(Used(slots)) \in 0 .. NR
         /\ \A i \in 1 .. Len(Used(slots)) : Used(slots)[i] = slots[i] /\ slots[i].distance # -1
         /\ Len(Used(slots)) < NR => slots[Len(Used(slots)) + 1].distance = -1
<1> DEFINE marks == {i \in 1 .. NR : slots[i].distance = -1}
           m == CHOOSE i \in marks : \A j \in marks : i <= j
<1>1. NR \in Nat /\ slots \in Seq(CutSlots) /\ Len(slots) = NR
  BY NsgFacts, AsSeq
<1>2. CASE marks = {}
  <2>1. Used(slots) = slots
    BY <1>2 DEF Used
  <2>2. \A i \in 1 .. NR : slots[i].distance # -1
    BY <1>2
  <2> QED
    BY <1>1, <2>1, <2>2
<1>3. CASE marks # {}
  <2>1. marks \in SUBSET Nat
    BY <1>1
  <2>2. m \in marks /\ \A j \in marks : m <= j
    <3> HIDE DEF marks
    <3>1. \E i \in marks : \A j \in marks : i <= j
      BY <1>3, <2>1, LeastNumber
    <3> QED
      BY <3>1
  <2>3. Used(slots) = SubSeq(slots, 1, m - 1)
    BY <1>3 DEF Used
  <2>4. m \in 1 .. NR /\ slots[m].distance = -1
    BY <2>2
  <2>5. \A i \in 1 .. m - 1 : i \in 1 .. NR /\ slots[i].distance # -1
    <3>1. \A i \in 1 .. m - 1 : i \in 1 .. NR /\ ~ (m <= i)
      BY <1>1, <2>4
    <3> HIDE DEF m
    <3> QED
      BY <2>2, <3>1
  <2> HIDE DEF m, marks
  <2> DEFINE u == SubSeq(slots, 1, m - 1)
  <2>6. u \in Seq(CutSlots) /\ Len(u) = m - 1 /\ \A i \in 1 .. m - 1 : u[i] = slots[i]
    BY <1>1, <2>4
  <2> HIDE DEF u
  <2>7. Len(u) \in 0 .. NR /\ Len(u) + 1 = m
    BY <1>1, <2>4, <2>6
  <2> QED
    BY <2>3, <2>4, <2>5, <2>6, <2>7 DEF u
<1> QED
  BY <1>2, <1>3

(* The slots in use of a list that is filled.                              *)
LEMMA UsedFilled ==
  ASSUME NEW x \in Nodes, NEW slots \in [1 .. NR -> CutSlots], NEW n, Filled(x, slots, n)
  PROVE  /\ Len(Used(slots)) \in 0 .. n
         /\ Used(slots) \in Seq(SlotsOf(x))
<1> DEFINE u == Used(slots)
<1>1. /\ u \in Seq(CutSlots) /\ Len(u) \in 0 .. NR
      /\ \A i \in 1 .. Len(u) : u[i] = slots[i] /\ slots[i].distance # -1
  BY UsedFacts
<1>2. /\ n \in 1 .. NR /\ \A i \in 1 .. n : slots[i] \in SlotsOf(x)
      /\ n < NR => slots[n + 1].distance = -1
  BY DEF Filled
<1> HIDE DEF u
<1>3. Len(u) <= n
  <2> SUFFICES ASSUME Len(u) > n PROVE FALSE
    BY <1>1, <1>2
  <2>1. n < NR /\ n + 1 \in 1 .. Len(u)
    BY <1>1, <1>2, NsgFacts
  <2> QED
    BY <1>1, <1>2, <2>1
<1>4. u \in Seq(SlotsOf(x))
  <2> DEFINE l == Len(u)
  <2>1. l \in Nat /\ u = [i \in 1 .. l |-> u[i]]
    BY <1>1
  <2>2. \A i \in 1 .. l : u[i] \in SlotsOf(x)
    BY <1>1, <1>2, <1>3, NsgFacts
  <2> HIDE DEF l
  <2>3. u \in [1 .. l -> SlotsOf(x)]
    BY <2>1, <2>2
  <2> QED
    BY <2>1, <2>3, AsSeq
<1> QED
  BY <1>1, <1>3, <1>4 DEF u

(* The chosen overwrite the slots, and the next one is marked.             *)
LEMMA OverwriteFacts ==
  ASSUME world \in Worlds, NEW x \in Nodes, NEW slots \in [1 .. NR -> CutSlots],
         NEW r \in Seq(SlotsOf(x)), Len(r) \in 1 .. NR
  PROVE  /\ Terminate(Overwrite(slots, r), Len(r) + 1) \in [1 .. NR -> CutSlots]
         /\ Filled(x, Terminate(Overwrite(slots, r), Len(r) + 1), Len(r))
         /\ Overwrite(slots, r) \in [1 .. NR -> CutSlots]
         /\ Filled(x, slots, NR) => Filled(x, Overwrite(slots, r), NR)
<1> DEFINE o == Overwrite(slots, r)
           l == Len(r)
           t == Terminate(o, l + 1)
<1>1. SlotsOf(x) \subseteq CutSlots /\ NR \in Nat \ {0}
  BY SlotFacts, NsgFacts
<1>2. \A i \in 1 .. l : r[i] \in SlotsOf(x)
  OBVIOUS
<1>3. o = [i \in 1 .. NR |-> IF i <= l THEN r[i] ELSE slots[i]]
  BY DEF Overwrite
<1>4. l \in 1 .. NR
  OBVIOUS
<1> HIDE DEF o, l
<1>5. o \in [1 .. NR -> CutSlots] /\ \A i \in 1 .. NR : o[i] = IF i <= l THEN r[i] ELSE slots[i]
  <2>1. \A i \in 1 .. NR : i <= l => i \in 1 .. l
    BY <1>4
  <2> QED
    BY <1>1, <1>2, <1>3, <2>1
<1>6. \A i \in 1 .. l : o[i] \in SlotsOf(x)
  <2>1. \A i \in 1 .. l : i \in 1 .. NR /\ i <= l
    BY <1>1, <1>4
  <2> QED
    BY <1>2, <1>5, <2>1
<1>7. t \in [1 .. NR -> CutSlots] /\ \A i \in 1 .. l : t[i] = o[i]
  <2>1. CASE l + 1 <= NR
    <3>1. t = [o EXCEPT ![l + 1].distance = -1] /\ l + 1 \in 1 .. NR
      BY <1>4, <2>1 DEF Terminate
    <3>2. [o[l + 1] EXCEPT !.distance = -1] \in CutSlots
      <4> DEFINE e == o[l + 1]
      <4>1. e \in CutSlots
        BY <1>5, <3>1
      <4> HIDE DEF e
      <4> QED
        BY <4>1 DEF CutSlots, e
    <3>3. \A i \in 1 .. l : i \in 1 .. NR /\ i # l + 1
      BY <1>1, <1>4
    <3> HIDE DEF t
    <3> QED
      BY <1>5, <3>1, <3>2, <3>3
  <2>2. CASE ~ (l + 1 <= NR)
    BY <1>5, <2>2 DEF Terminate
  <2> QED
    BY <2>1, <2>2
<1>8. l < NR => t[l + 1].distance = -1
  <2> SUFFICES ASSUME l < NR PROVE t[l + 1].distance = -1
    OBVIOUS
  <2>1. t = [o EXCEPT ![l + 1].distance = -1] /\ l + 1 \in 1 .. NR
    BY <1>1, <1>4 DEF Terminate
  <2>2. o[l + 1] \in CutSlots
    BY <1>5, <2>1
  <2> HIDE DEF t
  <2>3. t[l + 1] = [o[l + 1] EXCEPT !.distance = -1]
    BY <1>5, <2>1
  <2> QED
    BY <2>2, <2>3 DEF CutSlots
<1>9. Filled(x, t, l)
  BY <1>4, <1>6, <1>7, <1>8 DEF Filled
<1>10. Filled(x, slots, NR) => Filled(x, o, NR)
  <2> SUFFICES ASSUME \A i \in 1 .. NR : slots[i] \in SlotsOf(x) PROVE \A i \in 1 .. NR : o[i] \in SlotsOf(x)
    BY <1>1 DEF Filled
  <2>1. \A i \in 1 .. NR : i <= l => i \in 1 .. l
    BY <1>4
  <2> QED
    BY <1>2, <1>5, <2>1
<1> QED
  BY <1>5, <1>7, <1>9, <1>10 DEF o, l

(* What sync_prune may choose from: the nodes evaluated and the row, which *)
(* has a node other than x.                                                *)
LEMMA ChoiceFacts ==
  ASSUME world \in Worlds, NEW x \in Nodes, NEW T \in SUBSET Nodes, NEW z \in T, z # x,
         NEW U, U = {Slot(x, y) : y \in T}, NEW dist, DOMAIN dist = U, NEW p \in Sortings(dist),
         NEW from, from = (IF p[1].id = x THEN 2 ELSE 1),
         NEW last, last = (IF Len(p) < C THEN Len(p) ELSE C)
  PROVE  /\ Select(<<p[from]>> \o SubSeq(p, from + 1, last)) \in Seq(SlotsOf(x))
         /\ Len(Select(<<p[from]>> \o SubSeq(p, from + 1, last))) \in 1 .. NR
<1>1. U \subseteq SlotsOf(x) /\ IsFiniteSet(U) /\ Cardinality(U) \in Nat
  <2>1. U \subseteq SlotsOf(x)
    BY DEF SlotsOf
  <2> QED
    BY <2>1, SlotFacts, FS_Subset, FS_CardinalityType
<1>2. p \in Seq(U) /\ Len(p) = Cardinality(U)
  BY <1>1, SortingsType
<1>3. Slot(x, z) \in U /\ Slot(x, z).id = z
  BY DEF Slot
<1>4. Len(p) \in Nat /\ Len(p) >= 1
  <2>1. Cardinality(U) # 0
    <3>1. U # {}
      BY <1>3
    <3> QED
      BY <1>1, <3>1, FS_EmptySet
  <2> QED
    BY <1>1, <1>2, <2>1
<1>5. from \in 1 .. Len(p)
  <2>1. CASE p[1].id = x
    <3>1. p[1] \in U /\ p[1] # Slot(x, z)
      BY <1>2, <1>3, <1>4, <2>1
    <3>2. Cardinality(U) # 1
      <4> SUFFICES ASSUME Cardinality(U) = 1 PROVE FALSE
        OBVIOUS
      <4>1. PICK a : U = {a}
        BY <1>1, FS_Singleton
      <4> QED
        BY <1>3, <3>1, <4>1
    <3> QED
      BY <1>2, <1>4, <2>1, <3>2
  <2>2. CASE p[1].id # x
    BY <1>4, <2>2
  <2> QED
    BY <2>1, <2>2
<1>6. p \in Seq(SlotsOf(x))
  BY <1>1, <1>2
<1> DEFINE a == p[from]
           b == SubSeq(p, from + 1, last)
           list == <<a>> \o b
<1>7. last \in Nat /\ last <= Len(p)
  BY <1>4, NsgFacts
<1>8. a \in SlotsOf(x)
  BY <1>5, <1>6
<1>9. b \in Seq(SlotsOf(x))
  BY <1>5, <1>6, <1>7
<1> HIDE DEF a, b
<1>10. list \in Seq(SlotsOf(x)) /\ Len(list) >= 1
  <2>1. <<a>> \in Seq(SlotsOf(x)) /\ Len(<<a>>) = 1
    BY <1>8
  <2>2. list \in Seq(SlotsOf(x)) /\ Len(list) = 1 + Len(b) /\ Len(b) \in Nat
    BY <1>9, <2>1
  <2> HIDE DEF list
  <2> QED
    BY <2>2
<1> HIDE DEF list
<1>11. Select(list) \in Seq(SlotsOf(x)) /\ Len(Select(list)) \in 1 .. NR
  BY <1>10, SelectFacts
<1> QED
  BY <1>11 DEF list, a, b

(* What sync_prune keeps for a node are slots of it, one at least.         *)
LEMMA CandidatesFacts ==
  ASSUME world \in Worlds, links \in [Nodes -> Seq(Nodes)], ep \in Nodes,
         NEW x \in Nodes, RowOK(x, links[x])
  PROVE  \A r \in Candidates(x) : r \in Seq(SlotsOf(x)) /\ Len(r) \in 1 .. NR
<1> DEFINE q == world.dist[x]
           candidates == {Range(links[x]) \cup s.seen : s \in Searches(links, q, ep)}
           dist(T) == [c \in {Slot(x, y) : y \in T} |-> c.distance]
           from(p) == IF p[1].id = x THEN 2 ELSE 1
           last(p) == IF Len(p) < C THEN Len(p) ELSE C
           pick(p) == Select(<<p[from(p)]>> \o SubSeq(p, from(p) + 1, last(p)))
<1>1. Candidates(x) = {pick(p) : p \in UNION {Sortings(dist(T)) : T \in candidates}}
  BY DEF Candidates
<1>2. q \in [Nodes -> Int]
  BY NnAssumption
<1>3. PICK z \in Range(links[x]) : z # x
  <2>1. Range(links[x]) # {}
    BY ConstantFacts, FS_EmptySet DEF RowOK
  <2> QED
    BY <2>1 DEF RowOK
<1>4. links[x] \in Seq(Nodes) /\ Range(links[x]) \subseteq Nodes
  BY DEF Range
<1>5. ASSUME NEW T \in candidates PROVE T \subseteq Nodes /\ z \in T
  <2>1. PICK s \in Searches(links, q, ep) : T = Range(links[x]) \cup s.seen
    OBVIOUS
  <2>2. s \in SearchStates
    <3> HIDE DEF q
    <3> QED
      BY <1>2, SearchesType
  <2> QED
    BY <1>3, <1>4, <2>1, <2>2 DEF SearchStates
<1> HIDE DEF candidates
<1>6. ASSUME NEW T \in candidates, NEW p \in Sortings(dist(T))
      PROVE  pick(p) \in Seq(SlotsOf(x)) /\ Len(pick(p)) \in 1 .. NR
  <2> DEFINE U == {Slot(x, y) : y \in T}
             e == dist(T)
             f == from(p)
             l == last(p)
  <2>1. DOMAIN e = U /\ p \in Sortings(e)
    OBVIOUS
  <2>2. T \in SUBSET Nodes /\ z \in T /\ z # x
    BY <1>3, <1>5
  <2>3. U = {Slot(x, y) : y \in T} /\ f = (IF p[1].id = x THEN 2 ELSE 1) /\ l = (IF Len(p) < C THEN Len(p) ELSE C)
    OBVIOUS
  <2> HIDE DEF e, f, l, U
  <2>4. /\ Select(<<p[f]>> \o SubSeq(p, f + 1, l)) \in Seq(SlotsOf(x))
        /\ Len(Select(<<p[f]>> \o SubSeq(p, f + 1, l))) \in 1 .. NR
    BY <2>1, <2>2, <2>3, ChoiceFacts, ZenonT(40)
  <2> QED
    BY <2>4 DEF f, l
<1> HIDE DEF pick, dist
<1> QED
  BY <1>1, <1>6

-------------------------------------------------------------------------------
(* cut_graph_, from Link to the copy that Build makes of it.               *)
CutType ==
  /\ step \in {"enter", "link", "insert", "compact", "grow", "dfs", "done"}
  /\ links \in [Nodes -> Seq(Nodes)]
  /\ ep \in Nodes \cup {-1}
  /\ cut \in [Nodes -> [1 .. NR -> CutSlots]]
  /\ at \in Nodes /\ slot \in 1 .. NR + 1

(* Before Compact the lists are those of the nodes already treated; a slot *)
(* that InterInsert has passed was in use and still is.                    *)
CutInv ==
  /\ CutType
  /\ step # "enter" => phase = "built" /\ ep \in Nodes
  /\ step \in {"enter", "link"} => slot = 1
  /\ step = "enter" => at = 0
  /\ step = "link" => links = rows /\ \A x \in Nodes : x < at => CutAt(x)
  /\ step \in {"insert", "compact"} => \A x \in Nodes : CutAt(x)
  /\ step = "insert" => \A j \in 1 .. slot - 1 : cut[at][j].distance # -1

(* A node keeps its part of the invariant with its row of slots.           *)
LEMMA CutNext ==
  ASSUME world' = world, NEW x \in Nodes
  PROVE  /\ \A n \in 1 .. NR : Filled(x, cut'[x], n) => CutAt(x)'
         /\ cut'[x] = cut[x] /\ CutAt(x) => CutAt(x)'
BY DEF CutAt, Filled, SlotsOf, Slot, d

LEMMA ZeroNode == 0 \in Nodes /\ \A x \in Nodes : x \in Int /\ x >= 0 /\ x <= Size - 1
BY ConstantFacts DEF Nodes

(* Before Link no slot is used.                                            *)
LEMMA CutInit == NsgInit => CutInv
<1> SUFFICES ASSUME NsgInit PROVE CutInv
  OBVIOUS
<1>1. Unset \in CutSlots
  BY DEF Unset, CutSlots
<1>2. cut \in [Nodes -> [1 .. NR -> CutSlots]]
  BY <1>1 DEF NsgInit
<1>3. links \in [Nodes -> Seq(Nodes)]
  BY DEF NsgInit
<1> QED
  BY <1>2, <1>3, NsgFacts, ZeroNode DEF NsgInit, CutInv, CutType

(* load_nn_graph: the rows become the links, cut_graph_ is empty.          *)
LEMMA CutEnter ==
  ASSUME JoinInv, CutInv, Enter, UNCHANGED nnVars
  PROVE  CutInv'
<1>1. /\ phase = "built" /\ step = "enter" /\ links' = rows /\ step' = "link"
      /\ UNCHANGED <<cut, at, slot>>
      /\ UNCHANGED <<world, phase, rows>>
  BY DEF Enter, nnVars
<1>2. PICK e \in Nodes : \E s \in Searches(rows, world.center, e) : ep' = s.pool[1].id
  BY DEF Enter
<1>3. rows \in [Nodes -> Seq(Nodes)] /\ world \in Worlds
  BY DEF JoinInv, NnTypeOK
<1>4. PICK s \in SearchStates : ep' = s.pool[1].id
  BY <1>2, <1>3, NsgFacts, SearchesType
<1>5. ep' \in Nodes
  <2>1. 1 \in 1 .. NL /\ s.pool \in [1 .. NL -> Entries]
    BY NsgFacts DEF SearchStates
  <2> QED
    BY <1>4, <2>1 DEF Entries
<1>6. \A x \in Nodes : ~ (x < at')
  BY <1>1, ZeroNode DEF CutInv
<1> QED
  BY <1>1, <1>3, <1>5, <1>6 DEF CutInv, CutType

(* sync_prune fills the slots of its node, from the first.                 *)
LEMMA CutPrune ==
  ASSUME JoinInv, ListInv, CutInv, SyncPrune, UNCHANGED nnVars
  PROVE  CutInv'
<1>1. /\ step = "link" /\ UNCHANGED <<links, ep, slot>> /\ UNCHANGED <<world, phase, rows>>
      /\ IF at + 1 < Size THEN at' = at + 1 /\ step' = step
         ELSE at' = 0 /\ step' = "insert"
  BY DEF SyncPrune, nnVars
<1>2. PICK r \in Candidates(at) : cut' = [cut EXCEPT ![at] = Terminate(Overwrite(@, r), Len(r) + 1)]
  BY DEF SyncPrune
<1>3. /\ world \in Worlds /\ links = rows /\ phase = "built" /\ ep \in Nodes /\ slot = 1
      /\ links \in [Nodes -> Seq(Nodes)] /\ cut \in [Nodes -> [1 .. NR -> CutSlots]] /\ at \in Nodes
      /\ \A x \in Nodes : x < at => CutAt(x)
  BY <1>1 DEF JoinInv, NnTypeOK, CutInv, CutType
<1>4. RowOK(at, links[at])
  BY <1>3 DEF ListInv, LimitsAt
<1>5. r \in Seq(SlotsOf(at)) /\ Len(r) \in 1 .. NR
  BY <1>3, <1>4, CandidatesFacts
<1> DEFINE new == Terminate(Overwrite(cut[at], r), Len(r) + 1)
<1>6. new \in [1 .. NR -> CutSlots] /\ Filled(at, new, Len(r))
  BY <1>3, <1>5, OverwriteFacts
<1>7. cut' = [cut EXCEPT ![at] = new]
  BY <1>2
<1> HIDE DEF new
<1>8. /\ cut' \in [Nodes -> [1 .. NR -> CutSlots]] /\ cut'[at] = new
      /\ \A x \in Nodes : x # at => cut'[x] = cut[x]
  BY <1>3, <1>6, <1>7
<1>9. ASSUME NEW x \in Nodes, x <= at PROVE CutAt(x)'
  <2>1. CASE x = at
    BY <1>1, <1>5, <1>6, <1>8, <2>1, CutNext
  <2>2. CASE x # at
    <3>1. x < at
      BY <1>3, <1>9, <2>2, ZeroNode
    <3> QED
      BY <1>1, <1>3, <1>8, <2>2, <3>1, CutNext
  <2> QED
    BY <2>1, <2>2
<1>10. CutType'
  <2>1. at' \in Nodes
    <3>1. at \in Int /\ at >= 0 /\ at + 1 < Size => at + 1 \in Nodes
      BY ConstantFacts DEF Nodes
    <3> QED
      BY <1>1, <1>3, <3>1, ZeroNode
  <2> QED
    BY <1>1, <1>3, <1>8, <2>1 DEF CutInv, CutType
<1>11. CASE at + 1 < Size
  <2>1. \A x \in Nodes : x < at' => x <= at
    BY <1>1, <1>3, <1>11, ZeroNode
  <2> QED
    BY <1>1, <1>3, <1>9, <1>10, <1>11, <2>1 DEF CutInv
<1>12. CASE ~ (at + 1 < Size)
  <2>1. \A x \in Nodes : x <= at
    BY <1>3, <1>12, ZeroNode, ConstantFacts
  <2>2. \A j \in 1 .. slot' - 1 : FALSE
    BY <1>1, <1>3
  <2> QED
    BY <1>1, <1>3, <1>9, <1>10, <1>12, <2>1, <2>2 DEF CutInv
<1> QED
  BY <1>11, <1>12

(* On to the next node.                                                    *)
LEMMA CutNextNode ==
  ASSUME JoinInv, CutInv, NextNode, UNCHANGED nnVars
  PROVE  CutInv'
<1>1. /\ step = "insert" /\ slot' = 1 /\ UNCHANGED <<links, ep, cut>> /\ UNCHANGED <<world, phase, rows>>
      /\ IF at + 1 < Size THEN at' = at + 1 /\ step' = step
         ELSE at' = 0 /\ step' = "compact"
  BY DEF NextNode, nnVars
<1>2. \A x \in Nodes : CutAt(x)'
  BY <1>1, CutNext DEF CutInv
<1>3. at' \in Nodes
  <2>1. at \in Nodes
    BY DEF CutInv, CutType
  <2>2. at \in Int /\ at >= 0 /\ at + 1 < Size => at + 1 \in Nodes
    BY ConstantFacts DEF Nodes
  <2> QED
    BY <1>1, <2>1, <2>2, ZeroNode
<1>4. slot' \in 1 .. NR + 1 /\ \A j \in 1 .. slot' - 1 : FALSE
  BY <1>1, NsgFacts
<1> QED
  BY <1>1, <1>2, <1>3, <1>4 DEF CutInv, CutType

(* The slots in use become the links.                                      *)
LEMMA CutCompact ==
  ASSUME CutInv, Compact, UNCHANGED nnVars, world \in Worlds
  PROVE  CutInv'
<1>1. /\ step = "compact" /\ step' = "grow" /\ UNCHANGED <<ep, at, slot>> /\ UNCHANGED <<world, phase, rows>>
      /\ links' = [x \in Nodes |->
           [i \in 1 .. (IF Used(cut[x]) = << >> THEN 1 ELSE Len(Used(cut[x]))) |-> cut[x][i].id]]
      /\ cut' = [x \in Nodes |-> [i \in 1 .. NR |-> Unset]]
  BY DEF Compact, nnVars
<1>2. ASSUME NEW x \in Nodes PROVE links'[x] \in Seq(Nodes)
  <2>1. PICK n \in 1 .. NR : Filled(x, cut[x], n)
    BY <1>1 DEF CutInv, CutAt
  <2>2. Len(Used(cut[x])) \in 0 .. n /\ Used(cut[x]) \in Seq(SlotsOf(x))
    BY <2>1, UsedFilled DEF CutInv, CutType
  <2> DEFINE m == IF Used(cut[x]) = << >> THEN 1 ELSE Len(Used(cut[x]))
  <2>3. m \in 1 .. n
    BY <2>1, <2>2, NsgFacts
  <2>4. links'[x] = [i \in 1 .. m |-> cut[x][i].id]
    BY <1>1
  <2> HIDE DEF m
  <2>5. \A i \in 1 .. m : cut[x][i].id \in Nodes
    <3>1. \A i \in 1 .. m : i \in 1 .. n
      BY <2>3
    <3> QED
      BY <2>1, <3>1, SlotFacts DEF Filled
  <2>6. m \in Nat
    BY <2>3
  <2> DEFINE f == [i \in 1 .. m |-> cut[x][i].id]
  <2>7. f \in [1 .. m -> Nodes]
    BY <2>5
  <2> HIDE DEF f
  <2> QED
    BY <2>4, <2>6, <2>7, AsSeq DEF f
<1>3. links' \in [Nodes -> Seq(Nodes)]
  BY <1>1, <1>2
<1>4. cut' \in [Nodes -> [1 .. NR -> CutSlots]]
  BY <1>1 DEF Unset, CutSlots
<1> QED
  BY <1>1, <1>3, <1>4 DEF CutInv, CutType

(* The slot that InterInsert has at hand is one in use.                    *)
LEMMA SlotInUse ==
  ASSUME world \in Worlds, NEW x \in Nodes, NEW slots \in [1 .. NR -> CutSlots],
         NEW n \in 1 .. NR, Filled(x, slots, n), NEW m \in 1 .. NR,
         \A j \in 1 .. m : slots[j].distance # -1
  PROVE  /\ slots[m] \in SlotsOf(x)
         /\ m \in 1 .. Len(Used(slots)) /\ Used(slots)[m] = slots[m]
<1>1. m <= n
  <2> SUFFICES ASSUME m > n PROVE FALSE
    OBVIOUS
  <2>1. n < NR /\ n + 1 \in 1 .. m
    BY NsgFacts
  <2> QED
    BY <2>1 DEF Filled
<1>2. slots[m] \in SlotsOf(x)
  BY <1>1 DEF Filled
<1> DEFINE l == Len(Used(slots))
<1>3. /\ l \in 0 .. NR /\ \A i \in 1 .. l : Used(slots)[i] = slots[i]
      /\ l < NR => slots[l + 1].distance = -1
  BY UsedFacts
<1> HIDE DEF l
<1>4. m <= l
  <2> SUFFICES ASSUME m > l PROVE FALSE
    BY <1>3
  <2>1. l < NR /\ l + 1 \in 1 .. m
    BY <1>3, NsgFacts
  <2> QED
    BY <1>3, <2>1
<1>5. m \in 1 .. l
  BY <1>3, <1>4
<1> QED
  BY <1>2, <1>3, <1>5 DEF l

(* A choice from a list in any order.                                      *)
LEMMA ReorderedChoice ==
  ASSUME NEW T, NEW all \in Seq(T), Len(all) >= 1, NEW dist, DOMAIN dist = DOMAIN all,
         NEW o \in Sortings(dist)
  PROVE  /\ Select([i \in DOMAIN o |-> all[o[i]]]) \in Seq(T)
         /\ Len(Select([i \in DOMAIN o |-> all[o[i]]])) \in 1 .. NR
<1> DEFINE l == Len(all)
           s == [i \in DOMAIN o |-> all[o[i]]]
<1>1. l \in Nat /\ DOMAIN all = 1 .. l /\ l >= 1
  OBVIOUS
<1> HIDE DEF l
<1>2. 1 \in Int /\ l \in Int /\ l - 1 + 1 = l /\ ~ (1 > l)
  BY <1>1
<1>3. IsFiniteSet(1 .. l) /\ Cardinality(1 .. l) = l
  BY <1>2, FS_Interval
<1>4. o \in Seq(1 .. l) /\ Len(o) = l
  BY <1>1, <1>3, SortingsType
<1>5. DOMAIN o = 1 .. l /\ \A i \in 1 .. l : all[o[i]] \in T
  BY <1>1, <1>4
<1>6. s \in [1 .. l -> T]
  BY <1>5
<1> HIDE DEF s
<1>7. s \in Seq(T) /\ Len(s) = l
  BY <1>1, <1>6, AsSeq
<1>8. Select(s) \in Seq(T) /\ Len(Select(s)) \in 1 .. NR
  BY <1>1, <1>7, SelectFacts
<1> QED
  BY <1>8 DEF s

(* InterInsert: a slot is appended to a row that is not full, or a full    *)
(* one is chosen again from its slots and the new one.                     *)
LEMMA CutInsert ==
  ASSUME JoinInv, CutInv, InterInsert, UNCHANGED nnVars
  PROVE  CutInv'
<1> DEFINE des == cut[at][slot].id
           list == Used(cut[des])
           new == [id |-> at, distance |-> cut[at][slot].distance]
           all == Append(list, new)
<1>1. /\ step = "insert" /\ slot <= NR /\ cut[at][slot].distance # -1
      /\ slot' = slot + 1 /\ UNCHANGED <<step, links, ep, at>> /\ UNCHANGED <<world, phase, rows>>
  BY DEF InterInsert, nnVars
<1>2. /\ world \in Worlds /\ at \in Nodes /\ slot \in 1 .. NR
      /\ cut \in [Nodes -> [1 .. NR -> CutSlots]] /\ \A x \in Nodes : CutAt(x)
      /\ \A j \in 1 .. slot - 1 : cut[at][j].distance # -1
  BY <1>1 DEF JoinInv, NnTypeOK, CutInv, CutType
<1>3. IF \E i \in DOMAIN list : list[i].id = at
      THEN cut' = cut
      ELSE IF Len(all) <= NR
      THEN cut' = [cut EXCEPT ![des] = Terminate(Overwrite(@, all), Len(all) + 1)]
      ELSE \E r \in {Select([i \in DOMAIN o |-> all[o[i]]]) :
                       o \in Sortings([i \in DOMAIN all |-> all[i].distance])} :
             cut' = [cut EXCEPT ![des] = Overwrite(@, r)]
  BY DEF InterInsert
<1>4. \A j \in 1 .. slot : cut[at][j].distance # -1
  <2>1. \A j \in 1 .. slot : j \in 1 .. slot - 1 \/ j = slot
    BY <1>2
  <2> QED
    BY <1>1, <1>2, <2>1
<1>5. /\ cut[at][slot] \in SlotsOf(at)
      /\ slot \in 1 .. Len(Used(cut[at])) /\ Used(cut[at])[slot] = cut[at][slot]
  <2>1. PICK n \in 1 .. NR : Filled(at, cut[at], n)
    BY <1>2 DEF CutAt
  <2>2. cut[at] \in [1 .. NR -> CutSlots]
    BY <1>2
  <2> QED
    BY <1>2, <1>4, <2>1, <2>2, SlotInUse
<1>6. des \in Nodes /\ new \in SlotsOf(des)
  <2>1. des \in Nodes /\ cut[at][slot].distance = d(at, des)
    BY <1>2, <1>5, SlotFacts
  <2> HIDE DEF des
  <2>2. d(at, des) = d(des, at)
    BY <1>2, <2>1, NnAssumption DEF d
  <2> QED
    BY <1>2, <2>1, <2>2 DEF SlotsOf, Slot
<1>7. PICK n \in 1 .. NR : Filled(des, cut[des], n)
  <2> HIDE DEF des
  <2> QED
    BY <1>2, <1>6 DEF CutAt
<1>8. cut[des] \in [1 .. NR -> CutSlots] /\ list \in Seq(SlotsOf(des)) /\ Len(list) \in 0 .. n
  <2> HIDE DEF des
  <2>1. cut[des] \in [1 .. NR -> CutSlots]
    BY <1>2, <1>6
  <2> QED
    BY <1>6, <1>7, <2>1, UsedFilled
<1>9. all \in Seq(SlotsOf(des)) /\ Len(all) = Len(list) + 1 /\ Len(list) \in Nat
  <2> HIDE DEF des, list, new
  <2> QED
    BY <1>6, <1>8
<1>10. ~ (\E i \in DOMAIN list : list[i].id = at) => des # at
  <2> SUFFICES ASSUME des = at PROVE \E i \in DOMAIN list : list[i].id = at
    OBVIOUS
  <2>1. slot \in 1 .. Len(list) /\ list[slot] = cut[at][slot]
    BY <1>5
  <2>2. DOMAIN list = 1 .. Len(list)
    <3> HIDE DEF list, des
    <3> QED
      BY <1>8
  <2> QED
    BY <2>1, <2>2
<1>11. ASSUME NEW f \in [1 .. NR -> CutSlots], NEW k \in 1 .. NR, Filled(des, f, k),
              cut' = [cut EXCEPT ![des] = f], des # at
       PROVE  /\ cut' \in [Nodes -> [1 .. NR -> CutSlots]] /\ cut'[at] = cut[at]
              /\ \A x \in Nodes : CutAt(x)'
  <2> HIDE DEF des, list, new, all
  <2>1. /\ cut' \in [Nodes -> [1 .. NR -> CutSlots]] /\ cut'[at] = cut[at]
        /\ cut'[des] = f /\ \A x \in Nodes : x # des => cut'[x] = cut[x]
    BY <1>2, <1>6, <1>11
  <2>2. ASSUME NEW x \in Nodes PROVE CutAt(x)'
    <3>1. CASE x = des
      BY <1>1, <1>11, <2>1, <3>1, CutNext
    <3>2. CASE x # des
      BY <1>1, <1>2, <2>1, <3>2, CutNext
    <3> QED
      BY <3>1, <3>2
  <2> QED
    BY <2>1, <2>2
<1>12. /\ cut' \in [Nodes -> [1 .. NR -> CutSlots]] /\ cut'[at] = cut[at]
       /\ \A x \in Nodes : CutAt(x)'
  <2>1. CASE \E i \in DOMAIN list : list[i].id = at
    <3>1. cut' = cut
      BY <1>3, <2>1
    <3> QED
      BY <1>1, <1>2, <3>1, CutNext
  <2>2. CASE ~ (\E i \in DOMAIN list : list[i].id = at) /\ Len(all) <= NR
    <3> DEFINE f == Terminate(Overwrite(cut[des], all), Len(all) + 1)
    <3>1. cut' = [cut EXCEPT ![des] = f]
      BY <1>3, <2>2
    <3>2. f \in [1 .. NR -> CutSlots] /\ Filled(des, f, Len(all)) /\ Len(all) \in 1 .. NR
      <4> HIDE DEF des, list, new, all
      <4>1. Len(all) \in 1 .. NR
        BY <1>9, <2>2, NsgFacts
      <4> QED
        BY <1>2, <1>6, <1>8, <1>9, <4>1, OverwriteFacts
    <3> HIDE DEF f, des, list, all
    <3> QED
      BY <1>10, <1>11, <2>2, <3>1, <3>2
  <2>3. CASE ~ (\E i \in DOMAIN list : list[i].id = at) /\ ~ (Len(all) <= NR)
    <3> DEFINE dist == [i \in DOMAIN all |-> all[i].distance]
    <3>1. PICK o \in Sortings(dist) : cut' = [cut EXCEPT ![des] = Overwrite(@, Select([i \in DOMAIN o |-> all[o[i]]]))]
      BY <1>3, <2>3
    <3> DEFINE r == Select([i \in DOMAIN o |-> all[o[i]]])
               f == Overwrite(cut[des], r)
    <3>2. cut' = [cut EXCEPT ![des] = f]
      BY <3>1
    <3>3. DOMAIN dist = DOMAIN all
      OBVIOUS
    <3> HIDE DEF dist, des, list, new, all
    <3>4. r \in Seq(SlotsOf(des)) /\ Len(r) \in 1 .. NR
      <4>1. Len(all) >= 1
        BY <1>9
      <4> QED
        BY <1>9, <3>3, <4>1, ReorderedChoice
    <3>5. n = NR
      BY <1>7, <1>8, <1>9, <2>3, NsgFacts
    <3> HIDE DEF r
    <3>6. f \in [1 .. NR -> CutSlots] /\ Filled(des, f, NR)
      BY <1>2, <1>6, <1>7, <1>8, <3>4, <3>5, OverwriteFacts
    <3>7. NR \in 1 .. NR
      BY NsgFacts
    <3> HIDE DEF f
    <3> QED
      BY <1>10, <1>11, <2>3, <3>2, <3>6, <3>7
  <2> QED
    BY <2>1, <2>2, <2>3
<1>13. \A j \in 1 .. slot' - 1 : cut'[at'][j].distance # -1
  <2>1. slot' - 1 = slot /\ at' = at
    BY <1>1, <1>2
  <2> QED
    BY <1>4, <1>12, <2>1
<1>14. slot' \in 1 .. NR + 1
  BY <1>1, <1>2, NsgFacts
<1> HIDE DEF des, list, new, all
<1> QED
  BY <1>1, <1>12, <1>13, <1>14 DEF CutInv, CutType

-------------------------------------------------------------------------------
(* tree_grow.                                                              *)
Closed(T) == ep \in T /\ \A x \in T : Range(links[x]) \subseteq T

TreeType ==
  /\ flags \subseteq Nodes /\ cnt \in 0 .. Size
  /\ root \in Nodes \cup {-1} /\ stack \in Seq(Nodes)
  /\ width \in Nat

(* What is reached lies in every set that the links from ep do not leave;  *)
(* between two walks only the root may have a link to a node not reached.  *)
TreeInv ==
  /\ TreeType
  /\ step \in {"enter", "link", "insert", "compact"} => flags = {} /\ cnt = 0 /\ stack = << >>
  /\ step \in {"grow", "dfs", "done"} =>
       /\ root \in Nodes
       /\ \A T \in SUBSET Nodes : Closed(T) => flags \subseteq T /\ root \in T
  /\ step = "grow" => /\ cnt = Cardinality(flags) /\ stack = << >>
                      /\ \A x \in flags \ {root} : Range(links[x]) \subseteq flags
  /\ TreeOK
  /\ step = "done" => flags = Nodes /\ \A x \in Nodes : Len(links[x]) <= width

(* Before the walk nothing is reached.                                     *)
LEMMA TreeInit == NsgInit => TreeInv
<1> SUFFICES ASSUME NsgInit PROVE TreeInv
  OBVIOUS
<1>1. step = "enter" /\ flags = {} /\ cnt = 0 /\ root = -1 /\ stack = << >> /\ width = NR
  BY DEF NsgInit
<1>2. stack \in Seq(Nodes) /\ cnt \in 0 .. Size
  BY <1>1, ConstantFacts
<1> QED
  BY <1>1, <1>2, NsgFacts DEF TreeInv, TreeType, TreeOK

(* Link changes nothing of it.                                             *)
LEMMA TreeBuild ==
  ASSUME TreeInv, Enter \/ SyncPrune \/ InterInsert \/ NextNode
  PROVE  TreeInv'
<1>1. UNCHANGED tree
  BY DEF Enter, SyncPrune, InterInsert, NextNode
<1>2. UNCHANGED <<flags, cnt, root, stack, width>>
  BY <1>1 DEF tree
<1>3. /\ step \in {"enter", "link", "insert", "compact"}
      /\ step' \in {"enter", "link", "insert", "compact"}
  BY DEF Enter, SyncPrune, InterInsert, NextNode
<1> QED
  BY <1>2, <1>3 DEF TreeInv, TreeType, TreeOK

(* The walk starts with the links that Compact leaves.                     *)
LEMMA TreeCompact ==
  ASSUME CutInv, TreeInv, Compact
  PROVE  TreeInv'
<1>1. /\ step = "compact" /\ step' = "grow" /\ root' = ep
      /\ UNCHANGED <<ep, flags, cnt, stack, width>>
  BY DEF Compact
<1>2. flags = {} /\ cnt = 0 /\ stack = << >> /\ TreeType /\ ep \in Nodes
  BY <1>1 DEF TreeInv, CutInv
<1>3. cnt' = Cardinality(flags')
  BY <1>1, <1>2, FS_EmptySet
<1> QED
  BY <1>1, <1>2, <1>3 DEF TreeInv, TreeType, TreeOK, Closed

(* A set of nodes has a number of members that fits.                       *)
LEMMA FlagsFacts ==
  ASSUME NEW F \in SUBSET Nodes
  PROVE  /\ IsFiniteSet(F) /\ Cardinality(F) \in 0 .. Size
         /\ Cardinality(F) >= Size => F = Nodes
         /\ \A y \in Nodes \ F : Cardinality(F \cup {y}) = Cardinality(F) + 1
<1>1. IsFiniteSet(F) /\ Cardinality(F) \in Nat /\ Cardinality(F) <= Size
  BY NodesFinite, FS_Subset, FS_CardinalityType
<1>2. Cardinality(F) >= Size => F = Nodes
  <2>1. Cardinality(F) >= Size => Cardinality(F) = Cardinality(Nodes)
    BY <1>1, NodesFinite, ConstantFacts
  <2> QED
    BY <1>1, <2>1, NodesFinite, FS_Subset
<1>3. \A y \in Nodes \ F : Cardinality(F \cup {y}) = Cardinality(F) + 1
  BY <1>1, FS_AddElement
<1> QED
  BY <1>1, <1>2, <1>3, ConstantFacts

(* DFS starts from a root: from ep, or from a node reached before.         *)
LEMMA TreeStart ==
  ASSUME CutInv, TreeInv, StartDFS
  PROVE  TreeInv'
<1>1. /\ step = "grow" /\ step' = "dfs" /\ stack' = <<root>> /\ flags' = flags \cup {root}
      /\ cnt' = (IF root \in flags THEN cnt ELSE cnt + 1)
      /\ UNCHANGED <<links, ep, root, width>>
  BY DEF StartDFS
<1>2. /\ flags \in SUBSET Nodes /\ root \in Nodes /\ width \in Nat /\ cnt = Cardinality(flags)
      /\ \A T \in SUBSET Nodes : Closed(T) => flags \subseteq T /\ root \in T
      /\ \A x \in flags \ {root} : Range(links[x]) \subseteq flags
  BY <1>1 DEF TreeInv, TreeType
<1>3. flags' \in SUBSET Nodes /\ cnt' = Cardinality(flags')
  <2>1. CASE root \in flags
    <3>1. flags' = flags
      BY <1>1, <2>1
    <3> QED
      BY <1>1, <1>2, <2>1, <3>1
  <2>2. CASE root \notin flags
    BY <1>1, <1>2, <2>2, FlagsFacts
  <2> QED
    BY <2>1, <2>2
<1>4. cnt' \in 0 .. Size
  BY <1>3, FlagsFacts
<1>5. /\ <<root>> \in Seq(Nodes) /\ Range(<<root>>) = {root}
      /\ \A i \in 2 .. Len(<<root>>) : FALSE
  <2>1. <<root>> \in Seq(Nodes) /\ Len(<<root>>) = 1 /\ <<root>>[1] = root /\ DOMAIN <<root>> = 1 .. 1
    BY <1>2
  <2> QED
    BY <2>1 DEF Range
<1>6. \A T \in SUBSET Nodes : Closed(T)' => flags' \subseteq T /\ root' \in T
  BY <1>1, <1>2 DEF Closed
<1>7. \A x \in flags' \ Range(stack') : Range(links'[x]) \subseteq flags'
  BY <1>1, <1>2, <1>5
<1> QED
  BY <1>1, <1>2, <1>3, <1>4, <1>5, <1>6, <1>7 DEF TreeInv, TreeType, TreeOK

(* Without a link ahead every link of the node at hand is to one reached.  *)
LEMMA AheadFacts ==
  ASSUME NEW here \in Seq(Nodes), here = links[Last(stack)]
  PROVE  /\ \A y \in Ahead : y \in Range(here) /\ y \in Nodes /\ y \notin flags
         /\ Ahead = {} => Range(here) \subseteq flags
<1>1. Ahead = {here[i] : i \in {j \in DOMAIN here : /\ here[j] \notin flags
                                                   /\ \A h \in 1 .. j - 1 : here[h] \in flags}}
  BY DEF Ahead
<1>2. DOMAIN here = 1 .. Len(here) /\ Len(here) \in Nat
  OBVIOUS
<1>3. \A y \in Ahead : y \in Range(here) /\ y \in Nodes /\ y \notin flags
  BY <1>1, <1>2 DEF Range
<1>4. ASSUME ~ (Range(here) \subseteq flags) PROVE Ahead # {}
  <2> DEFINE B == {j \in 1 .. Len(here) : here[j] \notin flags}
  <2>1. B \in SUBSET Nat /\ B # {}
    BY <1>2, <1>4 DEF Range
  <2>2. PICK m \in B : \A j \in B : m <= j
    <3> HIDE DEF B
    <3> QED
      BY <2>1, LeastNumber
  <2>3. m \in 1 .. Len(here) /\ here[m] \notin flags
    OBVIOUS
  <2>4. \A h \in 1 .. m - 1 : here[h] \in flags
    <3>1. \A h \in 1 .. m - 1 : h \in 1 .. Len(here) /\ ~ (m <= h)
      BY <1>2, <2>3
    <3> QED
      BY <2>2, <3>1
  <2> HIDE DEF B
  <2> QED
    BY <1>1, <1>2, <2>3, <2>4
<1> QED
  BY <1>3, <1>4

(* The last element of a sequence, and the others.                         *)
LEMMA LastAndFront ==
  ASSUME NEW T, NEW s \in Seq(T), s # << >>
  PROVE  /\ Len(s) \in Nat /\ Len(s) >= 1 /\ Last(s) = s[Len(s)] /\ Last(s) \in T /\ Last(s) \in Range(s)
         /\ Front(s) \in Seq(T) /\ Len(Front(s)) = Len(s) - 1
         /\ \A i \in 1 .. Len(s) - 1 : Front(s)[i] = s[i]
         /\ Range(Front(s)) \subseteq Range(s)
         /\ \A a \in Range(s) : a = Last(s) \/ a \in Range(Front(s))
<1> DEFINE n == Len(s)
           f == Front(s)
<1>1. n \in Nat /\ n >= 1 /\ DOMAIN s = 1 .. n /\ Last(s) = s[n]
  BY DEF Last
<1>2. f \in Seq(T) /\ Len(f) = n - 1 /\ \A i \in 1 .. n - 1 : f[i] = s[i]
  BY <1>1 DEF Front
<1>3. DOMAIN f = 1 .. n - 1
  <2> HIDE DEF f, n
  <2> QED
    BY <1>2
<1> HIDE DEF f, n
<1>4. Range(f) \subseteq Range(s)
  <2>1. \A i \in 1 .. n - 1 : i \in 1 .. n
    BY <1>1
  <2> QED
    BY <1>1, <1>2, <1>3, <2>1 DEF Range
<1>5. \A a \in Range(s) : a = Last(s) \/ a \in Range(f)
  <2>1. \A i \in 1 .. n : i = n \/ i \in 1 .. n - 1
    BY <1>1
  <2> QED
    BY <1>1, <1>2, <1>3, <2>1 DEF Range
<1>6. Last(s) \in T /\ Last(s) \in Range(s)
  BY <1>1 DEF Range
<1> QED
  BY <1>1, <1>2, <1>4, <1>5, <1>6 DEF f, n

(* What a sequence is with one more element.                               *)
LEMMA Appended ==
  ASSUME NEW T, NEW s \in Seq(T), NEW y \in T
  PROVE  /\ Append(s, y) \in Seq(T) /\ Len(Append(s, y)) = Len(s) + 1 /\ Len(s) \in Nat
         /\ Append(s, y)[Len(s) + 1] = y /\ \A i \in 1 .. Len(s) : Append(s, y)[i] = s[i]
         /\ Range(Append(s, y)) = Range(s) \cup {y}
<1> DEFINE n == Len(s)
           a == Append(s, y)
<1>1. /\ n \in Nat /\ a \in Seq(T) /\ Len(a) = n + 1 /\ a[n + 1] = y /\ \A i \in 1 .. n : a[i] = s[i]
      /\ DOMAIN s = 1 .. n
  OBVIOUS
<1>2. DOMAIN a = 1 .. n + 1
  <2> HIDE DEF a, n
  <2> QED
    BY <1>1
<1> HIDE DEF a, n
<1>3. ASSUME NEW i \in 1 .. n + 1 PROVE a[i] \in Range(s) \cup {y}
  <2>1. i \in 1 .. n \/ i = n + 1
    BY <1>1
  <2> QED
    BY <1>1, <2>1 DEF Range
<1>4. \A i \in 1 .. n : s[i] \in Range(a)
  <2>1. \A i \in 1 .. n : i \in 1 .. n + 1
    BY <1>1
  <2> QED
    BY <1>1, <1>2, <2>1 DEF Range
<1>5. y \in Range(a)
  <2>1. n + 1 \in 1 .. n + 1
    BY <1>1
  <2> QED
    BY <1>1, <1>2, <2>1 DEF Range
<1>6. Range(a) = Range(s) \cup {y}
  BY <1>1, <1>2, <1>3, <1>4, <1>5 DEF Range
<1> QED
  BY <1>1, <1>6 DEF a, n

(* A step of the walk reaches a node that is linked from the one at hand,  *)
(* or goes back from a node all of whose links are reached.                *)
LEMMA TreeWalk ==
  ASSUME CutInv, TreeInv, Walk
  PROVE  TreeInv'
<1> DEFINE top == Last(stack)
           here == links[top]
           n == Len(stack)
<1>1. step = "dfs" /\ stack # << >> /\ UNCHANGED <<step, links, ep, root, width>>
  BY DEF Walk
<1>2. /\ flags \in SUBSET Nodes /\ root \in Nodes /\ width \in Nat /\ stack \in Seq(Nodes)
      /\ cnt = Cardinality(flags) /\ Range(stack) \subseteq flags
      /\ \A T \in SUBSET Nodes : Closed(T) => flags \subseteq T /\ root \in T
      /\ \A i \in 2 .. n : stack[i] \in Range(links[stack[i - 1]])
      /\ \A x \in flags \ Range(stack) : Range(links[x]) \subseteq flags
      /\ links \in [Nodes -> Seq(Nodes)]
  BY <1>1 DEF TreeInv, TreeType, TreeOK, CutInv, CutType
<1>3. /\ n \in Nat /\ n >= 1 /\ top = stack[n] /\ top \in Nodes /\ top \in Range(stack)
      /\ Front(stack) \in Seq(Nodes) /\ Len(Front(stack)) = n - 1
      /\ \A i \in 1 .. n - 1 : Front(stack)[i] = stack[i]
      /\ Range(Front(stack)) \subseteq Range(stack)
      /\ \A a \in Range(stack) : a = top \/ a \in Range(Front(stack))
  BY <1>1, <1>2, LastAndFront
<1>4. /\ here \in Seq(Nodes)
      /\ \A y \in Ahead : y \in Range(here) /\ y \in Nodes /\ y \notin flags
      /\ Ahead = {} => Range(here) \subseteq flags
  <2>1. here \in Seq(Nodes)
    BY <1>2, <1>3
  <2> QED
    BY <2>1, AheadFacts
<1>5. top \in flags
  BY <1>2, <1>3
<1> HIDE DEF top, n
<1>6. ASSUME NEW y \in Ahead, stack' = Append(stack, y), flags' = flags \cup {y}, cnt' = cnt + 1
      PROVE  TreeInv'
  <2>1. y \in Range(here) /\ y \in Nodes /\ y \notin flags
    BY <1>4
  <2>2. flags' \in SUBSET Nodes /\ cnt' = Cardinality(flags') /\ cnt' \in 0 .. Size
    <3>1. flags' \in SUBSET Nodes
      BY <1>2, <1>6, <2>1
    <3>2. cnt' = Cardinality(flags')
      BY <1>2, <1>6, <2>1, FlagsFacts
    <3> QED
      BY <3>1, <3>2, FlagsFacts
  <2>3. /\ stack' \in Seq(Nodes) /\ Len(stack') = n + 1 /\ stack'[n + 1] = y
        /\ \A i \in 1 .. n : stack'[i] = stack[i]
        /\ Range(stack') = Range(stack) \cup {y}
    BY <1>2, <1>6, <2>1, Appended DEF n
  <2>4. \A i \in 2 .. n + 1 : stack'[i] \in Range(links'[stack'[i - 1]])
    <3> SUFFICES ASSUME NEW i \in 2 .. n + 1 PROVE stack'[i] \in Range(links[stack'[i - 1]])
      BY <1>1
    <3>1. i - 1 \in 1 .. n /\ (i \in 2 .. n \/ i = n + 1)
      BY <1>3
    <3>2. CASE i \in 2 .. n
      <4>1. i \in 1 .. n
        BY <1>3, <3>2
      <4> QED
        BY <1>2, <2>3, <3>1, <3>2, <4>1
    <3>3. CASE i = n + 1
      <4>1. i - 1 = n
        BY <1>3, <3>3
      <4>2. stack'[i - 1] = top /\ stack'[i] = y
        BY <1>3, <2>3, <3>1, <3>3, <4>1
      <4> QED
        BY <2>1, <4>2
    <3> QED
      BY <3>1, <3>2, <3>3
  <2>5. \A T \in SUBSET Nodes : Closed(T)' => flags' \subseteq T /\ root' \in T
    <3> SUFFICES ASSUME NEW T \in SUBSET Nodes, Closed(T) PROVE flags' \subseteq T /\ root' \in T
      BY <1>1 DEF Closed
    <3>1. flags \subseteq T /\ root \in T
      BY <1>2
    <3>2. y \in T
      BY <1>5, <2>1, <3>1 DEF Closed
    <3> QED
      BY <1>1, <1>6, <3>1, <3>2
  <2>6. \A x \in flags' \ Range(stack') : Range(links'[x]) \subseteq flags'
    BY <1>1, <1>2, <1>6, <2>3
  <2>7. Range(stack') \subseteq flags'
    BY <1>2, <1>6, <2>3
  <2>8. TreeOK'
    BY <2>2, <2>3, <2>4, <2>6, <2>7 DEF TreeOK
  <2> QED
    BY <1>1, <1>2, <2>2, <2>3, <2>5, <2>8 DEF TreeInv, TreeType
<1>7. ASSUME Ahead = {}, stack' = Front(stack), UNCHANGED <<flags, cnt>>
      PROVE  TreeInv'
  <2>1. Range(here) \subseteq flags
    BY <1>4, <1>7
  <2>2. \A x \in flags' \ Range(stack') : Range(links'[x]) \subseteq flags'
    <3> SUFFICES ASSUME NEW x \in flags \ Range(Front(stack)) PROVE Range(links[x]) \subseteq flags
      BY <1>1, <1>7
    <3>1. CASE x = top
      BY <2>1, <3>1
    <3>2. CASE x # top
      BY <1>2, <1>3, <3>2
    <3> QED
      BY <3>1, <3>2
  <2>3. \A i \in 2 .. Len(stack') : stack'[i] \in Range(links'[stack'[i - 1]])
    <3> SUFFICES ASSUME NEW i \in 2 .. n - 1 PROVE stack'[i] \in Range(links[stack'[i - 1]])
      BY <1>1, <1>3, <1>7
    <3>1. i \in 1 .. n - 1 /\ i - 1 \in 1 .. n - 1 /\ i \in 2 .. n
      BY <1>3
    <3> QED
      BY <1>2, <1>3, <1>7, <3>1
  <2>4. cnt' \in 0 .. Size /\ cnt' = Cardinality(flags')
    BY <1>2, <1>7, FlagsFacts
  <2>5. Range(stack') \subseteq flags'
    BY <1>2, <1>3, <1>7
  <2>6. TreeOK'
    BY <2>2, <2>3, <2>4, <2>5 DEF TreeOK
  <2>7. \A T \in SUBSET Nodes : Closed(T)' => flags' \subseteq T /\ root' \in T
    BY <1>1, <1>2, <1>7 DEF Closed
  <2> QED
    BY <1>1, <1>2, <1>3, <1>7, <2>4, <2>6, <2>7 DEF TreeInv, TreeType
<1> QED
  BY <1>6, <1>7 DEF Walk

(* findroot: a node not reached is linked from one that is.                *)
LEMMA FindRootFacts ==
  ASSUME TreeInv, CutInv, FindRoot
  PROVE  /\ step = "dfs" /\ stack = << >> /\ step' = "grow" /\ UNCHANGED <<ep, cut, at, slot, flags, cnt, stack, width>>
         /\ flags \in SUBSET Nodes /\ root' \in flags
         /\ \E id \in Nodes \ flags : links' = [links EXCEPT ![root'] = Append(@, id)]
<1>1. /\ step = "dfs" /\ stack = << >> /\ cnt < Size /\ step' = "grow"
      /\ UNCHANGED <<ep, cut, at, slot, flags, cnt, stack, width>>
  BY DEF FindRoot
<1>2. flags \in SUBSET Nodes /\ cnt = Cardinality(flags)
  BY <1>1 DEF TreeInv, TreeType, TreeOK
<1> DEFINE id == CHOOSE x \in Nodes \ flags : \A y \in Nodes \ flags : x <= y
<1>3. /\ root' \in UNION {Roots(id, s) : s \in Searches(links, world.dist[id], ep)}
      /\ links' = [links EXCEPT ![root'] = Append(@, id)]
  BY DEF FindRoot
<1>4. id \in Nodes \ flags
  <2> DEFINE B == Nodes \ flags
  <2>1. B # {}
    <3> SUFFICES ASSUME flags = Nodes PROVE FALSE
      BY <1>2
    <3> QED
      BY <1>1, <1>2, NodesFinite, ConstantFacts
  <2>2. B \in SUBSET Nat
    BY ZeroNode
  <2>3. \E x \in B : \A y \in B : x <= y
    <3> HIDE DEF B
    <3> QED
      BY <2>1, <2>2, LeastNumber
  <2> QED
    BY <2>3
<1>5. \A s : Roots(id, s) \subseteq flags
  BY DEF Roots
<1> HIDE DEF id
<1> QED
  BY <1>1, <1>2, <1>3, <1>4, <1>5

(* So the links lead to one more node, and only the new root leads outside *)
(* what was reached.                                                       *)
LEMMA TreeFindRoot ==
  ASSUME CutInv, TreeInv, FindRoot
  PROVE  TreeInv'
<1>1. /\ step = "dfs" /\ stack = << >> /\ step' = "grow" /\ UNCHANGED <<ep, flags, cnt, stack, width>>
      /\ flags \in SUBSET Nodes /\ root' \in flags
  BY FindRootFacts
<1>2. PICK id \in Nodes \ flags : links' = [links EXCEPT ![root'] = Append(@, id)]
  BY FindRootFacts
<1>3. /\ TreeType /\ cnt = Cardinality(flags)
      /\ \A T \in SUBSET Nodes : Closed(T) => flags \subseteq T
      /\ \A x \in flags : Range(links[x]) \subseteq flags
      /\ links \in [Nodes -> Seq(Nodes)]
  <2>1. Range(stack) = {}
    BY <1>1 DEF Range
  <2> QED
    BY <1>1, <2>1 DEF TreeInv, TreeOK, CutInv, CutType
<1>4. /\ root' \in Nodes /\ \A x \in Nodes : x # root' => links'[x] = links[x]
      /\ links'[root'] = Append(links[root'], id)
  BY <1>1, <1>2, <1>3
<1>5. Range(links[root']) \subseteq Range(links'[root'])
  <2>1. links[root'] \in Seq(Nodes)
    BY <1>3, <1>4
  <2> QED
    BY <1>4, <2>1, Appended
<1>6. \A T \in SUBSET Nodes : Closed(T)' => flags' \subseteq T /\ root' \in T
  <2> SUFFICES ASSUME NEW T \in SUBSET Nodes, Closed(T)' PROVE flags' \subseteq T /\ root' \in T
    OBVIOUS
  <2>1. Closed(T)
    <3>1. ep \in T /\ \A x \in T : Range(links'[x]) \subseteq T
      BY <1>1 DEF Closed
    <3>2. ASSUME NEW x \in T PROVE Range(links[x]) \subseteq T
      <4>1. CASE x = root'
        BY <1>5, <3>1, <4>1
      <4>2. CASE x # root'
        BY <1>4, <3>1, <4>2
      <4> QED
        BY <4>1, <4>2
    <3> QED
      BY <3>1, <3>2 DEF Closed
  <2> QED
    BY <1>1, <1>3, <2>1
<1>7. \A x \in flags' \ {root'} : Range(links'[x]) \subseteq flags'
  BY <1>1, <1>3, <1>4
<1> QED
  BY <1>1, <1>3, <1>4, <1>6, <1>7 DEF TreeInv, TreeType, TreeOK

(* All nodes are reached.                                                  *)
LEMMA TreeFinish ==
  ASSUME CutInv, TreeInv, Finish
  PROVE  TreeInv'
<1>1. /\ step = "dfs" /\ step' = "done" /\ cnt >= Size
      /\ UNCHANGED <<links, ep, flags, cnt, root, stack>>
      /\ width' = CHOOSE w \in {width} \cup {Len(links[x]) : x \in Nodes} :
                    w >= width /\ \A x \in Nodes : w >= Len(links[x])
  BY DEF Finish
<1>2. /\ flags \in SUBSET Nodes /\ cnt = Cardinality(flags) /\ width \in Nat
      /\ links \in [Nodes -> Seq(Nodes)]
  BY <1>1 DEF TreeInv, TreeType, TreeOK, CutInv, CutType
<1>3. flags = Nodes
  BY <1>1, <1>2, FlagsFacts
<1>4. width' \in Nat /\ \A x \in Nodes : Len(links[x]) <= width'
  <2> DEFINE v == [x \in Nodes |-> Len(links[x])]
             W == {width} \cup {Len(links[x]) : x \in Nodes}
  <2>1. \A x \in Nodes : v[x] \in Int /\ v[x] = Len(links[x]) /\ Len(links[x]) \in Nat
    BY <1>2
  <2> HIDE DEF v
  <2>2. PICK a \in Nodes : \A b \in Nodes : v[b] <= v[a]
    BY <2>1, NodesFinite, ZeroNode, GreatestValue
  <2> DEFINE m == IF Len(links[a]) >= width THEN Len(links[a]) ELSE width
  <2>3. m \in W /\ m >= width /\ \A x \in Nodes : m >= Len(links[x])
    <3>1. Len(links[a]) \in Nat /\ \A x \in Nodes : Len(links[x]) \in Nat /\ Len(links[x]) <= Len(links[a])
      BY <2>1, <2>2
    <3>2. m >= width /\ m >= Len(links[a]) /\ m \in Nat
      BY <1>2, <3>1
    <3>3. m \in W
      OBVIOUS
    <3> HIDE DEF m, W
    <3>4. \A x \in Nodes : m >= Len(links[x])
      BY <3>1, <3>2
    <3> QED
      BY <3>2, <3>3, <3>4
  <2>4. W \subseteq Nat
    BY <1>2, <2>1
  <2> HIDE DEF m
  <2>5. width' \in W /\ \A x \in Nodes : width' >= Len(links[x])
    BY <1>1, <2>3
  <2> QED
    BY <2>1, <2>4, <2>5
<1>5. TreeOK'
  BY <1>1 DEF TreeInv, TreeOK
<1> QED
  BY <1>1, <1>3, <1>4, <1>5 DEF TreeInv, TreeType, Closed

(* What tree_grow does leaves cut_graph_ as it is.                         *)
LEMMA CutGrow ==
  ASSUME CutInv, TreeInv, StartDFS \/ Walk \/ FindRoot \/ Finish, UNCHANGED nnVars
  PROVE  CutInv'
<1>1. /\ step \in {"grow", "dfs"} /\ step' \in {"grow", "dfs", "done"}
      /\ UNCHANGED <<ep, cut, at, slot>> /\ UNCHANGED <<world, phase, rows>>
  BY DEF StartDFS, Walk, FindRoot, Finish, nnVars
<1>2. links' \in [Nodes -> Seq(Nodes)]
  <2>1. links \in [Nodes -> Seq(Nodes)]
    BY DEF CutInv, CutType
  <2>2. CASE StartDFS \/ Walk \/ Finish
    <3>1. links' = links
      BY <2>2 DEF StartDFS, Walk, Finish
    <3> QED
      BY <2>1, <3>1
  <2>3. CASE FindRoot
    <3>1. PICK id \in Nodes : links' = [links EXCEPT ![root'] = Append(@, id)]
      BY <2>3, FindRootFacts
    <3>2. root' \in Nodes
      BY <2>3, FindRootFacts
    <3>3. links[root'] \in Seq(Nodes)
      BY <2>1, <3>2
    <3>4. Append(links[root'], id) \in Seq(Nodes)
      BY <3>3
    <3> QED
      BY <2>1, <3>1, <3>2, <3>4
  <2> QED
    BY <2>2, <2>3
<1> QED
  BY <1>1, <1>2 DEF CutInv, CutType

(* While NN-descent goes on, nothing of the NSG is there yet.              *)
LEMMA GraphStutter ==
  ASSUME CutInv, TreeInv, NnNext \/ UNCHANGED nnVars, UNCHANGED nsgVars
  PROVE  CutInv' /\ TreeInv'
<1>1. UNCHANGED <<step, links, ep, cut, at, slot, flags, cnt, root, stack, width>>
  BY DEF nsgVars, tree
<1>2. world' = world /\ (phase = "built" => UNCHANGED <<phase, rows>>)
  <2>1. CASE UNCHANGED nnVars
    BY <2>1 DEF nnVars
  <2>2. CASE NnNext
    BY <2>2 DEF NnNext, NnStep, NnMain, Take, Insert, Begin, Introduce, Clear, Merge, Build, Joined, Renewed
  <2> QED
    BY <2>1, <2>2
<1>3. \A x \in Nodes : CutAt(x) => CutAt(x)'
  BY <1>1, <1>2, CutNext
<1>4. CutInv'
  BY <1>1, <1>2, <1>3 DEF CutInv, CutType
<1>5. TreeInv'
  BY <1>1 DEF TreeInv, TreeType, TreeOK, Closed
<1> QED
  BY <1>4, <1>5

(* The steps of the construction, one by one.                              *)
LEMMA GraphStep ==
  ASSUME JoinInv, ListInv, CutInv, TreeInv, [Next]_vars
  PROVE  CutInv' /\ TreeInv'
<1>1. world \in Worlds
  BY DEF JoinInv, NnTypeOK
<1>2. CASE NnNext /\ UNCHANGED nsgVars
  BY <1>2, GraphStutter
<1>3. CASE UNCHANGED vars
  BY <1>3, GraphStutter DEF vars
<1>4. CASE NsgNext /\ UNCHANGED nnVars
  <2>1. CASE Enter
    BY <1>4, <2>1, CutEnter, TreeBuild
  <2>2. CASE SyncPrune
    BY <1>4, <2>2, CutPrune, TreeBuild
  <2>3. CASE InterInsert
    BY <1>4, <2>3, CutInsert, TreeBuild
  <2>4. CASE NextNode
    BY <1>4, <2>4, CutNextNode, TreeBuild
  <2>5. CASE Compact
    BY <1>1, <1>4, <2>5, CutCompact, TreeCompact
  <2>6. CASE StartDFS
    BY <1>4, <2>6, CutGrow, TreeStart
  <2>7. CASE Walk
    BY <1>4, <2>7, CutGrow, TreeWalk
  <2>8. CASE FindRoot
    BY <1>4, <2>8, CutGrow, TreeFindRoot
  <2>9. CASE Finish
    BY <1>4, <2>9, CutGrow, TreeFinish
  <2> QED
    BY <1>4, <2>1, <2>2, <2>3, <2>4, <2>5, <2>6, <2>7, <2>8, <2>9 DEF NsgNext
<1> QED
  BY <1>2, <1>3, <1>4 DEF Next

(* The invariant of the whole construction.                                *)
BuildInv == JoinInv /\ ListInv /\ CutInv /\ TreeInv

LEMMA BuildInit == Init => BuildInv
BY InitInv, ListInit, CutInit, TreeInit DEF Init, BuildInv

LEMMA BuildNext == BuildInv /\ [Next]_vars => BuildInv'
BY StepInv, ListStep, GraphStep DEF BuildInv

(* What the slots in use are is what the runs check of them.               *)
LEMMA CutIs == CutInv /\ world \in Worlds => CutOK
<1> SUFFICES ASSUME CutInv, world \in Worlds, step \in {"insert", "compact"}, NEW x \in Nodes,
                    NEW i \in 1 .. (IF Used(cut[x]) = << >> THEN 1 ELSE Len(Used(cut[x])))
             PROVE  cut[x][i].id \in Nodes /\ cut[x][i].distance = d(x, cut[x][i].id)
  BY DEF CutOK
<1>1. cut[x] \in [1 .. NR -> CutSlots]
  BY DEF CutInv, CutType
<1>2. PICK n \in 1 .. NR : Filled(x, cut[x], n)
  BY DEF CutInv, CutAt
<1>3. Len(Used(cut[x])) \in 0 .. n /\ Used(cut[x]) \in Seq(SlotsOf(x))
  BY <1>1, <1>2, UsedFilled
<1>4. i \in 1 .. n
  BY <1>2, <1>3, NsgFacts
<1>5. cut[x][i] \in SlotsOf(x)
  BY <1>2, <1>4 DEF Filled
<1> QED
  BY <1>5, SlotFacts

(* The invariant implies the one that the runs check.                      *)
LEMMA BuildImplies == BuildInv => IInv
<1> SUFFICES ASSUME BuildInv PROVE IInv
  OBVIOUS
<1>1. JoinInv /\ ListInv /\ CutInv /\ TreeInv
  BY DEF BuildInv
<1>2. NnTypeOK /\ PoolsOK /\ WorkOK /\ JoinOK
  BY <1>1, JoinIs DEF JoinInv
<1>3. ListsBounded
  BY <1>1, ListsAreBounded
<1>4. NsgTypeOK
  BY <1>1 DEF CutInv, CutType, TreeInv, TreeType, NsgTypeOK, CutSlots
<1>5. CutOK
  BY <1>1, <1>2, CutIs DEF NnTypeOK
<1>6. TreeOK
  BY <1>1 DEF TreeInv
<1> QED
  BY <1>2, <1>3, <1>4, <1>5, <1>6 DEF IInv

-------------------------------------------------------------------------------
(* What the links lead to.                                                 *)
Onward(T) == T \cup UNION {Range(links[x]) : x \in T}

(* Reach, as a recursion on the number of links.                           *)
LEMMA ReachFacts ==
  ASSUME links \in [Nodes -> Seq(Nodes)], ep \in Nodes
  PROVE  /\ Reach[0] = {ep}
         /\ \A n \in 1 .. Size : Reach[n] = Onward(Reach[n - 1])
         /\ \A n \in 0 .. Size : Reach[n] \in SUBSET Nodes
<1> DEFINE m == Size
           D == SUBSET Nodes
           Is(F) == F = [n \in 0 .. m |-> IF n = 0 THEN {ep} ELSE Onward(F[n - 1])]
           h == [c \in (0 + 1 .. 0 + m) \X D |-> Onward(c[2])]
<1>1. m \in Nat /\ 0 \in Nat /\ {ep} \in D
  BY ConstantFacts
<1>2. ASSUME NEW T \in D PROVE Onward(T) \in D
  <2>1. \A x \in Nodes : Range(links[x]) \subseteq Nodes
    <3> SUFFICES ASSUME NEW x \in Nodes PROVE Range(links[x]) \subseteq Nodes
      OBVIOUS
    <3>1. links[x] \in Seq(Nodes)
      OBVIOUS
    <3> QED
      BY <3>1 DEF Range
  <2> QED
    BY <2>1 DEF Onward
<1>3. Reach = CHOOSE F : Is(F)
  BY DEF Reach, Onward
<1> HIDE DEF m, D
<1>4. \E F : Is(F)
  <2>1. h \in [(0 + 1 .. 0 + m) \X D -> D] /\ \A n \in 1 .. m, T \in D : h[<<n, T>>] = Onward(T)
    BY <1>1, <1>2
  <2> HIDE DEF h
  <2>2. PICK F \in [0 .. 0 + m -> D] : Steps(F, 0, 0 + m, {ep}, h)
    BY <1>1, <2>1, Recursion
  <2>3. F \in [0 .. m -> D] /\ F[0] = {ep} /\ \A n \in 1 .. m : F[n] = h[<<n, F[n - 1]>>]
    BY <1>1, <2>2 DEF Steps
  <2>4. ASSUME NEW n \in 0 .. m PROVE F[n] = IF n = 0 THEN {ep} ELSE Onward(F[n - 1])
    <3>1. n # 0 => n \in 1 .. m /\ n - 1 \in 0 .. m
      BY <1>1
    <3>2. n # 0 => F[n - 1] \in D
      BY <2>3, <3>1
    <3> QED
      BY <2>1, <2>3, <3>1, <3>2
  <2>5. Is(F)
    BY <2>3, <2>4
  <2> QED
    BY <2>5
<1>5. Is(Reach)
  <2> HIDE DEF Is
  <2> QED
    BY <1>3, <1>4
<1>6. Reach[0] = {ep} /\ \A n \in 1 .. m : Reach[n] = Onward(Reach[n - 1])
  <2>1. 0 \in 0 .. m /\ \A n \in 1 .. m : n \in 0 .. m /\ n # 0
    BY <1>1
  <2>2. \A n \in 0 .. m : Reach[n] = IF n = 0 THEN {ep} ELSE Onward(Reach[n - 1])
    BY <1>5
  <2> QED
    BY <2>1, <2>2
<1>7. \A n \in 0 .. m : Reach[n] \in D
  <2>1. Reach[0] \in D
    BY <1>1, <1>6
  <2>2. \A n \in 0 + 1 .. m : Reach[n - 1] \in D => Reach[n] \in D
    BY <1>2, <1>6
  <2> QED
    BY <1>1, <2>1, <2>2, Keeps
<1> QED
  BY <1>6, <1>7 DEF m, D

(* Where every closed set holds all nodes, each step reaches one more node *)
(* at least until all are reached.                                         *)
LEMMA ReachesAll ==
  ASSUME links \in [Nodes -> Seq(Nodes)], ep \in Nodes,
         \A T \in SUBSET Nodes : Closed(T) => Nodes \subseteq T
  PROVE  Reach[Size] = Nodes
<1> DEFINE D == {T \in SUBSET Nodes : ep \in T}
           Far(n) == Reach[n] = Nodes \/ Cardinality(Reach[n]) >= n + 1
           B == {n \in 0 .. Size : ~ Far(n)}
<1>1. Size \in Nat
  BY ConstantFacts
<1>2. \A n \in 0 .. Size : Reach[n] \in D
  <2>1. Reach[0] \in D
    BY ReachFacts
  <2>2. ASSUME NEW n \in 0 + 1 .. Size, Reach[n - 1] \in D PROVE Reach[n] \in D
    <3>1. n \in 0 .. Size /\ n \in 1 .. Size
      BY <1>1
    <3>2. Reach[n] \in SUBSET Nodes /\ Reach[n] = Onward(Reach[n - 1])
      BY <3>1, ReachFacts
    <3> QED
      BY <2>2, <3>2 DEF Onward
  <2> HIDE DEF D
  <2> QED
    BY <1>1, <2>1, <2>2, Keeps
<1>3. B = {}
  <2> SUFFICES ASSUME B # {} PROVE FALSE
    OBVIOUS
  <2>1. PICK n \in B : \A j \in B : n <= j
    <3>1. B \in SUBSET Nat
      OBVIOUS
    <3> HIDE DEF B
    <3> QED
      BY <3>1, LeastNumber
  <2>2. n \in 0 .. Size /\ ~ Far(n)
    OBVIOUS
  <2>3. CASE n = 0
    <3>1. Cardinality(Reach[0]) = 1
      BY ReachFacts, FS_Singleton
    <3> QED
      BY <2>2, <2>3, <3>1
  <2>4. CASE n # 0
    <3> DEFINE A == Reach[n - 1]
    <3>1. n \in 1 .. Size /\ n - 1 \in 0 .. Size /\ ~ (n <= n - 1)
      BY <1>1, <2>2, <2>4
    <3>2. Far(n - 1)
      <4>1. n - 1 \notin B
        <5> HIDE DEF B
        <5> QED
          BY <2>1, <3>1
      <4> QED
        BY <3>1, <4>1
    <3>3. A \in SUBSET Nodes /\ ep \in A
      BY <1>2, <3>1
    <3>4. Reach[n] = Onward(A) /\ Reach[n] \in SUBSET Nodes
      BY <2>2, <3>1, ReachFacts
    <3>5. A = Nodes \/ Cardinality(A) >= n
      BY <3>1, <3>2
    <3> HIDE DEF A
    <3>6. CASE A = Nodes
      BY <2>2, <3>4, <3>6 DEF Onward
    <3>7. CASE A # Nodes
      <4>1. ~ Closed(A)
        BY <3>3, <3>7
      <4>2. PICK y \in Onward(A) : y \notin A
        BY <3>3, <4>1 DEF Closed, Onward
      <4>3. A \cup {y} \subseteq Onward(A) /\ y \in Nodes \ A
        BY <3>4, <4>2 DEF Onward
      <4>4. Cardinality(A \cup {y}) = Cardinality(A) + 1 /\ Cardinality(A) \in 0 .. Size
        BY <3>3, <4>3, FlagsFacts
      <4>5. IsFiniteSet(Reach[n])
        BY <3>4, FlagsFacts
      <4>6. Cardinality(A \cup {y}) <= Cardinality(Reach[n]) /\ Cardinality(Reach[n]) \in Nat
        BY <3>4, <4>3, <4>5, FS_Subset, FS_CardinalityType
      <4>7. Cardinality(Reach[n]) >= n + 1
        BY <2>2, <3>5, <3>7, <4>4, <4>6
      <4> QED
        BY <2>2, <4>7
    <3> QED
      BY <3>6, <3>7
  <2> QED
    BY <2>3, <2>4
<1>4. Far(Size)
  <2>1. Size \in 0 .. Size
    BY <1>1
  <2> QED
    BY <1>3, <2>1
<1>5. Reach[Size] \in SUBSET Nodes
  <2>1. Size \in 0 .. Size
    BY <1>1
  <2> QED
    BY <2>1, ReachFacts
<1>6. Cardinality(Reach[Size]) \in 0 .. Size
  BY <1>5, FlagsFacts
<1> QED
  BY <1>1, <1>4, <1>6

(* What the walk has reached at its end, the links lead to.                *)
LEMMA BuildReaches == BuildInv => AllReachable
<1> SUFFICES ASSUME BuildInv, step = "done"
             PROVE  Reach[Size] = Nodes /\ \A x \in Nodes : Len(links[x]) <= width
  BY DEF AllReachable
<1>1. /\ links \in [Nodes -> Seq(Nodes)] /\ ep \in Nodes
      /\ flags = Nodes /\ \A x \in Nodes : Len(links[x]) <= width
      /\ \A T \in SUBSET Nodes : Closed(T) => flags \subseteq T
  BY DEF BuildInv, CutInv, CutType, TreeInv
<1>2. Reach[Size] = Nodes
  BY <1>1, ReachesAll
<1> QED
  BY <1>1, <1>2

(* The whole construction: the types, the lists of NN-descent within their *)
(* bounds, slots that name nodes by their distance, and the walk that adds *)
(* the links.                                                              *)
THEOREM Inductive == Spec => []IInv
<1>1. Init => BuildInv
  BY BuildInit
<1>2. BuildInv /\ [Next]_vars => BuildInv'
  BY BuildNext
<1>3. BuildInv => IInv
  BY BuildImplies
<1> QED
  BY <1>1, <1>2, <1>3, PTL DEF Spec

(* The finished graph leads from the navigating node to every node.        *)
THEOREM EveryNodeReached == Spec => []AllReachable
<1>1. Init => BuildInv
  BY BuildInit
<1>2. BuildInv /\ [Next]_vars => BuildInv'
  BY BuildNext
<1>3. BuildInv => AllReachable
  BY BuildReaches
<1> QED
  BY <1>1, <1>2, <1>3, PTL DEF Spec
===============================================================================
