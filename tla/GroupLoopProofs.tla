---------------------------- MODULE GroupLoopProofs ----------------------------
(***************************************************************************)
(* Proofs about GroupLoop and the split it rests on, for every number of   *)
(* queries, groups and hyperplanes, every order of the groups and every    *)
(* result of the optimizers that meets their contract.                     *)
(***************************************************************************)
EXTENDS GroupLoop, FiniteSetTheorems, FunctionTheorems, SequenceTheorems,
        WellFoundedInduction, TLAPS

-------------------------------------------------------------------------------
(* Sequences of edges.                                                     *)

(* The fields of an edge are a query and a query or Root.                  *)
LEMMA EdgeShape ==
  \A e \in Edges : /\ e.child \in Queries
                   /\ e.parent \in Queries \cup {Root}
                   /\ e = Edge(e.child, e.parent)
BY DEF Edges, Edge

(* What t \in Seq(Edges) says of the positions of t.                       *)
LEMMA EdgesAt ==
  ASSUME NEW t \in Seq(Edges)
  PROVE  /\ Len(t) \in Nat
         /\ DOMAIN t = 1 .. Len(t)
         /\ \A i \in 1 .. Len(t) : t[i] \in Edges /\ t[i].child \in Queries
<1>1. Len(t) \in Nat /\ DOMAIN t = 1 .. Len(t)
  BY LenProperties
<1>2. \A i \in 1 .. Len(t) : t[i] \in Edges
  BY <1>1, ElementOfSeq
<1> QED
  BY <1>1, <1>2, EdgeShape

LEMMA QueriesFinite ==
  IsFiniteSet(Queries) /\ Cardinality(Queries) = N
<1>1. 0 \in Int /\ N - 1 \in Int /\ ~ (0 > N - 1)
  BY NAssumption
<1> QED
  BY <1>1, NAssumption, FS_Interval DEF Queries

(* The children of t as a function of the position.                        *)
LEMMA ChildFunction ==
  ASSUME NEW t \in Seq(Edges), EachChildOnce(t),
         NEW f, f = [i \in 1 .. Len(t) |-> t[i].child]
  PROVE  /\ f \in Injection(1 .. Len(t), Queries)
         /\ IsFiniteSet(1 .. Len(t)) /\ Cardinality(1 .. Len(t)) = Len(t)
         /\ f \in Surjection(1 .. Len(t), Queries) <=> Children(t) = Queries
<1>1. f \in [1 .. Len(t) -> Queries]
  BY EdgesAt
<1>2. IsInjective(f)
  BY EdgesAt DEF IsInjective, EachChildOnce
<1>3. f \in Injection(1 .. Len(t), Queries)
  BY <1>1, <1>2 DEF Injection
<1>4. IsFiniteSet(1 .. Len(t)) /\ Cardinality(1 .. Len(t)) = Len(t)
  <2>1. 1 \in Int /\ Len(t) \in Int /\ Len(t) \in Nat
    BY EdgesAt
  <2>2. IF 1 > Len(t) THEN Len(t) = 0 ELSE Len(t) - 1 + 1 = Len(t)
    BY <2>1
  <2> QED
    BY <2>1, <2>2, FS_Interval
<1>5. f \in Surjection(1 .. Len(t), Queries) <=> Children(t) = Queries
  BY <1>1, EdgesAt DEF Surjection, Children
<1> QED
  BY <1>3, <1>4, <1>5

(* N edges with different children cover the queries, and a cover without  *)
(* repetition has N edges.                                                 *)
LEMMA Pigeonhole ==
  ASSUME NEW t \in Seq(Edges), EachChildOnce(t)
  PROVE  Len(t) = N <=> Children(t) = Queries
<1>1. PICK f : f = [i \in 1 .. Len(t) |-> t[i].child]
  OBVIOUS
<1>2. /\ f \in Injection(1 .. Len(t), Queries)
      /\ IsFiniteSet(1 .. Len(t)) /\ Cardinality(1 .. Len(t)) = Len(t)
      /\ f \in Surjection(1 .. Len(t), Queries) <=> Children(t) = Queries
  BY <1>1, ChildFunction
<1>3. Cardinality(1 .. Len(t)) = Cardinality(Queries)
        <=> f \in Surjection(1 .. Len(t), Queries)
  BY <1>2, QueriesFinite, FS_Injection
<1> QED
  BY <1>2, <1>3, QueriesFinite

(* What appending an edge does to the positions and to the children.       *)
LEMMA Appending ==
  ASSUME NEW t \in Seq(Edges), NEW e \in Edges, NEW s, s = Append(t, e)
  PROVE  /\ s \in Seq(Edges) /\ Len(s) = Len(t) + 1
         /\ Len(t) \in Nat /\ DOMAIN t = 1 .. Len(t) /\ DOMAIN s = 1 .. Len(t) + 1
         /\ \A i \in 1 .. Len(t) : s[i] = t[i]
         /\ s[Len(t) + 1] = e
BY EdgesAt, AppendProperties

LEMMA AppendingChildren ==
  ASSUME NEW t \in Seq(Edges), NEW e \in Edges, NEW s, s = Append(t, e)
  PROVE  Children(s) = Children(t) \cup {e.child}
<1> DEFINE n == Len(t)
<1>1. /\ n \in Nat /\ DOMAIN t = 1 .. n /\ DOMAIN s = 1 .. n + 1
      /\ \A i \in 1 .. n : s[i] = t[i]
      /\ s[n + 1] = e
  BY Appending
<1> HIDE DEF n
<1>2. \A i : i \in 1 .. n + 1 <=> i \in 1 .. n \/ i = n + 1
  BY <1>1
<1> QED
  BY <1>1, <1>2 DEF Children

(* A new query with a parent that has been emitted keeps a trajectory one. *)
LEMMA AppendingKeeps ==
  ASSUME NEW t \in Seq(Edges), EachChildOnce(t), OrderAssert(t),
         NEW e \in Edges, e.child \notin Children(t),
         e.parent = Root \/ e.parent \in Children(t),
         NEW s, s = Append(t, e)
  PROVE  EachChildOnce(s) /\ OrderAssert(s)
<1> DEFINE n == Len(t)
<1>1. /\ n \in Nat /\ DOMAIN t = 1 .. n /\ DOMAIN s = 1 .. n + 1
      /\ \A i \in 1 .. n : s[i] = t[i]
      /\ s[n + 1] = e
  BY Appending
<1> HIDE DEF n
<1>2. \A i \in 1 .. n : t[i].child # e.child
  BY <1>1 DEF Children
<1>3. EachChildOnce(s)
  BY <1>1, <1>2 DEF EachChildOnce
<1>4. OrderAssert(s)
  <2> SUFFICES ASSUME NEW i \in 1 .. n + 1, s[i].parent # Root
               PROVE  \E j \in 1 .. i - 1 : s[j].child = s[i].parent
    BY <1>1 DEF OrderAssert
  <2>1. CASE i \in 1 .. n
    <3>1. PICK j \in 1 .. i - 1 : t[j].child = t[i].parent
      BY <1>1, <2>1 DEF OrderAssert
    <3> QED
      BY <1>1, <2>1, <3>1
  <2>2. CASE i = n + 1
    <3>1. PICK j \in 1 .. n : t[j].child = e.parent
      BY <1>1, <2>2 DEF Children
    <3> QED
      BY <1>1, <2>2, <3>1
  <2> QED
    BY <1>1, <2>1, <2>2
<1> QED
  BY <1>3, <1>4

(* Edges with different children are at most as many as the queries.       *)
LEMMA AtMostN ==
  ASSUME NEW t \in Seq(Edges), EachChildOnce(t)
  PROVE  Len(t) <= N
<1>1. PICK f : f = [i \in 1 .. Len(t) |-> t[i].child]
  OBVIOUS
<1>2. /\ f \in Injection(1 .. Len(t), Queries)
      /\ IsFiniteSet(1 .. Len(t)) /\ Cardinality(1 .. Len(t)) = Len(t)
  BY <1>1, ChildFunction
<1>3. Cardinality(1 .. Len(t)) <= Cardinality(Queries)
  BY <1>2, QueriesFinite, FS_Injection
<1> QED
  BY <1>2, <1>3, QueriesFinite

-------------------------------------------------------------------------------
LocalEdges == [child : Queries, parent : -1 .. N - 1]

LEMMA GroupFinite ==
  ASSUME NEW g \in SUBSET Queries
  PROVE  IsFiniteSet(g) /\ Cardinality(g) \in 0 .. N
<1>1. IsFiniteSet(g) /\ Cardinality(g) <= N
  BY QueriesFinite, FS_Subset
<1>2. Cardinality(g) \in Nat
  BY <1>1, FS_CardinalityType
<1> QED
  BY <1>1, <1>2, NAssumption

(* The interval of the local numbers of a group of size n.                 *)
LEMMA NumbersFinite ==
  ASSUME NEW n \in Nat
  PROVE  IsFiniteSet(0 .. n - 1) /\ Cardinality(0 .. n - 1) = n
<1>1. 0 \in Int /\ n - 1 \in Int /\ (IF 0 > n - 1 THEN 0 ELSE (n - 1) - 0 + 1) = n
  OBVIOUS
<1> QED
  BY <1>1, FS_Interval

LEMMA PositionsFinite ==
  ASSUME NEW n \in Nat
  PROVE  IsFiniteSet(1 .. n) /\ Cardinality(1 .. n) = n
<1>1. 1 \in Int /\ n \in Int /\ (IF 1 > n THEN 0 ELSE n - 1 + 1) = n
  OBVIOUS
<1> QED
  BY <1>1, FS_Interval

(* The numbering of a group gives every query of it exactly one number.    *)
LEMMA NumberingBijective ==
  ASSUME NEW g \in SUBSET Queries, NEW f \in Numberings(g)
  PROVE  /\ f \in [0 .. Cardinality(g) - 1 -> g]
         /\ \A i, j \in DOMAIN f : f[i] = f[j] => i = j
         /\ {f[i] : i \in DOMAIN f} = g
<1> DEFINE n == Cardinality(g)
<1>1. n \in Nat /\ IsFiniteSet(g)
  BY GroupFinite
<1>2. f \in [0 .. n - 1 -> g] /\ \A i, j \in DOMAIN f : i < j => f[i] < f[j]
  BY DEF Numberings
<1>3. \A i, j \in DOMAIN f : f[i] = f[j] => i = j
  <2> SUFFICES ASSUME NEW i \in DOMAIN f, NEW j \in DOMAIN f, f[i] = f[j]
               PROVE  i = j
    OBVIOUS
  <2>1. i \in Int /\ j \in Int /\ f[i] \in Int /\ f[j] \in Int
    <3>1. DOMAIN f \subseteq Int /\ \A k \in DOMAIN f : f[k] \in Queries
      <4> HIDE DEF n
      <4> QED
        BY <1>1, <1>2
    <3>2. Queries \subseteq Int
      BY NAssumption DEF Queries
    <3> QED
      BY <3>1, <3>2
  <2>2. ~ (i < j) /\ ~ (j < i)
    BY <1>2, <2>1
  <2> QED
    BY <2>1, <2>2
<1>4. f \in Injection(0 .. n - 1, g)
  BY <1>2, <1>3 DEF Injection, IsInjective
<1>5. f \in Surjection(0 .. n - 1, g)
  BY <1>1, <1>4, NumbersFinite, FS_Injection
<1> QED
  BY <1>2, <1>3, <1>5 DEF Surjection

(* The contract of the optimizers makes them return every local number.    *)
LEMMA LocalCovers ==
  ASSUME NEW n \in 0 .. N, NEW t \in LocalTrajectories(n)
  PROVE  /\ t \in Seq(LocalEdges) /\ Len(t) = n /\ DOMAIN t = 1 .. n
         /\ \A i \in 1 .. n : t[i].child \in 0 .. n - 1 /\ t[i].parent \in -1 .. n - 1
         /\ {t[i].child : i \in 1 .. n} = 0 .. n - 1
         /\ EachChildOnce(t) /\ OrderAssert(t)
<1>1. /\ t \in [1 .. n -> [child : 0 .. n - 1, parent : -1 .. n - 1]]
      /\ EachChildOnce(t) /\ OrderAssert(t)
  BY DEF LocalTrajectories
<1>2. n \in Nat /\ n <= N
  BY NAssumption
<1>3. \A i \in 1 .. n : t[i].child \in 0 .. n - 1 /\ t[i].parent \in -1 .. n - 1
  BY <1>1
<1>4. t \in [1 .. n -> LocalEdges]
  <2>1. [child : 0 .. n - 1, parent : -1 .. n - 1] \subseteq LocalEdges
    BY <1>2, NAssumption DEF LocalEdges, Queries
  <2> QED
    BY <1>1, <2>1
<1>5. t \in Seq(LocalEdges) /\ Len(t) = n /\ DOMAIN t = 1 .. n
  BY <1>2, <1>4
<1>6. PICK f : f = [i \in 1 .. n |-> t[i].child]
  OBVIOUS
<1>7. f \in Injection(1 .. n, 0 .. n - 1)
  BY <1>1, <1>3, <1>5, <1>6 DEF Injection, IsInjective, EachChildOnce
<1>8. f \in Surjection(1 .. n, 0 .. n - 1)
  BY <1>2, <1>7, NumbersFinite, PositionsFinite, FS_Injection
<1>9. {t[i].child : i \in 1 .. n} = 0 .. n - 1
  BY <1>3, <1>6, <1>8 DEF Surjection
<1> QED
  BY <1>1, <1>3, <1>5, <1>9

LEMMA InitIInv == Init => IInv
<1> SUFFICES ASSUME Init PROVE IInv
  OBVIOUS
<1>1. SplitTypeOK
  <2>1. Queries # {} /\ 0 \in 0 .. B - 1
    BY NAssumption, BAssumption DEF Queries
  <2> QED
    <3>1. pq = {Queries} /\ splitNum = 0 /\ below \in [Hyperplanes -> SUBSET Queries]
      BY DEF Init, SplitInit
    <3>2. pq \in SUBSET ((SUBSET Queries) \ {{}})
      <4>1. Queries \in (SUBSET Queries) \ {{}}
        BY <2>1, Zenon
      <4> QED
        BY <3>1, <4>1
    <3> QED
      BY <2>1, <3>1, <3>2 DEF SplitTypeOK
<1>2. grp \in Numberings({})
  <2>1. Cardinality({}) = 0
    BY FS_EmptySet
  <2>2. 0 .. 0 - 1 = {}
    OBVIOUS
  <2>3. DOMAIN grp = {} /\ grp = [x \in {} |-> 0]
    BY DEF Init
  <2> QED
    BY <2>1, <2>2, <2>3 DEF Numberings
<1>3. local = << >> /\ trajectory = << >> /\ DOMAIN local = {} /\ DOMAIN trajectory = {}
  BY DEF Init
<1>4. TypeOK
  BY <1>1, <1>2, <1>3, NAssumption DEF Init, TypeOK
<1>5. SameSideTogether
  BY DEF Init, SplitInit, SameSideTogether
<1>6. EveryQueryInOnePlace
  <2>1. Pending = {} /\ Children(trajectory) = {}
    BY <1>3 DEF Pending, Children
  <2>2. EachChildOnce(local) /\ EachChildOnce(trajectory)
    BY <1>3 DEF EachChildOnce
  <2> QED
    BY <2>1, <2>2 DEF Init, SplitInit, EveryQueryInOnePlace
<1>7. LocalOK /\ OrderAssert(trajectory) /\ WithParent = {}
  BY <1>3 DEF LocalOK, OrderAssert, WithParent
<1>8. DoneIsEmpty
  BY DEF Init, DoneIsEmpty
<1> QED
  BY <1>4, <1>5, <1>6, <1>7, <1>8, FS_EmptySet DEF Init, IInv

LEMMA LargestIsGroup ==
  ASSUME SplitTypeOK, NEW g \in Largest
  PROVE  /\ g \in pq /\ g \subseteq Queries /\ g # {}
         /\ pq \subseteq (SUBSET Queries) \ {{}}
<1>1. g \in pq
  BY DEF Largest
<1>2. pq \subseteq (SUBSET Queries) \ {{}}
  BY DEF SplitTypeOK
<1>3. g \in (SUBSET Queries) \ {{}}
  BY <1>1, <1>2
<1> QED
  BY <1>1, <1>2, <1>3

(* A cut replaces a group by its nonempty halves.                          *)
LEMMA SplitKeeps ==
  ASSUME IInv, SplitGroup
  PROVE  IInv'
<1>1. /\ splitNum < B - 1 /\ splitNum' = splitNum + 1 /\ below' = below
      /\ UNCHANGED loopVars
  BY DEF SplitGroup, Split
<1>2. PICK g \in Largest :
        pq' = (pq \ {g}) \cup ({g \cap below[splitNum], g \ below[splitNum]} \ {{}})
  BY DEF SplitGroup, Split
<1> DEFINE cut == below[splitNum]
<1>3. g \in pq /\ g \subseteq Queries /\ g # {} /\ pq \subseteq (SUBSET Queries) \ {{}}
  BY <1>2, LargestIsGroup DEF IInv, TypeOK
<1>4. \A h : h \in pq' <=>
        \/ h \in pq /\ h # g
        \/ h = g \cap cut /\ h # {}
        \/ h = g \ cut /\ h # {}
  BY <1>2
<1> HIDE DEF cut
<1>5. SplitTypeOK'
  <2>1. pq' \in SUBSET ((SUBSET Queries) \ {{}})
    BY <1>3, <1>4
  <2>2. splitNum' \in 0 .. B - 1
    BY <1>1, BAssumption DEF IInv, TypeOK, SplitTypeOK
  <2> QED
    BY <1>1, <2>1, <2>2 DEF SplitTypeOK, IInv, TypeOK
<1>6. TypeOK'
  BY <1>1, <1>5 DEF loopVars, TypeOK, IInv
<1>7. UNION pq' = UNION pq
  <2>1. \A q : (\E h \in pq' : q \in h) => (\E h \in pq : q \in h)
    BY <1>3, <1>4
  <2>2. ASSUME NEW q, NEW h \in pq, q \in h PROVE \E k \in pq' : q \in k
    <3>1. CASE h # g
      BY <1>4, <2>2, <3>1
    <3>2. CASE h = g /\ q \in cut
      <4>1. g \cap cut \in pq' /\ q \in g \cap cut
        BY <1>4, <2>2, <3>2
      <4> QED
        BY <4>1
    <3>3. CASE h = g /\ q \notin cut
      <4>1. g \ cut \in pq' /\ q \in g \ cut
        BY <1>4, <2>2, <3>3
      <4> QED
        BY <4>1
    <3> QED
      BY <3>1, <3>2, <3>3
  <2> QED
    BY <2>1, <2>2
<1>8. \A h, k \in pq' : h # k => h \cap k = {}
  <2>1. \A h, k \in pq : h # k => h \cap k = {}
    BY DEF IInv, EveryQueryInOnePlace
  <2> SUFFICES ASSUME NEW h \in pq', NEW k \in pq', h # k PROVE h \cap k = {}
    OBVIOUS
  <2>2. CASE h \in pq /\ h # g
    BY <1>3, <1>4, <2>1, <2>2
  <2>3. CASE k \in pq /\ k # g
    BY <1>3, <1>4, <2>1, <2>3
  <2>4. CASE h \in {g \cap cut, g \ cut} /\ k \in {g \cap cut, g \ cut}
    BY <2>4
  <2> QED
    BY <1>4, <2>2, <2>3, <2>4
<1>9. SameSideTogether'
  <2> SUFFICES ASSUME NEW q \in Queries, NEW r \in Queries,
                      \A h \in 0 .. splitNum' - 1 : q \in below'[h] <=> r \in below'[h],
                      NEW k \in pq'
               PROVE  q \in k <=> r \in k
    BY DEF SameSideTogether
  <2>1. splitNum \in Nat /\ splitNum \in 0 .. splitNum' - 1
        /\ \A h \in 0 .. splitNum - 1 : h \in 0 .. splitNum' - 1
    BY <1>1 DEF IInv, TypeOK, SplitTypeOK
  <2>2. \A h \in 0 .. splitNum - 1 : q \in below[h] <=> r \in below[h]
    BY <1>1, <2>1
  <2>3. \A h \in pq : q \in h <=> r \in h
    BY <2>2 DEF IInv, SameSideTogether
  <2>4. q \in cut <=> r \in cut
    BY <1>1, <2>1 DEF cut
  <2> QED
    BY <1>3, <1>4, <2>3, <2>4
<1>10. EveryQueryInOnePlace'
  <2>1. Pending' = Pending /\ Children(trajectory)' = Children(trajectory)
    BY <1>1 DEF loopVars, Pending, Children
  <2>2. EachChildOnce(local') /\ EachChildOnce(trajectory')
    BY <1>1 DEF loopVars, EachChildOnce, IInv, EveryQueryInOnePlace
  <2> QED
    BY <1>7, <1>8, <2>1, <2>2, Zenon DEF IInv, EveryQueryInOnePlace
<1>11. LocalOK' /\ OrderAssert(trajectory)' /\ (sumEdges = Cardinality(WithParent))'
  BY <1>1 DEF loopVars, LocalOK, OrderAssert, WithParent, Children, IInv
<1>12. DoneIsEmpty'
  <2>1. splitNum # B - 1
    BY <1>1, BAssumption DEF IInv, TypeOK, SplitTypeOK
  <2> QED
    BY <1>1, <2>1 DEF loopVars, DoneIsEmpty, IInv
<1> QED
  BY <1>6, <1>9, <1>10, <1>11, <1>12 DEF IInv

(* A group leaves the queue with all its queries.                          *)
LEMMA PopKeeps ==
  ASSUME IInv, PopGroup
  PROVE  IInv'
<1>1. splitNum = B - 1 /\ local = << >>
      /\ UNCHANGED <<splitNum, below, trajectory, sumEdges, pc>>
  BY DEF PopGroup
<1>2. PICK g \in Largest : /\ pq' = pq \ {g}
                           /\ grp' \in Numberings(g)
                           /\ local' \in LocalTrajectories(Cardinality(g))
  BY DEF PopGroup
<1>3. g \in pq /\ g \in SUBSET Queries /\ g # {}
  BY <1>2, LargestIsGroup DEF IInv, TypeOK
<1> DEFINE n == Cardinality(g)
<1>4. n \in 0 .. N /\ n \in Nat
  BY <1>3, GroupFinite
<1>5. /\ grp' \in [0 .. n - 1 -> g]
      /\ \A i, j \in DOMAIN grp' : grp'[i] = grp'[j] => i = j
      /\ {grp'[i] : i \in DOMAIN grp'} = g
  BY <1>2, <1>3, NumberingBijective
<1>6. /\ local' \in Seq(LocalEdges) /\ Len(local') = n /\ DOMAIN local' = 1 .. n
      /\ \A i \in 1 .. n : local'[i].child \in 0 .. n - 1 /\ local'[i].parent \in -1 .. n - 1
      /\ {local'[i].child : i \in 1 .. n} = 0 .. n - 1
      /\ EachChildOnce(local') /\ OrderAssert(local')
  BY <1>2, <1>4, LocalCovers
<1> HIDE DEF n
<1>7. TypeOK'
  <2>1. SplitTypeOK'
    BY <1>1, <1>2 DEF SplitTypeOK, IInv, TypeOK
  <2>2. (grp \in UNION {Numberings(h) : h \in SUBSET Queries})'
    BY <1>2, <1>3 DEF Numberings
  <2>3. (local \in Seq([child : Queries, parent : -1 .. N - 1]))'
    BY <1>6 DEF LocalEdges
  <2> QED
    BY <1>1, <2>1, <2>2, <2>3 DEF TypeOK, IInv
<1>8. SameSideTogether'
  BY <1>1, <1>2 DEF SameSideTogether, IInv
<1>9. EveryQueryInOnePlace'
  <2>1. Pending = {}
    BY <1>1 DEF Pending
  <2>2. Pending' = g
    <3>1. Pending' = {grp'[local'[i].child] : i \in 1 .. n}
      BY <1>6 DEF Pending
    <3>2. \A q \in g : \E i \in 1 .. n : grp'[local'[i].child] = q
      BY <1>5, <1>6
    <3>3. \A i \in 1 .. n : grp'[local'[i].child] \in g
      BY <1>5, <1>6
    <3> QED
      BY <3>1, <3>2, <3>3
  <2>3. Children(trajectory)' = Children(trajectory)
    BY <1>1 DEF Children
  <2>4. \A h \in pq' : h \in pq /\ h \cap g = {}
    BY <1>2, <1>3 DEF IInv, EveryQueryInOnePlace
  <2> DEFINE before == UNION pq
             after == UNION pq'
  <2>5. before \cup Children(trajectory) = Queries /\ before \cap Children(trajectory) = {}
    BY <2>1 DEF IInv, EveryQueryInOnePlace
  <2>6. before = after \cup g
    <3>1. \A q \in before : q \in after \/ q \in g
      BY <1>2
    <3>2. \A q \in after : q \in before
      BY <1>2
    <3>3. \A q \in g : q \in before
      BY <1>3
    <3> HIDE DEF before, after
    <3> QED
      BY <3>1, <3>2, <3>3
  <2>7. after \cap g = {}
    BY <2>4
  <2>8. /\ after \cup Pending' \cup Children(trajectory)' = Queries
        /\ after \cap (Pending' \cup Children(trajectory)') = {}
        /\ Pending' \cap Children(trajectory)' = {}
    <3> HIDE DEF before, after
    <3> QED
      BY <2>2, <2>3, <2>5, <2>6, <2>7
  <2>9. EachChildOnce(trajectory')
    BY <1>1 DEF EachChildOnce, IInv, EveryQueryInOnePlace
  <2>10. \A h, k \in pq' : h # k => h \cap k = {}
    BY <2>4 DEF IInv, EveryQueryInOnePlace
  <2> QED
    BY <1>6, <2>8, <2>9, <2>10, Zenon DEF EveryQueryInOnePlace
<1>10. LocalOK'
  <2> SUFFICES ASSUME NEW i \in 1 .. n
               PROVE  /\ local'[i].child \in DOMAIN grp'
                      /\ local'[i].parent # Root =>
                           /\ local'[i].parent \in DOMAIN grp'
                           /\ \E j \in 1 .. i - 1 : local'[j].child = local'[i].parent
    BY <1>6 DEF LocalOK
  <2>1. local'[i].child \in DOMAIN grp'
    BY <1>5, <1>6
  <2>2. local'[i].parent # Root => local'[i].parent \in DOMAIN grp'
    BY <1>4, <1>5, <1>6 DEF Root
  <2>3. local'[i].parent # Root =>
          \E j \in 1 .. i - 1 : local'[j].child = local'[i].parent
    BY <1>6 DEF OrderAssert
  <2> QED
    BY <2>1, <2>2, <2>3
<1>11. OrderAssert(trajectory)' /\ (sumEdges = Cardinality(WithParent))'
  BY <1>1 DEF OrderAssert, WithParent, IInv
<1>12. DoneIsEmpty'
  <2>1. pc # "done"
    BY <1>3 DEF IInv, DoneIsEmpty
  <2> QED
    BY <1>1, <2>1 DEF DoneIsEmpty
<1> QED
  BY <1>7, <1>8, <1>9, <1>10, <1>11, <1>12 DEF IInv

(* The edge in work, before it is renumbered: both ends belong to the      *)
(* group, and the parent is in the trajectory already.                     *)
LEMMA HeadEdge ==
  ASSUME IInv, local # << >>
  PROVE  LET e == Head(local)
         IN  /\ Len(local) \in Nat \ {0} /\ DOMAIN local = 1 .. Len(local) /\ e = local[1]
             /\ \A q \in DOMAIN grp : grp[q] \in Queries
             /\ \A i, j \in DOMAIN grp : grp[i] = grp[j] => i = j
             /\ e.child \in DOMAIN grp /\ e.parent \in Int
             /\ e.parent # Root <=> e.parent >= 0
             /\ e.parent # Root => /\ e.parent \in DOMAIN grp
                                   /\ grp[e.parent] \in Children(trajectory)
             /\ grp[e.child] \in Pending
             /\ Global(e) \in Edges /\ Global(e).child = grp[e.child]
             /\ Global(e).parent = IF e.parent # Root THEN grp[e.parent] ELSE Root
<1> DEFINE e == Head(local)
<1>1. local \in Seq(LocalEdges)
  BY DEF IInv, TypeOK, LocalEdges
<1>2. Len(local) \in Nat \ {0} /\ DOMAIN local = 1 .. Len(local) /\ e = local[1]
      /\ e \in LocalEdges
  BY <1>1
<1>3. 1 \in DOMAIN local
  BY <1>2
<1> HIDE DEF e
<1>4. e.parent \in -1 .. N - 1
  BY <1>2 DEF LocalEdges
<1>5. e.parent \in Int /\ (e.parent # Root <=> e.parent >= 0)
  BY <1>4, NAssumption DEF Root
<1>6. PICK g \in SUBSET Queries : grp \in Numberings(g)
  BY DEF IInv, TypeOK
<1>7. /\ \A q \in DOMAIN grp : grp[q] \in Queries
      /\ \A i, j \in DOMAIN grp : grp[i] = grp[j] => i = j
  BY <1>6, NumberingBijective
<1>8. /\ e.child \in DOMAIN grp
      /\ e.parent # Root => /\ e.parent \in DOMAIN grp
                            /\ grp[e.parent] \in Children(trajectory)
  <2>1. ~ \E j \in 1 .. 1 - 1 : TRUE
    OBVIOUS
  <2> QED
    BY <1>2, <1>3, <2>1 DEF IInv, LocalOK
<1>9. grp[e.child] \in Pending
  BY <1>2, <1>3 DEF Pending
<1>10. Global(e) = Edge(grp[e.child], IF e.parent # Root THEN grp[e.parent] ELSE Root)
  BY <1>5 DEF Global
<1>11. /\ Global(e) \in Edges /\ Global(e).child = grp[e.child]
       /\ Global(e).parent = IF e.parent # Root THEN grp[e.parent] ELSE Root
  BY <1>7, <1>8, <1>10 DEF Edge, Edges
<1> QED
  BY <1>2, <1>5, <1>7, <1>8, <1>9, <1>11 DEF e

(* An edge moves from the group in work to the trajectory.                 *)
LEMMA AppendKeeps ==
  ASSUME IInv, AppendEdge
  PROVE  IInv'
<1> DEFINE e == Head(local)
           n == Len(local)
           t == trajectory
           x == Global(e)
           c == x.child
<1>1. /\ local # << >>
      /\ trajectory' = Append(t, x)
      /\ sumEdges' = sumEdges + (IF e.parent >= 0 THEN 1 ELSE 0)
      /\ local' = Tail(local)
      /\ UNCHANGED <<splitVars, grp, pc>>
  BY DEF AppendEdge
<1>2. /\ n \in Nat \ {0} /\ DOMAIN local = 1 .. n /\ e = local[1]
      /\ \A i, j \in DOMAIN grp : grp[i] = grp[j] => i = j
      /\ e.child \in DOMAIN grp
      /\ e.parent # Root <=> e.parent >= 0
      /\ e.parent # Root => grp[e.parent] \in Children(t)
      /\ c \in Pending
      /\ x \in Edges /\ c = grp[e.child]
      /\ x.parent = IF e.parent # Root THEN grp[e.parent] ELSE Root
  BY <1>1, HeadEdge
<1>3. x.parent = Root \/ x.parent \in Children(t)
  BY <1>2
<1>4. x.parent # Root <=> e.parent >= 0
  <2>1. e.parent # Root => grp[e.parent] # Root
    BY <1>1, HeadEdge, NAssumption DEF Queries, Root
  <2> QED
    BY <1>2, <2>1
<1> HIDE DEF e, n, x, c
<1>5. /\ t \in Seq(Edges) /\ EachChildOnce(t) /\ OrderAssert(t)
      /\ c \notin Children(t) /\ c \notin UNION pq
  BY <1>2 DEF IInv, TypeOK, EveryQueryInOnePlace
<1>6. /\ trajectory' \in Seq(Edges)
      /\ Len(t) \in Nat /\ Len(trajectory') = Len(t) + 1
      /\ DOMAIN t = 1 .. Len(t) /\ DOMAIN trajectory' = 1 .. Len(t) + 1
      /\ \A i \in 1 .. Len(t) : trajectory'[i] = t[i]
      /\ trajectory'[Len(t) + 1] = x
      /\ Children(trajectory') = Children(t) \cup {c}
  <2>1. t \in Seq(Edges) /\ x \in Edges
    BY <1>2, <1>5
  <2>2. PICK s : s = Append(t, x)
    OBVIOUS
  <2>3. /\ s \in Seq(Edges) /\ Len(t) \in Nat /\ Len(s) = Len(t) + 1
        /\ DOMAIN t = 1 .. Len(t) /\ DOMAIN s = 1 .. Len(t) + 1
        /\ \A i \in 1 .. Len(t) : s[i] = t[i]
        /\ s[Len(t) + 1] = x
    BY <2>1, <2>2, Appending
  <2>4. Children(s) = Children(t) \cup {x.child}
    BY <2>1, <2>2, AppendingChildren
  <2>5. s = trajectory'
    BY <1>1, <2>2
  <2> QED
    BY <2>3, <2>4, <2>5 DEF c
<1>7. EachChildOnce(trajectory') /\ OrderAssert(trajectory')
  BY <1>1, <1>2, <1>3, <1>5, AppendingKeeps DEF c
<1>8. /\ local' \in Seq(LocalEdges) /\ DOMAIN local' = 1 .. n - 1
      /\ \A i \in 1 .. n - 1 : local'[i] = local[i + 1]
  <2>1. local \in Seq(LocalEdges)
    BY DEF IInv, TypeOK, LocalEdges
  <2>2. Tail(local) \in Seq(LocalEdges) /\ Len(Tail(local)) = n - 1
        /\ \A i \in 1 .. Len(Tail(local)) : Tail(local)[i] = local[i + 1]
    BY <1>1, <2>1, HeadTailProperties DEF n
  <2> QED
    BY <1>1, <2>2
<1>9. \A i \in 1 .. n : i = 1 \/ (i - 1 \in 1 .. n - 1 /\ local'[i - 1] = local[i])
  BY <1>2, <1>8
<1>10. \A i \in 1 .. n - 1 : i + 1 \in 1 .. n /\ i + 1 # 1
  BY <1>2
<1>11. Pending = Pending' \cup {c} /\ c \notin Pending'
  <2>1. Pending = {grp[local[i].child] : i \in 1 .. n}
    BY <1>2 DEF Pending
  <2>2. Pending' = {grp[local[i + 1].child] : i \in 1 .. n - 1}
    <3>1. Pending' = {grp[local'[i].child] : i \in 1 .. n - 1}
      BY <1>1, <1>8 DEF Pending
    <3> QED
      BY <1>8, <3>1
  <2>3. Pending' \subseteq Pending
    BY <1>10, <2>1, <2>2
  <2>4. \A q \in Pending : q = c \/ q \in Pending'
    <3> SUFFICES ASSUME NEW i \in 1 .. n
                 PROVE  grp[local[i].child] = c \/ grp[local[i].child] \in Pending'
      BY <2>1
    <3>1. CASE i = 1
      BY <1>2, <3>1
    <3>2. CASE i - 1 \in 1 .. n - 1
      <4>1. local[i] = local[(i - 1) + 1]
        BY <1>2
      <4> QED
        BY <2>2, <3>2, <4>1
    <3> QED
      BY <1>9, <3>1, <3>2
  <2>5. c \notin Pending'
    <3> SUFFICES ASSUME NEW i \in 1 .. n - 1, grp[local[i + 1].child] = c
                 PROVE  FALSE
      BY <2>2
    <3>1. local[i + 1].child \in DOMAIN grp
      BY <1>2, <1>10 DEF IInv, LocalOK
    <3>2. local[i + 1].child = local[1].child
      BY <1>2, <3>1
    <3>3. i + 1 = 1
      BY <1>2, <1>10, <3>2 DEF IInv, EveryQueryInOnePlace, EachChildOnce
    <3> QED
      BY <1>10, <3>3
  <2> QED
    BY <1>2, <2>3, <2>4, <2>5
<1>12. EachChildOnce(local')
  <2> SUFFICES ASSUME NEW i \in 1 .. n - 1, NEW j \in 1 .. n - 1,
                      local[i + 1].child = local[j + 1].child
               PROVE  i = j
    BY <1>8 DEF EachChildOnce
  <2>1. i + 1 = j + 1
    BY <1>2, <1>10 DEF IInv, EveryQueryInOnePlace, EachChildOnce
  <2> QED
    BY <2>1
<1>13. EveryQueryInOnePlace'
  <2> DEFINE queued == UNION pq
  <2>1. /\ queued \cup Pending \cup Children(t) = Queries
        /\ queued \cap (Pending \cup Children(t)) = {}
        /\ Pending \cap Children(t) = {}
    BY DEF IInv, EveryQueryInOnePlace
  <2>2. c \notin queued
    BY <1>5
  <2> HIDE DEF queued
  <2>3. /\ queued \cup Pending' \cup Children(trajectory') = Queries
        /\ queued \cap (Pending' \cup Children(trajectory')) = {}
        /\ Pending' \cap Children(trajectory') = {}
    BY <1>5, <1>6, <1>11, <2>1, <2>2
  <2> QED
    BY <1>1, <1>7, <1>12, <2>3 DEF splitVars, queued, EveryQueryInOnePlace, IInv
<1>14. LocalOK'
  <2> SUFFICES ASSUME NEW i \in 1 .. n - 1
               PROVE  /\ local[i + 1].child \in DOMAIN grp
                      /\ local[i + 1].parent # Root =>
                           /\ local[i + 1].parent \in DOMAIN grp
                           /\ \/ \E j \in 1 .. i - 1 : local'[j].child = local[i + 1].parent
                              \/ grp[local[i + 1].parent] \in Children(trajectory')
    <3>1. LocalOK' <=>
            \A i \in DOMAIN local' :
              /\ local'[i].child \in DOMAIN grp
              /\ local'[i].parent # Root =>
                   /\ local'[i].parent \in DOMAIN grp
                   /\ \/ \E j \in 1 .. i - 1 : local'[j].child = local'[i].parent
                      \/ grp[local'[i].parent] \in Children(trajectory')
      BY <1>1 DEF LocalOK
    <3> QED
      BY <1>8, <3>1
  <2> DEFINE p == local[i + 1].parent
  <2>1. /\ local[i + 1].child \in DOMAIN grp
        /\ p # Root =>
             /\ p \in DOMAIN grp
             /\ \/ \E j \in 1 .. (i + 1) - 1 : local[j].child = p
                \/ grp[p] \in Children(t)
    BY <1>2, <1>10 DEF IInv, LocalOK
  <2>2. ASSUME NEW j \in 1 .. (i + 1) - 1, local[j].child = p
        PROVE  \/ \E k \in 1 .. i - 1 : local'[k].child = p
               \/ grp[p] = c
    <3>1. CASE j = 1
      BY <1>2, <2>2, <3>1
    <3>2. CASE j # 1
      <4>1. j - 1 \in 1 .. i - 1 /\ j \in 1 .. n
        BY <1>2, <3>2
      <4>2. local'[j - 1].child = p
        BY <1>9, <2>2, <3>2, <4>1
      <4> QED
        BY <4>1, <4>2
    <3> QED
      BY <3>1, <3>2
  <2> HIDE DEF p
  <2>3. p # Root => \/ \E k \in 1 .. i - 1 : local'[k].child = p
                    \/ grp[p] \in Children(trajectory')
    BY <1>6, <2>1, <2>2
  <2> QED
    BY <2>1, <2>3 DEF p
<1>15. (sumEdges = Cardinality(WithParent))' /\ sumEdges' \in 0 .. N
  <2>1. WithParent' = WithParent \cup (IF e.parent >= 0 THEN {Len(t) + 1} ELSE {})
    <3>1. WithParent' = {i \in 1 .. Len(t) + 1 : trajectory'[i].parent # Root}
      BY <1>6 DEF WithParent
    <3>2. WithParent = {i \in 1 .. Len(t) : trajectory'[i].parent # Root}
      BY <1>6 DEF WithParent
    <3>3. Len(t) + 1 \in WithParent' <=> e.parent >= 0
      BY <1>4, <1>6, <3>1
    <3>4. \A i : i \in 1 .. Len(t) + 1 <=> i \in 1 .. Len(t) \/ i = Len(t) + 1
      BY <1>6
    <3> QED
      BY <3>1, <3>2, <3>3, <3>4
  <2>2. IsFiniteSet(WithParent) /\ Len(t) + 1 \notin WithParent
    <3>1. IsFiniteSet(1 .. Len(t)) /\ Len(t) + 1 \notin 1 .. Len(t)
      BY <1>6, PositionsFinite
    <3>2. WithParent \subseteq 1 .. Len(t)
      BY <1>6 DEF WithParent
    <3> QED
      BY <3>1, <3>2, FS_Subset
  <2>3. Cardinality(WithParent') = sumEdges' /\ sumEdges' \in Nat
    <3>1. sumEdges = Cardinality(WithParent) /\ sumEdges \in Nat
      BY NAssumption DEF IInv, TypeOK
    <3>2. CASE e.parent >= 0
      <4>1. WithParent' = WithParent \cup {Len(t) + 1} /\ sumEdges' = sumEdges + 1
        BY <1>1, <2>1, <3>2
      <4>2. Cardinality(WithParent') = Cardinality(WithParent) + 1
        BY <2>2, <4>1, FS_AddElement
      <4> QED
        BY <3>1, <4>1, <4>2
    <3>3. CASE ~ (e.parent >= 0)
      <4>1. WithParent' = WithParent /\ sumEdges' = sumEdges
        BY <1>1, <2>1, <3>1, <3>3
      <4> QED
        BY <3>1, <4>1
    <3> QED
      BY <3>2, <3>3
  <2>4. Cardinality(WithParent') <= Len(t) + 1
    <3>1. WithParent' \subseteq 1 .. Len(t) + 1
      BY <1>6 DEF WithParent
    <3>2. IsFiniteSet(1 .. Len(t) + 1) /\ Cardinality(1 .. Len(t) + 1) = Len(t) + 1
      BY <1>6, PositionsFinite
    <3>3. Cardinality(WithParent') <= Cardinality(1 .. Len(t) + 1)
      BY <3>1, <3>2, FS_Subset
    <3> QED
      BY <3>2, <3>3
  <2>5. Len(t) + 1 <= N
    BY <1>6, <1>7, AtMostN
  <2> QED
    BY <1>6, <2>3, <2>4, <2>5, NAssumption
<1>16. TypeOK'
  <2>1. SplitTypeOK'
    BY <1>1 DEF SplitTypeOK, IInv, TypeOK, splitVars
  <2>2. (grp \in UNION {Numberings(g) : g \in SUBSET Queries})'
    BY <1>1 DEF Numberings, IInv, TypeOK
  <2> QED
    BY <1>1, <1>6, <1>8, <1>15, <2>1, <2>2 DEF TypeOK, IInv, LocalEdges
<1>17. SameSideTogether' /\ DoneIsEmpty'
  BY <1>1 DEF SameSideTogether, DoneIsEmpty, splitVars, IInv
<1> QED
  BY <1>7, <1>13, <1>14, <1>15, <1>16, <1>17 DEF IInv

LEMMA RootWeightKeeps ==
  ASSUME IInv, RootWeight
  PROVE  IInv'
<1>1. /\ splitNum = B - 1 /\ pq = {} /\ local = << >> /\ pc' = "done"
      /\ UNCHANGED <<splitVars, grp, local, trajectory, sumEdges>>
  BY DEF RootWeight
<1>2. TypeOK'
  BY <1>1 DEF splitVars, SplitTypeOK, TypeOK, Numberings, IInv
<1>3. EveryQueryInOnePlace'
  BY <1>1 DEF splitVars, EveryQueryInOnePlace, Pending, Children, EachChildOnce, IInv
<1>4. SameSideTogether' /\ LocalOK' /\ OrderAssert(trajectory)'
      /\ (sumEdges = Cardinality(WithParent))'
  BY <1>1 DEF splitVars, SameSideTogether, LocalOK, Children, OrderAssert, WithParent, IInv
<1>5. DoneIsEmpty'
  BY <1>1 DEF splitVars, DoneIsEmpty
<1> QED
  BY <1>2, <1>3, <1>4, <1>5 DEF IInv

LEMMA StutterKeeps ==
  ASSUME IInv, UNCHANGED vars
  PROVE  IInv'
<1>1. UNCHANGED <<pq, splitNum, below, grp, local, trajectory, sumEdges, pc>>
  BY DEF vars
<1>2. TypeOK'
  BY <1>1 DEF SplitTypeOK, TypeOK, Numberings, IInv
<1>3. EveryQueryInOnePlace'
  BY <1>1 DEF EveryQueryInOnePlace, Pending, Children, EachChildOnce, IInv
<1>4. SameSideTogether' /\ LocalOK' /\ OrderAssert(trajectory)'
      /\ (sumEdges = Cardinality(WithParent))' /\ DoneIsEmpty'
  BY <1>1 DEF SameSideTogether, LocalOK, Children, OrderAssert, WithParent, DoneIsEmpty, IInv
<1> QED
  BY <1>2, <1>3, <1>4 DEF IInv

(* No cut, no pop and no renumbering loses or doubles a query, and what is *)
(* appended comes after its parent, whatever the hyperplanes, the order of *)
(* the heap and the trees of the groups are.                               *)
THEOREM Inductive == Spec => []IInv
<1>1. IInv /\ [Next]_vars => IInv'
  BY SplitKeeps, PopKeeps, AppendKeeps, RootWeightKeeps, StutterKeeps DEF Next
<1> QED
  BY InitIInv, <1>1, PTL DEF Spec

(* Renumbering never leads into another group: both ends of every edge     *)
(* that is appended belong to the group in work.                           *)
THEOREM StaysInGroup == Spec => EdgesStayInGroup
<1> DEFINE Stays ==
      trajectory' # trajectory =>
        LET e == trajectory'[Len(trajectory')]
            members == {grp[i] : i \in DOMAIN grp}
        IN  e.child \in members /\ e.parent \in members \cup {Root}
<1>1. ASSUME IInv, [Next]_vars PROVE Stays
  <2>1. CASE AppendEdge
    <3> DEFINE e == Head(local)
    <3>1. local # << >> /\ trajectory' = Append(trajectory, Global(e))
      BY <2>1 DEF AppendEdge
    <3>2. /\ Global(e) \in Edges /\ Global(e).child = grp[e.child]
          /\ e.child \in DOMAIN grp
          /\ e.parent # Root => e.parent \in DOMAIN grp
          /\ Global(e).parent = IF e.parent # Root THEN grp[e.parent] ELSE Root
      BY <1>1, <3>1, HeadEdge
    <3> HIDE DEF e
    <3>3. trajectory \in Seq(Edges)
      BY <1>1 DEF IInv, TypeOK
    <3>4. trajectory'[Len(trajectory')] = Global(e)
      BY <3>1, <3>2, <3>3, Appending
    <3> QED
      BY <3>2, <3>4
  <2>2. CASE SplitGroup \/ PopGroup \/ RootWeight \/ UNCHANGED vars
    BY <2>2 DEF SplitGroup, PopGroup, RootWeight, loopVars, vars
  <2> QED
    BY <1>1, <2>1, <2>2 DEF Next
<1> QED
  BY Inductive, <1>1, PTL DEF Spec, EdgesStayInGroup

(* Whenever the loop is over, the result is a trajectory in the sense of   *)
(* checkTrajectory even before the reordering, and the divisor of the      *)
(* average weight counts its trees.                                        *)
THEOREM DoneIsForest == Spec => [](pc = "done" => ResultIsForest)
<1>1. ASSUME IInv, pc = "done" PROVE ResultIsForest
  <2> DEFINE t == trajectory
             roots == {i \in DOMAIN t : t[i].parent = Root}
  <2>1. t \in Seq(Edges) /\ EachChildOnce(t) /\ OrderAssert(t)
    BY <1>1 DEF IInv, TypeOK, EveryQueryInOnePlace
  <2>2. Children(t) = Queries
    <3>1. pq = {} /\ local = << >>
      BY <1>1 DEF IInv, DoneIsEmpty
    <3>2. Pending = {} /\ UNION pq = {}
      BY <3>1 DEF Pending
    <3> QED
      BY <1>1, <3>2 DEF IInv, EveryQueryInOnePlace
  <2>3. Len(t) = N
    BY <2>1, <2>2, Pigeonhole
  <2>4. IsFiniteSet(1 .. N) /\ Cardinality(1 .. N) = N /\ DOMAIN t = 1 .. N
    <3>1. N \in Nat /\ DOMAIN t = 1 .. N
      BY <2>1, <2>3, EdgesAt, NAssumption
    <3> QED
      BY <3>1, PositionsFinite
  <2>5. roots = (1 .. N) \ WithParent /\ (1 .. N) \cap WithParent = WithParent
    <3>1. /\ roots = {i \in 1 .. N : t[i].parent = Root}
          /\ WithParent = {i \in 1 .. N : t[i].parent # Root}
      BY <2>4 DEF WithParent
    <3> QED
      BY <3>1
  <2>6. Cardinality(roots) = N - sumEdges
    <3> HIDE DEF roots
    <3>1. Cardinality((1 .. N) \ WithParent)
            = Cardinality(1 .. N) - Cardinality((1 .. N) \cap WithParent)
      BY <2>4, FS_Difference
    <3>2. Cardinality(WithParent) = sumEdges
      BY <1>1 DEF IInv
    <3> QED
      BY <2>4, <2>5, <3>1, <3>2
  <2> QED
    BY <2>1, <2>2, <2>3, <2>6
    DEF ResultIsForest, CheckTrajectory, SizeAssert, CoverAssert
<1> QED
  BY Inductive, <1>1, PTL
===============================================================================
