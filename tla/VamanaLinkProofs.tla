---------------------------- MODULE VamanaLinkProofs ---------------------------
(***************************************************************************)
(* Proofs about VamanaLink and the queue it searches with, for every       *)
(* number of points and threads, every distance, every bound on the lists  *)
(* and the queues and every order in which the threads take their steps.   *)
(***************************************************************************)
EXTENDS VamanaLink, FiniteSetTheorems, SequenceTheorems, WellFoundedInduction, TLAPS

(* A nonempty set of numbers has a least member.                           *)
LEMMA LeastNumber ==
  ASSUME NEW T \in SUBSET Nat, T # {}
  PROVE  \E m \in T : \A x \in T : m <= x
<1> DEFINE R1 == OpToRel(<, Nat)
<1>1. PICK m \in T : \A x \in T : ~ (<<x, m>> \in R1)
  <2>1. IsWellFoundedOn(R1, Nat)
    BY NatLessThanWellFounded
  <2> HIDE DEF R1
  <2> QED
    BY <2>1, WFMin
<1>2. \A x \in T : ~ (x < m)
  BY <1>1 DEF OpToRel
<1> QED
  BY <1>2

(* A finite set of numbers has a member of least rank, and of those of     *)
(* equal rank a least one.                                                 *)
LEMMA LeastByRank ==
  ASSUME NEW S, IsFiniteSet(S), S # {}, S \subseteq Int,
         NEW rank, \A v \in S : rank[v] \in Int
  PROVE  \E v \in S : \A w \in S : rank[v] < rank[w] \/ (rank[v] = rank[w] /\ v <= w)
<1> DEFINE Below(v) == {w \in S : rank[w] < rank[v] \/ (rank[w] = rank[v] /\ w < v)}
           F == {Below(v) : v \in S}
           Smaller == StrictSubsetOrdering(S)
<1>1. IsWellFoundedOn(Smaller, SUBSET S)
  BY FS_StrictSubsetOrderingWellFounded, FS_FiniteSubsetsOfFinite
<1>2. F \subseteq SUBSET S /\ F # {}
  OBVIOUS
<1>3. PICK B \in F : \A C \in F : <<C, B>> \notin Smaller
  <2> HIDE DEF F, Smaller
  <2> QED
    BY <1>1, <1>2, WFMin
<1>4. PICK v \in S : B = Below(v)
  BY <1>3
<1>5. \A w \in S : w \notin Below(v)
  <2> SUFFICES ASSUME NEW w \in S, w \in Below(v) PROVE FALSE
    OBVIOUS
  <2>1. /\ rank[w] \in Int /\ rank[v] \in Int /\ w \in Int /\ v \in Int
        /\ rank[w] < rank[v] \/ (rank[w] = rank[v] /\ w < v)
    OBVIOUS
  <2>2. Below(w) \subseteq Below(v)
    <3> SUFFICES ASSUME NEW x \in S, rank[x] < rank[w] \/ (rank[x] = rank[w] /\ x < w)
                 PROVE  rank[x] < rank[v] \/ (rank[x] = rank[v] /\ x < v)
      OBVIOUS
    <3>1. rank[x] \in Int /\ x \in Int
      OBVIOUS
    <3> QED
      BY <2>1, <3>1
  <2>3. w \notin Below(w)
    BY <2>1
  <2>4. Below(w) \in F /\ Below(w) # Below(v)
    BY <2>3
  <2>5. <<Below(w), Below(v)>> \in Smaller
    BY <2>2, <2>4 DEF StrictSubsetOrdering
  <2> HIDE DEF Below, F, Smaller
  <2> QED
    BY <1>3, <1>4, <2>4, <2>5
<1>6. \A w \in S : rank[v] < rank[w] \/ (rank[v] = rank[w] /\ v <= w)
  <2> SUFFICES ASSUME NEW w \in S
               PROVE  rank[v] < rank[w] \/ (rank[v] = rank[w] /\ v <= w)
    OBVIOUS
  <2>1. rank[w] \in Int /\ rank[v] \in Int /\ w \in Int /\ v \in Int
    OBVIOUS
  <2>2. ~ (rank[w] < rank[v] \/ (rank[w] = rank[v] /\ w < v))
    BY <1>5
  <2> QED
    BY <2>1, <2>2
<1> QED
  BY <1>6

(* The order of the entries of a queue.                                    *)
LEMMA LessOrder ==
  ASSUME NEW a \in Entries, NEW b \in Entries, NEW c \in Entries
  PROVE  /\ ~ Less(a, a)
         /\ Less(a, b) => ~ Less(b, a)
         /\ Less(a, b) \/ Less(b, a) \/ (a.id = b.id /\ a.distance = b.distance)
         /\ Less(a, b) /\ Less(b, c) => Less(a, c)
BY DEF Less, Entries, Nodes

(* Both halves of an interval are shorter than it.                         *)
LEMMA Halves ==
  ASSUME NEW l \in Nat, NEW h \in Nat, l < h
  PROVE  /\ (l + h) \div 2 \in Nat
         /\ l <= (l + h) \div 2 /\ (l + h) \div 2 < h
OBVIOUS

(* An index of a list with one element more is an old index or the last.   *)
LEMMA LastIndex ==
  ASSUME NEW k \in Nat, NEW i \in 1 .. k + 1
  PROVE  i \in 1 .. k \/ i = k + 1
OBVIOUS

(* No neighbour is strictly nearer than itself.                            *)
LEMMA NotBelowItself ==
  ASSUME NEW x \in Int, NEW e \in Int, Less(Neighbor(x, e), Neighbor(x, e))
  PROVE  FALSE
BY DEF Less, Neighbor

(* The order of the queue is first of all an order of the distances.       *)
LEMMA LessDistance ==
  ASSUME NEW p, NEW q, NEW a \in Int, NEW b \in Int,
         p.distance = a, q.distance = b, Less(p, q)
  PROVE  a <= b
BY DEF Less

(* What makes lo the function that insert's binary search computes.        *)
BinarySearch(lo, n, data, nbr) ==
  /\ lo = [s \in (0 .. n) \X (0 .. n) |-> lo[s]]
  /\ \A s \in (0 .. n) \X (0 .. n) :
       lo[s] = IF s[1] >= s[2] THEN s[1]
               ELSE IF Less(nbr, data[(s[1] + s[2]) \div 2 + 1]) THEN lo[<<s[1], (s[1] + s[2]) \div 2>>]
               ELSE IF data[(s[1] + s[2]) \div 2 + 1].id = nbr.id THEN -1
               ELSE lo[<<(s[1] + s[2]) \div 2 + 1, s[2]>>]

(* The recursion of the binary search ends: every step leaves a smaller    *)
(* difference between the bounds.                                          *)
LEMMA SearchFunction ==
  ASSUME NEW n \in Nat, NEW data, NEW nbr
  PROVE  \E lo : BinarySearch(lo, n, data, nbr)
<1> DEFINE Mid(s) == (s[1] + s[2]) \div 2
           Narrow(s, low, high) == IF s[1] >= s[2] THEN s[1]
                                   ELSE IF Less(nbr, data[Mid(s) + 1]) THEN low
                                   ELSE IF data[Mid(s) + 1].id = nbr.id THEN -1
                                   ELSE high
           Body(f, s) == Narrow(s, f[<<s[1], Mid(s)>>], f[<<Mid(s) + 1, s[2]>>])
           W(w) == {s \in (0 .. n) \X (0 .. n) : s[2] - s[1] <= w}
           Found(w) == \E f : f = [s \in W(w) |-> Body(f, s)]
           T == {w \in Nat : ~ Found(w)}
<1>1. T = {}
  <2> SUFFICES ASSUME T # {} PROVE FALSE
    OBVIOUS
  <2>1. PICK w \in T : \A v \in T : w <= v
    <3> HIDE DEF T
    <3> QED
      BY LeastNumber DEF T
  <2>2. CASE w = 0
    <3> DEFINE f == [s \in W(0) |-> s[1]]
    <3>1. \A s \in W(0) : Body(f, s) = s[1]
      OBVIOUS
    <3>2. f = [s \in W(0) |-> Body(f, s)]
      BY <3>1
    <3> HIDE DEF f, Body
    <3> QED
      BY <3>2, <2>1, <2>2
  <2>3. CASE w # 0
    <3>1. w - 1 \in Nat /\ w - 1 \notin T
      <4>1. T \subseteq Nat
        OBVIOUS
      <4> HIDE DEF T
      <4> QED
        BY <2>1, <2>3, <4>1
    <3>2. PICK f : f = [s \in W(w - 1) |-> Body(f, s)]
      <4> HIDE DEF Body, W
      <4> QED
        BY <3>1
    <3> DEFINE g == [s \in W(w) |-> IF s \in W(w - 1) THEN f[s] ELSE Body(f, s)]
    <3>3. \A s \in W(w) : g[s] = Body(g, s)
      <4> SUFFICES ASSUME NEW s \in W(w) PROVE g[s] = Body(g, s)
        OBVIOUS
      <4>0. g[s] = Body(f, s)
        <5>1. CASE s \in W(w - 1)
          <6> HIDE DEF Body, W
          <6> QED
            BY <5>1, <3>2
        <5>2. CASE s \notin W(w - 1)
          <6> HIDE DEF Body, W
          <6> QED
            BY <5>2
        <5> QED
          BY <5>1, <5>2
      <4>1. CASE s[1] >= s[2]
        BY <4>0, <4>1
      <4>2. CASE s[1] < s[2]
        <5>1. /\ s[1] \in 0 .. n /\ s[2] \in 0 .. n /\ s[2] - s[1] <= w /\ w \in Nat
          OBVIOUS
        <5>2. Mid(s) \in Nat /\ s[1] <= Mid(s) /\ Mid(s) < s[2]
          BY <5>1, <4>2, Halves
        <5> HIDE DEF Mid
        <5>3. <<s[1], Mid(s)>> \in W(w - 1) /\ <<Mid(s) + 1, s[2]>> \in W(w - 1)
          BY <5>1, <5>2, <4>2
        <5>4. \A r \in W(w - 1) : r \in W(w) /\ g[r] = f[r]
          BY <5>1
        <5>5. g[<<s[1], Mid(s)>>] = f[<<s[1], Mid(s)>>]
              /\ g[<<Mid(s) + 1, s[2]>>] = f[<<Mid(s) + 1, s[2]>>]
          <6> HIDE DEF g, W
          <6> QED
            BY <5>3, <5>4
        <5> HIDE DEF g, W, Narrow
        <5> QED
          BY <4>0, <5>5
      <4>3. s[1] \in Nat /\ s[2] \in Nat
        OBVIOUS
      <4> HIDE DEF g, W, Body
      <4> QED
        BY <4>1, <4>2, <4>3
    <3>4. g = [s \in W(w) |-> Body(g, s)]
      <4> HIDE DEF Body, W
      <4> QED
        BY <3>3
    <3>5. Found(w)
      <4> HIDE DEF Body, W, g
      <4> QED
        BY <3>4
    <3> QED
      BY <3>5, <2>1
  <2> QED
    BY <2>2, <2>3
<1>2. Found(n)
  <2> HIDE DEF Found
  <2> QED
    BY <1>1
<1>3. W(n) = (0 .. n) \X (0 .. n)
  OBVIOUS
<1> HIDE DEF W
<1>4. PICK f : f = [s \in (0 .. n) \X (0 .. n) |-> Body(f, s)]
  BY <1>2, <1>3
<1>5. f = [s \in (0 .. n) \X (0 .. n) |-> f[s]]
      /\ \A s \in (0 .. n) \X (0 .. n) : f[s] = Body(f, s)
  <2> HIDE DEF Body
  <2> QED
    BY <1>4
<1> QED
  BY <1>5 DEF BinarySearch

(* The queues of a search.                                                 *)
Queues == [data : Seq(Entries), cur : Nat]

(* What the binary search returns for an entry the distance of which is    *)
(* that of every entry with its id.                                        *)
LEMMA PlaceFacts ==
  ASSUME NEW q \in Queues, Sorted(q), NEW nbr \in Entries,
         \A i \in DOMAIN q.data : q.data[i].id = nbr.id => q.data[i].distance = nbr.distance
  PROVE  \/ /\ Place(q.data, nbr) = -1
            /\ nbr.id \in Ids(q)
         \/ /\ Place(q.data, nbr) \in 0 .. Len(q.data)
            /\ \A i \in 1 .. Place(q.data, nbr) : Less(q.data[i], nbr)
            /\ \A i \in Place(q.data, nbr) + 1 .. Len(q.data) : Less(nbr, q.data[i])
<1> DEFINE data == q.data
           n == Len(data)
           Mid(s) == (s[1] + s[2]) \div 2
           lo == CHOOSE lo : lo =
             [s \in (0 .. n) \X (0 .. n) |->
                IF s[1] >= s[2] THEN s[1]
                ELSE IF Less(nbr, data[(s[1] + s[2]) \div 2 + 1]) THEN lo[<<s[1], (s[1] + s[2]) \div 2>>]
                ELSE IF data[(s[1] + s[2]) \div 2 + 1].id = nbr.id THEN -1
                ELSE lo[<<(s[1] + s[2]) \div 2 + 1, s[2]>>]]
<1>1. data \in Seq(Entries) /\ n \in Nat /\ DOMAIN data = 1 .. n
      /\ \A i \in 1 .. n : data[i] \in Entries
  BY DEF Queues
<1>1a. n \in Nat /\ \A i \in 1 .. n : data[i] \in Entries
  BY <1>1
<1>2. Place(data, nbr) = lo[<<0, n>>]
  BY DEF Place
<1>3. lo = [s \in (0 .. n) \X (0 .. n) |->
              IF s[1] >= s[2] THEN s[1]
              ELSE IF Less(nbr, data[(s[1] + s[2]) \div 2 + 1]) THEN lo[<<s[1], (s[1] + s[2]) \div 2>>]
              ELSE IF data[(s[1] + s[2]) \div 2 + 1].id = nbr.id THEN -1
              ELSE lo[<<(s[1] + s[2]) \div 2 + 1, s[2]>>]]
  <2>  HIDE DEF data, n
  <2>0. PICK f : BinarySearch(f, n, data, nbr)
    BY <1>1a, SearchFunction
  <2>1. f =  [s \in (0 .. n) \X (0 .. n) |->
                IF s[1] >= s[2] THEN s[1]
                ELSE IF Less(nbr, data[(s[1] + s[2]) \div 2 + 1]) THEN f[<<s[1], (s[1] + s[2]) \div 2>>]
                ELSE IF data[(s[1] + s[2]) \div 2 + 1].id = nbr.id THEN -1
                ELSE f[<<(s[1] + s[2]) \div 2 + 1, s[2]>>]]
    BY <2>0 DEF BinarySearch
  <2> QED
    BY <2>1
<1> HIDE DEF lo
<1>4. \A s \in (0 .. n) \X (0 .. n) : 
        lo[s] = IF s[1] >= s[2] THEN s[1]
                ELSE IF Less(nbr, data[Mid(s) + 1]) THEN lo[<<s[1], Mid(s)>>]
                ELSE IF data[Mid(s) + 1].id = nbr.id THEN -1
                ELSE lo[<<Mid(s) + 1, s[2]>>]
  <2> HIDE DEF data, n
  <2> QED
    BY <1>3
<1> DEFINE Bounds(s) == /\ s[1] <= s[2]
                        /\ \A i \in 1 .. s[1] : Less(data[i], nbr)
                        /\ \A i \in s[2] + 1 .. n : Less(nbr, data[i])
           Good(k) == \/ k = -1 /\ \E i \in 1 .. n : data[i].id = nbr.id
                      \/ /\ k \in 0 .. n
                         /\ \A i \in 1 .. k : Less(data[i], nbr)
                         /\ \A i \in k + 1 .. n : Less(nbr, data[i])
           T == {w \in Nat : \E s \in (0 .. n) \X (0 .. n) : s[2] - s[1] = w /\ Bounds(s) /\ ~ Good(lo[s])}
<1>5. \A i, j \in 1 .. n : i < j => Less(data[i], data[j])
  BY <1>1 DEF Sorted
<1>6. T = {}
  <2> SUFFICES ASSUME T # {} PROVE FALSE
    OBVIOUS
  <2>0. T \subseteq Nat
    OBVIOUS
  <2>1. PICK w \in T : \A v \in T : w <= v
    <3> HIDE DEF T
    <3> QED
      BY LeastNumber, <2>0
  <2>2. PICK s \in (0 .. n) \X (0 .. n) : s[2] - s[1] = w /\ Bounds(s) /\ ~ Good(lo[s])
    <3> HIDE DEF Good, Bounds
    <3> QED
      OBVIOUS
  <2>3. s[1] \in 0 .. n /\ s[2] \in 0 .. n /\ s[1] <= s[2] /\ n \in Nat /\ s[1] \in Nat
        /\ s[2] \in Nat
    BY <2>2, <1>1
  <2>4. CASE s[1] = s[2]
    <3>1. lo[s] = s[1]
      BY <1>4, <2>3, <2>4
    <3>2. Good(s[1])
      BY <2>2, <2>3, <2>4
    <3> HIDE DEF Good
    <3> QED
      BY <3>1, <3>2, <2>2
  <2>5. CASE s[1] < s[2]
    <3>1. Mid(s) \in Nat /\ s[1] <= Mid(s) /\ Mid(s) < s[2]
      <4> HIDE DEF n
      <4> QED
        BY <2>3, <2>5, Halves
    <3> DEFINE a == <<s[1], Mid(s)>>
               b == <<Mid(s) + 1, s[2]>>
               m == Mid(s)
    <3>2. lo[s] = IF Less(nbr, data[m + 1]) THEN lo[a]
                  ELSE IF data[m + 1].id = nbr.id THEN -1 ELSE lo[b]
      <4>1. ~ (s[1] >= s[2])
        BY <2>3, <2>5
      <4> HIDE DEF data, n
      <4> QED
        BY <1>4, <4>1
    <3> HIDE DEF Mid
    <3>3. /\ a \in (0 .. n) \X (0 .. n) /\ b \in (0 .. n) \X (0 .. n)
          /\ a[2] - a[1] \in Nat /\ b[2] - b[1] \in Nat
          /\ a[2] - a[1] < w /\ b[2] - b[1] < w
          /\ m + 1 \in 1 .. n
      <4>1. s[2] - s[1] = w
        BY <2>2
      <4> HIDE DEF n
      <4> QED
        BY <4>1, <2>3, <2>5, <3>1
    <3>4. a[2] - a[1] \notin T /\ b[2] - b[1] \notin T /\ w \in Nat
      <4> HIDE DEF T
      <4> QED
        BY <2>0, <2>1, <3>3
    <3>5. (Bounds(a) => Good(lo[a])) /\ (Bounds(b) => Good(lo[b]))
      <4> HIDE DEF Good, Bounds, a, b
      <4> QED
        BY <3>3, <3>4
    <3>6. nbr \in Entries /\ data[m + 1] \in Entries
      BY <1>1, <3>3
    <3>7. CASE Less(nbr, data[m + 1])
      <4>1. Bounds(a)
        <5>1. \A i \in m + 1 .. n : Less(nbr, data[i])
          <6> SUFFICES ASSUME NEW i \in m + 1 .. n PROVE Less(nbr, data[i])
            OBVIOUS
          <6>1. i \in 1 .. n /\ (i = m + 1 \/ m + 1 < i) /\ data[i] \in Entries
            <7> HIDE DEF data, n, a, b
            <7> QED
              BY <3>1, <3>3, <1>1a
          <6> HIDE DEF data, n, m
          <6> QED
            BY <6>1, <3>3, <3>6, <3>7, <1>5, LessOrder
        <5>2. \A i \in 1 .. s[1] : Less(data[i], nbr)
          BY <2>2
        <5>3. s[1] <= m
          BY <3>1
        <5> QED
          BY <5>1, <5>2, <5>3
      <4> HIDE DEF Good, Bounds, a, b
      <4> QED
        BY <4>1, <3>5, <3>2, <3>7, <2>2
    <3>8. CASE ~ Less(nbr, data[m + 1]) /\ data[m + 1].id = nbr.id
      <4>1. Good(-1)
        BY <3>8, <3>3
      <4> HIDE DEF Good, Bounds, a, b
      <4> QED
        BY <4>1, <3>2, <3>8, <2>2
    <3>9. CASE ~ Less(nbr, data[m + 1]) /\ data[m + 1].id # nbr.id
      <4>0. Less(data[m + 1], nbr)
        BY <3>6, <3>9, LessOrder
      <4>1. Bounds(b)
        <5>1. \A i \in 1 .. m + 1 : Less(data[i], nbr)
          <6> SUFFICES ASSUME NEW i \in 1 .. m + 1 PROVE Less(data[i], nbr)
            OBVIOUS
          <6>1. i \in 1 .. n /\ (i = m + 1 \/ i < m + 1) /\ data[i] \in Entries
            <7> HIDE DEF data, n, a, b
            <7> QED
              BY <3>1, <3>3, <1>1a
          <6> HIDE DEF data, n, m
          <6> QED
            BY <6>1, <3>3, <3>6, <4>0, <1>5, LessOrder
        <5>2. \A i \in s[2] + 1 .. n : Less(nbr, data[i])
          BY <2>2
        <5>3. m + 1 <= s[2]
          BY <3>1, <2>3
        <5> QED
          BY <5>1, <5>2, <5>3
      <4> HIDE DEF Good, Bounds, a, b
      <4> QED
        BY <4>1, <3>5, <3>2, <3>9, <2>2
    <3> QED
      BY <3>7, <3>8, <3>9
  <2> QED
    BY <2>3, <2>4, <2>5
<1>7. Good(lo[<<0, n>>])
  <2>1. Bounds(<<0, n>>)
    BY <1>1
  <2>2. <<0, n>> \in (0 .. n) \X (0 .. n) /\ n \in Nat /\ <<0, n>>[2] - <<0, n>>[1] = n
    BY <1>1
  <2> HIDE DEF Good, Bounds
  <2> QED
    BY <2>1, <2>2, <1>6
<1> QED
  BY <1>7, <1>2, <1>1 DEF Ids

(* The queue that insert leaves when it puts nbr behind its first k        *)
(* entries.                                                                *)
IsInserted(r, q, k, m, nbr) ==
  /\ r.data \in Seq(Entries) /\ Len(r.data) = m
  /\ \A i \in 1 .. k : r.data[i] = q.data[i]
  /\ r.data[k + 1] = nbr
  /\ \A i \in k + 2 .. m : r.data[i] = q.data[i - 1]
  /\ r.cur = IF k + 1 < q.cur THEN k + 1 ELSE q.cur

(* Insert either leaves the queue as it is, because it is full of nearer   *)
(* entries or has the node, or puts the entry between the nearer and the   *)
(* farther ones and drops what no longer fits.                             *)
LEMMA InsertCases ==
  ASSUME NEW q \in Queues, Sorted(q), NEW nbr \in Entries, NEW capacity \in Nat \ {0},
         Len(q.data) <= capacity,
         \A i \in DOMAIN q.data : q.data[i].id = nbr.id => q.data[i].distance = nbr.distance
  PROVE  \/ /\ Insert(q, capacity, nbr) = q
            /\ \/ nbr.id \in Ids(q)
               \/ Len(q.data) = capacity /\ Less(q.data[capacity], nbr)
         \/ /\ Insert(q, capacity, nbr) \in Queues
            /\ \E k \in 0 .. Len(q.data), m \in 1 .. capacity :
                 /\ m = IF Len(q.data) < capacity THEN Len(q.data) + 1 ELSE Len(q.data)
                 /\ k + 1 <= m
                 /\ \A i \in 1 .. k : Less(q.data[i], nbr)
                 /\ \A i \in k + 1 .. Len(q.data) : Less(nbr, q.data[i])
                 /\ IsInserted(Insert(q, capacity, nbr), q, k, m, nbr)
<1> DEFINE n == Len(q.data)
           k == Place(q.data, nbr)
           m == IF n < capacity THEN n + 1 ELSE n
           data == [i \in 1 .. m |-> IF i <= k THEN q.data[i] ELSE IF i = k + 1 THEN nbr ELSE q.data[i - 1]]
           cur == IF k + 1 < q.cur THEN k + 1 ELSE q.cur
<1>1. /\ q.data \in Seq(Entries) /\ n \in Nat /\ q.cur \in Nat
      /\ \A i \in 1 .. n : q.data[i] \in Entries
  BY DEF Queues
<1>2. Insert(q, capacity, nbr) = IF (n = capacity /\ Less(q.data[n], nbr)) \/ k = -1
                                 THEN q ELSE [data |-> data, cur |-> cur]
  BY DEF Insert, Inserted
<1>3. CASE (n = capacity /\ Less(q.data[n], nbr)) \/ k = -1
  <2>1. Insert(q, capacity, nbr) = q
    BY <1>2, <1>3
  <2>2. k = -1 => nbr.id \in Ids(q)
    BY PlaceFacts
  <2> QED
    BY <2>1, <2>2, <1>3
<1>4. CASE ~ ((n = capacity /\ Less(q.data[n], nbr)) \/ k = -1)
  <2>1. /\ k \in 0 .. n
        /\ \A i \in 1 .. k : Less(q.data[i], nbr)
        /\ \A i \in k + 1 .. n : Less(nbr, q.data[i])
    BY PlaceFacts, <1>4
  <2> HIDE DEF k
  <2>2. m \in 1 .. capacity /\ k + 1 <= m
    <3>1. CASE n < capacity
      BY <3>1, <1>1, <2>1
    <3>2. CASE n = capacity
      BY <3>2, <1>1, <2>1, <1>4
    <3> QED
      BY <3>1, <3>2, <1>1
  <2>3. \A i \in 1 .. m : data[i] \in Entries
    <3> SUFFICES ASSUME NEW i \in 1 .. m PROVE data[i] \in Entries
      OBVIOUS
    <3>1. CASE i <= k
      BY <3>1, <1>1, <2>1
    <3>2. CASE i = k + 1
      BY <3>2, <1>1, <2>1
    <3>3. CASE i > k + 1
      BY <3>3, <1>1, <2>1, <2>2
    <3> QED
      BY <3>1, <3>2, <3>3, <2>1
  <2>4. data \in [1 .. m -> Entries] /\ m \in Nat
    <3>1. m \in Nat
      BY <2>2
    <3>2. data = [i \in 1 .. m |-> data[i]]
      OBVIOUS
    <3> HIDE DEF data, m
    <3> QED
      BY <2>3, <3>1, <3>2
  <2>5. data \in Seq(Entries) /\ Len(data) = m
    <3> HIDE DEF data, m
    <3> QED
      BY <2>4
  <2>6. cur \in Nat
    BY <1>1, <2>1
  <2>7. Insert(q, capacity, nbr) = [data |-> data, cur |-> cur]
    BY <1>2, <1>4
  <2>8. /\ \A i \in 1 .. k : data[i] = q.data[i]
        /\ data[k + 1] = nbr
        /\ \A i \in k + 2 .. m : data[i] = q.data[i - 1]
    BY <2>1, <2>2
  <2>9. IsInserted(Insert(q, capacity, nbr), q, k, m, nbr)
    <3> HIDE DEF data, m
    <3> QED
      BY <2>5, <2>7, <2>8 DEF IsInserted
  <2>10. Insert(q, capacity, nbr) \in Queues
    <3> HIDE DEF data, m, cur
    <3> QED
      BY <2>5, <2>6, <2>7 DEF Queues
  <2>11. m = IF n < capacity THEN n + 1 ELSE n
    OBVIOUS
  <2> HIDE DEF m, data, cur
  <2> QED
    BY <2>1, <2>2, <2>9, <2>10, <2>11
<1> QED
  BY <1>3, <1>4

(* What Insert keeps of a queue: its order, its bound and its cursor; what *)
(* leaves the queue or never enters lies behind the last entry of a full   *)
(* one.                                                                    *)
LEMMA InsertFacts ==
  ASSUME NEW q \in Queues, Sorted(q), CursorAtFirst(q),
         NEW nbr \in Entries, ~ nbr.expanded, NEW capacity \in Nat \ {0},
         Len(q.data) <= capacity,
         \A i \in DOMAIN q.data : q.data[i].id = nbr.id => q.data[i].distance = nbr.distance,
         NEW r, r = Insert(q, capacity, nbr)
  PROVE  /\ r \in Queues /\ Sorted(r) /\ CursorAtFirst(r)
         /\ Len(r.data) <= capacity
         /\ \A i \in DOMAIN r.data : r.data[i] = nbr \/ \E j \in DOMAIN q.data : r.data[i] = q.data[j]
         /\ \/ nbr.id \in Ids(r)
            \/ Len(r.data) = capacity /\ Less(r.data[capacity], nbr)
         /\ \A j \in DOMAIN q.data :
              \/ q.data[j].id \in Ids(r)
              \/ Len(r.data) = capacity /\ Less(r.data[capacity], q.data[j])
         /\ Len(q.data) = capacity =>
              /\ Len(r.data) = capacity
              /\ r.data[capacity] = q.data[capacity] \/ Less(r.data[capacity], q.data[capacity])
<1> DEFINE n == Len(q.data)
<1>1. /\ q.data \in Seq(Entries) /\ n \in Nat /\ q.cur \in Nat /\ DOMAIN q.data = 1 .. n
      /\ \A i \in 1 .. n : q.data[i] \in Entries
  BY DEF Queues
<1>2. CASE /\ Insert(q, capacity, nbr) = q
           /\ \/ nbr.id \in Ids(q)
              \/ Len(q.data) = capacity /\ Less(q.data[capacity], nbr)
  BY <1>2 DEF Ids
<1>3. CASE /\ Insert(q, capacity, nbr) \in Queues
           /\ \E k \in 0 .. Len(q.data), m \in 1 .. capacity :
                 /\ m = IF Len(q.data) < capacity THEN Len(q.data) + 1 ELSE Len(q.data)
                 /\ k + 1 <= m
                 /\ \A i \in 1 .. k : Less(q.data[i], nbr)
                 /\ \A i \in k + 1 .. Len(q.data) : Less(nbr, q.data[i])
                 /\ IsInserted(Insert(q, capacity, nbr), q, k, m, nbr)
  <2>0. r \in Queues
    BY <1>3
  <2>1. PICK k \in 0 .. Len(q.data), m \in 1 .. capacity :
                 /\ m = IF Len(q.data) < capacity THEN Len(q.data) + 1 ELSE Len(q.data)
                 /\ k + 1 <= m
                 /\ \A i \in 1 .. k : Less(q.data[i], nbr)
                 /\ \A i \in k + 1 .. Len(q.data) : Less(nbr, q.data[i])
                 /\ IsInserted(Insert(q, capacity, nbr), q, k, m, nbr)
    BY <1>3
  <2>2. /\ n \in Nat /\ k <= n /\ k \in 0 .. n /\ m \in 1 .. capacity /\ m \in Nat
        /\ k \in Nat /\ m <= n + 1 /\ m <= capacity /\ k + 1 <= m
        /\ n < capacity => m = n + 1
        /\ n = capacity => m = capacity
        /\ m = n + 1 \/ m = n
    BY <2>1, <1>1
  <2>3. /\ r.data \in Seq(Entries) /\ Len(r.data) = m /\ DOMAIN r.data = 1 .. m
        /\ \A i \in 1 .. m : r.data[i] \in Entries
    BY <2>1 DEF IsInserted
  <2>4. /\ \A i \in 1 .. k : r.data[i] = q.data[i]
        /\ r.data[k + 1] = nbr
        /\ \A i \in k + 2 .. m : r.data[i] = q.data[i - 1]
        /\ r.cur = IF k + 1 < q.cur THEN k + 1 ELSE q.cur
    BY <2>1 DEF IsInserted
  <2>4a. \A i \in 1 .. k : r.data[i] = q.data[i]
    BY <2>4
  <2>4b. \A i \in k + 2 .. m : r.data[i] = q.data[i - 1] /\ i - 1 \in k + 1 .. n /\ i - 1 \in 1 .. n
    <3> SUFFICES ASSUME NEW i \in k + 2 .. m
                 PROVE  r.data[i] = q.data[i - 1] /\ i - 1 \in k + 1 .. n
                        /\ i - 1 \in 1 .. n
      OBVIOUS
    <3>1. r.data[i] = q.data[i - 1]
      BY <2>4
    <3> QED
      BY <3>1, <2>2
  <2>5. \A i, j \in 1 .. n : i < j => Less(q.data[i], q.data[j])
    BY <1>1 DEF Sorted
  <2>6. /\ \A i \in 1 .. k : Less(q.data[i], nbr)
        /\ \A i \in k + 1 .. n : Less(nbr, q.data[i])
    BY <2>1
  <2> HIDE DEF n
  <2>7. Sorted(r)
    <3> SUFFICES ASSUME NEW i \in 1 .. m, NEW j \in 1 .. m, i < j
                 PROVE  Less(r.data[i], r.data[j])
      BY <2>3 DEF Sorted
    <3>1. CASE j <= k
      <4>1. i \in 1 .. k /\ j \in 1 .. k /\ i \in 1 .. n /\ j \in 1 .. n
        BY <3>1, <2>2
      <4> QED
        BY <4>1, <2>4a, <2>5
    <3>2. CASE j = k + 1
      BY <3>2, <2>2, <2>4, <2>6
    <3>3. CASE j > k + 1
      <4>0. j \in k + 2 .. m
        BY <3>3, <2>2
      <4>1. r.data[j] = q.data[j - 1] /\ j - 1 \in k + 1 .. n /\ j - 1 \in 1 .. n
        BY <4>0, <2>4b
      <4>2. CASE i <= k
        <5>1. i \in 1 .. k /\ i \in 1 .. n /\ i < j - 1
          BY <4>2, <4>1, <2>2
        <5> QED
          BY <5>1, <4>1, <2>4a, <2>5
      <4>3. CASE i = k + 1
        BY <4>1, <4>3, <2>2, <2>4, <2>6
      <4>4. CASE i > k + 1
        <5>1. r.data[i] = q.data[i - 1] /\ i - 1 \in 1 .. n /\ i - 1 < j - 1
          <6>1. i \in k + 2 .. m
            BY <4>4, <2>2
          <6> QED
            BY <6>1, <2>4b
        <5> QED
          BY <4>1, <5>1, <2>5
      <4> QED
        BY <4>2, <4>3, <4>4, <2>2
    <3> QED
      BY <3>1, <3>2, <3>3, <2>2
  <2>8. CursorAtFirst(r)
    <3>0. /\ q.cur \in 1 .. n + 1
          /\ \A i \in 1 .. q.cur - 1 : q.data[i].expanded
          /\ q.cur <= n => ~ q.data[q.cur].expanded
      BY DEF CursorAtFirst, HasUnexpanded, n
    <3>1. CASE k + 1 < q.cur
      <4>1. r.cur = k + 1
        BY <3>1, <2>4
      <4>2. \A i \in 1 .. k : r.data[i].expanded
        <5>1. \A i \in 1 .. k : i \in 1 .. q.cur - 1
          BY <3>0, <3>1, <2>2, <1>1
        <5> QED
          BY <5>1, <3>0, <2>4a
      <4> QED
        BY <4>1, <4>2, <2>2, <2>3, <2>4 DEF CursorAtFirst, HasUnexpanded
    <3>2. CASE q.cur = k + 1
      <4>1. r.cur = k + 1
        BY <3>2, <2>4
      <4>2. \A i \in 1 .. k : r.data[i].expanded
        <5>1. \A i \in 1 .. k : i \in 1 .. q.cur - 1
          BY <3>0, <3>2, <2>2, <1>1
        <5> QED
          BY <5>1, <3>0, <2>4a
      <4> QED
        BY <4>1, <4>2, <2>2, <2>3, <2>4 DEF CursorAtFirst, HasUnexpanded
    <3>3. CASE q.cur < k + 1
      <4>1. r.cur = q.cur /\ q.cur \in 1 .. k /\ q.cur \in 1 .. m + 1
        BY <3>0, <3>3, <2>2, <2>4
      <4>2. \A i \in 1 .. q.cur - 1 : r.data[i].expanded
        BY <3>0, <3>3, <2>2, <2>4
      <4>3. ~ r.data[q.cur].expanded
        <5>1. q.cur <= n /\ r.data[q.cur] = q.data[q.cur]
          BY <4>1, <2>2, <2>4a
        <5> QED
          BY <5>1, <3>0
      <4> QED
        BY <4>1, <4>2, <4>3, <2>2, <2>3 DEF CursorAtFirst, HasUnexpanded
    <3> QED
      BY <3>0, <3>1, <3>2, <3>3, <2>2
  <2>9. Len(r.data) <= capacity
    BY <2>2, <2>3
  <2>10. \A i \in 1 .. m : r.data[i] = nbr \/ \E j \in 1 .. n : r.data[i] = q.data[j]
    <3> SUFFICES ASSUME NEW i \in 1 .. m
                 PROVE  r.data[i] = nbr \/ \E j \in 1 .. n : r.data[i] = q.data[j]
      OBVIOUS
    <3>1. CASE i <= k
      <4>1. i \in 1 .. k /\ i \in 1 .. n
        BY <3>1, <2>2
      <4> QED
        BY <4>1, <2>4a
    <3>2. CASE i = k + 1
      BY <3>2, <2>4
    <3>3. CASE i > k + 1
      <4>1. r.data[i] = q.data[i - 1] /\ i - 1 \in 1 .. n
        <5>1. i \in k + 2 .. m
          BY <3>3, <2>2
        <5> QED
          BY <5>1, <2>4b
      <4> QED
        BY <4>1
    <3> QED
      BY <3>1, <3>2, <3>3, <2>2
  <2>11. nbr.id \in Ids(r)
    <3>1. k + 1 \in 1 .. m
      BY <2>2
    <3> QED
      BY <3>1, <2>3, <2>4 DEF Ids
  <2>12. n = capacity => Len(r.data) = capacity /\ (r.data[capacity] = q.data[capacity] \/ Less(r.data[capacity], q.data[capacity]))
    <3> SUFFICES ASSUME n = capacity
                 PROVE  Len(r.data) = capacity
                        /\ (r.data[capacity] = q.data[capacity] \/ Less(r.data[capacity], q.data[capacity]))
      OBVIOUS
    <3>1. m = capacity /\ m = n /\ Len(r.data) = capacity
      BY <2>2, <2>3
    <3>2. CASE m = k + 1
      BY <3>1, <3>2, <2>2, <2>4, <2>6
    <3>3. CASE m > k + 1
      <4>1. r.data[m] = q.data[m - 1] /\ m - 1 \in 1 .. n /\ m \in 1 .. n /\ m - 1 < m
        BY <3>1, <3>3, <2>2, <2>4
      <4>2. Less(q.data[m - 1], q.data[m])
        BY <4>1, <2>5
      <4> QED
        BY <3>1, <4>1, <4>2
    <3> QED
      BY <3>2, <3>3, <2>2
  <2>13. \A j \in 1 .. n : q.data[j].id \in Ids(r) \/ (Len(r.data) = capacity /\ Less(r.data[capacity], q.data[j]))
    <3> SUFFICES ASSUME NEW j \in 1 .. n
                 PROVE  q.data[j].id \in Ids(r) \/ (Len(r.data) = capacity /\ Less(r.data[capacity], q.data[j]))
      OBVIOUS
    <3>1. CASE j <= k
      <4>1. j \in 1 .. m /\ r.data[j] = q.data[j]
        BY <3>1, <2>2, <2>4
      <4> QED
        BY <4>1, <2>3 DEF Ids
    <3>2. CASE j > k /\ j + 1 <= m
      <4>1. j + 1 \in 1 .. m /\ j + 1 \in k + 2 .. m /\ j + 1 - 1 = j
        BY <3>2, <2>2
      <4>2. r.data[j + 1] = q.data[j]
        BY <4>1, <2>4
      <4> QED
        BY <4>1, <4>2, <2>3 DEF Ids
    <3>3. CASE j > k /\ j + 1 > m
      <4>1. j = m /\ m = n /\ n = capacity
        BY <3>3, <2>2, <2>3, <1>1, n <= capacity DEF n
      <4>2. CASE m = k + 1
        BY <4>1, <4>2, <2>2, <2>3, <2>4, <2>6
      <4>3. CASE m > k + 1
        <5>1. r.data[m] = q.data[m - 1] /\ m - 1 \in 1 .. n /\ m \in 1 .. n /\ m - 1 < m
          BY <4>1, <4>3, <2>2, <2>4
        <5>2. Less(q.data[m - 1], q.data[m])
          BY <5>1, <2>5
        <5> QED
          BY <4>1, <5>1, <5>2, <2>3
      <4> QED
        BY <4>2, <4>3, <2>2
    <3> QED
      BY <3>1, <3>2, <3>3, <2>2
  <2> QED
    BY <2>0, <2>7, <2>8, <2>9, <2>10, <2>11, <2>12, <2>13, <1>1, <2>3 DEF n
<1> QED
  <2>1. r = Insert(q, capacity, nbr)
    OBVIOUS
  <2> QED
    BY <1>2, <1>3, InsertCases

-------------------------------------------------------------------------------
(* Recursive functions on 0 .. n.                                          *)

(* A set that has 0 and with each number the next one has all up to n.     *)
LEMMA UpTo ==
  ASSUME NEW n \in Nat, NEW G, 0 \in G, \A i \in 1 .. n : i - 1 \in G => i \in G
  PROVE  \A i \in 0 .. n : i \in G
<1> DEFINE T == {i \in Nat : i \in 0 .. n /\ i \notin G}
<1>0. T \subseteq Nat
  OBVIOUS
<1>1. T = {}
  <2> SUFFICES ASSUME T # {} PROVE FALSE
    OBVIOUS
  <2>1. PICK i \in T : \A j \in T : i <= j
    <3> HIDE DEF T
    <3> QED
      BY <1>0, LeastNumber
  <2>2. i \in 1 .. n /\ i - 1 \in 0 .. n /\ i - 1 \in Nat /\ ~ (i <= i - 1)
    BY <2>1
  <2>3. i - 1 \in G
    BY <2>1, <2>2
  <2> QED
    BY <2>1, <2>2, <2>3
<1> QED
  BY <1>1

(* Function f iterates step from init for n rounds.                        *)
IsIteration(f, n, init, step) ==
  /\ f = [i \in 0 .. n |-> f[i]]
  /\ f[0] = init
  /\ \A i \in 1 .. n : f[i] = step[i][f[i - 1]]

(* The iteration is defined: the recursive functions of the model are.     *)
LEMMA IterationExists ==
  ASSUME NEW n \in Nat, NEW init, NEW step
  PROVE  \E f : IsIteration(f, n, init, step)
<1> DEFINE G == {i \in Nat : \E f : IsIteration(f, i, init, step)}
<1>1. 0 \in G
  <2> DEFINE f == [i \in 0 .. 0 |-> init]
  <2>1. IsIteration(f, 0, init, step)
    BY DEF IsIteration
  <2> QED
    BY <2>1
<1>2. \A i \in 1 .. n : i - 1 \in G => i \in G
  <2> SUFFICES ASSUME NEW i \in 1 .. n, i - 1 \in G PROVE i \in G
    OBVIOUS
  <2>1. PICK f : IsIteration(f, i - 1, init, step)
    OBVIOUS
  <2> DEFINE g == [j \in 0 .. i |-> IF j = i THEN step[i][f[i - 1]] ELSE f[j]]
  <2>2. g[0] = init
    BY <2>1 DEF IsIteration
  <2>3. \A j \in 1 .. i : g[j] = step[j][g[j - 1]]
    <3> SUFFICES ASSUME NEW j \in 1 .. i PROVE g[j] = step[j][g[j - 1]]
      OBVIOUS
    <3>1. CASE j = i
      BY <3>1
    <3>2. CASE j # i
      <4>1. j \in 1 .. i - 1 /\ j \in 0 .. i /\ j - 1 \in 0 .. i /\ j - 1 # i
        BY <3>2
      <4>2. f[j] = step[j][f[j - 1]]
        BY <2>1, <4>1 DEF IsIteration
      <4> QED
        BY <4>1, <4>2, <3>2
    <3> QED
      BY <3>1, <3>2
  <2>4. g = [j \in 0 .. i |-> g[j]]
    OBVIOUS
  <2> HIDE DEF g
  <2>5. IsIteration(g, i, init, step)
    BY <2>2, <2>3, <2>4 DEF IsIteration
  <2> QED
    BY <2>5
<1>3. n \in G
  <2> HIDE DEF G
  <2> QED
    BY <1>1, <1>2, UpTo
<1> QED
  BY <1>3

-------------------------------------------------------------------------------
(* The queue of a search.                                                  *)

(* What the invariant says of the queue q of a search, d being the         *)
(* distances from what it searches for, when the nodes of S have been      *)
(* inserted.                                                               *)
Holds(d, capacity, q, S) ==
  /\ q \in Queues
  /\ \A i \in DOMAIN q.data : q.data[i].distance = d[q.data[i].id]
  /\ Sorted(q) /\ CursorAtFirst(q)
  /\ Len(q.data) <= capacity
  /\ Ids(q) \subseteq S
  /\ \A x \in S \ Ids(q) :
       /\ Len(q.data) = capacity
       /\ Less(q.data[capacity], Neighbor(x, d[x]))

(* The expanded entries of queue r are entries of queue q.                 *)
NoneNewExpanded(r, q) ==
  \A i \in DOMAIN r.data : r.data[i].expanded => \E j \in DOMAIN q.data : r.data[i] = q.data[j]

(* Inserting one more node keeps that.                                     *)
LEMMA HoldsInsert ==
  ASSUME NEW d \in [Nodes -> Int], NEW capacity \in Nat \ {0},
         NEW S \in SUBSET Nodes, NEW x \in Nodes, NEW q, Holds(d, capacity, q, S),
         NEW r, r = Insert(q, capacity, Neighbor(x, d[x]))
  PROVE  /\ Holds(d, capacity, r, S \cup {x})
         /\ NoneNewExpanded(r, q)
<1> DEFINE nbr == Neighbor(x, d[x])
<1>1. /\ q \in Queues /\ Sorted(q) /\ CursorAtFirst(q) /\ Len(q.data) <= capacity
      /\ Ids(q) \subseteq S /\ q.data \in Seq(Entries)
      /\ \A i \in DOMAIN q.data : q.data[i].distance = d[q.data[i].id] /\ q.data[i] \in Entries
  BY DEF Holds, Queues
<1>2. \A y \in S \ Ids(q) : Len(q.data) = capacity /\ Less(q.data[capacity], Neighbor(y, d[y]))
  BY DEF Holds
<1>3. nbr \in Entries /\ ~ nbr.expanded /\ nbr.id = x /\ nbr.distance = d[x]
  BY DEF Neighbor, Entries
<1>4. \A i \in DOMAIN q.data : q.data[i].id = nbr.id => q.data[i].distance = nbr.distance
  BY <1>1, <1>3
<1>5. r = Insert(q, capacity, nbr) /\ capacity \in Nat \ {0}
  OBVIOUS
<1>6. \A y \in Nodes : Neighbor(y, d[y]) \in Entries
  BY DEF Neighbor, Entries
<1> HIDE DEF nbr
<1>7. /\ r \in Queues /\ Sorted(r) /\ CursorAtFirst(r)
      /\ Len(r.data) <= capacity
  BY <1>1, <1>3, <1>4, <1>5, InsertFacts
<1>8. \A i \in DOMAIN r.data : r.data[i] = nbr \/ \E j \in DOMAIN q.data : r.data[i] = q.data[j]
  BY <1>1, <1>3, <1>4, <1>5, InsertFacts
<1>9. \/ nbr.id \in Ids(r)
      \/ Len(r.data) = capacity /\ Less(r.data[capacity], nbr)
  BY <1>1, <1>3, <1>4, <1>5, InsertFacts
<1>10. \A j \in DOMAIN q.data :
         \/ q.data[j].id \in Ids(r)
         \/ Len(r.data) = capacity /\ Less(r.data[capacity], q.data[j])
  BY <1>1, <1>3, <1>4, <1>5, InsertFacts
<1>11. Len(q.data) = capacity =>
         /\ Len(r.data) = capacity
         /\ r.data[capacity] = q.data[capacity] \/ Less(r.data[capacity], q.data[capacity])
  BY <1>1, <1>3, <1>4, <1>5, InsertFacts
<1>12. \A i \in DOMAIN r.data : r.data[i].distance = d[r.data[i].id]
  BY <1>1, <1>3, <1>8
<1>13. Ids(r) \subseteq S \cup {x}
  BY <1>1, <1>3, <1>8 DEF Ids
<1>14. NoneNewExpanded(r, q)
  BY <1>3, <1>8 DEF NoneNewExpanded
<1>15. \A y \in (S \cup {x}) \ Ids(r) : Len(r.data) = capacity /\ Less(r.data[capacity], Neighbor(y, d[y]))
  <2> SUFFICES ASSUME NEW y \in S \cup {x}, y \notin Ids(r)
               PROVE  Len(r.data) = capacity /\ Less(r.data[capacity], Neighbor(y, d[y]))
    OBVIOUS
  <2>1. CASE y = x
    BY <2>1, <1>3, <1>9 DEF nbr
  <2>2. CASE y \in Ids(q)
    <3>1. PICK j \in DOMAIN q.data : y = q.data[j].id
      BY <2>2 DEF Ids
    <3>2. Len(r.data) = capacity /\ Less(r.data[capacity], q.data[j])
      BY <3>1, <1>10
    <3>3. q.data[j].distance = d[y]
      BY <3>1, <1>1
    <3> QED
      BY <3>1, <3>2, <3>3 DEF Less, Neighbor
  <2>3. CASE y \in S \ Ids(q)
    <3>1. Len(q.data) = capacity /\ Less(q.data[capacity], Neighbor(y, d[y]))
      BY <2>3, <1>2
    <3>2. Len(r.data) = capacity
          /\ (r.data[capacity] = q.data[capacity] \/ Less(r.data[capacity], q.data[capacity]))
      BY <3>1, <1>11
    <3>3. r.data \in Seq(Entries)
      BY <1>7 DEF Queues
    <3>4. r.data[capacity] \in Entries /\ q.data[capacity] \in Entries
      BY <1>1, <1>5, <3>1, <3>2, <3>3
    <3>5. Neighbor(y, d[y]) \in Entries
      BY <1>6
    <3> QED
      BY <3>1, <3>2, <3>4, <3>5, LessOrder
  <2> QED
    BY <2>1, <2>2, <2>3
<1>16. r \in Queues /\ Sorted(r) /\ CursorAtFirst(r) /\ Len(r.data) <= capacity
  BY <1>7
<1>17. \A y \in (S \cup {x}) \ Ids(r) : Len(r.data) = capacity /\ Less(r.data[capacity], Neighbor(y, d[y]))
  BY <1>15
<1> QED
  BY <1>12, <1>13, <1>14, <1>16, <1>17 DEF Holds

(* There is a position for the cursor to move to.                          *)
LEMMA PoppedCursor ==
  ASSUME NEW data \in Seq(Entries), NEW a \in 1 .. Len(data)
  PROVE  \E i \in a .. Len(data) + 1 :
           /\ i = Len(data) + 1 \/ ~ data[i].expanded
           /\ \A j \in a .. i - 1 : data[j].expanded
<1> DEFINE n == Len(data)
           T == {i \in Nat : i \in a .. n + 1 /\ (i = n + 1 \/ ~ data[i].expanded)}
<1>1. n \in Nat /\ a \in Nat /\ a <= n
  OBVIOUS
<1> HIDE DEF n
<1>2. T \subseteq Nat /\ n + 1 \in T
  BY <1>1
<1>3. PICK i \in T : \A j \in T : i <= j
  <2> HIDE DEF T
  <2> QED
    BY <1>2, LeastNumber
<1>4. \A j \in a .. i - 1 : data[j].expanded
  <2> SUFFICES ASSUME NEW j \in a .. i - 1 PROVE data[j].expanded
    OBVIOUS
  <2>1. j \notin T /\ j \in a .. n + 1 /\ j \in Nat
    BY <1>1, <1>3
  <2> QED
    BY <2>1
<1> QED
  BY <1>3, <1>4 DEF n

(* Queue r is q with some of its entries, at most the one at the cursor    *)
(* besides those that were before, marked.                                 *)
OnlyMarked(r, q) ==
  /\ DOMAIN r.data = DOMAIN q.data
  /\ \A i \in DOMAIN r.data : /\ r.data[i].id = q.data[i].id
                              /\ r.data[i].expanded => q.data[i].expanded \/ i = q.cur

(* Taking the nearest unexpanded entry keeps that as well.                 *)
LEMMA HoldsPopped ==
  ASSUME NEW d, NEW capacity, NEW S, NEW q, Holds(d, capacity, q, S), HasUnexpanded(q),
         NEW r, r = Popped(q)
  PROVE  Holds(d, capacity, r, S) /\ OnlyMarked(r, q)
<1> DEFINE n == Len(q.data)
           data == [q.data EXCEPT ![q.cur].expanded = TRUE]
           cur == CHOOSE i \in q.cur .. Len(data) + 1 :
                    /\ i = Len(data) + 1 \/ ~ data[i].expanded
                    /\ \A j \in q.cur .. i - 1 : data[j].expanded
<1>1. /\ q.data \in Seq(Entries) /\ n \in Nat /\ DOMAIN q.data = 1 .. n /\ q \in Queues
      /\ q.cur \in 1 .. n /\ q.cur \in Nat
      /\ \A i \in 1 .. q.cur - 1 : q.data[i].expanded
      /\ \A i \in 1 .. n : q.data[i] \in Entries
  BY DEF Holds, Queues, CursorAtFirst, HasUnexpanded
<1>2. r = [data |-> data, cur |-> cur]
  BY DEF Popped
<1>3. \A i \in 1 .. n : /\ data[i] \in Entries /\ data[i].id = q.data[i].id /\ data[i].distance = q.data[i].distance
                        /\ data[i].expanded = IF i = q.cur THEN TRUE ELSE q.data[i].expanded
  BY <1>1 DEF Entries
<1>4. data \in Seq(Entries) /\ Len(data) = n /\ DOMAIN data = 1 .. n
  <2>1. data = [i \in 1 .. n |-> data[i]]
    BY <1>1
  <2>2. data \in [1 .. n -> Entries]
    <3> HIDE DEF data, n
    <3> QED
      BY <1>3, <2>1
  <2> HIDE DEF data, n
  <2> QED
    BY <2>2, <1>1
<1> HIDE DEF data
<1>5. \E i \in q.cur .. Len(data) + 1 :
                    /\ i = Len(data) + 1 \/ ~ data[i].expanded
                    /\ \A j \in q.cur .. i - 1 : data[j].expanded
  <2>1. data \in Seq(Entries) /\ q.cur \in 1 .. Len(data)
    BY <1>1, <1>4
  <2> QED
    BY <2>1, PoppedCursor
<1>6. /\ cur \in q.cur .. n + 1
      /\ cur = n + 1 \/ ~ data[cur].expanded
      /\ \A j \in q.cur .. cur - 1 : data[j].expanded
  BY <1>5, <1>4
<1> HIDE DEF cur, n
<1>7. cur \in Nat /\ cur \in 1 .. n + 1
  BY <1>1, <1>6
<1>8. r \in Queues /\ r.data = data /\ r.cur = cur
  BY <1>2, <1>4, <1>7 DEF Queues
<1>9. \A j \in 1 .. cur - 1 : data[j].expanded
  <2> SUFFICES ASSUME NEW j \in 1 .. cur - 1 PROVE data[j].expanded
    OBVIOUS
  <2>1. CASE j < q.cur
    <3>1. j \in 1 .. q.cur - 1 /\ j \in 1 .. n /\ j # q.cur
      BY <2>1, <1>1
    <3> QED
      BY <3>1, <1>1, <1>3
  <2>2. CASE j >= q.cur
    <3>1. j \in q.cur .. cur - 1
      BY <2>2, <1>1
    <3> QED
      BY <3>1, <1>6
  <2> QED
    BY <2>1, <2>2, <1>1
<1>10. CursorAtFirst(r)
  <2>1. r.cur \in 1 .. Len(r.data) + 1
    BY <1>4, <1>7, <1>8
  <2>2. \A i \in 1 .. r.cur - 1 : r.data[i].expanded
    BY <1>8, <1>9
  <2>3. HasUnexpanded(r) => ~ r.data[r.cur].expanded
    BY <1>1, <1>4, <1>6, <1>7, <1>8 DEF HasUnexpanded
  <2> QED
    BY <2>1, <2>2, <2>3 DEF CursorAtFirst
<1>11. Sorted(r)
  <2>1. \A i, j \in 1 .. n : i < j => Less(q.data[i], q.data[j])
    BY <1>1 DEF Holds, Sorted
  <2> QED
    <3> SUFFICES ASSUME NEW i \in 1 .. n, NEW j \in 1 .. n, i < j
                 PROVE  Less(r.data[i], r.data[j])
      BY <1>4, <1>8 DEF Sorted
    <3>1. Less(q.data[i], q.data[j])
      BY <2>1
    <3>2. data[i].id = q.data[i].id /\ data[i].distance = q.data[i].distance
      BY <1>3
    <3>3. data[j].id = q.data[j].id /\ data[j].distance = q.data[j].distance
      BY <1>3
    <3> QED
      BY <3>1, <3>2, <3>3, <1>8 DEF Less
<1>12. Ids(r) = Ids(q)
  <2>1. Ids(r) = {data[i].id : i \in 1 .. n}
    BY <1>4, <1>8 DEF Ids
  <2>2. Ids(q) = {q.data[i].id : i \in 1 .. n}
    BY <1>1 DEF Ids
  <2>3. \A i \in 1 .. n : data[i].id = q.data[i].id
    BY <1>3
  <2> QED
    BY <2>1, <2>2, <2>3
<1>13. \A i \in DOMAIN r.data : r.data[i].distance = d[r.data[i].id]
  <2>1. \A i \in 1 .. n : q.data[i].distance = d[q.data[i].id]
    BY <1>1 DEF Holds
  <2> SUFFICES ASSUME NEW i \in 1 .. n PROVE data[i].distance = d[data[i].id]
    BY <1>4, <1>8
  <2>2. data[i].id = q.data[i].id /\ data[i].distance = q.data[i].distance
    BY <1>3
  <2> QED
    BY <2>1, <2>2
<1>14. Len(r.data) <= capacity
  BY <1>4, <1>8 DEF Holds, n
<1>15. \A x \in S \ Ids(r) : Len(r.data) = capacity /\ Less(r.data[capacity], Neighbor(x, d[x]))
  <2> SUFFICES ASSUME NEW x \in S, x \notin Ids(q)
               PROVE  Len(r.data) = capacity /\ Less(r.data[capacity], Neighbor(x, d[x]))
    BY <1>12
  <2>1. n = capacity /\ Less(q.data[capacity], Neighbor(x, d[x]))
    BY DEF Holds, n
  <2>2. capacity \in 1 .. n
    BY <1>1, <2>1
  <2>3. data[capacity].id = q.data[capacity].id
        /\ data[capacity].distance = q.data[capacity].distance
    BY <2>2, <1>3
  <2> QED
    BY <2>1, <2>3, <1>4, <1>8 DEF Less
<1>16. Ids(r) \subseteq S
  BY <1>12 DEF Holds
<1>17. Holds(d, capacity, r, S)
  BY <1>8, <1>10, <1>11, <1>13, <1>14, <1>15, <1>16 DEF Holds
<1> QED
  BY <1>17, <1>1, <1>3, <1>4, <1>8 DEF OnlyMarked

(* And so does the feeding of a list of neighbours, those already seen     *)
(* being skipped.                                                          *)
LEMMA FedFacts ==
  ASSUME NEW t, NEW d \in [Nodes -> Int], NEW capacity \in Nat \ {0},
         QueueSize = capacity, \A y \in Nodes : TargetDist(t, y) = d[y],
         seen[t] \in SUBSET Nodes, NEW list \in Seq(Nodes),
         NEW q, Holds(d, capacity, q, seen[t]), NEW r, r = Fed(t, q, list)
  PROVE  /\ Holds(d, capacity, r, seen[t] \cup Range(list))
         /\ NoneNewExpanded(r, q)
<1> DEFINE n == Len(list)
           New(i) == Neighbor(list[i], d[list[i]])
           Step1(i, p) == IF list[i] \in seen[t] THEN p ELSE Insert(p, capacity, New(i))
           S(i) == seen[t] \cup {list[j] : j \in 1 .. i}
           Good(i, p) == Holds(d, capacity, p, S(i)) /\ NoneNewExpanded(p, q)
           step == [i \in 1 .. n |-> [p \in Queues |-> Step1(i, p)]]
           fed == CHOOSE fed : fed =
                    [i \in 0 .. n |-> IF i = 0 THEN q
                                      ELSE IF list[i] \in seen[t] THEN fed[i - 1]
                                      ELSE Insert(fed[i - 1], QueueSize, Neighbor(list[i], TargetDist(t, list[i])))]
<1>1. n \in Nat /\ DOMAIN list = 1 .. n /\ \A i \in 1 .. n : list[i] \in Nodes
  OBVIOUS
<1>2. r = fed[n]
  BY DEF Fed
<1> HIDE DEF n
<1>3. \A i \in 1 .. n : \A p : Good(i - 1, p) => Good(i, Step1(i, p))
  <2> SUFFICES ASSUME NEW i \in 1 .. n, NEW p, Good(i - 1, p) PROVE Good(i, Step1(i, p))
    OBVIOUS
  <2>1. S(i) = S(i - 1) \cup {list[i]} /\ S(i - 1) \in SUBSET Nodes /\ list[i] \in Nodes
    <3>1. \A j : j \in 1 .. i <=> j \in 1 .. i - 1 \/ j = i
      BY <1>1
    <3>2. list[i] \in Nodes /\ \A j \in 1 .. i - 1 : list[j] \in Nodes
      BY <1>1
    <3>3. S(i - 1) \in SUBSET Nodes
      BY <3>2
    <3>4. \A x : x \in S(i) <=> x \in S(i - 1) \cup {list[i]}
      BY <3>1
    <3> HIDE DEF S
    <3> QED
      BY <3>2, <3>3, <3>4
  <2>2. CASE list[i] \in seen[t]
    <3>1. S(i) = S(i - 1) /\ Step1(i, p) = p
      BY <2>1, <2>2
    <3> HIDE DEF S, Step1
    <3> QED
      BY <3>1
  <2>3. CASE list[i] \notin seen[t]
    <3>1. Step1(i, p) = Insert(p, capacity, Neighbor(list[i], d[list[i]]))
      BY <2>3
    <3> HIDE DEF S, Step1
    <3>2. Holds(d, capacity, Step1(i, p), S(i - 1) \cup {list[i]})
      <4>1. Holds(d, capacity, p, S(i - 1)) /\ S(i - 1) \in SUBSET Nodes
            /\ list[i] \in Nodes
        BY <2>1
      <4>2. Holds(d, capacity, Insert(p, capacity, Neighbor(list[i], d[list[i]])), S(i - 1) \cup {list[i]})
        BY <4>1, HoldsInsert
      <4> QED
        BY <4>2, <3>1
    <3>3. NoneNewExpanded(Step1(i, p), p)
      <4>1. Holds(d, capacity, p, S(i - 1)) /\ S(i - 1) \in SUBSET Nodes
            /\ list[i] \in Nodes
        BY <2>1
      <4>2. NoneNewExpanded(Insert(p, capacity, Neighbor(list[i], d[list[i]])), p)
        BY <4>1, HoldsInsert
      <4> QED
        BY <4>2, <3>1
    <3>4. NoneNewExpanded(Step1(i, p), q)
      <4>1. NoneNewExpanded(p, q)
        OBVIOUS
      <4> HIDE DEF Step1
      <4> QED
        BY <3>3, <4>1 DEF NoneNewExpanded
    <3> QED
      BY <2>1, <3>2, <3>4
  <2> QED
    BY <2>2, <2>3
<1>4. \A p : Good(0, p) <=> Holds(d, capacity, p, seen[t]) /\ NoneNewExpanded(p, q)
  <2>1. S(0) = seen[t]
    OBVIOUS
  <2> HIDE DEF S
  <2> QED
    BY <2>1
<1>5. Good(0, q)
  <2>1. NoneNewExpanded(q, q)
    BY DEF NoneNewExpanded
  <2> HIDE DEF Good
  <2> QED
    BY <1>4, <2>1
<1>6. \A i, p : Good(i, p) => p \in Queues
  BY DEF Holds
<1>7. PICK f : IsIteration(f, n, q, step)
  <2> HIDE DEF step
  <2> QED
    BY <1>1, IterationExists
<1>8. \A i \in 0 .. n : Good(i, f[i])
  <2> DEFINE G == {i \in 0 .. n : Good(i, f[i])}
  <2> HIDE DEF Good, Step1
  <2>1. 0 \in G
    BY <1>1, <1>5, <1>7 DEF IsIteration
  <2>2. \A i \in 1 .. n : i - 1 \in G => i \in G
    <3> SUFFICES ASSUME NEW i \in 1 .. n, i - 1 \in G PROVE i \in G
      OBVIOUS
    <3>1. Good(i - 1, f[i - 1]) /\ f[i - 1] \in Queues
      BY <1>6
    <3>2. f[i] = Step1(i, f[i - 1])
      BY <1>7, <3>1 DEF IsIteration
    <3>3. Good(i, f[i])
      BY <1>3, <3>1, <3>2
    <3> QED
      BY <3>3, <1>1
  <2> HIDE DEF G
  <2>3. \A i \in 0 .. n : i \in G
    BY <2>1, <2>2, <1>1, UpTo
  <2> QED
    BY <2>3 DEF G
<1>9. f = [i \in 0 .. n |-> IF i = 0 THEN q ELSE Step1(i, f[i - 1])]
  <2> HIDE DEF Good, Step1
  <2>1. f = [i \in 0 .. n |-> f[i]] /\ f[0] = q
    BY <1>7 DEF IsIteration
  <2>2. \A i \in 0 .. n : i # 0 => f[i] = Step1(i, f[i - 1])
    <3> SUFFICES ASSUME NEW i \in 0 .. n, i # 0 PROVE f[i] = Step1(i, f[i - 1])
      OBVIOUS
    <3>1. i \in 1 .. n /\ i - 1 \in 0 .. n
      BY <1>1
    <3>2. f[i - 1] \in Queues
      BY <3>1, <1>6, <1>8
    <3> QED
      BY <1>7, <3>1, <3>2 DEF IsIteration
  <2> QED
    BY <2>1, <2>2
<1>10. fed = [i \in 0 .. n |-> IF i = 0 THEN q
                               ELSE IF list[i] \in seen[t] THEN fed[i - 1]
                               ELSE Insert(fed[i - 1], QueueSize, Neighbor(list[i], TargetDist(t, list[i])))]
  <2>1. \A i \in 0 .. n : i # 0 => list[i] \in Nodes /\ TargetDist(t, list[i]) = d[list[i]]
    BY <1>1
  <2>2. f = [i \in 0 .. n |-> IF i = 0 THEN q
                               ELSE IF list[i] \in seen[t] THEN f[i - 1]
                               ELSE Insert(f[i - 1], QueueSize, Neighbor(list[i], TargetDist(t, list[i])))]
    BY <1>9, <2>1
  <2> QED
    BY <2>2
<1> HIDE DEF fed
<1>11. \A i \in 0 .. n : fed[i] = IF i = 0 THEN q ELSE Step1(i, fed[i - 1])
  <2>1. \A i \in 0 .. n : i # 0 => list[i] \in Nodes /\ TargetDist(t, list[i]) = d[list[i]]
    BY <1>1
  <2> QED
    BY <1>10, <2>1
<1>12. \A i \in 0 .. n : Good(i, fed[i])
  <2> DEFINE G == {i \in 0 .. n : Good(i, fed[i])}
  <2> HIDE DEF Good, Step1
  <2>1. 0 \in G
    BY <1>1, <1>5, <1>11
  <2>2. \A i \in 1 .. n : i - 1 \in G => i \in G
    <3> SUFFICES ASSUME NEW i \in 1 .. n, i - 1 \in G PROVE i \in G
      OBVIOUS
    <3>1. i \in 0 .. n /\ i # 0
      BY <1>1
    <3> QED
      BY <1>3, <1>11, <3>1
  <2> HIDE DEF G
  <2>3. \A i \in 0 .. n : i \in G
    BY <2>1, <2>2, <1>1, UpTo
  <2> QED
    BY <2>3 DEF G
<1>13. Good(n, r)
  <2> HIDE DEF Good
  <2> QED
    BY <1>1, <1>2, <1>12
<1>14. S(n) = seen[t] \cup Range(list)
  BY <1>1 DEF Range
<1> QED
  <2> HIDE DEF S
  <2> QED
    BY <1>13, <1>14

-------------------------------------------------------------------------------
(* Pruning.                                                                *)

(* Sets of nodes are finite.                                               *)
LEMMA NodesFinite ==
  ASSUME VamanaAssumption, NEW S \in SUBSET Nodes
  PROVE  IsFiniteSet(S) /\ Cardinality(S) \in Nat /\ S \subseteq Int
<1>1. 0 \in Int /\ Size - 1 \in Int
  BY DEF VamanaAssumption
<1>2. IsFiniteSet(Nodes)
  BY <1>1, FS_Interval DEF Nodes
<1>3. IsFiniteSet(S)
  BY <1>2, FS_Subset
<1>4. Cardinality(S) \in Nat
  BY <1>3, FS_CardinalityType
<1> QED
  BY <1>3, <1>4 DEF Nodes

(* Candidate a is before b in the sorted pool of node l.                   *)
Closer(l, a, b) == Less(Neighbor(a, world.dist[l][a]), Neighbor(b, world.dist[l][b]))

(* Distances are integers.                                                 *)
LEMMA DistanceFacts ==
  ASSUME VamanaAssumption, world \in Worlds, NEW x \in Nodes, NEW y \in Nodes
  PROVE  /\ world.dist[x][y] \in Int /\ world.query[y] \in Int /\ world.start \in Nodes
         /\ world.entry \in Nodes \cup {-1} /\ world.ip \in BOOLEAN
BY DEF VamanaAssumption

(* A list of S in the order of the distance from l.                        *)
InOrder(p, S, l) ==
  /\ p \in [1 .. Cardinality(S) -> S]
  /\ \A i, j \in 1 .. Cardinality(S) : i < j => Closer(l, p[i], p[j])

(* Every set of candidates can be sorted.                                  *)
LEMMA OrderExists ==
  ASSUME VamanaAssumption, world \in Worlds, NEW l \in Nodes
  PROVE  \A S \in SUBSET Nodes : \E p : InOrder(p, S, l)
<1> DEFINE T == {n \in Nat : \E S \in SUBSET Nodes : Cardinality(S) = n /\ ~ \E p : InOrder(p, S, l)}
<1>0. T \subseteq Nat
  OBVIOUS
<1>1. T = {}
  <2> SUFFICES ASSUME T # {} PROVE FALSE
    OBVIOUS
  <2>1. PICK n \in T : \A m \in T : n <= m
    <3> HIDE DEF T
    <3> QED
      BY <1>0, LeastNumber
  <2>2. PICK S \in SUBSET Nodes : Cardinality(S) = n /\ ~ \E p : InOrder(p, S, l)
    OBVIOUS
  <2>3. CASE S = {}
    <3>1. Cardinality(S) = 0
      BY <2>3, FS_EmptySet
    <3>2. 1 .. Cardinality(S) = {}
      BY <3>1
    <3> DEFINE p == [i \in 1 .. Cardinality(S) |-> i]
    <3>3. InOrder(p, S, l)
      BY <3>2 DEF InOrder
    <3> QED
      BY <3>3, <2>2
  <2>4. CASE S # {}
    <3>1. IsFiniteSet(S) /\ S \subseteq Int /\ n \in Nat
      BY <2>1, <2>2, NodesFinite
    <3> DEFINE rank == [v \in S |-> world.dist[l][v]]
    <3>2. \A v \in S : rank[v] \in Int /\ rank[v] = world.dist[l][v]
      BY DistanceFacts
    <3>3. PICK e \in S : \A w \in S : rank[e] < rank[w] \/ (rank[e] = rank[w] /\ e <= w)
      <4> HIDE DEF rank
      <4> QED
        BY <2>4, <3>1, <3>2, LeastByRank
    <3>4. \A w \in S \ {e} : Closer(l, e, w)
      <4> SUFFICES ASSUME NEW w \in S, w # e PROVE Closer(l, e, w)
        OBVIOUS
      <4>1. world.dist[l][e] < world.dist[l][w] \/ (world.dist[l][e] = world.dist[l][w] /\ e <= w)
        BY <3>2, <3>3
      <4>2. e < w \/ ~ (e <= w)
        BY <3>1
      <4> HIDE DEF rank
      <4> QED
        BY <4>1, <4>2 DEF Closer, Less, Neighbor
    <3> DEFINE Q == S \ {e}
    <3>5. Q \in SUBSET Nodes /\ Cardinality(Q) = n - 1 /\ IsFiniteSet(Q)
          /\ Cardinality(Q) \in Nat
      BY <3>1, <2>2, FS_RemoveElement, NodesFinite
    <3>6. n - 1 \notin T
      <4> HIDE DEF T
      <4> QED
        BY <2>1, <3>1
    <3>7. PICK p : InOrder(p, Q, l)
      <4> HIDE DEF Q
      <4> QED
        BY <3>5, <3>6
    <3> DEFINE g == [i \in 1 .. n |-> IF i = 1 THEN e ELSE p[i - 1]]
    <3>8. \A i \in 1 .. n : i # 1 => i - 1 \in 1 .. n - 1
      BY <3>1
    <3>9. /\ \A i \in 1 .. n - 1 : p[i] \in Q
          /\ \A i, j \in 1 .. n - 1 : i < j => Closer(l, p[i], p[j])
      <4> HIDE DEF Q
      <4> QED
        BY <3>5, <3>7 DEF InOrder
    <3>10. \A i \in 1 .. n : g[i] \in S
      BY <3>8, <3>9
    <3>11. \A i, j \in 1 .. n : i < j => Closer(l, g[i], g[j])
      <4> SUFFICES ASSUME NEW i \in 1 .. n, NEW j \in 1 .. n, i < j
                   PROVE  Closer(l, g[i], g[j])
        OBVIOUS
      <4>1. j # 1 /\ g[j] = p[j - 1] /\ j - 1 \in 1 .. n - 1 /\ p[j - 1] \in Q
        <5>1. j # 1
          BY <3>1
        <5>2. g[j] = p[j - 1] /\ j - 1 \in 1 .. n - 1
          BY <5>1, <3>8
        <5> HIDE DEF g, Q
        <5> QED
          BY <5>1, <5>2, <3>9
      <4>2. CASE i = 1
        BY <4>1, <4>2, <3>4
      <4>3. CASE i # 1
        <5>1. g[i] = p[i - 1] /\ i - 1 \in 1 .. n - 1 /\ i - 1 < j - 1
          BY <4>3, <3>8
        <5> HIDE DEF g
        <5> QED
          BY <4>1, <5>1, <3>9
      <4> QED
        BY <4>2, <4>3
    <3>12. g \in [1 .. n -> S]
      <4>1. g = [i \in 1 .. n |-> g[i]]
        OBVIOUS
      <4> HIDE DEF g
      <4> QED
        BY <4>1, <3>10
    <3> HIDE DEF g
    <3>13. InOrder(g, S, l)
      BY <2>2, <3>11, <3>12 DEF InOrder
    <3> QED
      BY <3>13, <2>2
  <2> QED
    BY <2>3, <2>4
<1>2. ASSUME NEW S \in SUBSET Nodes PROVE \E p : InOrder(p, S, l)
  <2>1. Cardinality(S) \in Nat
    BY NodesFinite
  <2>2. Cardinality(S) \notin T
    BY <1>1
  <2> QED
    BY <2>1, <2>2
<1> QED
  BY <1>2

(* The sorted pool has each candidate once.                                *)
LEMMA ByDistanceFacts ==
  ASSUME VamanaAssumption, world \in Worlds, NEW l \in Nodes, NEW S \in SUBSET Nodes,
         NEW p, p = ByDistance(l, S)
  PROVE  /\ p \in Seq(S) /\ Len(p) = Cardinality(S)
         /\ \A i, j \in DOMAIN p : p[i] = p[j] => i = j
<1> DEFINE n == Cardinality(S)
<1>1. n \in Nat /\ S \subseteq Int
  BY NodesFinite
<1>2. PICK g : InOrder(g, S, l)
  BY OrderExists
<1>3. \A i, j \in 1 .. n : i # j => g[i] # g[j]
  <2> SUFFICES ASSUME NEW i \in 1 .. n, NEW j \in 1 .. n, i # j, g[i] = g[j] PROVE FALSE
    OBVIOUS
  <2>1. Closer(l, g[i], g[i])
    <3>1. i < j \/ j < i
      BY <1>1
    <3> QED
      BY <3>1, <1>2 DEF InOrder
  <2>2. g[i] \in Nodes /\ g[i] \in Int
    BY <1>1, <1>2 DEF InOrder
  <2>3. world.dist[l][g[i]] \in Int
    BY <2>2, DistanceFacts
  <2>4. Less(Neighbor(g[i], world.dist[l][g[i]]), Neighbor(g[i], world.dist[l][g[i]]))
    BY <2>1 DEF Closer
  <2> QED
    BY <2>2, <2>3, <2>4, NotBelowItself
<1>4. g \in SetToSeqs(S)
  BY <1>2, <1>3 DEF InOrder, SetToSeqs
<1>5. \A i, j \in DOMAIN g : i < j => Closer(l, g[i], g[j])
  BY <1>2 DEF InOrder
<1>6. p \in SetToSeqs(S)
  BY <1>4, <1>5 DEF ByDistance, Closer
<1>7. p \in [1 .. n -> S] /\ \A i, j \in 1 .. n : i # j => p[i] # p[j]
  BY <1>6 DEF SetToSeqs
<1> HIDE DEF n
<1>8. p \in Seq(S) /\ Len(p) = n
  BY <1>1, <1>7
<1> QED
  BY <1>7, <1>8 DEF n

(* What occlude_list may have chosen of n candidates.                      *)
Picks(n) ==
  {c \in Seq((1 .. n) \X Nat) :
     Len(c) <= R /\ \A i, j \in DOMAIN c : c[i][1] = c[j][1] => i = j}

(* One turn of the inner loop.                                             *)
Turn(l, p, c, r, t) ==
  IF \/ Len(c) >= R
     \/ \E i \in DOMAIN c : c[i][1] = t
     \/ Occluded(l, p, c, r, t)
  THEN c
  ELSE Append(c, <<t, r>>)

(* A turn keeps the choice distinct and within the range, and the first    *)
(* candidate is taken if nothing has been.                                 *)
LEMMA TurnFacts ==
  ASSUME VamanaAssumption, NEW l, NEW p, NEW n \in Nat, NEW r \in Nat, NEW t \in 1 .. n,
         NEW c \in Picks(n), NEW d, d = Turn(l, p, c, r, t)
  PROVE  /\ d \in Picks(n)
         /\ c # << >> \/ t = 1 => d # << >>
<1>0. R \in Nat /\ R >= 1
  BY DEF VamanaAssumption
<1>1. /\ c \in Seq((1 .. n) \X Nat) /\ Len(c) <= R /\ Len(c) \in Nat
      /\ DOMAIN c = 1 .. Len(c)
      /\ \A i, j \in 1 .. Len(c) : c[i][1] = c[j][1] => i = j
  <2>1. c \in Seq((1 .. n) \X Nat) /\ Len(c) <= R
        /\ \A i, j \in DOMAIN c : c[i][1] = c[j][1] => i = j
    BY DEF Picks
  <2>2. Len(c) \in Nat /\ DOMAIN c = 1 .. Len(c)
    BY <2>1
  <2> QED
    BY <2>1, <2>2
<1>2. CASE d = c /\ (t = 1 => c # << >>)
  BY <1>2
<1>3. CASE d = Append(c, <<t, r>>) /\ Len(c) < R /\ ~ \E i \in DOMAIN c : c[i][1] = t
  <2>1. <<t, r>> \in (1 .. n) \X Nat
    OBVIOUS
  <2>2. d \in Seq((1 .. n) \X Nat) /\ Len(d) = Len(c) + 1 /\ DOMAIN d = 1 .. Len(c) + 1
    BY <1>1, <1>3, <2>1
  <2>3. /\ \A i \in 1 .. Len(c) : d[i] = c[i]
        /\ d[Len(c) + 1] = <<t, r>>
    BY <1>1, <1>3
  <2>4. Len(d) <= R
    BY <1>0, <1>1, <1>3, <2>2
  <2>5. \A i, j \in DOMAIN d : d[i][1] = d[j][1] => i = j
    <3> SUFFICES ASSUME NEW i \in 1 .. Len(c) + 1, NEW j \in 1 .. Len(c) + 1, d[i][1] = d[j][1]
                 PROVE  i = j
      BY <2>2
    <3>1. (i \in 1 .. Len(c) \/ i = Len(c) + 1) /\ (j \in 1 .. Len(c) \/ j = Len(c) + 1)
      BY <1>1, LastIndex
    <3>2. \A k \in 1 .. Len(c) : c[k][1] # t
      BY <1>1, <1>3
    <3>3. d[Len(c) + 1][1] = t
      BY <2>3
    <3>4. CASE i \in 1 .. Len(c) /\ j \in 1 .. Len(c)
      <4>1. c[i][1] = c[j][1]
        BY <2>3, <3>4
      <4> QED
        BY <4>1, <3>4, <1>1
    <3>5. CASE i \in 1 .. Len(c) /\ j = Len(c) + 1
      <4>1. c[i][1] = t
        BY <2>3, <3>3, <3>5
      <4> QED
        BY <4>1, <3>2, <3>5
    <3>6. CASE i = Len(c) + 1 /\ j \in 1 .. Len(c)
      <4>1. c[j][1] = t
        BY <2>3, <3>3, <3>6
      <4> QED
        BY <4>1, <3>2, <3>6
    <3> QED
      BY <3>1, <3>4, <3>5, <3>6
  <2>6. d # << >>
    BY <2>2, <1>1
  <2> QED
    BY <2>2, <2>4, <2>5, <2>6 DEF Picks
<1>4. \/ d = c /\ (t = 1 => c # << >>)
      \/ d = Append(c, <<t, r>>) /\ Len(c) < R /\ ~ \E i \in DOMAIN c : c[i][1] = t
  <2>1. CASE Len(c) >= R
    <3>1. d = c
      BY <2>1 DEF Turn
    <3>2. c # << >>
      BY <2>1, <1>0, <1>1
    <3> QED
      BY <3>1, <3>2
  <2>2. CASE \E i \in DOMAIN c : c[i][1] = t
    <3>1. d = c
      BY <2>2 DEF Turn
    <3>2. c # << >>
      BY <2>2, <1>1
    <3> QED
      BY <3>1, <3>2
  <2>3. CASE ~ (Len(c) >= R) /\ ~ \E i \in DOMAIN c : c[i][1] = t
    <3>1. CASE Occluded(l, p, c, r, t)
      <4>1. d = c
        BY <3>1 DEF Turn
      <4>2. c # << >>
        BY <3>1, <1>1 DEF Occluded, Range
      <4> QED
        BY <4>1, <4>2
    <3>2. CASE ~ Occluded(l, p, c, r, t)
      <4>1. d = Append(c, <<t, r>>)
        BY <2>3, <3>2 DEF Turn
      <4> QED
        <5>1. Len(c) < R
          BY <2>3, <1>0, <1>1
        <5> QED
          BY <4>1, <5>1, <2>3
    <3> QED
      BY <3>1, <3>2
  <2> QED
    BY <2>1, <2>2, <2>3
<1> QED
  BY <1>2, <1>3, <1>4

(* So does a round.                                                        *)
LEMMA RoundFacts ==
  ASSUME VamanaAssumption, NEW l, NEW p, Len(p) \in Nat, NEW r \in Nat,
         NEW before \in Picks(Len(p)), NEW d, d = Round(l, p, before, r)
  PROVE  /\ d \in Picks(Len(p))
         /\ before # << >> \/ Len(p) # 0 => d # << >>
<1> DEFINE n == Len(p)
           Good(t, c) == c \in Picks(n) /\ (before # << >> \/ t # 0 => c # << >>)
           step == [t \in 1 .. n |-> [c \in Picks(n) |-> Turn(l, p, c, r, t)]]
           chosen == CHOOSE chosen : chosen =
                       [t \in 0 .. n |->
                          IF t = 0 THEN before
                          ELSE IF \/ Len(chosen[t - 1]) >= R
                                  \/ \E i \in DOMAIN chosen[t - 1] : chosen[t - 1][i][1] = t
                                  \/ Occluded(l, p, chosen[t - 1], r, t)
                          THEN chosen[t - 1]
                          ELSE Append(chosen[t - 1], <<t, r>>)]
<1>1. d = chosen[n]
  BY DEF Round
<1>2. n \in Nat /\ before \in Picks(n)
  OBVIOUS
<1> HIDE DEF n
<1>3. \A t \in 1 .. n : \A c : Good(t - 1, c) => Good(t, Turn(l, p, c, r, t))
  <2> SUFFICES ASSUME NEW t \in 1 .. n, NEW c, Good(t - 1, c)
               PROVE  Good(t, Turn(l, p, c, r, t))
    OBVIOUS
  <2>1. c \in Picks(n) /\ (t = 1 \/ c # << >>)
    BY <1>2
  <2>2. Turn(l, p, c, r, t) \in Picks(n) /\ Turn(l, p, c, r, t) # << >>
    BY <1>2, <2>1, TurnFacts
  <2> QED
    BY <2>2
<1>4. Good(0, before)
  BY <1>2
<1>5. \A t, c : Good(t, c) => c \in Picks(n)
  OBVIOUS
<1>6. PICK f : IsIteration(f, n, before, step)
  <2> HIDE DEF step
  <2> QED
    BY <1>2, IterationExists
<1>7. \A t \in 0 .. n : Good(t, f[t])
  <2> DEFINE G == {t \in 0 .. n : Good(t, f[t])}
  <2> HIDE DEF Good
  <2>1. 0 \in G
    BY <1>2, <1>4, <1>6 DEF IsIteration
  <2>2. \A t \in 1 .. n : t - 1 \in G => t \in G
    <3> SUFFICES ASSUME NEW t \in 1 .. n, t - 1 \in G PROVE t \in G
      OBVIOUS
    <3>1. Good(t - 1, f[t - 1]) /\ f[t - 1] \in Picks(n)
      BY <1>5
    <3>2. f[t] = Turn(l, p, f[t - 1], r, t)
      BY <1>6, <3>1 DEF IsIteration
    <3>3. Good(t, f[t])
      BY <1>3, <3>1, <3>2
    <3> QED
      BY <3>3, <1>2
  <2> HIDE DEF G
  <2>3. \A t \in 0 .. n : t \in G
    BY <2>1, <2>2, <1>2, UpTo
  <2> QED
    BY <2>3 DEF G
<1>8. f = [t \in 0 .. n |-> IF t = 0 THEN before ELSE Turn(l, p, f[t - 1], r, t)]
  <2> HIDE DEF Good
  <2>1. f = [t \in 0 .. n |-> f[t]] /\ f[0] = before
    BY <1>6 DEF IsIteration
  <2>2. \A t \in 0 .. n : t # 0 => f[t] = Turn(l, p, f[t - 1], r, t)
    <3> SUFFICES ASSUME NEW t \in 0 .. n, t # 0 PROVE f[t] = Turn(l, p, f[t - 1], r, t)
      OBVIOUS
    <3>1. t \in 1 .. n /\ t - 1 \in 0 .. n
      BY <1>2
    <3>2. f[t - 1] \in Picks(n)
      BY <3>1, <1>5, <1>7
    <3> QED
      BY <1>6, <3>1, <3>2 DEF IsIteration
  <2> QED
    BY <2>1, <2>2
<1>9. chosen = [t \in 0 .. n |->
                          IF t = 0 THEN before
                          ELSE IF \/ Len(chosen[t - 1]) >= R
                                  \/ \E i \in DOMAIN chosen[t - 1] : chosen[t - 1][i][1] = t
                                  \/ Occluded(l, p, chosen[t - 1], r, t)
                          THEN chosen[t - 1]
                          ELSE Append(chosen[t - 1], <<t, r>>)]
  BY <1>8 DEF Turn
<1> HIDE DEF chosen
<1>10. \A t \in 0 .. n : chosen[t] = IF t = 0 THEN before ELSE Turn(l, p, chosen[t - 1], r, t)
  BY <1>9 DEF Turn
<1>11. \A t \in 0 .. n : Good(t, chosen[t])
  <2> DEFINE G == {t \in 0 .. n : Good(t, chosen[t])}
  <2> HIDE DEF Good
  <2>1. 0 \in G
    BY <1>2, <1>4, <1>10
  <2>2. \A t \in 1 .. n : t - 1 \in G => t \in G
    <3> SUFFICES ASSUME NEW t \in 1 .. n, t - 1 \in G PROVE t \in G
      OBVIOUS
    <3>1. t \in 0 .. n /\ t # 0
      BY <1>2
    <3> QED
      BY <1>3, <1>10, <3>1
  <2> HIDE DEF G
  <2>3. \A t \in 0 .. n : t \in G
    BY <2>1, <2>2, <1>2, UpTo
  <2> QED
    BY <2>3 DEF G
<1> QED
  <2>1. Good(n, d)
    <3> HIDE DEF Good
    <3> QED
      BY <1>1, <1>2, <1>11
  <2> QED
    BY <2>1 DEF n

(* All the rounds: at most R positions, all different, and one at least if *)
(* there is a candidate.                                                   *)
LEMMA OccludeFacts ==
  ASSUME VamanaAssumption, NEW l, NEW p, Len(p) \in Nat, NEW d, d = Occlude(l, p)
  PROVE  /\ d \in Picks(Len(p))
         /\ Len(p) # 0 => d # << >>
<1> DEFINE n == Len(Alphas)
           Good(r, c) == c \in Picks(Len(p)) /\ (r # 0 /\ Len(p) # 0 => c # << >>)
           step == [r \in 1 .. n |-> [c \in Picks(Len(p)) |-> Round(l, p, c, r)]]
           after == CHOOSE after : after =
                      [r \in 0 .. n |-> IF r = 0 THEN << >> ELSE Round(l, p, after[r - 1], r)]
<1>1. d = after[n]
  BY DEF Occlude
<1>2. n \in Nat /\ n # 0
  BY DEF VamanaAssumption
<1> HIDE DEF n
<1>3. \A r \in 1 .. n : \A c : Good(r - 1, c) => Good(r, Round(l, p, c, r))
  <2> SUFFICES ASSUME NEW r \in 1 .. n, NEW c, Good(r - 1, c)
               PROVE  Good(r, Round(l, p, c, r))
    OBVIOUS
  <2>1. c \in Picks(Len(p)) /\ r \in Nat
    BY <1>2
  <2>2. Round(l, p, c, r) \in Picks(Len(p))
    BY <2>1, RoundFacts
  <2>3. Len(p) # 0 => Round(l, p, c, r) # << >>
    BY <2>1, RoundFacts
  <2> QED
    BY <2>2, <2>3
<1>4. Good(0, << >>)
  <2>1. << >> \in Picks(Len(p))
    BY DEF Picks, VamanaAssumption
  <2> QED
    BY <2>1
<1>5. \A r, c : Good(r, c) => c \in Picks(Len(p))
  OBVIOUS
<1>6. PICK f : IsIteration(f, n, << >>, step)
  <2> HIDE DEF step
  <2> QED
    BY <1>2, IterationExists
<1>7. \A r \in 0 .. n : Good(r, f[r])
  <2> DEFINE G == {r \in 0 .. n : Good(r, f[r])}
  <2> HIDE DEF Good
  <2>1. 0 \in G
    BY <1>2, <1>4, <1>6 DEF IsIteration
  <2>2. \A r \in 1 .. n : r - 1 \in G => r \in G
    <3> SUFFICES ASSUME NEW r \in 1 .. n, r - 1 \in G PROVE r \in G
      OBVIOUS
    <3>1. Good(r - 1, f[r - 1]) /\ f[r - 1] \in Picks(Len(p))
      BY <1>5
    <3>2. f[r] = Round(l, p, f[r - 1], r)
      BY <1>6, <3>1 DEF IsIteration
    <3>3. Good(r, f[r])
      BY <1>3, <3>1, <3>2
    <3> QED
      BY <3>3, <1>2
  <2> HIDE DEF G
  <2>3. \A r \in 0 .. n : r \in G
    BY <2>1, <2>2, <1>2, UpTo
  <2> QED
    BY <2>3 DEF G
<1>8. f = [r \in 0 .. n |-> IF r = 0 THEN << >> ELSE Round(l, p, f[r - 1], r)]
  <2> HIDE DEF Good
  <2>1. f = [r \in 0 .. n |-> f[r]] /\ f[0] = << >>
    BY <1>6 DEF IsIteration
  <2>2. \A r \in 0 .. n : r # 0 => f[r] = Round(l, p, f[r - 1], r)
    <3> SUFFICES ASSUME NEW r \in 0 .. n, r # 0 PROVE f[r] = Round(l, p, f[r - 1], r)
      OBVIOUS
    <3>1. r \in 1 .. n /\ r - 1 \in 0 .. n
      BY <1>2
    <3>2. f[r - 1] \in Picks(Len(p))
      BY <3>1, <1>5, <1>7
    <3> QED
      BY <1>6, <3>1, <3>2 DEF IsIteration
  <2> QED
    BY <2>1, <2>2
<1>9. after = [r \in 0 .. n |-> IF r = 0 THEN << >> ELSE Round(l, p, after[r - 1], r)]
  BY <1>8
<1> HIDE DEF after
<1>10. \A r \in 0 .. n : after[r] = IF r = 0 THEN << >> ELSE Round(l, p, after[r - 1], r)
  BY <1>9
<1>11. \A r \in 0 .. n : Good(r, after[r])
  <2> DEFINE G == {r \in 0 .. n : Good(r, after[r])}
  <2> HIDE DEF Good
  <2>1. 0 \in G
    BY <1>2, <1>4, <1>10
  <2>2. \A r \in 1 .. n : r - 1 \in G => r \in G
    <3> SUFFICES ASSUME NEW r \in 1 .. n, r - 1 \in G PROVE r \in G
      OBVIOUS
    <3>1. r \in 0 .. n /\ r # 0
      BY <1>2
    <3> QED
      BY <1>3, <1>10, <3>1
  <2> HIDE DEF G
  <2>3. \A r \in 0 .. n : r \in G
    BY <2>1, <2>2, <1>2, UpTo
  <2> QED
    BY <2>3 DEF G
<1>12. Good(n, d)
  <2> HIDE DEF Good
  <2> QED
    BY <1>1, <1>2, <1>11
<1> QED
  BY <1>2, <1>12

(* What prune_neighbors returns.                                           *)
IsPruned(r, l, S) ==
  /\ r \in Seq(Nodes) /\ Len(r) <= R
  /\ Range(r) \subseteq S \ {l}
  /\ \A i, j \in DOMAIN r : r[i] = r[j] => i = j
  /\ S \ {l} # {} => r # << >>

LEMMA PruneFacts ==
  ASSUME VamanaAssumption, world \in Worlds, NEW l \in Nodes, NEW S \in SUBSET Nodes,
         NEW r, r = Prune(l, S)
  PROVE  IsPruned(r, l, S)
<1> DEFINE all == ByDistance(l, Candidates(l, S))
           n == IF Len(all) > MaxC THEN MaxC ELSE Len(all)
           p == [i \in 1 .. n |-> all[i]]
           c == Occlude(l, p)
<1>0. r = [i \in DOMAIN c |-> p[c[i][1]]]
  BY DEF Prune
<1>1. Candidates(l, S) = S \ {l} /\ S \ {l} \in SUBSET Nodes
  BY DEF Candidates
<1>2. /\ all \in Seq(S \ {l}) /\ Len(all) = Cardinality(S \ {l})
      /\ \A i, j \in DOMAIN all : all[i] = all[j] => i = j
  <2> HIDE DEF all
  <2>1. all = ByDistance(l, S \ {l})
    BY <1>1 DEF all
  <2> QED
    BY <1>1, <2>1, ByDistanceFacts
<1> HIDE DEF all
<1>3. Len(all) \in Nat /\ DOMAIN all = 1 .. Len(all)
      /\ \A i \in 1 .. Len(all) : all[i] \in S \ {l}
  <2>1. all \in Seq(S \ {l})
    BY <1>2
  <2> QED
    BY <2>1
<1>4. n \in Nat /\ n <= Len(all) /\ (Len(all) # 0 => n # 0)
  BY <1>3 DEF VamanaAssumption
<1> HIDE DEF n
<1>5. /\ \A i \in 1 .. n : p[i] \in S \ {l}
      /\ \A i, j \in 1 .. n : p[i] = p[j] => i = j
  <2>1. \A i \in 1 .. n : i \in 1 .. Len(all) /\ p[i] = all[i]
    BY <1>3, <1>4
  <2>2. \A i, j \in 1 .. Len(all) : all[i] = all[j] => i = j
    BY <1>2, <1>3
  <2> HIDE DEF p
  <2> QED
    BY <2>1, <2>2, <1>3
<1>6. p \in Seq(S \ {l}) /\ Len(p) = n
  <2>1. p = [i \in 1 .. n |-> p[i]]
    OBVIOUS
  <2> HIDE DEF p
  <2>2. p \in [1 .. n -> S \ {l}]
    BY <2>1, <1>5
  <2> QED
    BY <2>2, <1>4
<1> HIDE DEF p
<1>7. c \in Picks(n) /\ (n # 0 => c # << >>)
  <2> HIDE DEF c
  <2>1. c = Occlude(l, p) /\ Len(p) \in Nat
    BY <1>4, <1>6 DEF c
  <2>2. c \in Picks(Len(p))
    BY <2>1, OccludeFacts
  <2>3. Len(p) # 0 => c # << >>
    BY <2>1, OccludeFacts
  <2> QED
    BY <2>2, <2>3, <1>6
<1> HIDE DEF c
<1>8. /\ c \in Seq((1 .. n) \X Nat) /\ Len(c) <= R
      /\ \A i, j \in DOMAIN c : c[i][1] = c[j][1] => i = j
  BY <1>7 DEF Picks
<1>9. Len(c) \in Nat /\ DOMAIN c = 1 .. Len(c) /\ \A i \in 1 .. Len(c) : c[i][1] \in 1 .. n
  <2>1. Len(c) \in Nat /\ DOMAIN c = 1 .. Len(c)
    BY <1>8
  <2>2. \A i \in 1 .. Len(c) : c[i] \in (1 .. n) \X Nat
    BY <1>8
  <2>3. \A i \in 1 .. Len(c) : c[i][1] \in 1 .. n
    BY <2>2
  <2> QED
    BY <2>1, <2>3
<1>10. r = [i \in 1 .. Len(c) |-> p[c[i][1]]]
  BY <1>0, <1>9
<1>11. \A i \in 1 .. Len(c) : r[i] \in S \ {l} /\ r[i] \in Nodes /\ r[i] = p[c[i][1]]
  BY <1>5, <1>9, <1>10
<1>12. r \in Seq(Nodes) /\ Len(r) = Len(c) /\ DOMAIN r = 1 .. Len(c)
  <2>1. r = [i \in 1 .. Len(c) |-> r[i]]
    BY <1>10
  <2> QED
    BY <2>1, <1>9, <1>11
<1>13. Range(r) \subseteq S \ {l}
  BY <1>11, <1>12 DEF Range
<1>14. \A i, j \in 1 .. Len(c) : r[i] = r[j] => i = j
  <2> SUFFICES ASSUME NEW i \in 1 .. Len(c), NEW j \in 1 .. Len(c), r[i] = r[j] PROVE i = j
    OBVIOUS
  <2>1. p[c[i][1]] = p[c[j][1]] /\ c[i][1] \in 1 .. n /\ c[j][1] \in 1 .. n
    BY <1>9, <1>11
  <2>2. c[i][1] = c[j][1]
    BY <2>1, <1>5
  <2> QED
    BY <2>2, <1>8, <1>9
<1>15. ASSUME S \ {l} # {} PROVE r # << >>
  <2>1. IsFiniteSet(S \ {l})
    BY NodesFinite, <1>1
  <2>2. Len(all) # 0
    BY <1>2, <1>15, <2>1, FS_EmptySet
  <2>3. c # << >>
    BY <2>2, <1>4, <1>7
  <2>4. Len(c) # 0
    BY <2>3, <1>8
  <2> QED
    BY <2>4, <1>12
<1> QED
  BY <1>8, <1>12, <1>13, <1>14, <1>15 DEF IsPruned

-------------------------------------------------------------------------------
(* The state of the construction.                                          *)

(* What the assumptions on the constants amount to.                        *)
LEMMA ConstantFacts ==
  ASSUME VamanaAssumption
  PROVE  /\ Size \in Nat /\ Size >= 1 /\ Chunk \in Nat /\ Chunk >= 1
         /\ R \in Nat /\ R >= 1 /\ Slack \in Nat /\ R <= Slack
         /\ LBuild \in Nat \ {0} /\ LSearch \in Nat \ {0} /\ QueueSize \in Nat \ {0}
         /\ Querier \in Threads
         /\ \A x \in Nodes : x \in Int
<1>1. Querier \in Threads
  BY DEF VamanaAssumption, Querier
<1> QED
  BY <1>1 DEF VamanaAssumption, QueueSize, Nodes

(* The distances of the nodes from what thread t searches for.             *)
Target(t) == [x \in Nodes |-> TargetDist(t, x)]

(* Every queue holds the nearest of the nodes its search has met.          *)
QueuesHold == \A t \in Threads : Holds(Target(t), QueueSize, queue[t], seen[t])

(* A queue has nodes only that its search has met.                         *)
SeenIsEnough == \A t \in Threads : Ids(queue[t]) \subseteq seen[t]

(* That is what QueueOK says.                                              *)
LEMMA QueuesToInv ==
  seen \in [Threads -> SUBSET Nodes] /\ QueuesHold => QueueOK /\ SeenIsEnough
<1> SUFFICES ASSUME seen \in [Threads -> SUBSET Nodes], QueuesHold
             PROVE  QueueOK /\ SeenIsEnough
  OBVIOUS
<1>1. ASSUME NEW t \in Threads
      PROVE  /\ Ids(queue[t]) \subseteq seen[t]
             /\ \A i \in DOMAIN queue[t].data : queue[t].data[i].distance = TargetDist(t, queue[t].data[i].id)
             /\ Sorted(queue[t]) /\ CursorAtFirst(queue[t])
             /\ Len(queue[t].data) <= QueueSize
             /\ \A x \in seen[t] \ Ids(queue[t]) :
                  /\ Len(queue[t].data) = QueueSize
                  /\ Less(queue[t].data[QueueSize], Neighbor(x, TargetDist(t, x)))
  <2>1. Holds(Target(t), QueueSize, queue[t], seen[t]) /\ seen[t] \subseteq Nodes
    BY DEF QueuesHold
  <2>2. \A x \in Nodes : Target(t)[x] = TargetDist(t, x)
    BY DEF Target
  <2>3. Ids(queue[t]) \subseteq seen[t] /\ Sorted(queue[t]) /\ CursorAtFirst(queue[t])
        /\ Len(queue[t].data) <= QueueSize
    BY <2>1 DEF Holds
  <2>4. \A i \in DOMAIN queue[t].data : queue[t].data[i].id \in Nodes
    BY <2>1, <2>3 DEF Ids
  <2>5. \A i \in DOMAIN queue[t].data : queue[t].data[i].distance = TargetDist(t, queue[t].data[i].id)
    BY <2>1, <2>2, <2>4 DEF Holds
  <2>6. \A x \in seen[t] \ Ids(queue[t]) :
          /\ Len(queue[t].data) = QueueSize
          /\ Less(queue[t].data[QueueSize], Neighbor(x, TargetDist(t, x)))
    BY <2>1, <2>2 DEF Holds
  <2> QED
    BY <2>3, <2>5, <2>6
<1> QED
  BY <1>1 DEF QueueOK, SeenIsEnough

(* And QueueOK says it all.                                                *)
LEMMA InvToQueues ==
  TypeOK /\ QueueOK => QueuesHold
<1> SUFFICES ASSUME TypeOK, QueueOK, NEW t \in Threads
             PROVE  Holds(Target(t), QueueSize, queue[t], seen[t])
  BY DEF QueuesHold
<1>1. queue[t] \in Queues /\ seen[t] \subseteq Nodes /\ Ids(queue[t]) \subseteq seen[t]
  BY DEF TypeOK, Queues
<1>2. \A x \in Nodes : Target(t)[x] = TargetDist(t, x)
  BY DEF Target
<1>3. /\ \A i \in DOMAIN queue[t].data : queue[t].data[i].distance = TargetDist(t, queue[t].data[i].id)
      /\ Sorted(queue[t]) /\ CursorAtFirst(queue[t])
      /\ Len(queue[t].data) <= QueueSize
      /\ \A x \in seen[t] \ Ids(queue[t]) :
           /\ Len(queue[t].data) = QueueSize
           /\ Less(queue[t].data[QueueSize], Neighbor(x, TargetDist(t, x)))
  BY DEF QueueOK
<1>4. \A i \in DOMAIN queue[t].data : queue[t].data[i].id \in Nodes
  BY <1>1 DEF Ids
<1>5. \A i \in DOMAIN queue[t].data : queue[t].data[i].distance = Target(t)[queue[t].data[i].id]
  BY <1>2, <1>3, <1>4
<1>6. \A x \in seen[t] \ Ids(queue[t]) :
           /\ Len(queue[t].data) = QueueSize
           /\ Less(queue[t].data[QueueSize], Neighbor(x, Target(t)[x]))
  BY <1>1, <1>2, <1>3
<1> QED
  BY <1>1, <1>3, <1>5, <1>6 DEF Holds

(* The empty queue holds the nearest of no nodes.                          *)
LEMMA HoldsEmpty ==
  ASSUME NEW d, NEW capacity \in Nat
  PROVE  Holds(d, capacity, EmptyQueue, {}) /\ \A i \in DOMAIN EmptyQueue.data : FALSE
<1>1. /\ EmptyQueue.data = << >> /\ EmptyQueue.cur = 1 /\ DOMAIN EmptyQueue.data = {}
      /\ Len(EmptyQueue.data) = 0 /\ EmptyQueue \in Queues
  BY DEF EmptyQueue, Queues
<1>2. Ids(EmptyQueue) = {}
  BY <1>1 DEF Ids
<1>3. Sorted(EmptyQueue) /\ CursorAtFirst(EmptyQueue)
  BY <1>1 DEF Sorted, CursorAtFirst, HasUnexpanded
<1> QED
  BY <1>1, <1>2, <1>3 DEF Holds

(* The cursor of queue r is at node x, and nothing has been expanded.      *)
StartsAt(r, x) ==
  /\ HasUnexpanded(r) /\ r.data[r.cur].id = x
  /\ \A i \in DOMAIN r.data : ~ r.data[i].expanded

(* The queue with which a search starts at node x.                         *)
LEMMA StartQueue ==
  ASSUME NEW d \in [Nodes -> Int], NEW capacity \in Nat \ {0}, NEW x \in Nodes,
         NEW r, r = Insert(EmptyQueue, capacity, Neighbor(x, d[x]))
  PROVE  /\ Holds(d, capacity, r, {x})
         /\ StartsAt(r, x)
<1>1. Holds(d, capacity, EmptyQueue, {})
  BY HoldsEmpty
<1>2. {} \in SUBSET Nodes /\ {} \cup {x} = {x}
  OBVIOUS
<1>3. Holds(d, capacity, r, {} \cup {x})
  BY <1>1, <1>2, HoldsInsert
<1>4. Holds(d, capacity, r, {x})
  BY <1>2, <1>3
<1>5. NoneNewExpanded(r, EmptyQueue)
  BY <1>1, <1>2, HoldsInsert
<1>6. \A i \in DOMAIN r.data : ~ r.data[i].expanded
  BY <1>5, HoldsEmpty DEF NoneNewExpanded
<1>7. /\ r.data \in Seq(Entries) /\ Len(r.data) \in Nat /\ DOMAIN r.data = 1 .. Len(r.data)
      /\ r.cur \in 1 .. Len(r.data) + 1 /\ \A i \in 1 .. r.cur - 1 : r.data[i].expanded
      /\ Ids(r) \subseteq {x}
  BY <1>4 DEF Holds, Queues, CursorAtFirst
<1>8. Len(r.data) # 0
  <2>1. CASE x \in Ids(r)
    BY <2>1, <1>7 DEF Ids
  <2>2. CASE x \notin Ids(r)
    <3>1. Len(r.data) = capacity
      BY <2>2, <1>4 DEF Holds
    <3> QED
      BY <3>1
  <2> QED
    BY <2>1, <2>2
<1>9. r.cur = 1
  <2> SUFFICES ASSUME r.cur # 1 PROVE FALSE
    OBVIOUS
  <2>1. 1 \in 1 .. r.cur - 1 /\ 1 \in DOMAIN r.data
    BY <1>7, <1>8
  <2> QED
    BY <2>1, <1>6, <1>7
<1>10. 1 \in DOMAIN r.data
  BY <1>7, <1>8
<1>11. r.data[1].id \in Ids(r)
  BY <1>10 DEF Ids
<1> QED
  BY <1>4, <1>6, <1>7, <1>8, <1>9, <1>11 DEF HasUnexpanded, StartsAt

(* What a thread searches for has a distance from every node.              *)
LEMMA TargetFacts ==
  ASSUME VamanaAssumption, TypeOK, NEW t \in Threads, phase = "link" => chunk[t] # << >>
  PROVE  Target(t) \in [Nodes -> Int] /\ \A x \in Nodes : Target(t)[x] = TargetDist(t, x)
<1>1. CASE phase = "link"
  <2>1. chunk[t] \in Seq(Nodes) /\ chunk[t] # << >> /\ world \in Worlds
    BY <1>1 DEF TypeOK
  <2>2. Head(chunk[t]) \in Nodes
    BY <2>1
  <2>3. \A x \in Nodes : TargetDist(t, x) \in Int
    BY <1>1, <2>1, <2>2, DistanceFacts DEF TargetDist
  <2> QED
    BY <2>3 DEF Target
<1>2. CASE phase # "link"
  <2>1. world \in Worlds
    BY DEF TypeOK
  <2>2. \A x \in Nodes : world.query[x] \in Int
    BY <2>1, DistanceFacts
  <2>3. \A x \in Nodes : TargetDist(t, x) \in Int
    BY <1>2, <2>2 DEF TargetDist
  <2> QED
    BY <2>3 DEF Target
<1> QED
  BY <1>1, <1>2

(* The invariant holds initially.                                          *)
LEMMA InitIInv ==
  ASSUME VamanaAssumption, Init
  PROVE  IInv /\ NeverStranded
<1>1. TypeOK
  <2>1. \A t \in Threads : Ids(queue[t]) \subseteq seen[t] /\ pool[t] \subseteq seen[t]
    BY DEF Init, EmptyQueue, Ids
  <2>2. queue \in [Threads -> [data : Seq(Entries), cur : Nat]]
    <3>1. EmptyQueue \in [data : Seq(Entries), cur : Nat]
      BY DEF EmptyQueue
    <3> QED
      BY <3>1 DEF Init
  <2> QED
    BY <2>1, <2>2, ConstantFacts DEF TypeOK, Init
<1>2. ListsOK
  BY ConstantFacts DEF ListsOK, Init, Range
<1>3. QueueOK
  <2>1. QueuesHold
    BY HoldsEmpty, ConstantFacts DEF QueuesHold, Init
  <2> QED
    BY <1>1, <2>1, QueuesToInv DEF TypeOK
<1>4. ThreadsOK
  BY DEF ThreadsOK, Init
<1>5. CleanupOK
  BY DEF CleanupOK, Init
<1>6. SearchOK
  BY DEF SearchOK, Init
<1>7. NeverStranded
  <2>1. Linked = {}
    BY ConstantFacts DEF Linked, Init, Nodes
  <2> QED
    BY <2>1 DEF NeverStranded
<1> QED
  BY <1>1, <1>2, <1>3, <1>4, <1>5, <1>6, <1>7 DEF IInv

(* QueueOK holds after a step if every queue that is not as before holds   *)
(* what it should.                                                         *)
LEMMA QueuesPrimed ==
  ASSUME VamanaAssumption, TypeOK, QueueOK,
         (seen \in [Threads -> SUBSET Nodes])',
         \A u \in Threads :
           \/ /\ queue'[u] = queue[u] /\ seen'[u] = seen[u]
              /\ QueueSize' = QueueSize /\ Target(u)' = Target(u)
           \/ Holds(Target(u)', QueueSize', queue'[u], seen'[u])
  PROVE  QueueOK' /\ SeenIsEnough'
<1>1. QueuesHold'
  <2>1. QueuesHold
    BY InvToQueues
  <2> SUFFICES ASSUME NEW u \in Threads
               PROVE  Holds(Target(u)', QueueSize', queue'[u], seen'[u])
    BY DEF QueuesHold
  <2>2. Holds(Target(u), QueueSize, queue[u], seen[u])
    BY <2>1 DEF QueuesHold
  <2> QED
    BY <2>2
<1>2. (seen \in [Threads -> SUBSET Nodes] /\ QueuesHold)'
  BY <1>1
<1>3. (QueueOK /\ SeenIsEnough)'
  BY <1>2, QueuesToInv, PTL
<1> QED
  BY <1>3

(* The node that a thread takes up, and those behind it in its chunk.      *)
LEMMA TakeFacts ==
  ASSUME VamanaAssumption, TypeOK, NEW t \in Threads, Take(t)
  PROVE  \E new \in Seq(Nodes) :
           /\ new # << >>
           /\ chunk' = [chunk EXCEPT ![t] = new]
           /\ queue' = [queue EXCEPT ![t] = Insert(EmptyQueue, LBuild, Neighbor(world.start, world.dist[Head(new)][world.start]))]
           /\ next' \in 0 .. Size /\ next <= next'
           /\ \/ /\ next' = next /\ chunk[t] # << >>
                 /\ Range(chunk[t]) \subseteq Range(new) \cup {Head(chunk[t])}
              \/ /\ \A x \in Nodes : next <= x /\ x < next' => x \in Range(new)
                 /\ chunk[t] = << >> \/ Range(chunk[t]) = {Head(chunk[t])}
<1> DEFINE rest == IF chunk[t] = << >> THEN << >> ELSE Tail(chunk[t])
           last == IF next + Chunk > Size THEN Size ELSE next + Chunk
           fresh == [i \in 1 .. last - next |-> next + i - 1]
           new == IF rest # << >> THEN rest ELSE fresh
<1>1. /\ new # << >>
      /\ chunk' = [chunk EXCEPT ![t] = new]
      /\ next' = IF rest # << >> THEN next ELSE last
      /\ queue' = [queue EXCEPT ![t] = Insert(EmptyQueue, LBuild, Neighbor(world.start, world.dist[Head(new)][world.start]))]
  BY DEF Take
<1>2. chunk[t] \in Seq(Nodes) /\ next \in 0 .. Size /\ next \in Nat /\ Size \in Nat
  BY ConstantFacts DEF TypeOK
<1>3. last \in 0 .. Size /\ next <= last /\ last \in Nat
  BY <1>2, ConstantFacts
<1> HIDE DEF last
<1>4. CASE rest # << >>
  <2>1. chunk[t] # << >> /\ new = Tail(chunk[t]) /\ next' = next
    BY <1>1, <1>4
  <2>  HIDE DEF new, rest, fresh
  <2>2. new \in Seq(Nodes)
    BY <1>2, <2>1
  <2>3. Range(chunk[t]) \subseteq Range(new) \cup {Head(chunk[t])}
    <3>0. Head(chunk[t]) = chunk[t][1]
      BY <1>2, <2>1
    <3> SUFFICES ASSUME NEW i \in DOMAIN chunk[t], i # 1 PROVE chunk[t][i] \in Range(new)
      BY <3>0 DEF Range
    <3>1. i \in 1 .. Len(chunk[t]) /\ i - 1 \in 1 .. Len(chunk[t]) - 1
          /\ Len(chunk[t]) \in Nat /\ i - 1 + 1 = i
      <4> DEFINE k == Len(chunk[t])
      <4>1. k \in Nat /\ i \in 1 .. k
        BY <1>2
      <4> HIDE DEF k
      <4>2. i - 1 \in 1 .. k - 1 /\ i - 1 + 1 = i
        BY <4>1
      <4> QED
        BY <4>1, <4>2 DEF k
    <3>3. Len(new) = Len(chunk[t]) - 1 /\ DOMAIN new = 1 .. Len(new)
      BY <1>2, <2>1, <2>2
    <3>4. \A j \in 1 .. Len(chunk[t]) - 1 : Tail(chunk[t])[j] = chunk[t][j + 1]
      BY <1>2, <2>1
    <3>2. DOMAIN new = 1 .. Len(chunk[t]) - 1 /\ new[i - 1] = chunk[t][i]
      BY <2>1, <3>1, <3>3, <3>4
    <3> QED
      BY <3>1, <3>2 DEF Range
  <2>4. next' \in 0 .. Size /\ next <= next'
    BY <1>2, <2>1
  <2> WITNESS new \in Seq(Nodes)
  <2> QED
    BY <1>1, <2>1, <2>3, <2>4
<1>5. CASE rest = << >>
  <2>1. new = fresh /\ next' = last
    BY <1>1, <1>5
  <2>2. new \in Seq(Nodes)
    <3>1. ASSUME NEW i \in 1 .. last - next PROVE next + i - 1 \in Nodes
      <4>1. last <= Size /\ i \in Int /\ 1 <= i /\ i <= last - next
        BY <1>2, <1>3
      <4> QED
        BY <4>1, <1>2, <1>3 DEF Nodes
    <3>2. fresh \in [1 .. last - next -> Nodes] /\ last - next \in Nat
      <4>1. last - next \in Nat
        BY <1>2, <1>3
      <4> QED
        BY <3>1, <4>1
    <3> DEFINE m == last - next
    <3>3. fresh \in [1 .. m -> Nodes] /\ m \in Nat
      BY <3>2
    <3> HIDE DEF fresh, m
    <3>4. fresh \in Seq(Nodes)
      BY <3>3
    <3> QED
      BY <2>1, <3>4
  <2>3. \A x \in Nodes : next <= x /\ x < next' => x \in Range(new)
    <3> SUFFICES ASSUME NEW x \in Nodes, next <= x, x < last PROVE x \in Range(fresh)
      BY <2>1
    <3>1. x \in Int /\ x - next + 1 \in 1 .. last - next /\ DOMAIN fresh = 1 .. last - next
      <4>1. x \in Int /\ last \in Int /\ next \in Int
        BY <1>2, <1>3 DEF Nodes
      <4>2. x - next + 1 \in 1 .. last - next
        BY <4>1
      <4> QED
        BY <4>1, <4>2
    <3>2. fresh[x - next + 1] = x
      BY <3>1, <1>2
    <3> HIDE DEF fresh
    <3> QED
      BY <3>1, <3>2 DEF Range
  <2>4. chunk[t] = << >> \/ Range(chunk[t]) = {Head(chunk[t])}
    <3> SUFFICES ASSUME chunk[t] # << >> PROVE Range(chunk[t]) = {Head(chunk[t])}
      OBVIOUS
    <3>1. Tail(chunk[t]) = << >> /\ Len(chunk[t]) \in Nat /\ Len(chunk[t]) # 0
      BY <1>2, <1>5
    <3>2. Len(Tail(chunk[t])) = Len(chunk[t]) - 1
      BY <1>2, <3>1
    <3>3. Len(chunk[t]) = 1
      <4>0. Len(<< >>) = 0
        OBVIOUS
      <4>1. Len(Tail(chunk[t])) = 0
        BY <3>1, <4>0
      <4> QED
        BY <4>1, <3>1, <3>2
    <3>4. DOMAIN chunk[t] = {1}
      BY <1>2, <3>3
    <3> QED
      BY <3>4, <1>2 DEF Range
  <2>5. next' \in 0 .. Size /\ next <= next'
    BY <1>3, <2>1
  <2> HIDE DEF new, rest, fresh
  <2> WITNESS new \in Seq(Nodes)
  <2> QED
    BY <1>1, <2>3, <2>4, <2>5
<1> QED
  BY <1>4, <1>5

(* A node with links leaves the chunk only by the thread taking the next.  *)
LEMMA TakeStep ==
  ASSUME VamanaAssumption, IInv, NEW t \in Threads, Take(t)
  PROVE  IInv' /\ (NeverStranded => NeverStranded')
<1>0. TypeOK /\ ListsOK /\ QueueOK /\ ThreadsOK /\ CleanupOK /\ SearchOK
  BY DEF IInv
<1>1. PICK new \in Seq(Nodes) :
           /\ new # << >>
           /\ chunk' = [chunk EXCEPT ![t] = new]
           /\ queue' = [queue EXCEPT ![t] = Insert(EmptyQueue, LBuild, Neighbor(world.start, world.dist[Head(new)][world.start]))]
           /\ next' \in 0 .. Size /\ next <= next'
           /\ \/ /\ next' = next /\ chunk[t] # << >>
                 /\ Range(chunk[t]) \subseteq Range(new) \cup {Head(chunk[t])}
              \/ /\ \A x \in Nodes : next <= x /\ x < next' => x \in Range(new)
                 /\ chunk[t] = << >> \/ Range(chunk[t]) = {Head(chunk[t])}
  BY <1>0, TakeFacts
<1>2. /\ phase = "link" /\ pc[t] = "take"
      /\ seen' = [seen EXCEPT ![t] = {world.start}]
      /\ pool' = [pool EXCEPT ![t] = {}]
      /\ pc' = [pc EXCEPT ![t] = "search"]
      /\ world' = world /\ phase' = phase /\ nbrs' = nbrs /\ dirty' = dirty /\ todo' = todo
      /\ copy' = copy
  BY DEF Take
<1>3. /\ world \in Worlds /\ world.start \in Nodes /\ Head(new) \in Nodes
      /\ chunk \in [Threads -> Seq(Nodes)] /\ queue \in [Threads -> Queues]
      /\ seen \in [Threads -> SUBSET Nodes] /\ pool \in [Threads -> SUBSET Nodes]
      /\ pc \in [Threads -> {"take", "search", "insert", "prune"}]
      /\ \A u \in Threads : Ids(queue[u]) \subseteq seen[u] /\ pool[u] \subseteq seen[u]
  <2>1. world.start \in Nodes
    BY <1>0 DEF TypeOK, VamanaAssumption
  <2>2. Head(new) \in Nodes
    BY <1>1
  <2> QED
    BY <1>0, <2>1, <2>2 DEF TypeOK, Queues
<1> DEFINE r == Insert(EmptyQueue, LBuild, Neighbor(world.start, world.dist[Head(new)][world.start]))
           d == Target(t)'
<1>4. d \in [Nodes -> Int] /\ d[world.start] = world.dist[Head(new)][world.start]
      /\ \A u \in Threads \ {t} : Target(u)' = Target(u)
  <2>1. chunk'[t] = new /\ \A u \in Threads \ {t} : chunk'[u] = chunk[u]
    BY <1>1, <1>3
  <2>2. \A x \in Nodes : TargetDist(t, x)' = world.dist[Head(new)][x]
    BY <1>2, <2>1 DEF TargetDist
  <2>3. \A x \in Nodes : world.dist[Head(new)][x] \in Int
    BY <1>3, DistanceFacts
  <2>4. \A u \in Threads \ {t} : \A x \in Nodes : TargetDist(u, x)' = TargetDist(u, x)
    BY <1>2, <2>1 DEF TargetDist
  <2>5. d = [x \in Nodes |-> world.dist[Head(new)][x]]
    BY <2>2 DEF Target
  <2> QED
    BY <1>3, <2>3, <2>4, <2>5 DEF Target
<1> HIDE DEF d
<1>5. QueueSize' = LBuild /\ QueueSize = LBuild /\ LBuild \in Nat \ {0}
  BY <1>2, ConstantFacts DEF QueueSize
<1>6. /\ Holds(d, LBuild, r, {world.start})
      /\ HasUnexpanded(r) /\ r.data[r.cur].id = world.start
  <2>1. r = Insert(EmptyQueue, LBuild, Neighbor(world.start, d[world.start]))
    BY <1>4
  <2>2. d \in [Nodes -> Int] /\ LBuild \in Nat \ {0} /\ world.start \in Nodes
    BY <1>3, <1>4, <1>5
  <2> HIDE DEF r
  <2>3. Holds(d, LBuild, r, {world.start})
    BY <2>1, <2>2, StartQueue
  <2>4. StartsAt(r, world.start)
    BY <2>1, <2>2, StartQueue
  <2> QED
    BY <2>3, <2>4 DEF StartsAt
<1>7. /\ queue'[t] = r /\ seen'[t] = {world.start} /\ pool'[t] = {} /\ chunk'[t] = new
      /\ pc'[t] = "search"
      /\ \A u \in Threads \ {t} : /\ queue'[u] = queue[u] /\ seen'[u] = seen[u] /\ pool'[u] = pool[u]
                                  /\ chunk'[u] = chunk[u] /\ pc'[u] = pc[u]
  BY <1>1, <1>2, <1>3
<1> HIDE DEF r
<1>8. (seen \in [Threads -> SUBSET Nodes])'
  BY <1>2, <1>3
<1>9. QueueOK' /\ SeenIsEnough'
  <2>1. \A u \in Threads :
           \/ /\ queue'[u] = queue[u] /\ seen'[u] = seen[u]
              /\ QueueSize' = QueueSize /\ Target(u)' = Target(u)
           \/ Holds(Target(u)', QueueSize', queue'[u], seen'[u])
    BY <1>4, <1>5, <1>6, <1>7 DEF d
  <2> QED
    BY <1>0, <1>8, <2>1, QueuesPrimed
<1>10. TypeOK'
  <2>1. r \in Queues
    BY <1>6 DEF Holds
  <2>2. queue' \in [Threads -> Queues] /\ chunk' \in [Threads -> Seq(Nodes)]
        /\ pool' \in [Threads -> SUBSET Nodes]
        /\ pc' \in [Threads -> {"take", "search", "insert", "prune"}]
    BY <1>1, <1>2, <1>3, <2>1 DEF r
  <2>3. \A u \in Threads : Ids(queue'[u]) \subseteq seen'[u] /\ pool'[u] \subseteq seen'[u]
    BY <1>3, <1>7, <1>9 DEF SeenIsEnough
  <2> QED
    BY <1>0, <1>1, <1>2, <1>8, <2>2, <2>3 DEF TypeOK, Queues
<1>11. ListsOK'
  BY <1>0, <1>2 DEF ListsOK
<1>12. ThreadsOK'
  BY <1>0, <1>1, <1>2, <1>7 DEF ThreadsOK
<1>13. CleanupOK'
  BY <1>0, <1>2 DEF CleanupOK
<1>14. SearchOK'
  BY <1>0, <1>2, <1>6, <1>7 DEF SearchOK
<1>15. ASSUME NeverStranded PROVE NeverStranded'
  <2>1. Linked' \subseteq Linked
    <3> SUFFICES ASSUME NEW x \in Nodes, x \in Linked' PROVE x \in Linked
      BY DEF Linked
    <3>1. /\ x < next'
          /\ \A u \in Threads : chunk'[u] # << >> =>
               x \notin Range(chunk'[u]) \ (IF pc'[u] = "search" THEN {} ELSE {Head(chunk'[u])})
      BY DEF Linked
    <3>2. x \notin Range(new)
      BY <3>1, <1>1, <1>7
    <3>3. x < next
      <4>1. next \in Int /\ next' \in Int /\ x \in Int
        BY <1>0, <1>1 DEF TypeOK, Nodes
      <4> QED
        BY <3>1, <3>2, <4>1, <1>1
    <3>4. \A u \in Threads : chunk[u] # << >> =>
               x \notin Range(chunk[u]) \ (IF pc[u] = "search" THEN {} ELSE {Head(chunk[u])})
      <4> SUFFICES ASSUME NEW u \in Threads, chunk[u] # << >>
                   PROVE  x \notin Range(chunk[u]) \ (IF pc[u] = "search" THEN {} ELSE {Head(chunk[u])})
        OBVIOUS
      <4>1. CASE u # t
        BY <4>1, <3>1, <1>7
      <4>2. CASE u = t
        BY <4>2, <3>2, <1>1, <1>2
      <4> QED
        BY <4>1, <4>2
    <3> QED
      BY <3>3, <3>4 DEF Linked
  <2> QED
    BY <1>2, <1>15, <2>1 DEF NeverStranded
<1> QED
  BY <1>9, <1>10, <1>11, <1>12, <1>13, <1>14, <1>15 DEF IInv

(* What is the same for every action that leaves the lists, the chunks and *)
(* the places of the threads alone.                                        *)
LEMMA SameLinked ==
  ASSUME Linked' \subseteq Linked, world' = world, nbrs' = nbrs, NeverStranded
  PROVE  NeverStranded'
BY DEF NeverStranded

(* One hop of a search: all the neighbours of the expanded node are seen,  *)
(* and of them the queue has the nearest.                                  *)
LEMMA HopStep ==
  ASSUME VamanaAssumption, IInv, NEW t \in Threads, Hop(t)
  PROVE  IInv' /\ (NeverStranded => NeverStranded')
<1>0. TypeOK /\ ListsOK /\ QueueOK /\ ThreadsOK /\ CleanupOK /\ SearchOK
  BY DEF IInv
<1> DEFINE q == queue[t]
           n == q.data[q.cur].id
           r == Fed(t, Popped(q), nbrs[n])
           d == Target(t)
<1>1. /\ pc[t] = "search" /\ HasUnexpanded(q)
      /\ seen' = [seen EXCEPT ![t] = @ \cup Range(nbrs[n])]
      /\ pool' = [pool EXCEPT ![t] = IF phase = "link" THEN @ \cup {n} ELSE @]
      /\ queue' = [queue EXCEPT ![t] = r]
      /\ world' = world /\ phase' = phase /\ next' = next /\ chunk' = chunk /\ nbrs' = nbrs
      /\ dirty' = dirty /\ pc' = pc /\ todo' = todo /\ copy' = copy
  BY DEF Hop, loop
<1>2. /\ world \in Worlds /\ nbrs \in [Nodes -> Seq(Nodes)]
      /\ chunk \in [Threads -> Seq(Nodes)] /\ queue \in [Threads -> Queues]
      /\ seen \in [Threads -> SUBSET Nodes] /\ pool \in [Threads -> SUBSET Nodes]
      /\ \A u \in Threads : Ids(queue[u]) \subseteq seen[u] /\ pool[u] \subseteq seen[u]
  BY <1>0 DEF TypeOK, Queues
<1>3. d \in [Nodes -> Int] /\ \A x \in Nodes : TargetDist(t, x) = d[x]
  <2>1. phase = "link" => chunk[t] # << >>
    BY <1>0, <1>1 DEF ThreadsOK
  <2> QED
    BY <1>0, <2>1, TargetFacts
<1>4. Holds(d, QueueSize, q, seen[t]) /\ QueueSize \in Nat \ {0}
  BY <1>0, InvToQueues, ConstantFacts DEF QueuesHold
<1>5. q.data \in Seq(Entries) /\ q.cur \in 1 .. Len(q.data)
      /\ DOMAIN q.data = 1 .. Len(q.data)
  BY <1>1, <1>4 DEF Holds, Queues, CursorAtFirst, HasUnexpanded
<1>6. n \in Ids(q) /\ n \in seen[t] /\ n \in Nodes /\ nbrs[n] \in Seq(Nodes)
      /\ Range(nbrs[n]) \subseteq Nodes
  <2>1. n \in Ids(q)
    BY <1>5 DEF Ids
  <2>2. n \in seen[t] /\ n \in Nodes
    BY <2>1, <1>2
  <2> HIDE DEF n, q
  <2>3. nbrs[n] \in Seq(Nodes)
    BY <2>2, <1>2
  <2>4. Range(nbrs[n]) \subseteq Nodes
    BY <2>3 DEF Range
  <2> QED
    BY <2>1, <2>2, <2>3, <2>4
<1> HIDE DEF n, d
<1>7. PICK p : p = Popped(q)
  OBVIOUS
<1>8. /\ Holds(d, QueueSize, p, seen[t])
      /\ DOMAIN p.data = DOMAIN q.data
      /\ \A i \in DOMAIN p.data : /\ p.data[i].id = q.data[i].id
                                  /\ p.data[i].expanded => q.data[i].expanded \/ i = q.cur
  <2> HIDE DEF q
  <2>1. Holds(d, QueueSize, p, seen[t])
    BY <1>1, <1>4, <1>7, HoldsPopped
  <2>2. OnlyMarked(p, q)
    BY <1>1, <1>4, <1>7, HoldsPopped
  <2> QED
    BY <2>1, <2>2 DEF OnlyMarked
<1>9. Holds(d, QueueSize, r, seen[t] \cup Range(nbrs[n])) /\ NoneNewExpanded(r, p)
  <2>0. r = Fed(t, p, nbrs[n])
    BY <1>7
  <2> HIDE DEF r
  <2>1. d \in [Nodes -> Int] /\ QueueSize \in Nat \ {0} /\ seen[t] \in SUBSET Nodes
        /\ nbrs[n] \in Seq(Nodes)
    BY <1>2, <1>3, <1>4, <1>6
  <2>2. Holds(d, QueueSize, r, seen[t] \cup Range(nbrs[n]))
    BY <2>0, <2>1, <1>3, <1>8, FedFacts
  <2>3. NoneNewExpanded(r, p)
    BY <2>0, <2>1, <1>3, <1>8, FedFacts
  <2> QED
    BY <2>2, <2>3
<1> HIDE DEF r
<1>10. /\ queue'[t] = r /\ seen'[t] = seen[t] \cup Range(nbrs[n])
       /\ pool'[t] = IF phase = "link" THEN pool[t] \cup {n} ELSE pool[t]
       /\ \A u \in Threads \ {t} : queue'[u] = queue[u] /\ seen'[u] = seen[u] /\ pool'[u] = pool[u]
  BY <1>1, <1>2
<1>11. (seen \in [Threads -> SUBSET Nodes])'
  BY <1>1, <1>2, <1>6
<1>12. QueueOK' /\ SeenIsEnough'
  <2>1. QueueSize' = QueueSize /\ \A u \in Threads : Target(u)' = Target(u)
    BY <1>1 DEF QueueSize, Target, TargetDist
  <2>2. \A u \in Threads :
           \/ /\ queue'[u] = queue[u] /\ seen'[u] = seen[u]
              /\ QueueSize' = QueueSize /\ Target(u)' = Target(u)
           \/ Holds(Target(u)', QueueSize', queue'[u], seen'[u])
    BY <1>9, <1>10, <2>1 DEF d
  <2> QED
    BY <1>0, <1>11, <2>2, QueuesPrimed
<1>13. TypeOK'
  <2>1. r \in Queues
    BY <1>9 DEF Holds
  <2>2. queue' \in [Threads -> Queues] /\ pool' \in [Threads -> SUBSET Nodes]
    BY <1>1, <1>2, <1>6, <2>1
  <2>3. \A u \in Threads : Ids(queue'[u]) \subseteq seen'[u] /\ pool'[u] \subseteq seen'[u]
    BY <1>2, <1>6, <1>10, <1>12 DEF SeenIsEnough
  <2> QED
    BY <1>0, <1>1, <1>11, <2>2, <2>3 DEF TypeOK, Queues
<1>14. ListsOK'
  BY <1>0, <1>1 DEF ListsOK
<1>15. ThreadsOK'
  BY <1>0, <1>1, <1>10 DEF ThreadsOK
<1>16. CleanupOK'
  BY <1>0, <1>1 DEF CleanupOK
<1>17. SearchOK'
  <2>1. ASSUME NEW u \in Threads, phase = "link", pc[u] = "search"
        PROVE  \/ world.start \in pool'[u]
               \/ /\ seen'[u] = {world.start}
                  /\ HasUnexpanded(queue'[u])
                  /\ queue'[u].data[queue'[u].cur].id = world.start
    <3>1. \/ world.start \in pool[u]
          \/ /\ seen[u] = {world.start}
             /\ HasUnexpanded(queue[u]) /\ queue[u].data[queue[u].cur].id = world.start
      BY <1>0, <2>1 DEF SearchOK
    <3>2. CASE u # t
      BY <3>1, <3>2, <1>10
    <3>3. CASE u = t
      BY <3>1, <3>3, <2>1, <1>10 DEF n
    <3> QED
      BY <3>2, <3>3
  <2>2. ASSUME phase \in {"built", "searched"}
        PROVE  /\ phase = "built" /\ t = Querier
               /\ Entry \in seen'[Querier]
               /\ \A i \in DOMAIN r.data : r.data[i].expanded => Range(nbrs[r.data[i].id]) \subseteq seen'[Querier]
    <3>1. phase = "built" /\ t = Querier
      BY <1>0, <1>1, <2>2 DEF ThreadsOK
    <3>2. /\ Entry \in seen[t]
          /\ \A i \in DOMAIN q.data : q.data[i].expanded => Range(nbrs[q.data[i].id]) \subseteq seen[t]
      BY <1>0, <2>2, <3>1 DEF SearchOK
    <3>3. ASSUME NEW i \in DOMAIN r.data, r.data[i].expanded
          PROVE  Range(nbrs[r.data[i].id]) \subseteq seen'[t]
      <4>1. PICK j \in DOMAIN p.data : r.data[i] = p.data[j]
        BY <1>9, <3>3 DEF NoneNewExpanded
      <4>2. /\ j \in DOMAIN q.data /\ r.data[i].id = q.data[j].id
            /\ q.data[j].expanded \/ j = q.cur
        BY <1>8, <3>3, <4>1
      <4>3. CASE q.data[j].expanded
        BY <4>2, <4>3, <3>2, <1>10
      <4>4. CASE j = q.cur
        BY <4>2, <4>4, <1>10 DEF n
      <4> QED
        BY <4>2, <4>3, <4>4
    <3> QED
      BY <3>1, <3>2, <3>3, <1>10
  <2>3. Entry' = Entry
    BY <1>1 DEF Entry
  <2> QED
    BY <2>1, <2>2, <2>3, <1>1, <1>10 DEF SearchOK
<1>18. NeverStranded => NeverStranded'
  <2>1. Linked' \subseteq Linked
    BY <1>1 DEF Linked
  <2> QED
    BY <1>1, <2>1, SameLinked
<1> QED
  BY <1>12, <1>13, <1>14, <1>15, <1>16, <1>17, <1>18 DEF IInv

(* One list is replaced.                                                   *)
LEMMA ListsPrimed ==
  ASSUME TypeOK, ListsOK, NEW x \in Nodes, NEW l \in Seq(Nodes),
         Len(l) <= Slack, x \notin Range(l), \A i, j \in DOMAIN l : l[i] = l[j] => i = j,
         phase' = phase, phase \in {"built", "searched"} => Len(l) <= R,
         nbrs' = [nbrs EXCEPT ![x] = l]
  PROVE  ListsOK' /\ (nbrs \in [Nodes -> Seq(Nodes)])'
<1>1. nbrs \in [Nodes -> Seq(Nodes)]
  BY DEF TypeOK
<1>2. nbrs'[x] = l /\ \A y \in Nodes \ {x} : nbrs'[y] = nbrs[y]
  BY <1>1
<1>3. ASSUME NEW y \in Nodes
      PROVE  /\ Len(nbrs'[y]) <= Slack
             /\ phase \in {"built", "searched"} => Len(nbrs'[y]) <= R
             /\ y \notin Range(nbrs'[y])
             /\ \A i, j \in DOMAIN nbrs'[y] : nbrs'[y][i] = nbrs'[y][j] => i = j
  <2>1. CASE y = x
    BY <2>1, <1>2
  <2>2. CASE y # x
    BY <2>2, <1>2 DEF ListsOK
  <2> QED
    BY <2>1, <2>2
<1> QED
  BY <1>1, <1>3 DEF ListsOK

(* A list that is replaced by one that is not empty strands no node.       *)
LEMMA StrandedPrimed ==
  ASSUME TypeOK, NEW x \in Nodes, NEW l, nbrs' = [nbrs EXCEPT ![x] = l],
         world' = world, Linked' \subseteq Linked \cup {x},
         x # world.start => l # << >>, NeverStranded
  PROVE  NeverStranded'
<1>1. nbrs'[x] = l /\ \A y \in Nodes \ {x} : nbrs'[y] = nbrs[y]
  BY DEF TypeOK
<1>2. Linked \subseteq Nodes
  BY DEF Linked
<1>3. ASSUME NEW y \in Linked', y # world.start PROVE nbrs'[y] # << >>
  <2>1. CASE y = x
    BY <2>1, <1>1, <1>3
  <2>2. CASE y # x
    BY <2>2, <1>1, <1>2, <1>3 DEF NeverStranded
  <2> QED
    BY <2>1, <2>2
<1> QED
  BY <1>3 DEF NeverStranded

(* The medoid is among the candidates of every node, so no node but the    *)
(* medoid is given an empty list.                                          *)
LEMMA SetLinksStep ==
  ASSUME VamanaAssumption, IInv, NEW t \in Threads, SetLinks(t)
  PROVE  IInv' /\ (NeverStranded => NeverStranded')
<1>0. TypeOK /\ ListsOK /\ QueueOK /\ ThreadsOK /\ CleanupOK /\ SearchOK
  BY DEF IInv
<1> DEFINE h == Head(chunk[t])
           l == Prune(h, pool[t])
<1>1. /\ phase = "link" /\ pc[t] = "search" /\ ~ HasUnexpanded(queue[t])
      /\ nbrs' = [nbrs EXCEPT ![h] = l]
      /\ todo' = [todo EXCEPT ![t] = l]
      /\ queue' = [queue EXCEPT ![t] = EmptyQueue]
      /\ seen' = [seen EXCEPT ![t] = {}]
      /\ pool' = [pool EXCEPT ![t] = {}]
      /\ pc' = [pc EXCEPT ![t] = "insert"]
      /\ world' = world /\ phase' = phase /\ next' = next /\ chunk' = chunk
      /\ dirty' = dirty /\ copy' = copy
  BY DEF SetLinks, loop
<1>2. /\ world \in Worlds /\ nbrs \in [Nodes -> Seq(Nodes)]
      /\ chunk \in [Threads -> Seq(Nodes)] /\ queue \in [Threads -> Queues]
      /\ seen \in [Threads -> SUBSET Nodes] /\ pool \in [Threads -> SUBSET Nodes]
      /\ todo \in [Threads -> Seq(Nodes)]
      /\ pc \in [Threads -> {"take", "search", "insert", "prune"}]
      /\ \A u \in Threads : Ids(queue[u]) \subseteq seen[u] /\ pool[u] \subseteq seen[u]
  BY <1>0 DEF TypeOK, Queues
<1>3. chunk[t] # << >> /\ h \in Nodes
  <2>1. chunk[t] # << >> /\ chunk[t] \in Seq(Nodes)
    BY <1>0, <1>1, <1>2 DEF ThreadsOK
  <2> QED
    BY <2>1
<1>4. world.start \in pool[t]
  BY <1>0, <1>1 DEF SearchOK
<1>5. /\ l \in Seq(Nodes) /\ Len(l) <= R /\ h \notin Range(l)
      /\ \A i, j \in DOMAIN l : l[i] = l[j] => i = j
      /\ h # world.start => l # << >>
  <2>1. pool[t] \in SUBSET Nodes
    BY <1>2
  <2> HIDE DEF h, l
  <2>2. l = Prune(h, pool[t])
    BY DEF l
  <2>3. IsPruned(l, h, pool[t])
    BY <1>2, <1>3, <2>1, <2>2, PruneFacts
  <2> QED
    BY <2>3, <1>4 DEF IsPruned
<1> HIDE DEF l
<1>6. /\ queue'[t] = EmptyQueue /\ seen'[t] = {} /\ pool'[t] = {} /\ todo'[t] = l
      /\ pc'[t] = "insert"
      /\ \A u \in Threads \ {t} : /\ queue'[u] = queue[u] /\ seen'[u] = seen[u] /\ pool'[u] = pool[u]
                                  /\ todo'[u] = todo[u] /\ pc'[u] = pc[u]
  BY <1>1, <1>2
<1>7. (seen \in [Threads -> SUBSET Nodes])'
  BY <1>1, <1>2
<1>8. QueueOK' /\ SeenIsEnough'
  <2>1. QueueSize' = QueueSize /\ QueueSize \in Nat
        /\ \A u \in Threads : Target(u)' = Target(u)
    BY <1>1, ConstantFacts DEF QueueSize, Target, TargetDist
  <2>2. Holds(Target(t)', QueueSize', queue'[t], seen'[t])
    BY <2>1, <1>6, HoldsEmpty
  <2>3. \A u \in Threads :
           \/ /\ queue'[u] = queue[u] /\ seen'[u] = seen[u]
              /\ QueueSize' = QueueSize /\ Target(u)' = Target(u)
           \/ Holds(Target(u)', QueueSize', queue'[u], seen'[u])
    BY <1>6, <2>1, <2>2
  <2> QED
    BY <1>0, <1>7, <2>3, QueuesPrimed
<1>9. ListsOK' /\ (nbrs \in [Nodes -> Seq(Nodes)])'
  <2>1. Len(l) <= Slack
    <3>1. Len(l) \in Nat
      BY <1>5
    <3> QED
      BY <3>1, <1>5, ConstantFacts
  <2> HIDE DEF h
  <2> QED
    BY <1>0, <1>1, <1>3, <1>5, <2>1, ListsPrimed
<1>10. TypeOK'
  <2>1. EmptyQueue \in Queues
    BY HoldsEmpty DEF Holds, EmptyQueue, Queues
  <2>2. queue' \in [Threads -> Queues] /\ pool' \in [Threads -> SUBSET Nodes]
        /\ todo' \in [Threads -> Seq(Nodes)]
        /\ pc' \in [Threads -> {"take", "search", "insert", "prune"}]
    BY <1>1, <1>2, <1>5, <2>1
  <2>3. \A u \in Threads : Ids(queue'[u]) \subseteq seen'[u] /\ pool'[u] \subseteq seen'[u]
    BY <1>2, <1>6, <1>8 DEF SeenIsEnough
  <2> QED
    BY <1>0, <1>1, <1>7, <1>9, <2>2, <2>3 DEF TypeOK, Queues
<1>11. ThreadsOK'
  BY <1>0, <1>1, <1>3, <1>5, <1>6 DEF ThreadsOK
<1>12. CleanupOK'
  BY <1>0, <1>1 DEF CleanupOK
<1>13. SearchOK'
  BY <1>0, <1>1, <1>6 DEF SearchOK
<1>14. NeverStranded => NeverStranded'
  <2>1. Linked' \subseteq Linked \cup {h}
    <3> SUFFICES ASSUME NEW x \in Linked', x # h PROVE x \in Linked
      OBVIOUS
    <3>1. /\ x \in Nodes /\ x < next
          /\ \A u \in Threads : chunk[u] # << >> =>
               x \notin Range(chunk[u]) \ (IF pc'[u] = "search" THEN {} ELSE {Head(chunk[u])})
      BY <1>1 DEF Linked
    <3>2. \A u \in Threads : chunk[u] # << >> =>
               x \notin Range(chunk[u]) \ (IF pc[u] = "search" THEN {} ELSE {Head(chunk[u])})
      BY <3>1, <1>1, <1>6
    <3> QED
      BY <3>1, <3>2 DEF Linked
  <2> HIDE DEF h
  <2> QED
    BY <1>0, <1>1, <1>3, <1>5, <2>1, StrandedPrimed
<1> QED
  BY <1>8, <1>9, <1>10, <1>11, <1>12, <1>13, <1>14 DEF IInv

(* What the steps of inter_insert have in common: the chunks, the searches *)
(* and the phase, which is that of the links, stay as they are.            *)
LEMMA InsertingKeeps ==
  ASSUME VamanaAssumption, IInv, NEW t \in Threads, pc[t] \in {"insert", "prune"},
         UNCHANGED <<world, phase, next, chunk, dirty, queue, seen, pool>>,
         NEW s \in {"take", "insert", "prune"}, pc' = [pc EXCEPT ![t] = s]
  PROVE  /\ phase = "link" /\ chunk[t] # << >> /\ Head(chunk[t]) \in Nodes
         /\ QueueOK' /\ CleanupOK' /\ SearchOK' /\ Linked' = Linked
         /\ queue[t] = EmptyQueue /\ seen[t] = {}
<1>0. TypeOK /\ ListsOK /\ QueueOK /\ ThreadsOK /\ CleanupOK /\ SearchOK
  BY DEF IInv
<1>1. phase = "link"
  BY <1>0 DEF ThreadsOK
<1>2. chunk[t] # << >> /\ chunk[t] \in Seq(Nodes)
  BY <1>0, <1>1 DEF ThreadsOK, TypeOK
<1>3. Head(chunk[t]) \in Nodes
  BY <1>2
<1>4. /\ pc \in [Threads -> {"take", "search", "insert", "prune"}]
      /\ pc'[t] = s /\ \A u \in Threads \ {t} : pc'[u] = pc[u]
  BY <1>0 DEF TypeOK
<1>5. QueueOK'
  BY <1>0 DEF QueueOK, QueueSize, TargetDist
<1>6. CleanupOK'
  BY <1>0, <1>1 DEF CleanupOK
<1>7. SearchOK'
  BY <1>0, <1>1, <1>4 DEF SearchOK
<1>8. Linked' = Linked
  <2>1. \A u \in Threads : (pc'[u] = "search") = (pc[u] = "search")
    BY <1>4
  <2> QED
    BY <2>1 DEF Linked
<1>9. queue[t] = EmptyQueue /\ seen[t] = {}
  BY <1>0, <1>1 DEF ThreadsOK
<1> QED
  BY <1>1, <1>2, <1>3, <1>5, <1>6, <1>7, <1>8, <1>9

(* The next node that inter_insert treats, and the rest.                   *)
LEMMA TodoFacts ==
  ASSUME TypeOK, NEW t \in Threads, todo[t] # << >>
  PROVE  /\ Head(todo[t]) \in Nodes /\ Head(todo[t]) \in Range(todo[t])
         /\ Tail(todo[t]) \in Seq(Nodes) /\ Range(Tail(todo[t])) \subseteq Range(todo[t])
<1>1. todo[t] \in Seq(Nodes)
  BY DEF TypeOK
<1>2. /\ Head(todo[t]) = todo[t][1] /\ 1 \in DOMAIN todo[t] /\ Tail(todo[t]) \in Seq(Nodes)
      /\ Head(todo[t]) \in Nodes
  BY <1>1
<1>3. ASSUME NEW i \in DOMAIN Tail(todo[t]) PROVE Tail(todo[t])[i] \in Range(todo[t])
  <2>1. Len(Tail(todo[t])) = Len(todo[t]) - 1 /\ Len(todo[t]) \in Nat
        /\ i \in 1 .. Len(todo[t]) - 1
    BY <1>1, <1>3
  <2>2. i + 1 \in DOMAIN todo[t] /\ Tail(todo[t])[i] = todo[t][i + 1]
    BY <1>1, <2>1
  <2> QED
    BY <2>2 DEF Range
<1> QED
  BY <1>2, <1>3 DEF Range

(* Appending to a list.                                                    *)
LEMMA AppendFacts ==
  ASSUME NEW s \in Seq(Nodes), NEW x \in Nodes, NEW k, k = Len(s)
  PROVE  /\ \A i \in 1 .. k : Append(s, x)[i] = s[i]
         /\ Append(s, x)[k + 1] = x
OBVIOUS

(* What l is when it is the list s with x at its end.                      *)
Appended(l, s, x) ==
  /\ l \in Seq(Nodes) /\ Len(l) = Len(s) + 1
  /\ DOMAIN l = 1 .. Len(s) + 1
  /\ Len(s) \in Nat /\ DOMAIN s = 1 .. Len(s)
  /\ l[Len(s) + 1] = x /\ \A i \in 1 .. Len(s) : l[i] = s[i]
  /\ l # << >> /\ x \in Range(l)

(* The list with a node appended.                                          *)
LEMMA AppendedFacts ==
  ASSUME NEW s \in Seq(Nodes), NEW x \in Nodes
  PROVE  Appended(Append(s, x), s, x)
<1> DEFINE l == Append(s, x)
           k == Len(s)
<1>1. k \in Nat /\ DOMAIN s = 1 .. k
  OBVIOUS
<1>2. l \in Seq(Nodes) /\ Len(l) = k + 1
  OBVIOUS
<1>3. l[k + 1] = x /\ \A i \in 1 .. k : l[i] = s[i]
  BY AppendFacts
<1> HIDE DEF l, k
<1>4. DOMAIN l = 1 .. k + 1
  BY <1>2
<1>5. k + 1 \in DOMAIN l
  BY <1>1, <1>4
<1>6. x \in Range(l)
  BY <1>3, <1>5 DEF Range
<1>7. l # << >>
  BY <1>1, <1>2
<1> QED
  BY <1>1, <1>2, <1>3, <1>4, <1>6, <1>7 DEF Appended, l, k

(* Appending a node that the list does not have keeps it distinct.         *)
LEMMA AppendDistinct ==
  ASSUME NEW s \in Seq(Nodes), NEW x \in Nodes, x \notin Range(s),
         \A i, j \in DOMAIN s : s[i] = s[j] => i = j
  PROVE  \A i, j \in DOMAIN Append(s, x) : Append(s, x)[i] = Append(s, x)[j] => i = j
<1> DEFINE k == Len(s)
           l == Append(s, x)
<1>1. /\ \A i \in 1 .. k : l[i] = s[i] /\ s[i] # x
      /\ l[k + 1] = x /\ DOMAIN l = 1 .. k + 1 /\ DOMAIN s = 1 .. k /\ k \in Nat
  BY AppendFacts DEF Range
<1> HIDE DEF k, l
<1> SUFFICES ASSUME NEW i \in 1 .. k + 1, NEW j \in 1 .. k + 1, l[i] = l[j] PROVE i = j
  BY <1>1 DEF l
<1>2. (i \in 1 .. k \/ i = k + 1) /\ (j \in 1 .. k \/ j = k + 1)
  BY <1>1, LastIndex
<1>3. CASE i \in 1 .. k /\ j \in 1 .. k
  BY <1>1, <1>3 DEF k
<1>4. CASE i = k + 1 /\ j \in 1 .. k
  BY <1>1, <1>4
<1>5. CASE i \in 1 .. k /\ j = k + 1
  BY <1>1, <1>5
<1> QED
  BY <1>2, <1>3, <1>4, <1>5

(* inter_insert appends under the lock, or takes a copy that has the node. *)
LEMMA InterInsertStep ==
  ASSUME VamanaAssumption, IInv, NEW t \in Threads, InterInsert(t)
  PROVE  IInv' /\ (NeverStranded => NeverStranded')
<1>0. TypeOK /\ ListsOK /\ QueueOK /\ ThreadsOK /\ CleanupOK /\ SearchOK
  BY DEF IInv
<1> DEFINE n == Head(chunk[t])
           des == Head(todo[t])
<1>1. /\ pc[t] = "insert" /\ todo[t] # << >>
      /\ \/ /\ HasRoom(nbrs[des], n) /\ nbrs' = [nbrs EXCEPT ![des] = Append(@, n)]
            /\ copy' = copy /\ pc' = pc
         \/ nbrs' = nbrs /\ copy' = copy /\ pc' = pc
         \/ /\ nbrs' = nbrs /\ copy' = [copy EXCEPT ![t] = Append(nbrs[des], n)]
            /\ pc' = [pc EXCEPT ![t] = "prune"]
      /\ todo' = [todo EXCEPT ![t] = IF pc'[t] = "prune" THEN @ ELSE Tail(@)]
      /\ UNCHANGED <<world, phase, next, chunk, dirty, queue, seen, pool>>
  BY DEF InterInsert, loop, scratch
<1>2. /\ world \in Worlds /\ nbrs \in [Nodes -> Seq(Nodes)]
      /\ todo \in [Threads -> Seq(Nodes)] /\ copy \in [Threads -> Seq(Nodes)]
      /\ pc \in [Threads -> {"take", "search", "insert", "prune"}]
  BY <1>0 DEF TypeOK
<1>3. PICK s \in {"insert", "prune"} : pc' = [pc EXCEPT ![t] = s] /\ (s # "prune" => copy' = copy)
                                        /\ (s = "prune" => nbrs' = nbrs /\ copy' = [copy EXCEPT ![t] = Append(nbrs[des], n)])
  <2>1. pc = [pc EXCEPT ![t] = "insert"]
    BY <1>1, <1>2
  <2>2. CASE pc' = pc
    BY <2>1, <2>2, <1>1
  <2>3. CASE pc' # pc
    BY <2>3, <1>1
  <2> QED
    BY <2>2, <2>3
<1>4. /\ phase = "link" /\ chunk[t] # << >> /\ n \in Nodes
      /\ QueueOK' /\ CleanupOK' /\ SearchOK' /\ Linked' = Linked
      /\ queue[t] = EmptyQueue /\ seen[t] = {}
  <2> HIDE DEF n, des
  <2>1. pc[t] \in {"insert", "prune"} /\ s \in {"take", "insert", "prune"}
    BY <1>1, <1>3
  <2> QED
    BY <1>1, <1>3, <2>1, InsertingKeeps DEF n
<1>5. /\ des \in Nodes /\ des \in Range(todo[t])
      /\ Tail(todo[t]) \in Seq(Nodes) /\ Range(Tail(todo[t])) \subseteq Range(todo[t])
  <2> HIDE DEF n, des
  <2> QED
    BY <1>0, <1>1, TodoFacts DEF des
<1>6. n \notin Range(todo[t]) /\ n # des
  BY <1>0, <1>1, <1>5 DEF ThreadsOK
<1>7. nbrs[des] \in Seq(Nodes)
  BY <1>2, <1>5
<1> DEFINE l == Append(nbrs[des], n)
<1>8. /\ l \in Seq(Nodes) /\ Len(l) = Len(nbrs[des]) + 1
      /\ DOMAIN l = 1 .. Len(nbrs[des]) + 1
      /\ Len(nbrs[des]) \in Nat /\ DOMAIN nbrs[des] = 1 .. Len(nbrs[des])
      /\ l[Len(nbrs[des]) + 1] = n /\ \A i \in 1 .. Len(nbrs[des]) : l[i] = nbrs[des][i]
      /\ l # << >> /\ n \in Range(l)
  <2> HIDE DEF n, des
  <2>1. Appended(l, nbrs[des], n)
    BY <1>4, <1>7, AppendedFacts
  <2> HIDE DEF l
  <2> QED
    BY <2>1 DEF Appended
<1> HIDE DEF l
<1>9. /\ ListsOK' /\ (nbrs \in [Nodes -> Seq(Nodes)])'
      /\ NeverStranded => NeverStranded'
  <2>1. CASE nbrs' = nbrs
    <3>1. ListsOK'
      BY <2>1, <1>0, <1>1 DEF ListsOK
    <3>2. NeverStranded => NeverStranded'
      BY <2>1, <1>1, <1>4, SameLinked
    <3> QED
      BY <2>1, <1>2, <3>1, <3>2
  <2>2. CASE HasRoom(nbrs[des], n) /\ nbrs' = [nbrs EXCEPT ![des] = Append(@, n)]
    <3>1. nbrs' = [nbrs EXCEPT ![des] = l]
      BY <2>2, <1>2, <1>5 DEF l
    <3>2. Len(nbrs[des]) < Slack /\ n \notin Range(nbrs[des])
      BY <2>2 DEF HasRoom
    <3>3. /\ des \notin Range(nbrs[des])
          /\ \A i, j \in DOMAIN nbrs[des] : nbrs[des][i] = nbrs[des][j] => i = j
      BY <1>0, <1>5 DEF ListsOK
    <3>4. Len(l) <= Slack
      <4> DEFINE k == Len(nbrs[des])
                 m == Len(l)
      <4>1. k \in Nat /\ m = k + 1
        BY <1>8
      <4>2. k < Slack
        BY <3>2
      <4> HIDE DEF k, m
      <4>3. m <= Slack
        BY <4>1, <4>2, ConstantFacts
      <4> QED
        BY <4>3 DEF m
    <3>5. des \notin Range(l)
      <4> SUFFICES ASSUME NEW i \in DOMAIN l PROVE l[i] # des
        BY DEF Range
      <4> HIDE DEF n, des
      <4> DEFINE k == Len(nbrs[des])
      <4>1. /\ k \in Nat /\ i \in 1 .. k + 1 /\ DOMAIN nbrs[des] = 1 .. k
            /\ l[k + 1] = n /\ \A j \in 1 .. k : l[j] = nbrs[des][j]
        BY <1>8
      <4> HIDE DEF k
      <4>2. i \in 1 .. k \/ i = k + 1
        BY <4>1, LastIndex
      <4>3. CASE i = k + 1
        BY <4>1, <4>3, <1>6
      <4>4. CASE i \in 1 .. k
        <5>1. l[i] = nbrs[des][i] /\ nbrs[des][i] \in Range(nbrs[des])
          BY <4>1, <4>4 DEF Range
        <5> QED
          BY <5>1, <3>3
      <4> QED
        BY <4>2, <4>3, <4>4
    <3>6. \A i, j \in DOMAIN l : l[i] = l[j] => i = j
      <4> HIDE DEF n, des
      <4> QED
        BY <1>4, <1>7, <3>2, <3>3, AppendDistinct DEF l
    <3> HIDE DEF n, des
    <3>7. ListsOK' /\ (nbrs \in [Nodes -> Seq(Nodes)])'
      BY <1>0, <1>1, <1>4, <1>5, <1>8, <3>1, <3>4, <3>5, <3>6, ListsPrimed
    <3>8. NeverStranded => NeverStranded'
      BY <1>0, <1>1, <1>4, <1>5, <1>8, <3>1, StrandedPrimed
    <3> QED
      BY <3>7, <3>8
  <2> QED
    BY <2>1, <2>2, <1>1
<1>10. /\ todo'[t] = (IF s = "prune" THEN todo[t] ELSE Tail(todo[t])) /\ pc'[t] = s
       /\ \A u \in Threads \ {t} : todo'[u] = todo[u] /\ pc'[u] = pc[u] /\ copy'[u] = copy[u]
       /\ s = "prune" => copy'[t] = l
  BY <1>1, <1>2, <1>3 DEF l
<1>11. TypeOK'
  <2>1. todo' \in [Threads -> Seq(Nodes)]
    BY <1>1, <1>2, <1>5
  <2>2. copy' \in [Threads -> Seq(Nodes)]
    BY <1>2, <1>3, <1>8 DEF l
  <2>3. pc' \in [Threads -> {"take", "search", "insert", "prune"}]
    BY <1>2, <1>3
  <2> QED
    BY <1>0, <1>1, <1>9, <2>1, <2>2, <2>3 DEF TypeOK
<1>12. ThreadsOK'
  <2>1. n \notin Range(todo'[t])
    BY <1>5, <1>6, <1>10
  <2>2. ASSUME NEW u \in Threads, u # t
        PROVE  /\ phase = "link" /\ pc'[u] # "take" => chunk[u] # << >>
               /\ pc'[u] \in {"take", "search"} => todo'[u] = << >>
               /\ pc'[u] \in {"insert", "prune"} => Head(chunk[u]) \notin Range(todo'[u])
               /\ pc'[u] = "prune" => todo'[u] # << >> /\ Head(chunk[u]) \in Range(copy'[u])
               /\ pc'[u] # "search" => queue[u] = EmptyQueue /\ seen[u] = {}
    BY <1>0, <1>4, <1>10, <2>2 DEF ThreadsOK
  <2>3. /\ pc'[t] \in {"insert", "prune"} /\ chunk[t] # << >>
        /\ n \notin Range(todo'[t])
        /\ pc'[t] = "prune" => todo'[t] # << >> /\ n \in Range(copy'[t])
        /\ queue[t] = EmptyQueue /\ seen[t] = {}
    BY <1>1, <1>4, <1>8, <1>10, <2>1
  <2> QED
    BY <1>1, <1>4, <2>2, <2>3 DEF ThreadsOK
<1> QED
  BY <1>4, <1>9, <1>11, <1>12 DEF IInv

(* The stale copy has the node at hand, which is not the one whose list is *)
(* written, so the pruned list is not empty.                               *)
LEMMA WriteBackStep ==
  ASSUME VamanaAssumption, IInv, NEW t \in Threads, WriteBack(t)
  PROVE  IInv' /\ (NeverStranded => NeverStranded')
<1>0. TypeOK /\ ListsOK /\ QueueOK /\ ThreadsOK /\ CleanupOK /\ SearchOK
  BY DEF IInv
<1> DEFINE n == Head(chunk[t])
           des == Head(todo[t])
           l == Prune(des, Range(copy[t]))
<1>1. /\ pc[t] = "prune"
      /\ nbrs' = [nbrs EXCEPT ![des] = l]
      /\ copy' = [copy EXCEPT ![t] = << >>]
      /\ todo' = [todo EXCEPT ![t] = Tail(@)]
      /\ pc' = [pc EXCEPT ![t] = "insert"]
      /\ UNCHANGED <<world, phase, next, chunk, dirty, queue, seen, pool>>
  BY DEF WriteBack, loop, scratch
<1>2. /\ world \in Worlds /\ nbrs \in [Nodes -> Seq(Nodes)]
      /\ todo \in [Threads -> Seq(Nodes)] /\ copy \in [Threads -> Seq(Nodes)]
      /\ pc \in [Threads -> {"take", "search", "insert", "prune"}]
  BY <1>0 DEF TypeOK
<1>3. todo[t] # << >> /\ n \in Range(copy[t]) /\ n \notin Range(todo[t])
  BY <1>0, <1>1 DEF ThreadsOK
<1>4. /\ phase = "link" /\ chunk[t] # << >> /\ n \in Nodes
      /\ QueueOK' /\ CleanupOK' /\ SearchOK' /\ Linked' = Linked
      /\ queue[t] = EmptyQueue /\ seen[t] = {}
  <2> HIDE DEF n, des, l
  <2>1. pc[t] \in {"insert", "prune"} /\ "insert" \in {"take", "insert", "prune"}
    BY <1>1
  <2> QED
    BY <1>1, <2>1, InsertingKeeps DEF n
<1>5. /\ des \in Nodes /\ des \in Range(todo[t])
      /\ Tail(todo[t]) \in Seq(Nodes) /\ Range(Tail(todo[t])) \subseteq Range(todo[t])
  <2> HIDE DEF n, des, l
  <2> QED
    BY <1>0, <1>3, TodoFacts DEF des
<1>6. /\ l \in Seq(Nodes) /\ Len(l) <= R /\ des \notin Range(l)
      /\ \A i, j \in DOMAIN l : l[i] = l[j] => i = j
      /\ l # << >>
  <2>1. Range(copy[t]) \in SUBSET Nodes
    BY <1>2 DEF Range
  <2> HIDE DEF n, des, l
  <2>2. l = Prune(des, Range(copy[t]))
    BY DEF l
  <2>3. IsPruned(l, des, Range(copy[t]))
    BY <1>2, <1>5, <2>1, <2>2, PruneFacts
  <2>4. Range(copy[t]) \ {des} # {}
    BY <1>3, <1>5
  <2> QED
    BY <2>3, <2>4 DEF IsPruned
<1> HIDE DEF l
<1>7. /\ ListsOK' /\ (nbrs \in [Nodes -> Seq(Nodes)])'
      /\ NeverStranded => NeverStranded'
  <2> HIDE DEF n, des
  <2>1. Len(l) <= Slack
    <3>1. Len(l) \in Nat
      BY <1>6
    <3> QED
      BY <3>1, <1>6, ConstantFacts
  <2>2. ListsOK' /\ (nbrs \in [Nodes -> Seq(Nodes)])'
    BY <1>0, <1>1, <1>5, <1>6, <2>1, ListsPrimed
  <2>3. NeverStranded => NeverStranded'
    BY <1>0, <1>1, <1>4, <1>5, <1>6, StrandedPrimed
  <2> QED
    BY <2>2, <2>3
<1>8. /\ todo'[t] = Tail(todo[t]) /\ pc'[t] = "insert"
      /\ \A u \in Threads \ {t} : todo'[u] = todo[u] /\ pc'[u] = pc[u] /\ copy'[u] = copy[u]
  BY <1>1, <1>2
<1>9. TypeOK'
  <2>1. todo' \in [Threads -> Seq(Nodes)]
    BY <1>1, <1>2, <1>5
  <2>2. copy' \in [Threads -> Seq(Nodes)]
    <3>1. << >> \in Seq(Nodes)
      OBVIOUS
    <3> QED
      BY <1>1, <1>2, <3>1
  <2>3. pc' \in [Threads -> {"take", "search", "insert", "prune"}]
    BY <1>1, <1>2
  <2> QED
    BY <1>0, <1>1, <1>7, <2>1, <2>2, <2>3 DEF TypeOK
<1>10. ThreadsOK'
  <2>1. ASSUME NEW u \in Threads, u # t
        PROVE  /\ phase = "link" /\ pc'[u] # "take" => chunk[u] # << >>
               /\ pc'[u] \in {"take", "search"} => todo'[u] = << >>
               /\ pc'[u] \in {"insert", "prune"} => Head(chunk[u]) \notin Range(todo'[u])
               /\ pc'[u] = "prune" => todo'[u] # << >> /\ Head(chunk[u]) \in Range(copy'[u])
               /\ pc'[u] # "search" => queue[u] = EmptyQueue /\ seen[u] = {}
    BY <1>0, <1>4, <1>8, <2>1 DEF ThreadsOK
  <2>2. n \notin Range(todo'[t])
    BY <1>3, <1>5, <1>8
  <2> QED
    BY <1>1, <1>4, <1>8, <2>1, <2>2 DEF ThreadsOK
<1> QED
  BY <1>4, <1>7, <1>9, <1>10 DEF IInv

(* The thread is through with its node.                                    *)
LEMMA NodeDoneStep ==
  ASSUME VamanaAssumption, IInv, NEW t \in Threads, NodeDone(t)
  PROVE  IInv' /\ (NeverStranded => NeverStranded')
<1>0. TypeOK /\ ListsOK /\ QueueOK /\ ThreadsOK /\ CleanupOK /\ SearchOK
  BY DEF IInv
<1>1. /\ pc[t] = "insert" /\ todo[t] = << >>
      /\ pc' = [pc EXCEPT ![t] = "take"]
      /\ UNCHANGED <<world, phase, next, chunk, dirty, queue, seen, pool>>
      /\ nbrs' = nbrs /\ todo' = todo /\ copy' = copy
  BY DEF NodeDone, loop, scratch
<1>2. /\ phase = "link" /\ QueueOK' /\ CleanupOK' /\ SearchOK' /\ Linked' = Linked
      /\ queue[t] = EmptyQueue /\ seen[t] = {}
  <2>1. pc[t] \in {"insert", "prune"} /\ "take" \in {"take", "insert", "prune"}
    BY <1>1
  <2> QED
    BY <1>1, <2>1, InsertingKeeps
<1>3. /\ pc \in [Threads -> {"take", "search", "insert", "prune"}]
      /\ pc'[t] = "take" /\ \A u \in Threads \ {t} : pc'[u] = pc[u]
  BY <1>0, <1>1 DEF TypeOK
<1>4. TypeOK'
  BY <1>0, <1>1, <1>3 DEF TypeOK
<1>5. ListsOK'
  BY <1>0, <1>1 DEF ListsOK
<1>6. ThreadsOK'
  BY <1>0, <1>1, <1>2, <1>3 DEF ThreadsOK
<1>7. NeverStranded => NeverStranded'
  BY <1>1, <1>2, SameLinked
<1> QED
  BY <1>2, <1>4, <1>5, <1>6, <1>7 DEF IInv

(* No thread has more than the node it has finished.                       *)
LEMMA BarrierStep ==
  ASSUME VamanaAssumption, IInv, Barrier
  PROVE  IInv' /\ (NeverStranded => NeverStranded')
<1>0. TypeOK /\ ListsOK /\ QueueOK /\ ThreadsOK /\ CleanupOK /\ SearchOK
  BY DEF IInv
<1>1. /\ phase = "link" /\ next = Size
      /\ \A t \in Threads : pc[t] = "take" /\ Len(chunk[t]) <= 1
      /\ phase' = "cleanup" /\ chunk' = [t \in Threads |-> << >>]
      /\ UNCHANGED <<world, next, nbrs, dirty, pc, todo, copy, queue, seen, pool>>
  BY DEF Barrier, scratch
<1>2. \A t \in Threads : queue[t] = EmptyQueue /\ seen[t] = {} /\ todo[t] = << >>
  BY <1>0, <1>1 DEF ThreadsOK
<1>3. TypeOK'
  <2>1. chunk' \in [Threads -> Seq(Nodes)]
    <3>1. << >> \in Seq(Nodes)
      OBVIOUS
    <3> QED
      BY <1>1, <3>1
  <2> QED
    BY <1>0, <1>1, <2>1 DEF TypeOK
<1>4. ListsOK'
  BY <1>0, <1>1 DEF ListsOK
<1>5. QueueOK'
  <2>1. QueueSize' \in Nat
    BY <1>1, ConstantFacts DEF QueueSize
  <2>2. \A t \in Threads : Holds(Target(t)', QueueSize', queue'[t], seen'[t])
    <3> SUFFICES ASSUME NEW t \in Threads
                 PROVE  Holds(Target(t)', QueueSize', queue'[t], seen'[t])
      OBVIOUS
    <3>1. queue'[t] = EmptyQueue /\ seen'[t] = {}
      BY <1>1, <1>2
    <3> QED
      BY <2>1, <3>1, HoldsEmpty
  <2>3. (seen \in [Threads -> SUBSET Nodes])'
    BY <1>3 DEF TypeOK
  <2> QED
    BY <1>0, <2>2, <2>3, QueuesPrimed
<1>6. ThreadsOK'
  BY <1>0, <1>1, <1>2 DEF ThreadsOK
<1>7. CleanupOK'
  BY <1>0, <1>1 DEF CleanupOK
<1>8. SearchOK'
  BY <1>1 DEF SearchOK
<1>9. Linked' \subseteq Linked
  <2> SUFFICES ASSUME NEW x \in Linked', NEW t \in Threads, chunk[t] # << >>
               PROVE  x \notin Range(chunk[t]) \ {Head(chunk[t])}
    BY <1>1 DEF Linked
  <2>1. chunk[t] \in Seq(Nodes) /\ Len(chunk[t]) <= 1
    BY <1>0, <1>1 DEF TypeOK
  <2>2. Len(chunk[t]) \in Nat /\ Len(chunk[t]) # 0
    BY <2>1
  <2>3. Head(chunk[t]) = chunk[t][1] /\ DOMAIN chunk[t] = 1 .. Len(chunk[t])
    BY <2>1
  <2>4. DOMAIN chunk[t] = {1}
    BY <2>1, <2>2, <2>3
  <2> QED
    BY <2>3, <2>4 DEF Range
<1>10. NeverStranded => NeverStranded'
  BY <1>1, <1>9, SameLinked
<1> QED
  BY <1>3, <1>4, <1>5, <1>6, <1>7, <1>8, <1>10 DEF IInv

(* The cleanup shortens lists and empties none.                            *)
LEMMA CleanupStep ==
  ASSUME VamanaAssumption, IInv, Cleanup
  PROVE  IInv' /\ (NeverStranded => NeverStranded')
<1>0. TypeOK /\ ListsOK /\ QueueOK /\ ThreadsOK /\ CleanupOK /\ SearchOK
  BY DEF IInv
<1> DEFINE x == CHOOSE y \in dirty : \A z \in dirty : y <= z
           l == Prune(x, Range(nbrs[x]))
<1>1. /\ phase = "cleanup" /\ dirty # {}
      /\ nbrs' = IF Len(nbrs[x]) > R THEN [nbrs EXCEPT ![x] = Prune(x, Range(@))] ELSE nbrs
      /\ dirty' = dirty \ {x}
      /\ UNCHANGED <<world, phase, next, chunk, pc, todo, copy, queue, seen, pool>>
  BY DEF Cleanup, scratch, loop
<1>2. x \in dirty /\ x \in Nodes
  <2>1. dirty \in SUBSET Nodes /\ dirty \in SUBSET Nat
    <3>1. dirty \in SUBSET Nodes
      BY <1>0 DEF TypeOK
    <3>2. Nodes \subseteq Nat
      BY ConstantFacts DEF Nodes
    <3> QED
      BY <3>1, <3>2
  <2>2. \E y \in dirty : \A z \in dirty : y <= z
    BY <1>1, <2>1, LeastNumber
  <2> QED
    BY <2>1, <2>2
<1> HIDE DEF x
<1>3. world \in Worlds /\ nbrs \in [Nodes -> Seq(Nodes)]
  BY <1>0 DEF TypeOK
<1>4. nbrs[x] \in Seq(Nodes) /\ Range(nbrs[x]) \in SUBSET Nodes /\ Len(nbrs[x]) \in Nat
  <2>1. nbrs[x] \in Seq(Nodes)
    BY <1>2, <1>3
  <2> QED
    BY <2>1 DEF Range
<1>5. IsPruned(l, x, Range(nbrs[x]))
  <2> HIDE DEF l
  <2>1. l = Prune(x, Range(nbrs[x]))
    BY DEF l
  <2> QED
    BY <1>2, <1>3, <1>4, <2>1, PruneFacts
<1> HIDE DEF l
<1>6. Linked' = Linked
  BY <1>1 DEF Linked
<1>7. \/ nbrs' = nbrs /\ Len(nbrs[x]) <= R
      \/ nbrs' = [nbrs EXCEPT ![x] = l] /\ l # << >>
  <2>1. CASE ~ (Len(nbrs[x]) > R)
    BY <2>1, <1>1, <1>4, ConstantFacts
  <2>2. CASE Len(nbrs[x]) > R
    <3>1. nbrs' = [nbrs EXCEPT ![x] = l]
      BY <2>2, <1>1, <1>2, <1>3 DEF l
    <3>2. 1 \in DOMAIN nbrs[x]
      BY <2>2, <1>4, ConstantFacts
    <3>3. nbrs[x][1] \in Range(nbrs[x]) /\ x \notin Range(nbrs[x])
      BY <3>2, <1>0, <1>2 DEF Range, ListsOK
    <3>4. Range(nbrs[x]) \ {x} # {}
      BY <3>3
    <3> QED
      BY <3>1, <3>4, <1>5 DEF IsPruned
  <2> QED
    BY <2>1, <2>2
<1>8. /\ l \in Seq(Nodes) /\ Len(l) <= R /\ Len(l) <= Slack /\ x \notin Range(l)
      /\ \A i, j \in DOMAIN l : l[i] = l[j] => i = j
  <2>1. l \in Seq(Nodes) /\ Len(l) <= R
    BY <1>5 DEF IsPruned
  <2>2. Len(l) \in Nat
    BY <2>1
  <2>3. Len(l) <= Slack
    BY <2>1, <2>2, ConstantFacts
  <2> QED
    BY <2>1, <2>3, <1>5 DEF IsPruned
<1>9. /\ ListsOK' /\ (nbrs \in [Nodes -> Seq(Nodes)])'
      /\ Len(nbrs'[x]) <= R /\ \A y \in Nodes \ {x} : nbrs'[y] = nbrs[y]
      /\ NeverStranded => NeverStranded'
  <2>1. CASE nbrs' = nbrs /\ Len(nbrs[x]) <= R
    <3>1. ListsOK'
      BY <2>1, <1>0, <1>1 DEF ListsOK
    <3>2. NeverStranded => NeverStranded'
      BY <2>1, <1>1, <1>6, SameLinked
    <3> QED
      BY <2>1, <3>1, <3>2, <1>3
  <2>2. CASE nbrs' = [nbrs EXCEPT ![x] = l] /\ l # << >>
    <3>1. ListsOK' /\ (nbrs \in [Nodes -> Seq(Nodes)])'
      BY <2>2, <1>0, <1>1, <1>2, <1>8, ListsPrimed
    <3>2. NeverStranded => NeverStranded'
      BY <2>2, <1>0, <1>1, <1>2, <1>6, StrandedPrimed
    <3> QED
      BY <2>2, <3>1, <3>2, <1>2, <1>3, <1>8
  <2> QED
    BY <2>1, <2>2, <1>7
<1>10. TypeOK'
  BY <1>0, <1>1, <1>9 DEF TypeOK
<1>11. QueueOK'
  BY <1>0, <1>1 DEF QueueOK, QueueSize, TargetDist
<1>12. ThreadsOK'
  BY <1>0, <1>1 DEF ThreadsOK
<1>13. CleanupOK'
  BY <1>0, <1>1, <1>9 DEF CleanupOK
<1>14. SearchOK'
  BY <1>1 DEF SearchOK
<1> QED
  BY <1>9, <1>10, <1>11, <1>12, <1>13, <1>14 DEF IInv

(* A search starts at a node.                                              *)
LEMMA EntryFacts ==
  ASSUME VamanaAssumption, world \in Worlds
  PROVE  Entry \in Nodes
BY DEF VamanaAssumption, Entry

(* The search in the final graph begins.                                   *)
LEMMA AskStep ==
  ASSUME VamanaAssumption, IInv, Ask
  PROVE  IInv' /\ (NeverStranded => NeverStranded')
<1>0. TypeOK /\ ListsOK /\ QueueOK /\ ThreadsOK /\ CleanupOK /\ SearchOK
  BY DEF IInv
<1> DEFINE t == Querier
           r == Insert(EmptyQueue, LSearch, Neighbor(Entry, world.query[Entry]))
           d == Target(t)'
<1>1. /\ phase = "cleanup" /\ dirty = {} /\ phase' = "built"
      /\ pc' = [pc EXCEPT ![t] = "search"]
      /\ queue' = [queue EXCEPT ![t] = r]
      /\ seen' = [seen EXCEPT ![t] = {Entry}]
      /\ UNCHANGED <<world, next, chunk, nbrs, dirty, pool, todo, copy>>
  BY DEF Ask, loop
<1>2. /\ world \in Worlds /\ Entry \in Nodes /\ t \in Threads
      /\ chunk \in [Threads -> Seq(Nodes)] /\ queue \in [Threads -> Queues]
      /\ seen \in [Threads -> SUBSET Nodes] /\ pool \in [Threads -> SUBSET Nodes]
      /\ pc \in [Threads -> {"take", "search", "insert", "prune"}]
      /\ \A u \in Threads : Ids(queue[u]) \subseteq seen[u] /\ pool[u] \subseteq seen[u]
  BY <1>0, EntryFacts, ConstantFacts DEF TypeOK, Queues
<1>3. /\ d \in [Nodes -> Int] /\ d[Entry] = world.query[Entry]
      /\ \A u \in Threads : Target(u)' = Target(u)
  <2>1. \A u \in Threads : \A x \in Nodes : TargetDist(u, x)' = world.query[x] /\ TargetDist(u, x) = world.query[x]
    BY <1>1 DEF TargetDist
  <2>2. \A x \in Nodes : world.query[x] \in Int
    BY <1>2, DistanceFacts
  <2>3. d = [x \in Nodes |-> world.query[x]]
    BY <1>2, <2>1 DEF Target
  <2> QED
    BY <1>2, <2>1, <2>2, <2>3 DEF Target
<1> HIDE DEF d
<1>4. QueueSize' = LSearch /\ QueueSize = LSearch /\ LSearch \in Nat \ {0}
  BY <1>1, ConstantFacts DEF QueueSize
<1>5. Holds(d, LSearch, r, {Entry}) /\ StartsAt(r, Entry)
  <2>1. r = Insert(EmptyQueue, LSearch, Neighbor(Entry, d[Entry]))
    BY <1>3
  <2>2. d \in [Nodes -> Int] /\ LSearch \in Nat \ {0} /\ Entry \in Nodes
    BY <1>2, <1>3, <1>4
  <2> HIDE DEF r
  <2>3. Holds(d, LSearch, r, {Entry})
    BY <2>1, <2>2, StartQueue
  <2>4. StartsAt(r, Entry)
    BY <2>1, <2>2, StartQueue
  <2> QED
    BY <2>3, <2>4
<1> HIDE DEF r
<1>6. /\ queue'[t] = r /\ seen'[t] = {Entry} /\ pc'[t] = "search"
      /\ \A u \in Threads \ {t} : queue'[u] = queue[u] /\ seen'[u] = seen[u] /\ pc'[u] = pc[u]
  BY <1>1, <1>2
<1>7. (seen \in [Threads -> SUBSET Nodes])'
  BY <1>1, <1>2
<1>8. QueueOK' /\ SeenIsEnough'
  <2>1. \A u \in Threads :
           \/ /\ queue'[u] = queue[u] /\ seen'[u] = seen[u]
              /\ QueueSize' = QueueSize /\ Target(u)' = Target(u)
           \/ Holds(Target(u)', QueueSize', queue'[u], seen'[u])
    BY <1>3, <1>4, <1>5, <1>6 DEF d
  <2> QED
    BY <1>0, <1>7, <2>1, QueuesPrimed
<1>9. pool[t] = {}
  <2>1. seen[t] = {}
    BY <1>0, <1>1, <1>2 DEF ThreadsOK
  <2> QED
    BY <2>1, <1>2
<1>10. TypeOK'
  <2>1. r \in Queues
    BY <1>5 DEF Holds
  <2>2. queue' \in [Threads -> Queues]
        /\ pc' \in [Threads -> {"take", "search", "insert", "prune"}]
    BY <1>1, <1>2, <2>1
  <2>3. \A u \in Threads : Ids(queue'[u]) \subseteq seen'[u] /\ pool'[u] \subseteq seen'[u]
    BY <1>1, <1>2, <1>6, <1>8, <1>9 DEF SeenIsEnough
  <2> QED
    BY <1>0, <1>1, <1>7, <2>2, <2>3 DEF TypeOK, Queues
<1>11. ListsOK'
  <2>1. \A x \in Nodes : Len(nbrs[x]) <= R
    BY <1>0, <1>1 DEF CleanupOK
  <2> QED
    BY <1>0, <1>1, <2>1 DEF ListsOK
<1>12. ThreadsOK'
  BY <1>0, <1>1, <1>6 DEF ThreadsOK
<1>13. CleanupOK'
  BY <1>0, <1>1 DEF CleanupOK
<1>14. SearchOK'
  <2>1. Entry' = Entry
    BY <1>1 DEF Entry
  <2> QED
    BY <1>1, <1>5, <1>6, <2>1 DEF SearchOK, StartsAt
<1>15. NeverStranded => NeverStranded'
  <2>1. \A u \in Threads : chunk[u] = << >>
    BY <1>0, <1>1 DEF ThreadsOK
  <2>2. Linked' = Linked
    BY <1>1, <2>1 DEF Linked
  <2> QED
    BY <1>1, <2>2, SameLinked
<1> QED
  BY <1>8, <1>10, <1>11, <1>12, <1>13, <1>14, <1>15 DEF IInv

(* It ends when nothing is left to expand.                                 *)
LEMMA AnswerStep ==
  ASSUME VamanaAssumption, IInv, Answer
  PROVE  IInv' /\ (NeverStranded => NeverStranded')
<1>0. TypeOK /\ ListsOK /\ QueueOK /\ ThreadsOK /\ CleanupOK /\ SearchOK
  BY DEF IInv
<1>1. /\ phase = "built" /\ ~ HasUnexpanded(queue[Querier]) /\ phase' = "searched"
      /\ pc' = [pc EXCEPT ![Querier] = "take"]
      /\ UNCHANGED <<world, next, chunk, nbrs, dirty, todo, copy, queue, seen, pool>>
  BY DEF Answer, loop, scratch
<1>2. /\ pc \in [Threads -> {"take", "search", "insert", "prune"}] /\ Querier \in Threads
      /\ pc'[Querier] = "take" /\ \A u \in Threads \ {Querier} : pc'[u] = pc[u]
  BY <1>0, <1>1, ConstantFacts DEF TypeOK
<1>3. TypeOK'
  BY <1>0, <1>1, <1>2 DEF TypeOK
<1>4. ListsOK'
  BY <1>0, <1>1 DEF ListsOK
<1>5. QueueOK'
  BY <1>0, <1>1 DEF QueueOK, QueueSize, TargetDist
<1>6. ThreadsOK'
  BY <1>0, <1>1, <1>2 DEF ThreadsOK
<1>7. CleanupOK'
  BY <1>0, <1>1 DEF CleanupOK
<1>8. SearchOK'
  <2>1. Entry' = Entry
    BY <1>1 DEF Entry
  <2> QED
    BY <1>0, <1>1, <2>1 DEF SearchOK
<1>9. NeverStranded => NeverStranded'
  <2>1. \A u \in Threads : chunk[u] = << >>
    BY <1>0, <1>1 DEF ThreadsOK
  <2>2. Linked' = Linked
    BY <1>1, <2>1 DEF Linked
  <2> QED
    BY <1>1, <2>2, SameLinked
<1> QED
  BY <1>3, <1>4, <1>5, <1>6, <1>7, <1>8, <1>9 DEF IInv

(* A step that changes nothing.                                            *)
LEMMA StutterStep ==
  ASSUME IInv, UNCHANGED vars
  PROVE  IInv' /\ (NeverStranded => NeverStranded')
<1>1. UNCHANGED <<world, phase, next, nbrs, dirty, pc, chunk, queue, seen, pool, todo, copy>>
  BY DEF vars, loop, scratch
<1>2. TypeOK'
  BY <1>1 DEF IInv, TypeOK
<1>3. ListsOK'
  BY <1>1 DEF IInv, ListsOK
<1>4. QueueOK'
  BY <1>1 DEF IInv, QueueOK, QueueSize, TargetDist
<1>5. ThreadsOK' /\ CleanupOK'
  BY <1>1 DEF IInv, ThreadsOK, CleanupOK
<1>6. SearchOK'
  BY <1>1 DEF IInv, SearchOK, Entry
<1>7. NeverStranded => NeverStranded'
  BY <1>1 DEF NeverStranded, Linked
<1> QED
  BY <1>2, <1>3, <1>4, <1>5, <1>6, <1>7 DEF IInv

-------------------------------------------------------------------------------
(* What no step of the construction or of the search disturbs.             *)

(* Every step keeps the invariant and every link that keeps a node         *)
(* reachable from its list.                                                *)
LEMMA Steps ==
  ASSUME VamanaAssumption, IInv, [Next]_vars
  PROVE  IInv' /\ (NeverStranded => NeverStranded')
<1>1. ASSUME NEW t \in Threads, Step(t) PROVE IInv' /\ (NeverStranded => NeverStranded')
  <2>1. CASE Take(t)
    BY <2>1, TakeStep
  <2>2. CASE Hop(t)
    BY <2>2, HopStep
  <2>3. CASE SetLinks(t)
    BY <2>3, SetLinksStep
  <2>4. CASE InterInsert(t)
    BY <2>4, InterInsertStep
  <2>5. CASE WriteBack(t)
    BY <2>5, WriteBackStep
  <2>6. CASE NodeDone(t)
    BY <2>6, NodeDoneStep
  <2> QED
    BY <1>1, <2>1, <2>2, <2>3, <2>4, <2>5, <2>6 DEF Step
<1>2. CASE Main
  BY <1>2, BarrierStep, CleanupStep, AskStep, AnswerStep DEF Main
<1>3. CASE UNCHANGED vars
  BY <1>3, StutterStep
<1> QED
  BY <1>1, <1>2, <1>3 DEF Next

(* Under every interleaving of the threads the adjacency lists stay free   *)
(* of repetitions and within their memory, every queue is sorted and holds *)
(* the nearest of the nodes its search has met, and the cleanup brings     *)
(* every list down to the range.                                           *)
THEOREM Inductive ==
  ASSUME VamanaAssumption
  PROVE  Spec => []IInv
<1>1. Init => IInv
  BY InitIInv
<1>2. IInv /\ [Next]_vars => IInv'
  BY Steps
<1> QED
  BY <1>1, <1>2, PTL DEF Spec

(* No node but the medoid loses its last link, whatever lists the threads  *)
(* prune, overwrite and write back from stale copies.                      *)
THEOREM LinksStay ==
  ASSUME VamanaAssumption
  PROVE  Spec => []NeverStranded
<1>1. Init => NeverStranded
  BY InitIInv
<1>2. IInv /\ NeverStranded /\ [Next]_vars => NeverStranded'
  BY Steps
<1> QED
  BY <1>1, <1>2, Inductive, PTL DEF Spec

(* The answer of a search is at least as near as the node it started from, *)
(* and what it left out lies beyond a full queue.                          *)
THEOREM SearchIsClosed ==
  ASSUME VamanaAssumption
  PROVE  Spec => []SearchClosed
<1>1. ASSUME IInv PROVE SearchClosed
  <2>0. TypeOK /\ QueueOK /\ SearchOK
    BY <1>1 DEF IInv
  <2> SUFFICES ASSUME phase = "searched" PROVE SearchClosed
    BY DEF SearchClosed
  <2> DEFINE q == queue[Querier]
             S == seen[Querier]
  <2>1. /\ q.data \in Seq(Entries) /\ DOMAIN q.data = 1 .. Len(q.data)
        /\ Len(q.data) \in Nat
        /\ Ids(q) \subseteq S /\ Querier \in Threads /\ Entry \in S /\ S \subseteq Nodes
        /\ nbrs \in [Nodes -> Seq(Nodes)] /\ world \in Worlds
        /\ LSearch \in Nat \ {0} /\ QueueSize = LSearch
    <3>1. Querier \in Threads /\ LSearch \in Nat \ {0} /\ QueueSize = LSearch
      BY ConstantFacts DEF QueueSize
    <3>2. queue[Querier] \in Queues /\ Ids(queue[Querier]) \subseteq S /\ S \subseteq Nodes
      BY <2>0, <3>1 DEF TypeOK, Queues
    <3>3. nbrs \in [Nodes -> Seq(Nodes)] /\ world \in Worlds /\ Entry \in S
      BY <2>0 DEF TypeOK, SearchOK
    <3>4. q.data \in Seq(Entries)
      BY <3>2 DEF Queues
    <3>5. DOMAIN q.data = 1 .. Len(q.data) /\ Len(q.data) \in Nat
      <4> HIDE DEF q
      <4> QED
        BY <3>4
    <3> QED
      BY <3>1, <3>2, <3>3, <3>4, <3>5
  <2>2. \A x \in Nodes : world.query[x] \in Int /\ TargetDist(Querier, x) = world.query[x]
    BY <2>1, DistanceFacts DEF TargetDist
  <2>3. /\ \A i \in DOMAIN q.data : q.data[i].distance = TargetDist(Querier, q.data[i].id)
        /\ Sorted(q) /\ CursorAtFirst(q)
        /\ \A x \in S \ Ids(q) : Len(q.data) = LSearch /\ Less(q.data[LSearch], Neighbor(x, TargetDist(Querier, x)))
    BY <2>0, <2>1 DEF QueueOK
  <2>4. \A i \in DOMAIN q.data : q.data[i].expanded /\ Range(nbrs[q.data[i].id]) \subseteq S
    <3>1. ~ HasUnexpanded(q)
          /\ \A i \in DOMAIN q.data : q.data[i].expanded => Range(nbrs[q.data[i].id]) \subseteq S
      BY <2>0 DEF SearchOK
    <3>2. q.cur \in 1 .. Len(q.data) + 1 /\ \A i \in 1 .. q.cur - 1 : q.data[i].expanded
      BY <2>3 DEF CursorAtFirst
    <3>3. q.cur - 1 = Len(q.data)
      <4>1. Len(q.data) \in Nat /\ q.cur \in Nat /\ q.cur <= Len(q.data) + 1
            /\ ~ (q.cur <= Len(q.data))
        BY <3>1, <3>2, <2>1 DEF HasUnexpanded
      <4> DEFINE c == q.cur
                 m == Len(q.data)
      <4>2. m \in Nat /\ c \in Nat /\ c <= m + 1 /\ ~ (c <= m)
        BY <4>1
      <4> HIDE DEF c, m
      <4>3. c - 1 = m
        BY <4>2
      <4> QED
        BY <4>3 DEF c, m
    <3> QED
      BY <3>1, <3>2, <3>3, <2>1
  <2> HIDE DEF q, S
  <2>5. \A i \in DOMAIN q.data : q.data[i].id \in Nodes /\ q.data[i].distance = world.query[q.data[i].id]
    <3>1. \A i \in DOMAIN q.data : q.data[i].id \in Ids(q)
      BY DEF Ids
    <3> QED
      BY <3>1, <2>1, <2>2, <2>3
  <2>6. \A x \in S \ Ids(q) : Len(q.data) = LSearch /\ Less(q.data[LSearch], Neighbor(x, world.query[x]))
    BY <2>1, <2>2, <2>3
  <2>7. ASSUME NEW i \in DOMAIN q.data
        PROVE  world.query[q.data[1].id] <= world.query[q.data[i].id]
    <3>1. 1 \in DOMAIN q.data /\ (1 < i \/ 1 = i)
      BY <2>1
    <3>2. 1 < i => Less(q.data[1], q.data[i])
      BY <2>3, <3>1 DEF Sorted
    <3>3. world.query[q.data[1].id] \in Int /\ world.query[q.data[i].id] \in Int
      BY <2>2, <2>5, <3>1
    <3>4. /\ q.data[1].distance = world.query[q.data[1].id]
          /\ q.data[i].distance = world.query[q.data[i].id]
      BY <3>1, <2>5
    <3>5. CASE 1 < i
      BY <3>2, <3>3, <3>4, <3>5, LessDistance
    <3>6. CASE 1 = i
      BY <3>3, <3>6
    <3> QED
      BY <3>1, <3>5, <3>6
  <2>8. world.query[q.data[1].id] <= world.query[Entry]
    <3>1. CASE Entry \in Ids(q)
      BY <3>1, <2>7 DEF Ids
    <3>2. CASE Entry \notin Ids(q)
      <4>1. Len(q.data) = LSearch
            /\ Less(q.data[LSearch], Neighbor(Entry, world.query[Entry]))
        BY <3>2, <2>1, <2>6
      <4>2. LSearch \in DOMAIN q.data /\ 1 \in DOMAIN q.data
        BY <4>1, <2>1
      <4>3. world.query[q.data[LSearch].id] <= world.query[Entry]
        <5>1. world.query[Entry] \in Int /\ world.query[q.data[LSearch].id] \in Int
          BY <2>1, <2>2, <2>5, <4>2
        <5>2. q.data[LSearch].distance = world.query[q.data[LSearch].id]
          BY <4>2, <2>5
        <5>3. Neighbor(Entry, world.query[Entry]).distance = world.query[Entry]
          BY DEF Neighbor
        <5> QED
          BY <4>1, <5>1, <5>2, <5>3, LessDistance
      <4>4. world.query[q.data[1].id] <= world.query[q.data[LSearch].id]
        BY <4>2, <2>7
      <4>5. world.query[Entry] \in Int /\ world.query[q.data[LSearch].id] \in Int
            /\ world.query[q.data[1].id] \in Int
        BY <2>1, <2>2, <2>5, <4>2
      <4> DEFINE a == world.query[q.data[1].id]
                 b == world.query[q.data[LSearch].id]
                 e == world.query[Entry]
      <4>6. a \in Int /\ b \in Int /\ e \in Int /\ a <= b /\ b <= e
        BY <4>3, <4>4, <4>5
      <4> HIDE DEF a, b, e
      <4>7. a <= e
        BY <4>6
      <4> QED
        BY <4>7 DEF a, e
    <3> QED
      BY <3>1, <3>2
  <2>9. ASSUME NEW x \in Ids(q), NEW y \in Range(nbrs[x])
        PROVE  y \in Ids(q) \/ (Len(q.data) = LSearch /\ Less(q.data[LSearch], Neighbor(y, world.query[y])))
    <3>1. PICK i \in DOMAIN q.data : q.data[i].id = x
      BY DEF Ids
    <3>2. y \in S
      BY <3>1, <2>4
    <3> QED
      BY <3>2, <2>6
  <2> QED
    BY <2>8, <2>9 DEF SearchClosed, q
<1> QED
  BY <1>1, Inductive, PTL

===============================================================================
