--------------------------- MODULE PoolSearchProofs ---------------------------
(***************************************************************************)
(* The cursor of the NSG search: its jumps leave no node of the pool       *)
(* unexpanded, for every graph, every beam size and every query.           *)
(***************************************************************************)
EXTENDS PoolSearch, FiniteSetTheorems, WellFoundedInduction, TLAPS

USE DEF Slots

(* A nonempty set of numbers has a least member.                           *)
LEMMA LeastNumber ==
  ASSUME NEW T \in SUBSET Nat, T # {}
  PROVE  \E m \in T : \A n \in T : m <= n
<1> DEFINE R == OpToRel(<, Nat)
<1>1. IsWellFoundedOn(R, Nat)
  BY NatLessThanWellFounded
<1>2. PICK m \in T : \A n \in T : ~ (<<n, m>> \in R)
  <2> HIDE DEF R
  <2> QED
    BY <1>1, WFMin
<1>3. \A n \in T : ~ (n < m)
  BY <1>2 DEF OpToRel
<1> QED
  BY <1>3

LEMMA InputFacts ==
  ASSUME TypeOK
  PROVE  /\ input.links \in [Nodes -> Seq(Nodes)]
         /\ dist \in [Nodes -> Nat]
         /\ input.start \in Nodes
         /\ L \in Nat \ {0} /\ L \in Slots
  BY PoolAssumption DEF TypeOK, dist

(* InsertIntoPool finds a place for a node nearer than the last one.       *)
LEMMA PlaceFacts ==
  ASSUME TypeOK, pc = "scan", NEW x \in Nodes, dist[x] < dist[pool[L]]
  PROVE  /\ Place(x) \in Slots
         /\ dist[pool[Place(x)]] > dist[x]
         /\ \A i \in 1 .. Place(x) - 1 : dist[pool[i]] <= dist[x]
<1> DEFINE T == {r \in Slots : dist[pool[r]] > dist[x]}
           Fits(r) == /\ dist[pool[r]] > dist[x]
                      /\ \A i \in 1 .. r - 1 : dist[pool[i]] <= dist[x]
<1>1. /\ pool \in [Slots -> Nodes] /\ dist \in [Nodes -> Nat]
      /\ L \in Nat /\ L \in Slots
  BY InputFacts DEF TypeOK
<1>2. L \in T /\ T \in SUBSET Nat
  BY <1>1
<1>3. PICK m \in T : \A n \in T : m <= n
  BY <1>2, LeastNumber
<1>4. m \in Slots /\ dist[pool[m]] > dist[x]
  BY <1>3
<1>5. ASSUME NEW i \in 1 .. m - 1 PROVE dist[pool[i]] <= dist[x]
  <2>1. i \in Slots /\ ~ (m <= i)
    BY <1>1, <1>4
  <2>2. i \notin T
    BY <1>3, <2>1
  <2>3. ~ (dist[pool[i]] > dist[x])
    BY <2>1, <2>2
  <2>4. dist[pool[i]] \in Nat /\ dist[x] \in Nat
    BY <1>1, <2>1
  <2> QED
    BY <2>3, <2>4
<1>6. \E r \in Slots : Fits(r)
  BY <1>4, <1>5
<1>7. Place(x) = CHOOSE r \in Slots : Fits(r)
  BY DEF Place
<1> HIDE DEF Fits
<1>8. Place(x) \in Slots /\ Fits(Place(x))
  BY <1>6, <1>7
<1> QED
  BY <1>8 DEF Fits

LEMMA InitIInv == Init => IInv
  BY PoolAssumption DEF Init, IInv, TypeOK, PoolInv, CursorInv, GatherInv

LEMMA GatherStep == IInv /\ Gather => IInv'
<1> SUFFICES ASSUME IInv, Gather PROVE IInv'
  OBVIOUS
<1> DEFINE list == input.links[input.start]
<1>1. list \in Seq(Nodes) /\ Len(list) \in Nat /\ L \in Nat \ {0}
  BY InputFacts DEF IInv
<1>2. /\ pool' = IF Len(list) <= L THEN list ELSE [i \in Slots |-> list[i]]
      /\ flags' = Range(pool')
  BY DEF Gather
<1>3. pool' \in Seq(Nodes) /\ Len(pool') <= L
  <2>1. CASE Len(list) <= L
    BY <1>1, <1>2, <2>1
  <2>2. CASE ~ (Len(list) <= L)
    <3>1. \A i \in Slots : list[i] \in Nodes
      BY <1>1, <2>2
    <3>2. pool' = [i \in 1 .. L |-> list[i]]
      BY <1>2, <2>2
    <3> QED
      BY <1>1, <3>1, <3>2
  <2> QED
    BY <2>1, <2>2
<1>4. flags' \in SUBSET Nodes
  <2>1. \A i \in DOMAIN pool' : pool'[i] \in Nodes
    BY <1>3
  <2> QED
    BY <1>2, <2>1 DEF Range
<1>5. Len(list) <= L => Range(list) = flags'
  BY <1>2
<1>6. TypeOK'
  BY <1>3, <1>4 DEF IInv, TypeOK, Gather
<1> QED
  BY <1>2, <1>5, <1>6 DEF IInv, PoolInv, CursorInv, GatherInv, Gather

LEMMA DrawStep == IInv /\ Draw => IInv'
<1> SUFFICES ASSUME IInv, Draw PROVE IInv'
  OBVIOUS
<1>1. PICK x \in Nodes \ flags : flags' = flags \cup {x} /\ pool' = Append(pool, x)
  BY DEF Draw
<1>2. /\ pool \in Seq(Nodes) /\ Len(pool) < L /\ L \in Nat /\ flags = Range(pool)
      /\ flags \in SUBSET Nodes
  BY InputFacts DEF IInv, TypeOK, GatherInv, Draw
<1>3. pool' \in Seq(Nodes) /\ Len(pool') <= L
  BY <1>1, <1>2
<1>4. Range(pool') = Range(pool) \cup {x}
  <2>1. /\ DOMAIN pool = 1 .. Len(pool)
        /\ DOMAIN pool' = 1 .. Len(pool) + 1
        /\ pool'[Len(pool) + 1] = x
        /\ \A i \in 1 .. Len(pool) : pool'[i] = pool[i]
    BY <1>1, <1>2
  <2>2. \A i \in 1 .. Len(pool) + 1 : i \in 1 .. Len(pool) \/ i = Len(pool) + 1
    BY <1>2
  <2>3. \A i \in 1 .. Len(pool) : i \in 1 .. Len(pool) + 1
    BY <1>2
  <2>4. Len(pool) + 1 \in 1 .. Len(pool) + 1
    BY <1>2
  <2> QED
    BY <2>1, <2>2, <2>3, <2>4 DEF Range
<1>5. TypeOK'
  BY <1>1, <1>2, <1>3 DEF IInv, TypeOK, Draw
<1>6. GatherInv'
  BY <1>1, <1>2, <1>4 DEF IInv, GatherInv, Draw
<1> QED
  BY <1>5, <1>6 DEF IInv, PoolInv, CursorInv, Draw

LEMMA SortPoolStep == IInv /\ SortPool => IInv'
<1> SUFFICES ASSUME IInv, SortPool PROVE IInv'
  OBVIOUS
<1>1. PICK b \in Bijection(Slots, Slots) : pool' = [i \in Slots |-> pool[b[i]]]
  BY DEF SortPool
<1>2. /\ b \in [Slots -> Slots]
      /\ \A j \in Slots : \E i \in Slots : b[i] = j
  BY DEF Bijection, Injection, Surjection
<1>3. /\ pool \in Seq(Nodes) /\ DOMAIN pool = Slots
      /\ flags = Range(pool) /\ L \in Nat \ {0}
  BY InputFacts DEF IInv, TypeOK, GatherInv, SortPool
<1>4. pool' \in [Slots -> Nodes]
  <2>1. \A j \in Slots : pool[j] \in Nodes
    BY <1>3
  <2> QED
    BY <1>1, <1>2, <2>1
<1>5. Sorted(pool)' /\ pc' = "search" /\ fresh' = flags /\ flags' = flags
  BY DEF SortPool, Sorted, dist
<1>6. Pooled' = flags
  <2>1. flags = {pool[j] : j \in Slots}
    BY <1>3 DEF Range
  <2>2. Pooled' = {pool[b[i]] : i \in Slots}
    BY <1>1 DEF Pooled
  <2>3. \A j \in Slots : pool[j] \in Pooled'
    BY <1>2, <2>2
  <2>4. \A i \in Slots : b[i] \in Slots
    BY <1>2
  <2> QED
    BY <2>1, <2>2, <2>3, <2>4
<1>7. TypeOK'
  BY <1>4, <1>5 DEF IInv, TypeOK, SortPool
<1>8. PoolInv'
  BY <1>5, <1>6 DEF PoolInv
<1>9. CursorInv'
  <2>1. k' = 1 /\ scan' = {}
    BY DEF CursorInv, IInv, SortPool
  <2> QED
    BY <1>5, <1>6, <2>1 DEF CursorInv
<1> QED
  BY <1>5, <1>7, <1>8, <1>9 DEF IInv, GatherInv, SortPool

LEMMA PassStep == IInv /\ Pass => IInv'
<1> SUFFICES ASSUME IInv, Pass PROVE IInv'
  OBVIOUS
<1>1. L \in Nat /\ k \in 1 .. L + 1 /\ k <= L
  BY InputFacts DEF IInv, TypeOK, Pass
<1>2. k' = k + 1
  BY <1>1 DEF Pass, Moved
<1>3. TypeOK'
  BY <1>1, <1>2 DEF IInv, TypeOK, Pass
<1>4. PoolInv' /\ GatherInv'
  BY DEF IInv, PoolInv, GatherInv, Pass, Pooled, Sorted, dist
<1>5. CursorInv'
  BY <1>1, <1>2 DEF IInv, CursorInv, Pass, Pooled
<1> QED
  BY <1>3, <1>4, <1>5 DEF IInv

LEMMA ExpandStep == IInv /\ Expand => IInv'
<1> SUFFICES ASSUME IInv, Expand PROVE IInv'
  OBVIOUS
<1>1. /\ L \in Nat /\ k \in 1 .. L + 1 /\ k <= L /\ k \in Slots
      /\ input.links \in [Nodes -> Seq(Nodes)]
      /\ pool \in [Slots -> Nodes] /\ pc = "search"
  BY InputFacts DEF IInv, TypeOK, Expand
<1>2. TypeOK'
  <2>1. Range(input.links[pool[k]]) \subseteq Nodes
    BY <1>1 DEF Range
  <2> QED
    BY <1>1, <2>1 DEF IInv, TypeOK, Expand
<1>3. PoolInv' /\ GatherInv'
  BY DEF IInv, PoolInv, GatherInv, Expand, Pooled, Sorted, dist
<1>4. \A i \in 1 .. k : pool[i] \notin fresh'
  BY <1>1 DEF IInv, CursorInv, Expand
<1>5. \A x \in Pooled \ fresh' : Range(input.links[x]) \subseteq flags \cup scan'
  BY <1>1 DEF IInv, CursorInv, Expand
<1>6. CursorInv'
  BY <1>1, <1>4, <1>5 DEF CursorInv, Expand, Pooled
<1> QED
  BY <1>2, <1>3, <1>6 DEF IInv

LEMMA AdvanceStep == IInv /\ Advance => IInv'
<1> SUFFICES ASSUME IInv, Advance PROVE IInv'
  OBVIOUS
<1>1. /\ L \in Nat /\ k \in 1 .. L + 1 /\ nk \in 1 .. L + 1 /\ k <= L
      /\ pc = "scan" /\ \A i \in 1 .. k : i < nk => pool[i] \notin fresh
  BY InputFacts DEF IInv, TypeOK, Advance, CursorInv
<1>2. k' = IF nk <= k THEN nk ELSE k + 1
  BY DEF Advance, Moved
<1>3. TypeOK'
  BY <1>1, <1>2 DEF IInv, TypeOK, Advance
<1>4. PoolInv' /\ GatherInv'
  BY DEF IInv, PoolInv, GatherInv, Advance, Pooled, Sorted, dist
<1>5. \A i \in 1 .. k' - 1 : pool[i] \notin fresh
  BY <1>1, <1>2
<1>6. CursorInv'
  BY <1>1, <1>5 DEF IInv, CursorInv, Advance, Pooled
<1> QED
  BY <1>3, <1>4, <1>6 DEF IInv

LEMMA StopStep == IInv /\ Stop => IInv'
<1> SUFFICES ASSUME IInv, Stop PROVE IInv'
  OBVIOUS
<1>1. L \in Nat /\ k \in 1 .. L + 1 /\ k > L
  BY InputFacts DEF IInv, TypeOK, Stop
<1>2. \A i \in Slots : pool[i] \notin fresh
  BY <1>1 DEF IInv, CursorInv, Stop
<1>3. TypeOK' /\ PoolInv' /\ GatherInv'
  BY DEF IInv, TypeOK, PoolInv, GatherInv, Stop, Pooled, Sorted, dist
<1>4. CursorInv'
  BY <1>2 DEF IInv, CursorInv, Stop, Pooled
<1> QED
  BY <1>3, <1>4 DEF IInv

(* An iteration over a link that leaves the pool as it is.                 *)
LEMMA IgnoreStep ==
  ASSUME IInv, Examine, UNCHANGED <<pool, fresh, nk>>,
         NEW x \in scan, x \in flags \/ dist[x] >= dist[pool[L]],
         scan' = scan \ {x}, flags' = flags \cup {x}
  PROVE  IInv'
<1>1. /\ pc = "scan" /\ UNCHANGED <<input, k, pc>> /\ L \in Slots /\ L \in Nat
      /\ dist \in [Nodes -> Nat] /\ pool \in [Slots -> Nodes] /\ x \in Nodes
      /\ dist' = dist
  BY InputFacts DEF IInv, TypeOK, Examine, dist
<1>2. TypeOK'
  BY <1>1 DEF IInv, TypeOK
<1>3. PoolInv'
  <2>1. Pooled' = Pooled /\ Sorted(pool)' = Sorted(pool)
    BY <1>1 DEF Pooled, Sorted
  <2>2. \A y \in flags \ Pooled, i \in Slots : dist[pool[i]] <= dist[y]
    BY <1>1 DEF IInv, PoolInv
  <2>3. ASSUME x \notin flags, NEW i \in Slots PROVE dist[pool[i]] <= dist[x]
    <3>1. dist[pool[i]] <= dist[pool[L]]
      BY <1>1 DEF IInv, PoolInv, Sorted
    <3>2. dist[pool[i]] \in Nat /\ dist[pool[L]] \in Nat /\ dist[x] \in Nat
      BY <1>1
    <3> QED
      BY <2>3, <3>1, <3>2
  <2> QED
    BY <1>1, <2>1, <2>2, <2>3 DEF IInv, PoolInv
<1>4. CursorInv'
  BY <1>1 DEF IInv, CursorInv, Pooled
<1>5. GatherInv'
  BY <1>1 DEF IInv, GatherInv
<1> QED
  BY <1>2, <1>3, <1>4, <1>5 DEF IInv

(* An iteration over a link that enters the pool.                          *)
LEMMA InsertStep ==
  ASSUME IInv, Examine,
         NEW x \in scan, x \notin flags, dist[x] < dist[pool[L]],
         scan' = scan \ {x}, flags' = flags \cup {x},
         pool' = Inserted(x, Place(x)),
         fresh' = (fresh \cap Range(pool')) \cup {x},
         nk' = IF Place(x) < nk THEN Place(x) ELSE nk
  PROVE  IInv'
<1>1. /\ pc = "scan" /\ UNCHANGED <<input, k, pc>> /\ L \in Slots /\ L \in Nat
      /\ dist \in [Nodes -> Nat] /\ pool \in [Slots -> Nodes] /\ x \in Nodes
      /\ dist' = dist /\ TypeOK
  BY InputFacts DEF IInv, TypeOK, Examine, dist
<1>2. PICK r \in Slots : /\ r = Place(x)
                         /\ dist[pool[r]] > dist[x]
                         /\ \A i \in 1 .. r - 1 : dist[pool[i]] <= dist[x]
  BY <1>1, PlaceFacts
<1>3. /\ \A i \in 1 .. r - 1 : i \in Slots /\ pool'[i] = pool[i]
      /\ pool'[r] = x
      /\ \A i \in r + 1 .. L : i \in Slots /\ i - 1 \in Slots /\ pool'[i] = pool[i - 1]
      /\ pool' \in [Slots -> Nodes]
  BY <1>1, <1>2 DEF Inserted
<1>4. \A i \in Slots : i \in 1 .. r - 1 \/ i = r \/ i \in r + 1 .. L
  BY <1>1, <1>2
<1>5. /\ Sorted(pool)
      /\ Pooled \subseteq flags
      /\ \A y \in flags \ Pooled, i \in Slots : dist[pool[i]] <= dist[y]
  BY <1>1 DEF IInv, PoolInv
<1>6. \A i \in Slots : pool[i] # x /\ dist[pool[i]] \in Nat
  BY <1>1, <1>5 DEF Pooled
<1>7. dist[x] \in Nat
  BY <1>1
<1>8. TypeOK'
  BY <1>1, <1>2, <1>3 DEF TypeOK
(* Who is in the pool now: x, and those before, but perhaps the last.      *)
<1>9. /\ x \in Pooled'
      /\ Range(pool') = Pooled'
      /\ \A y \in Pooled' : y = x \/ y \in Pooled
      /\ \A y \in Pooled : y \in Pooled' \/ y = pool[L]
  <2>1. x \in Pooled'
    BY <1>2, <1>3 DEF Pooled
  <2>2. ASSUME NEW y \in Pooled', y # x PROVE y \in Pooled
    <3>1. PICK i \in Slots : pool'[i] = y
      BY DEF Pooled
    <3>2. \E j \in Slots : pool[j] = y
      <4>1. CASE i \in 1 .. r - 1
        BY <1>1, <1>2, <1>3, <3>1, <4>1
      <4>2. CASE i \in r + 1 .. L
        <5>1. i - 1 \in Slots /\ pool[i - 1] = y
          BY <1>1, <1>2, <1>3, <3>1, <4>2
        <5> QED
          BY <5>1
      <4> QED
        BY <1>3, <1>4, <2>2, <3>1, <4>1, <4>2
    <3> QED
      BY <1>1, <1>5, <3>2 DEF Pooled
  <2>3. ASSUME NEW y \in Pooled, y # pool[L] PROVE y \in Pooled'
    <3>1. PICK i \in Slots : pool[i] = y /\ i < L
      BY <1>1, <2>3 DEF Pooled
    <3>2. CASE i < r
      <4>1. pool'[i] = y
        BY <1>1, <1>2, <1>3, <3>1, <3>2
      <4> QED
        BY <4>1 DEF Pooled
    <3>3. CASE ~ (i < r)
      <4>1. i + 1 \in r + 1 .. L /\ (i + 1) - 1 = i
        BY <1>1, <1>2, <3>1, <3>3
      <4>2. pool'[i + 1] = y /\ i + 1 \in Slots
        BY <1>3, <3>1, <4>1
      <4> QED
        BY <4>2 DEF Pooled
    <3> QED
      BY <3>2, <3>3
  <2>4. Range(pool') = Pooled'
    BY <1>3 DEF Range, Pooled
  <2> QED
    BY <2>1, <2>2, <2>3, <2>4
<1>10. Sorted(pool)'
  <2> SUFFICES ASSUME NEW i \in Slots, NEW j \in Slots, i < j
               PROVE  dist[pool'[i]] <= dist[pool'[j]]
    BY <1>1 DEF Sorted
  <2>1. CASE j \in 1 .. r - 1
    <3>1. i \in 1 .. r - 1
      BY <1>2, <2>1
    <3> QED
      BY <1>3, <1>5, <2>1, <3>1 DEF Sorted
  <2>2. CASE j = r
    <3>1. i \in 1 .. r - 1
      BY <1>2, <2>2
    <3> QED
      BY <1>2, <1>3, <2>2, <3>1
  <2>3. CASE j \in r + 1 .. L
    <3>1. pool'[j] = pool[j - 1] /\ j - 1 \in Slots
      BY <1>3, <2>3
    <3>2. dist[x] <= dist[pool[j - 1]]
      <4>1. r = j - 1 \/ r < j - 1
        BY <1>1, <1>2, <2>3
      <4>2. dist[pool[r]] <= dist[pool[j - 1]]
        BY <1>2, <1>5, <1>6, <3>1, <4>1 DEF Sorted
      <4> QED
        BY <1>2, <1>6, <1>7, <3>1, <4>2
    <3>3. CASE i \in 1 .. r - 1
      <4>1. i < j - 1 /\ pool'[i] = pool[i]
        BY <1>1, <1>2, <1>3, <2>3, <3>3
      <4> QED
        BY <1>5, <3>1, <4>1 DEF Sorted
    <3>4. CASE i = r
      BY <1>3, <3>1, <3>2, <3>4
    <3>5. CASE i \in r + 1 .. L
      <4>1. pool'[i] = pool[i - 1] /\ i - 1 \in Slots /\ i - 1 < j - 1
        BY <1>1, <1>2, <1>3, <2>3, <3>5
      <4> QED
        BY <1>5, <3>1, <4>1 DEF Sorted
    <3> QED
      BY <1>4, <3>3, <3>4, <3>5
  <2> QED
    BY <1>4, <2>1, <2>2, <2>3
<1>12. \A y \in (flags \cup {x}) \ Pooled', i \in Slots : dist[pool'[i]] <= dist[y]
  <2> SUFFICES ASSUME NEW y \in flags, y \notin Pooled', NEW i \in Slots
               PROVE  dist[pool'[i]] <= dist[y]
    BY <1>9
  <2>1. dist[pool[L]] <= dist[y] /\ dist[y] \in Nat
    BY <1>1, <1>5, <1>6, <1>9 DEF IInv, TypeOK
  <2>2. dist[pool'[i]] <= dist[pool[L]]
    <3>1. pool'[i] \in Pooled'
      BY DEF Pooled
    <3>2. CASE pool'[i] = x
      BY <1>1, <1>6, <1>7, <3>2
    <3>3. CASE pool'[i] \in Pooled
      <4>1. PICK j \in Slots : pool[j] = pool'[i]
        BY <3>3 DEF Pooled
      <4>2. j = L \/ j < L
        BY <1>1
      <4> QED
        BY <1>1, <1>5, <1>6, <4>1, <4>2 DEF Sorted
    <3> QED
      BY <1>9, <3>1, <3>2, <3>3
  <2>3. dist[pool'[i]] \in Nat
    BY <1>1, <1>3
  <2> QED
    BY <1>1, <1>6, <2>1, <2>2, <2>3
<1>13. PoolInv'
  <2>1. Pooled' \subseteq flags \cup {x}
    BY <1>5, <1>9
  <2> QED
    BY <1>1, <1>10, <1>12, <2>1 DEF PoolInv
<1>14. \A i \in 1 .. k : i < nk' => pool'[i] \notin fresh'
  <2> SUFFICES ASSUME NEW i \in 1 .. k, i < nk' PROVE pool'[i] \notin fresh'
    OBVIOUS
  <2>1. i < nk /\ i < r /\ i \in Slots
    BY <1>1, <1>2 DEF IInv, CursorInv, TypeOK
  <2>2. pool'[i] = pool[i] /\ pool[i] \notin fresh
    BY <1>1, <1>2, <1>3, <2>1 DEF IInv, CursorInv
  <2> QED
    BY <1>6, <2>1, <2>2
<1>15. \A y \in Pooled' \ fresh' : Range(input.links[y]) \subseteq (flags \cup {x}) \cup (scan \ {x})
  <2> SUFFICES ASSUME NEW y \in Pooled', y \notin fresh'
               PROVE  Range(input.links[y]) \subseteq flags \cup scan
    OBVIOUS
  <2>1. y \in Pooled /\ y \notin fresh
    BY <1>9
  <2> QED
    BY <1>1, <2>1 DEF IInv, CursorInv
<1>16. CursorInv'
  BY <1>1, <1>14, <1>15 DEF IInv, CursorInv
<1>17. GatherInv'
  BY <1>1 DEF IInv, GatherInv
<1> QED
  BY <1>8, <1>13, <1>16, <1>17 DEF IInv

LEMMA ExamineStep == IInv /\ Examine => IInv'
<1> SUFFICES ASSUME IInv, Examine PROVE IInv'
  OBVIOUS
<1>1. PICK x \in scan :
        /\ scan' = scan \ {x}
        /\ flags' = flags \cup {x}
        /\ \/ /\ x \in flags \/ dist[x] >= dist[pool[L]]
              /\ UNCHANGED <<pool, fresh, nk>>
           \/ /\ x \notin flags /\ dist[x] < dist[pool[L]]
              /\ pool' = Inserted(x, Place(x))
              /\ fresh' = (fresh \cap Range(pool')) \cup {x}
              /\ nk' = IF Place(x) < nk THEN Place(x) ELSE nk
  BY DEF Examine
<1> QED
  BY <1>1, IgnoreStep, InsertStep

LEMMA StutterStep == IInv /\ UNCHANGED vars => IInv'
  BY DEF IInv, TypeOK, PoolInv, CursorInv, GatherInv, Pooled, Sorted, dist, vars

(* The strengthened invariant of the search.                               *)
THEOREM SearchInductive == Spec => []IInv
<1>1. IInv /\ [Next]_vars => IInv'
  BY GatherStep, DrawStep, SortPoolStep, PassStep, ExpandStep, ExamineStep,
     AdvanceStep, StopStep, StutterStep DEF Next
<1> QED
  BY InitIInv, <1>1, PTL DEF Spec

(* What leads out of the final pool leads to nothing nearer.               *)
THEOREM PoolIsClosed == Spec => []PoolClosed
<1>1. IInv => PoolClosed
  BY DEF IInv, PoolInv, CursorInv, PoolClosed, Pooled
<1> QED
  BY SearchInductive, <1>1, PTL

(* The promise to a seeded search that the NSG search keeps.               *)
THEOREM StartIsKept == Spec => []StartKept
<1>1. IInv => StartKept
  <2> SUFFICES ASSUME IInv, pc = "done" PROVE StartKept
    BY DEF StartKept
  <2>1. /\ pool \in [Slots -> Nodes] /\ 1 \in Slots /\ Pooled \subseteq flags
        /\ Sorted(pool) /\ dist \in [Nodes -> Nat] /\ scan = {}
        /\ flags \in SUBSET Nodes
    BY InputFacts DEF IInv, TypeOK, PoolInv, CursorInv
  <2>2. ASSUME NEW y \in flags PROVE dist[pool[1]] <= dist[y]
    <3>1. CASE y \in Pooled
      <4>1. PICK i \in Slots : pool[i] = y
        BY <3>1 DEF Pooled
      <4>2. i = 1 \/ 1 < i
        BY <2>1
      <4> QED
        BY <2>1, <4>1, <4>2 DEF Sorted
    <3>2. CASE y \notin Pooled
      BY <2>1, <2>2, <3>2 DEF IInv, PoolInv
    <3> QED
      BY <3>1, <3>2
  <2>3. \A x \in Pooled : Range(input.links[x]) \subseteq flags
    BY <2>1 DEF IInv, CursorInv, Pooled
  <2> QED
    BY <2>2, <2>3 DEF StartKept, IInv, GatherInv
<1> QED
  BY SearchInductive, <1>1, PTL
===============================================================================
