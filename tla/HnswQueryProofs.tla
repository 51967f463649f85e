---------------------------- MODULE HnswQueryProofs ----------------------------
(***************************************************************************)
(* Proofs about query processing on HNSW.  First the promise on which it   *)
(* rests, SeededSearch, for every graph, query, beam and set of starting   *)
(* points: a search never answers with something worse than what it        *)
(* started from; and for a single starting point, the case of              *)
(* get_recall_optimized, the beam is closed in the end, so that a beam     *)
(* wide enough for all that can be reached gives the nearest.  Then the    *)
(* walk along the trajectory, SeededWalk, for every number of queries and  *)
(* elements, every place of the points and every checked trajectory.       *)
(***************************************************************************)
EXTENDS SeededSearch, SeededWalk, FiniteSetTheorems, SequenceTheorems, WellFoundedInduction, TLAPS

LEMMA InputFacts ==
  ASSUME TypeOK
  PROVE  /\ input.links \in [Nodes -> SUBSET Nodes]
         /\ input.upper \in Seq([Nodes -> SUBSET Nodes])
         /\ dist \in [Nodes -> 0 .. MaxDist]
         /\ \A x \in Nodes : dist[x] \in Nat
         /\ input.entry \in Nodes
         /\ input.seeds \in SUBSET Nodes /\ Cardinality(input.seeds) <= Ef
         /\ IsFiniteSet(Nodes)
         /\ Ef \in Nat \ {0} /\ K \in Nat \ {0}
  BY BeamAssumption, InputsAssumption DEF TypeOK, dist

LEMMA SetFacts ==
  ASSUME IsFiniteSet(Nodes), NEW S \in SUBSET Nodes
  PROVE  IsFiniteSet(S) /\ Cardinality(S) \in Nat
  BY FS_Subset, FS_CardinalityType

(* Of a nonempty set of nodes one is nearest.                              *)
LEMMA NearestExists ==
  ASSUME TypeOK, NEW S \in SUBSET Nodes, S # {}
  PROVE  \E x \in S : \A y \in S : dist[x] <= dist[y]
<1> DEFINE R == OpToRel(<, Nat)
           T == {dist[x] : x \in S}
<1>1. \A x \in Nodes : dist[x] \in Nat
  BY InputFacts
<1>2. T \subseteq Nat /\ T # {}
  BY <1>1
<1>3. IsWellFoundedOn(R, Nat)
  BY NatLessThanWellFounded
<1>4. PICK m \in T : \A n \in T : ~ (<<n, m>> \in R)
  <2> HIDE DEF R, T
  <2> QED
    BY <1>2, <1>3, WFMin
<1>5. \A n \in T : ~ (n < m)
  BY <1>2, <1>4 DEF OpToRel
<1>6. PICK x \in S : m = dist[x]
  BY <1>4
<1>7. \A y \in S : ~ (dist[y] < dist[x])
  BY <1>5, <1>6
<1> QED
  BY <1>1, <1>7

(* Popping the farthest keeps, of every node, one that is no farther.      *)
LEMMA TrimFacts ==
  ASSUME TypeOK, NEW S \in SUBSET Nodes, S # {}, NEW n \in Nat \ {0},
         NEW T \in Trimmed(S, n)
  PROVE  /\ T \in SUBSET S /\ T # {}
         /\ Cardinality(T) <= n
         /\ T = S \/ (Cardinality(T) = n /\ Cardinality(S) > n)
         /\ \A x \in T, y \in S \ T : dist[x] <= dist[y]
         /\ \A y \in S : \E x \in T : dist[x] <= dist[y]
<1>1. /\ T \in SUBSET S
      /\ Cardinality(T) = IF Cardinality(S) > n THEN n ELSE Cardinality(S)
      /\ \A x \in T, y \in S \ T : dist[x] <= dist[y]
  BY DEF Trimmed
<1>2. /\ IsFiniteSet(S) /\ Cardinality(S) \in Nat
      /\ IsFiniteSet(T) /\ Cardinality(T) \in Nat
  BY <1>1, InputFacts, SetFacts
<1>3. Cardinality(S) # 0
  BY <1>2, FS_EmptySet
<1>4. Cardinality(T) # 0
  BY <1>1, <1>2, <1>3
<1>5. T # {}
  BY <1>2, <1>4, FS_EmptySet
<1>6. Cardinality(S) = Cardinality(T) => S = T
  BY <1>1, <1>2, FS_Subset
<1>7. ASSUME NEW y \in S PROVE \E x \in T : dist[x] <= dist[y]
  <2>1. dist[y] <= dist[y]
    BY InputFacts
  <2>2. PICK x \in T : TRUE
    BY <1>5
  <2> QED
    BY <1>1, <2>1, <2>2
<1> QED
  BY <1>1, <1>2, <1>5, <1>6, <1>7

LEMMA InitSearchInv == Init => SearchInv
<1> SUFFICES ASSUME Init PROVE SearchInv
  OBVIOUS
<1>1. /\ input \in Inputs /\ MaxDist \in Nat /\ Ef \in Nat
      /\ input.upper \in Seq([Nodes -> SUBSET Nodes])
      /\ input.dist \in [Nodes -> 0 .. MaxDist]
      /\ input.entry \in Nodes
      /\ input.seeds \in SUBSET Nodes /\ Cardinality(input.seeds) <= Ef
  BY BeamAssumption, InputsAssumption DEF Init
<1>2. Len(input.upper) \in Nat
  BY <1>1
<1>3. Cardinality({}) = 0
  BY FS_EmptySet
<1>4. TypeOK
  BY <1>1, <1>2, <1>3 DEF Init, TypeOK
<1>5. WalkInv
  <2>1. dist[curr] <= dist[input.entry]
    BY <1>1 DEF Init, dist
  <2> QED
    BY <2>1 DEF Init, WalkInv
<1> QED
  BY <1>4, <1>5 DEF Init, SearchInv, BeamInv

LEMMA MoveStep == SearchInv /\ Move => SearchInv'
<1> SUFFICES ASSUME SearchInv, Move PROVE SearchInv'
  OBVIOUS
<1>1. /\ TypeOK /\ pc = "descend" /\ level \in 1 .. Len(input.upper)
      /\ Len(input.upper) \in Nat
      /\ input.upper[level] \in [Nodes -> SUBSET Nodes]
  BY InputFacts DEF SearchInv, TypeOK, Move
<1>2. curr' \in Nodes /\ dist[curr'] < dist[curr]
  BY <1>1 DEF Move, Nearest, Closer, TypeOK
<1>3. dist[curr'] <= dist[input.entry]
  <2>1. /\ dist[curr'] \in Nat /\ dist[curr] \in Nat /\ dist[input.entry] \in Nat
        /\ dist[curr] <= dist[input.entry]
    BY <1>1, <1>2, InputFacts DEF SearchInv, WalkInv, TypeOK
  <2> QED
    BY <1>2, <2>1
<1>4. TypeOK'
  BY <1>1, <1>2 DEF TypeOK, Move, beamVars
<1>5. WalkInv'
  BY <1>1, <1>3 DEF SearchInv, WalkInv, Move, beamVars, dist
<1> QED
  BY <1>1, <1>4, <1>5 DEF SearchInv, BeamInv, Move, beamVars

LEMMA DownStep == SearchInv /\ Down => SearchInv'
<1> SUFFICES ASSUME SearchInv, Down PROVE SearchInv'
  OBVIOUS
<1>1. /\ level \in 1 .. Len(input.upper) /\ Len(input.upper) \in Nat
  BY InputFacts DEF SearchInv, TypeOK, Down
<1>2. TypeOK'
  BY <1>1 DEF SearchInv, TypeOK, Down, beamVars
<1> QED
  BY <1>2 DEF SearchInv, WalkInv, BeamInv, Down, beamVars, dist

LEMMA ArriveStep == SearchInv /\ Arrive => SearchInv'
<1> SUFFICES ASSUME SearchInv, Arrive PROVE SearchInv'
  OBVIOUS
<1>1. curr \in Nodes /\ Cardinality({curr}) = 1 /\ Ef \in Nat \ {0}
  BY InputFacts, FS_Singleton DEF SearchInv, TypeOK
<1>2. TypeOK'
  BY <1>1 DEF SearchInv, TypeOK, Arrive, beamVars
<1>3. WalkInv'
  BY <1>1 DEF SearchInv, WalkInv, Arrive, beamVars, dist
<1> QED
  BY <1>2, <1>3 DEF SearchInv, BeamInv, Arrive, beamVars

LEMMA EnterStep == SearchInv /\ Enter => SearchInv'
<1> SUFFICES ASSUME SearchInv, Enter PROVE SearchInv'
  OBVIOUS
<1>1. /\ TypeOK /\ pc = "enter" /\ pc' = "search" /\ start \in SUBSET Nodes
      /\ Cardinality(start) <= Ef /\ scan = {} /\ result = {}
      /\ UNCHANGED <<input, level, curr, start, scan, result>>
      /\ visited' = start /\ cand' = start /\ top' = start
      /\ dist' = dist /\ \A x \in Nodes : dist[x] \in 0 .. MaxDist
  BY InputFacts DEF SearchInv, BeamInv, TypeOK, Enter, walkVars, dist
<1>2. PICK z \in start : bound' = dist[z] /\ \A y \in start : dist[z] <= dist[y]
  BY DEF Enter, Nearest
<1>3. TypeOK'
  BY <1>1, <1>2 DEF TypeOK
<1>4. WalkInv'
  <2>1. \A s \in start : dist[s] <= dist[s]
    BY <1>1
  <2> QED
    BY <1>1, <2>1 DEF SearchInv, WalkInv
<1>5. Cardinality(input.seeds) <= 1 => \A x \in start : x = z
  <2>1. CASE input.seeds = {}
    BY <1>1, <1>2, <2>1 DEF SearchInv, WalkInv
  <2>2. CASE input.seeds # {}
    <3>1. start = input.seeds /\ IsFiniteSet(start) /\ Cardinality(start) \in Nat
      BY <1>1, <2>2, InputFacts, SetFacts DEF SearchInv, WalkInv
    <3>2. Cardinality(start) # 0
      BY <2>2, <3>1, FS_EmptySet
    <3>3. Cardinality(start) <= 1 => \E x : start = {x}
      <4>1. Cardinality(start) <= 1 => Cardinality(start) = 1
        BY <3>1, <3>2
      <4> QED
        BY <3>1, <4>1, FS_Singleton
    <3> QED
      BY <1>2, <3>1, <3>3
  <2> QED
    BY <2>1, <2>2
<1>6. BeamInv'
  BY <1>1, <1>2, <1>5 DEF BeamInv
<1> QED
  BY <1>3, <1>4, <1>6 DEF SearchInv

LEMMA ExpandStep == SearchInv /\ Expand => SearchInv'
<1> SUFFICES ASSUME SearchInv, Expand PROVE SearchInv'
  OBVIOUS
<1>1. PICK c \in cand : cand' = cand \ {c} /\ scan' = input.links[c]
  BY DEF Expand, Nearest
<1>2. /\ pc = "search" /\ scan = {} /\ c \in Nodes
      /\ UNCHANGED <<input, level, curr, start, visited, top, bound, result, pc>>
      /\ dist' = dist
  BY <1>1 DEF SearchInv, TypeOK, Expand, walkVars, dist
<1>3. TypeOK'
  <2>1. scan' \in SUBSET Nodes
    BY <1>1, <1>2, InputFacts DEF SearchInv
  <2> QED
    BY <1>1, <1>2, <2>1 DEF SearchInv, TypeOK
<1>4. WalkInv'
  BY <1>2 DEF SearchInv, WalkInv
<1>5. BeamInv'
  BY <1>1, <1>2 DEF SearchInv, BeamInv
<1> QED
  BY <1>3, <1>4, <1>5 DEF SearchInv

(* A link that leads to a node seen before, or to one that does not enter. *)
LEMMA IgnoreStep ==
  ASSUME SearchInv, Examine, NEW x \in scan,
         scan' = scan \ {x}, visited' = visited \cup {x},
         x \in visited \/ ~ Consider(x), UNCHANGED <<cand, top, bound>>
  PROVE  SearchInv'
<1>1. /\ TypeOK /\ pc = "search" /\ x \in Nodes
      /\ UNCHANGED <<input, level, curr, start, result, pc>> /\ dist' = dist
      /\ Ef \in Nat /\ Cardinality(top) <= Ef /\ Cardinality(top) \in Nat
      /\ \A y \in Nodes : dist[y] \in Nat
      /\ top \subseteq Nodes /\ bound \in Nat
  BY InputFacts, SetFacts, BeamAssumption DEF SearchInv, TypeOK, Examine, walkVars, dist
<1>2. TypeOK'
  BY <1>1 DEF TypeOK
<1>3. WalkInv'
  BY <1>1 DEF SearchInv, WalkInv
<1>4. \A y \in top' \ cand' : input.links[y] \subseteq visited' \cup scan'
  BY <1>1 DEF SearchInv, BeamInv, TypeOK, Consider
<1>5. ASSUME Cardinality(input.seeds) <= 1, NEW z \in top, x \notin top
      PROVE  Cardinality(top) = Ef /\ dist[z] <= dist[x]
  <2>1. CASE x \in visited
    BY <1>1, <1>5, <2>1 DEF SearchInv, BeamInv
  <2>2. CASE ~ Consider(x)
    <3>1. ~ (Cardinality(top) < Ef) /\ ~ (dist[x] < bound) /\ dist[z] <= bound
      BY <1>1, <1>5, <2>2 DEF Consider, SearchInv, BeamInv
    <3>2. dist[x] \in Nat /\ dist[z] \in Nat
      BY <1>1
    <3> QED
      BY <1>1, <3>1, <3>2
  <2> QED
    BY <2>1, <2>2
<1>6. BeamInv'
  BY <1>1, <1>4, <1>5 DEF SearchInv, BeamInv
<1> QED
  BY <1>2, <1>3, <1>6 DEF SearchInv

(* A link that leads to a node that enters the beam.                       *)
LEMMA EnterBeamStep ==
  ASSUME SearchInv, Examine, NEW x \in scan,
         scan' = scan \ {x}, visited' = visited \cup {x},
         x \notin visited, Consider(x), cand' = cand \cup {x},
         top' \in Trimmed(top \cup {x}, Ef),
         bound' \in {dist[z] : z \in {w \in top' : \A y \in top' : dist[y] <= dist[w]}}
  PROVE  SearchInv'
<1> DEFINE S == top \cup {x}
<1>1. /\ TypeOK /\ pc = "search" /\ x \in Nodes
      /\ UNCHANGED <<input, level, curr, start, result, pc>> /\ dist' = dist
      /\ Ef \in Nat \ {0} /\ Cardinality(top) <= Ef /\ Cardinality(top) \in Nat
      /\ \A y \in Nodes : dist[y] \in 0 .. MaxDist /\ dist[y] \in Nat
      /\ top \subseteq Nodes /\ bound \in Nat /\ S \in SUBSET Nodes /\ S # {}
      /\ IsFiniteSet(top) /\ x \notin top /\ top \subseteq visited
      /\ MaxDist \in Nat
  BY InputFacts, SetFacts, BeamAssumption DEF SearchInv, TypeOK, Examine, walkVars, dist
<1>2. /\ top' \in SUBSET S /\ top' # {}
      /\ Cardinality(top') <= Ef
      /\ top' = S \/ (Cardinality(top') = Ef /\ Cardinality(S) > Ef)
      /\ \A a \in top', y \in S \ top' : dist[a] <= dist[y]
      /\ \A y \in S : \E a \in top' : dist[a] <= dist[y]
  BY <1>1, TrimFacts
<1>3. PICK z \in top' : bound' = dist[z] /\ \A y \in top' : dist[y] <= dist[z]
  OBVIOUS
<1>4. result = {}
  BY <1>1 DEF SearchInv, BeamInv
<1>5. TypeOK'
  <2>1. bound' \in 0 .. MaxDist
    BY <1>1, <1>2, <1>3
  <2> QED
    BY <1>1, <1>2, <1>4, <2>1 DEF TypeOK
<1>6. WalkInv'
  <2>1. \A s \in start : \E a \in top' : dist[a] <= dist[s]
    <3> SUFFICES ASSUME NEW s \in start PROVE \E a \in top' : dist[a] <= dist[s]
      OBVIOUS
    <3>1. PICK y \in top : dist[y] <= dist[s]
      BY <1>1 DEF SearchInv, WalkInv
    <3>2. PICK a \in top' : dist[a] <= dist[y]
      BY <1>2, <3>1
    <3>3. dist[a] \in Nat /\ dist[y] \in Nat /\ dist[s] \in Nat
      BY <1>1, <1>2, <3>1, <3>2 DEF TypeOK
    <3> QED
      BY <3>1, <3>2, <3>3
  <2> QED
    BY <1>1, <2>1 DEF SearchInv, WalkInv
<1>7. \A y \in top' \ cand' : input.links[y] \subseteq visited' \cup scan'
  BY <1>1, <1>2 DEF SearchInv, BeamInv
<1>8. ASSUME Cardinality(input.seeds) <= 1,
             NEW a \in top', NEW y \in visited', y \notin top'
      PROVE  Cardinality(top') = Ef /\ dist[a] <= dist[y]
  <2>1. CASE y \in S
    BY <1>2, <1>8, <2>1
  <2>2. CASE y \notin S
    <3>1. y \in visited \ top /\ y \in Nodes
      BY <1>1, <1>8, <2>2 DEF TypeOK
    <3>2. PICK w \in top : dist[w] = bound
      BY <1>1, <1>8 DEF SearchInv, BeamInv
    <3>3. Cardinality(top) = Ef /\ \A b \in top : dist[b] <= dist[y]
      BY <1>1, <1>8, <3>1, <3>2 DEF SearchInv, BeamInv
    <3>4. Cardinality(S) = Ef + 1
      BY <1>1, <3>3, FS_AddElement
    <3>5. Cardinality(top') = Ef
      <4>1. Ef + 1 > Ef
        BY <1>1
      <4>2. ASSUME top' = S PROVE FALSE
        <5>1. Cardinality(top') = Ef + 1
          BY <3>4, <4>2, Zenon
        <5> QED
          BY <1>1, <1>2, <4>1, <5>1
      <4> QED
        BY <1>2, <4>2
    <3>6. dist[x] < bound
      BY <1>1, <3>3 DEF Consider
    <3>7. dist[x] <= dist[y]
      BY <1>1, <3>1, <3>2, <3>3, <3>6
    <3> QED
      BY <1>2, <3>3, <3>5, <3>7
  <2> QED
    BY <2>1, <2>2
<1>9. BeamInv'
  BY <1>1, <1>3, <1>4, <1>7, <1>8 DEF BeamInv
<1> QED
  BY <1>5, <1>6, <1>9 DEF SearchInv

LEMMA ExamineStep == SearchInv /\ Examine => SearchInv'
<1> SUFFICES ASSUME SearchInv, Examine PROVE SearchInv'
  OBVIOUS
<1>1. PICK x \in scan :
        /\ scan' = scan \ {x}
        /\ visited' = visited \cup {x}
        /\ \/ /\ x \notin visited /\ Consider(x)
              /\ cand' = cand \cup {x}
              /\ top' \in Trimmed(top \cup {x}, Ef)
              /\ bound' \in {dist[z] : z \in {w \in top' : \A y \in top' : dist[y] <= dist[w]}}
           \/ /\ x \in visited \/ ~ Consider(x)
              /\ UNCHANGED <<cand, top, bound>>
  BY DEF Examine
<1> QED
  BY <1>1, IgnoreStep, EnterBeamStep

LEMMA StopStep == SearchInv /\ Stop => SearchInv'
<1> SUFFICES ASSUME SearchInv, Stop PROVE SearchInv'
  OBVIOUS
<1>1. /\ TypeOK /\ pc = "search" /\ pc' = "done" /\ scan = {}
      /\ UNCHANGED <<input, level, curr, start, visited, cand, top, bound, scan>>
      /\ dist' = dist /\ top \in SUBSET Nodes /\ K \in Nat \ {0}
      /\ \A y \in Nodes : dist[y] \in Nat
      /\ start \subseteq Nodes /\ cand \in SUBSET Nodes /\ bound \in Nat
  BY InputFacts, BeamAssumption DEF SearchInv, TypeOK, Stop, walkVars, dist
<1>2. top # {}
  <2>1. start # {}
    BY <1>1 DEF SearchInv, WalkInv
  <2> QED
    BY <1>1, <2>1 DEF SearchInv, WalkInv
<1>3. /\ result' \in SUBSET top
      /\ \A y \in top : \E a \in result' : dist[a] <= dist[y]
  BY <1>1, <1>2, TrimFacts DEF Stop
<1>4. TypeOK'
  BY <1>1, <1>3 DEF TypeOK
<1>5. WalkInv'
  <2>1. \A s \in start : \E a \in result' : dist[a] <= dist[s]
    <3> SUFFICES ASSUME NEW s \in start PROVE \E a \in result' : dist[a] <= dist[s]
      OBVIOUS
    <3>1. PICK y \in top : dist[y] <= dist[s]
      BY <1>1 DEF SearchInv, WalkInv
    <3>2. PICK a \in result' : dist[a] <= dist[y]
      BY <1>3, <3>1
    <3>3. dist[a] \in Nat /\ dist[y] \in Nat /\ dist[s] \in Nat
      BY <1>1, <1>3, <3>1, <3>2
    <3> QED
      BY <3>1, <3>2, <3>3
  <2> QED
    BY <1>1, <2>1 DEF SearchInv, WalkInv
<1>6. ASSUME Cardinality(input.seeds) <= 1, NEW x \in top, x \in cand PROVE FALSE
  <2>1. dist[x] <= bound
    BY <1>1, <1>6 DEF SearchInv, BeamInv
  <2>2. PICK c \in cand : \A y \in cand : dist[c] <= dist[y]
    BY <1>1, <1>6, NearestExists
  <2>3. dist[c] > bound /\ dist[c] <= dist[x]
    BY <1>6, <2>2 DEF Stop, Nearest
  <2>4. dist[c] \in Nat /\ dist[x] \in Nat
    BY <1>1, <2>2
  <2> QED
    BY <1>1, <2>1, <2>3, <2>4
<1>7. BeamInv'
  BY <1>1, <1>6 DEF SearchInv, BeamInv
<1> QED
  BY <1>4, <1>5, <1>7 DEF SearchInv

LEMMA StutterStep == SearchInv /\ UNCHANGED vars => SearchInv'
  BY DEF SearchInv, TypeOK, WalkInv, BeamInv, dist, vars

LEMMA SearchStep == SearchInv /\ [Next]_vars => SearchInv'
  BY MoveStep, DownStep, ArriveStep, EnterStep, ExpandStep, ExamineStep,
     StopStep, StutterStep DEF Next

-------------------------------------------------------------------------------
(* What can be reached holds the starting points, and the links of its     *)
(* nodes lead to no others.                                                *)
LEMMA ReachableFacts ==
  ASSUME TypeOK
  PROVE  /\ start \subseteq Reachable /\ Reachable \in SUBSET Nodes
         /\ \A x \in Reachable : input.links[x] \subseteq Reachable
         /\ \A S \in SUBSET Nodes :
              (start \subseteq S /\ \A x \in S : input.links[x] \subseteq S)
                => Reachable \subseteq S
<1>1. start \in SUBSET Nodes /\ input.links \in [Nodes -> SUBSET Nodes]
  BY InputFacts DEF TypeOK
<1>2. \A S \in SUBSET Nodes :
        (start \subseteq S /\ \A x \in S : input.links[x] \subseteq S)
          => Reachable \subseteq S
  BY DEF Reachable
<1>3. start \subseteq Reachable /\ Reachable \in SUBSET Nodes
  BY <1>1 DEF Reachable
<1>4. ASSUME NEW x \in Reachable, NEW y \in input.links[x]
      PROVE  y \in Reachable
  <2>1. y \in Nodes
    BY <1>1, <1>3
  <2>2. ASSUME NEW S \in SUBSET Nodes, start \subseteq S,
               \A z \in S : input.links[z] \subseteq S
        PROVE  y \in S
    BY <1>2, <1>4, <2>2
  <2> QED
    BY <2>1, <2>2 DEF Reachable
<1> QED
  BY <1>2, <1>3, <1>4

LEMMA InitReachInv == Init => ReachInv
  BY DEF Init, ReachInv

(* The steps before the beam search has begun.                             *)
LEMMA ReachBefore ==
  ASSUME SearchInv, Move \/ Down \/ Arrive
  PROVE  ReachInv'
<1>1. visited' = {} /\ scan' = {} /\ pc' \in {"descend", "enter"}
  BY DEF SearchInv, BeamInv, Move, Down, Arrive, beamVars
<1> QED
  BY <1>1 DEF ReachInv

LEMMA ReachStep ==
  ASSUME SearchInv, ReachInv, [Next]_vars
  PROVE  ReachInv'
<1>1. TypeOK /\ TypeOK'
  BY SearchStep DEF SearchInv
<1>2. UNCHANGED <<input, start>> => Reachable' = Reachable
  BY DEF Reachable
<1>3. CASE Enter
  <2>1. /\ visited' = start' /\ scan' = {} /\ pc' = "search"
    BY <1>3 DEF Enter, SearchInv, BeamInv, walkVars
  <2>2. (start \subseteq Reachable)'
    BY <1>1, ReachableFacts, PTL
  <2> QED
    BY <2>1, <2>2 DEF ReachInv
<1>4. CASE Expand
  <2>1. PICK c \in cand : scan' = input.links[c]
    BY <1>4 DEF Expand, Nearest
  <2>2. /\ UNCHANGED <<input, start, visited, pc>> /\ pc = "search"
        /\ c \in visited
    BY <1>1, <1>4, <2>1 DEF Expand, walkVars, TypeOK
  <2>3. scan' \subseteq Reachable
    BY <1>1, <2>1, <2>2, ReachableFacts DEF ReachInv
  <2> QED
    BY <1>2, <2>2, <2>3 DEF ReachInv
<1>5. CASE Examine
  <2>1. PICK x \in scan : scan' = scan \ {x} /\ visited' = visited \cup {x}
    BY <1>5 DEF Examine
  <2>2. UNCHANGED <<input, start, pc>> /\ pc = "search"
    BY <1>5 DEF Examine, walkVars
  <2> QED
    BY <1>2, <2>1, <2>2 DEF ReachInv
<1>6. CASE Stop
  <2>1. /\ UNCHANGED <<input, start, visited, top, scan>>
        /\ pc = "search" /\ result' \in Trimmed(top, K)
    BY <1>6 DEF Stop, walkVars
  <2>2. Trimmed(top, K)' = Trimmed(top, K)
    BY <2>1 DEF Trimmed, dist
  <2> QED
    BY <1>2, <2>1, <2>2 DEF ReachInv
<1>7. CASE UNCHANGED vars
  <2>1. UNCHANGED <<input, start, visited, top, scan, result, pc>>
    BY <1>7 DEF vars
  <2>2. Trimmed(top, K)' = Trimmed(top, K)
    BY <2>1 DEF Trimmed, dist
  <2> QED
    BY <1>2, <2>1, <2>2 DEF ReachInv
<1> QED
  BY <1>3, <1>4, <1>5, <1>6, <1>7, ReachBefore DEF Next

(* The strengthened invariant of the search.                               *)
THEOREM SearchInductive == Spec => []IInv
<1>1. Init => IInv
  BY InitSearchInv, InitReachInv DEF IInv
<1>2. IInv /\ [Next]_vars => IInv'
  BY SearchStep, ReachStep DEF IInv
<1> QED
  BY <1>1, <1>2, PTL DEF Spec

(* The answer is as near as every starting point and, without one, as the  *)
(* entry point of the graph.                                               *)
THEOREM AnswerNoWorse == Spec => []NoWorseThanStart
<1>1. IInv => NoWorseThanStart
  <2> SUFFICES ASSUME IInv, pc = "done",
                      NEW s \in start \cup (IF input.seeds = {} THEN {input.entry}
                                                                ELSE input.seeds)
               PROVE  \E r \in result : dist[r] <= dist[s]
    BY DEF NoWorseThanStart
  <2>1. CASE s \in start
    BY <2>1 DEF IInv, SearchInv, WalkInv
  <2>2. CASE s \notin start
    <3>1. input.seeds = {} /\ s = input.entry
      BY <2>2 DEF IInv, SearchInv, WalkInv
    <3>2. PICK x \in Nodes : start = {x} /\ dist[x] <= dist[s]
      BY <3>1 DEF IInv, SearchInv, WalkInv
    <3>3. PICK r \in result : dist[r] <= dist[x]
      BY <3>2 DEF IInv, SearchInv, WalkInv
    <3>4. dist[r] \in Nat /\ dist[x] \in Nat /\ dist[s] \in Nat
      BY <3>1, InputFacts DEF IInv, SearchInv, TypeOK
    <3> QED
      BY <3>2, <3>3, <3>4
  <2> QED
    BY <2>1, <2>2
<1> QED
  BY SearchInductive, <1>1, PTL

(* From one starting point, or none, the final beam is closed.             *)
THEOREM BeamIsClosed == Spec => []BeamClosed
<1>1. IInv => BeamClosed
  <2> SUFFICES ASSUME IInv, Cardinality(input.seeds) <= 1, pc = "done",
                      NEW x \in top, NEW y \in input.links[x], y \notin top
               PROVE  Cardinality(top) = Ef /\ \A z \in top : dist[z] <= dist[y]
    BY DEF BeamClosed
  <2>1. x \in top \ cand /\ scan = {}
    BY DEF IInv, SearchInv, BeamInv, TypeOK
  <2>2. y \in visited
    BY <2>1 DEF IInv, SearchInv, BeamInv
  <2> QED
    BY <2>2 DEF IInv, SearchInv, BeamInv
<1> QED
  BY SearchInductive, <1>1, PTL
(* A beam with room for all that can be reached from one starting point    *)
(* ends with the k nearest of these, or with all if they are fewer.        *)
THEOREM WideIsExact == Spec => []ExactIfWide
<1>1. IInv => ExactIfWide
  <2> SUFFICES ASSUME IInv, pc = "done", Cardinality(input.seeds) <= 1,
                      Cardinality(Reachable) <= Ef
               PROVE  /\ Cardinality(result) = IF Cardinality(Reachable) > K THEN K
                                               ELSE Cardinality(Reachable)
                      /\ \A r \in result, y \in Reachable \ result : dist[r] <= dist[y]
    BY DEF ExactIfWide
  <2>1. /\ TypeOK /\ scan = {} /\ start \subseteq visited /\ visited \subseteq Reachable
        /\ top \subseteq visited /\ result \in Trimmed(top, K)
    BY DEF IInv, SearchInv, ReachInv, BeamInv, TypeOK
  <2>2. /\ Reachable \in SUBSET Nodes /\ IsFiniteSet(Reachable)
        /\ IsFiniteSet(top) /\ Cardinality(top) \in Nat
        /\ Cardinality(Reachable) \in Nat /\ Ef \in Nat
    BY <2>1, ReachableFacts, InputFacts, SetFacts
  <2>3. Cardinality(top) = Ef => top = Reachable
    BY <2>1, <2>2, FS_Subset
  <2>4. \A y \in visited : y \in top
    <3>1. \E z \in top : TRUE
      BY DEF IInv, SearchInv, BeamInv
    <3> QED
      BY <2>1, <2>3, <3>1 DEF IInv, SearchInv, BeamInv
  <2>5. \A x \in top : input.links[x] \subseteq top
    <3>1. top \cap cand = {}
      BY DEF IInv, SearchInv, BeamInv
    <3>2. \A x \in top : input.links[x] \subseteq visited \cup scan
      BY <3>1 DEF IInv, SearchInv, BeamInv
    <3> QED
      BY <2>1, <2>4, <3>2
  <2>6. top = Reachable
    BY <2>1, <2>2, <2>4, <2>5, ReachableFacts
  <2> QED
    BY <2>1, <2>6 DEF Trimmed
<1> QED
  BY SearchInductive, <1>1, PTL

-------------------------------------------------------------------------------
(* The walk along the trajectory.                                          *)

-------------------------------------------------------------------------------
(* Sequences of edges.                                                     *)

(* The fields of an edge are a query and a query or Root.                  *)
LEMMA EdgeShape ==
  \A e \in Edges : /\ e.child \in Queries
                   /\ e.parent \in Queries \cup {Root}
                   /\ e = Edge(e.child, e.parent)
BY DEF Edges, Edge

(* What t \in Seq(Edges) says of the positions of t.                       *)
LEMMA EdgesAt ==
  ASSUME NEW t \in Seq(Edges)
  PROVE  /\ Len(t) \in Nat
         /\ DOMAIN t = 1 .. Len(t)
         /\ \A i \in 1 .. Len(t) : t[i] \in Edges /\ t[i].child \in Queries
<1>1. Len(t) \in Nat /\ DOMAIN t = 1 .. Len(t)
  BY LenProperties
<1>2. \A i \in 1 .. Len(t) : t[i] \in Edges
  BY <1>1, ElementOfSeq
<1> QED
  BY <1>1, <1>2, EdgeShape

LEMMA QueriesFinite ==
  IsFiniteSet(Queries) /\ Cardinality(Queries) = N
<1>1. 0 \in Int /\ N - 1 \in Int /\ ~ (0 > N - 1)
  BY NAssumption
<1> QED
  BY <1>1, NAssumption, FS_Interval DEF Queries

-------------------------------------------------------------------------------
(* A checked trajectory has N edges, no two of them with the same child.   *)
LEMMA CheckedOnce ==
  ASSUME NEW t \in Seq(Edges), CheckTrajectory(t)
  PROVE  Len(t) = N /\ DOMAIN t = 1 .. N /\ EachChildOnce(t)
<1>1. Len(t) = N /\ DOMAIN t = 1 .. N
  BY EdgesAt DEF CheckTrajectory, SizeAssert
<1>2. PICK f : f = [i \in 1 .. N |-> t[i].child]
  OBVIOUS
<1>3. f \in Surjection(1 .. N, Queries)
  BY <1>1, <1>2, EdgesAt DEF CheckTrajectory, CoverAssert, Children, Surjection
<1>4. IsFiniteSet(1 .. N) /\ Cardinality(1 .. N) = N
  <2>1. 1 \in Int /\ N \in Int /\ ~ (1 > N) /\ N - 1 + 1 = N
    BY NAssumption
  <2> QED
    BY <2>1, FS_Interval
<1>5. f \in Injection(1 .. N, Queries)
  BY <1>3, <1>4, QueriesFinite, FS_Surjection
<1> QED
  BY <1>1, <1>2, <1>5 DEF Injection, IsInjective, EachChildOnce

LEMMA DistanceNat == \A a, b \in Int : Distance(a, b) \in Nat
BY DEF Distance

LEMMA Triangle ==
  \A a, b, c \in Int : Distance(a, c) <= Distance(a, b) + Distance(b, c)
BY DEF Distance

-------------------------------------------------------------------------------
(* What RecallTypeOK says of the data that never change.                   *)
LEMMA Given ==
  ASSUME RecallTypeOK
  PROVE  /\ trajectory \in Seq(Edges) /\ CheckTrajectory(trajectory)
         /\ Len(trajectory) = N /\ DOMAIN trajectory = 1 .. N
         /\ EachChildOnce(trajectory)
         /\ \A i \in 1 .. N : /\ trajectory[i].child \in Queries
                              /\ trajectory[i].parent \in Queries \cup {Root}
         /\ \A q \in Queries, x \in Elements : DistanceTo(q, x) \in Nat
         /\ \A q \in Queries : place.query[q] \in Int
         /\ \A x \in Elements : place.element[x] \in Int
<1>1. trajectory \in Seq(Edges) /\ CheckTrajectory(trajectory)
  BY WalkAssumption DEF RecallTypeOK
<1>2. Len(trajectory) = N /\ DOMAIN trajectory = 1 .. N /\ EachChildOnce(trajectory)
  BY <1>1, CheckedOnce
<1>3. \A i \in 1 .. N : /\ trajectory[i].child \in Queries
                        /\ trajectory[i].parent \in Queries \cup {Root}
  BY <1>1, <1>2, EdgesAt, EdgeShape
<1>4. /\ \A q \in Queries : place.query[q] \in Int
      /\ \A x \in Elements : place.element[x] \in Int
  BY WalkAssumption DEF RecallTypeOK
<1>5. \A q \in Queries, x \in Elements : DistanceTo(q, x) \in Nat
  BY <1>4, DistanceNat DEF DistanceTo
<1> QED
  BY <1>1, <1>2, <1>3, <1>4, <1>5

LEMMA LabelDistance ==
  ASSUME LabelsAreIds, NEW q, NEW l \in Elements
  PROVE  DistanceToLabel(q, l) = DistanceTo(q, l)
<1>1. (CHOOSE x \in Elements : label[x] = l) = l
  BY DEF LabelsAreIds
<1> QED
  BY <1>1 DEF DistanceToLabel

(* A parent that an earlier edge mentions has been processed, and no later *)
(* edge has the child of an earlier one.                                   *)
LEMMA Earlier ==
  ASSUME RecallTypeOK, NEW i \in 1 .. N
  PROVE  /\ trajectory[i].parent # Root =>
              \E j \in 1 .. i - 1 : trajectory[j].child = trajectory[i].parent
         /\ \A j \in 1 .. i - 1 : trajectory[j].child # trajectory[i].child
         /\ trajectory[i].parent # trajectory[i].child
<1>1. DOMAIN trajectory = 1 .. N /\ EachChildOnce(trajectory) /\ OrderAssert(trajectory)
  BY Given DEF CheckTrajectory
<1>2. \A j \in 1 .. i - 1 : j \in 1 .. N /\ j # i
  BY NAssumption
<1>3. trajectory[i].parent # Root =>
        \E j \in 1 .. i - 1 : trajectory[j].child = trajectory[i].parent
  BY <1>1 DEF OrderAssert
<1>4. \A j \in 1 .. i - 1 : trajectory[j].child # trajectory[i].child
  BY <1>1, <1>2 DEF EachChildOnce
<1>5. trajectory[i].parent # trajectory[i].child
  <2>1. Root \notin Queries
    BY DEF Root, Queries
  <2> QED
    BY <2>1, <1>3, <1>4, Given
<1> QED
  BY <1>3, <1>4, <1>5

LEMMA InitIInv == RecallInit => RecallInv
<1> SUFFICES ASSUME RecallInit PROVE RecallInv
  OBVIOUS
<1>1. 0 \in Elements
  BY WalkAssumption DEF Elements
<1>2. label = [x \in Elements |-> x]
  BY DEF RecallInit, Labels
<1>3. truth \in [Queries -> Elements]
  BY <1>2 DEF RecallInit, NearestElements
<1>4. trajectory \in Seq(Edges)
  BY WalkAssumption DEF RecallInit
<1>5. 1 .. pos = {} /\ Processed = {}
  BY DEF RecallInit, Processed
<1>6. RecallTypeOK
  BY <1>1, <1>2, <1>3, <1>4, <1>5, EdgesAt DEF RecallInit, RecallTypeOK
<1>7. RecallExact
  <2>1. {q \in Processed : ann[q] = truth[q]} = {}
    BY <1>5
  <2> QED
    BY <2>1, FS_EmptySet DEF RecallInit, RecallExact
<1> QED
  BY <1>2, <1>5, <1>6, <1>7 DEF RecallInv, LabelsAreIds, NoWorseThanParent

-------------------------------------------------------------------------------
LEMMA AnswerIInv ==
  ASSUME RecallInv, Answer
  PROVE  RecallInv'
<1> DEFINE e == trajectory[pos + 1]
           c == e.child
<1>t. RecallTypeOK /\ LabelsAreIds /\ NoWorseThanParent /\ RecallExact
  BY DEF RecallInv
<1>u. UNCHANGED <<place, label, trajectory, truth>> /\ pos' = pos + 1
  BY DEF Answer
<1>p. pos \in Nat /\ pos + 1 \in 1 .. N /\ pos' \in 0 .. N
  BY <1>t, <1>u, Given, NAssumption DEF RecallTypeOK, Answer
<1>e. /\ c \in Queries /\ e.parent \in Queries \cup {Root}
      /\ e.parent # c
      /\ \A i \in 1 .. pos : trajectory[i].child # c
      /\ e.parent # Root => \E j \in 1 .. pos : trajectory[j].child = e.parent
  <2>1. (pos + 1) - 1 = pos
    BY <1>p
  <2> QED
    BY <1>t, <1>p, <2>1, Given, Earlier
<1>r. PICK r \in Found(c, Start(e)) :
        /\ ann' = [ann EXCEPT ![c] = r]
        /\ correct' = IF r = truth[c] THEN correct + 1 ELSE correct
  BY DEF Answer
<1> HIDE DEF e
<1>s. /\ r \in Elements
      /\ DistanceTo(c, r) <= DistanceTo(c, Start(e))
  BY <1>r, <1>t DEF Found, LabelsAreIds
<1>a. /\ ann' \in [Queries -> Elements]
      /\ ann'[c] = r
      /\ \A q \in Queries \ {c} : ann'[q] = ann[q]
  BY <1>r, <1>s, <1>t, <1>e DEF RecallTypeOK
<1>n. Processed' = Processed \cup {c} /\ c \notin Processed
  <2>1. 1 .. pos + 1 = (1 .. pos) \cup {pos + 1}
    BY <1>p
  <2> QED
    BY <2>1, <1>u, <1>e DEF Processed, e
<1>1. RecallTypeOK'
  <2>1. correct' \in 0 .. pos'
    BY <1>t, <1>r, <1>u, <1>p DEF RecallTypeOK
  <2>2. \A q \in Queries \ Processed' : ann'[q] = 0
    BY <1>t, <1>n, <1>a DEF RecallTypeOK
  <2>3. pos' \in 0 .. Len(trajectory')
    BY <1>t, <1>p, <1>u, Given
  <2> QED
    BY <2>1, <2>2, <2>3, <1>t, <1>u, <1>a DEF RecallTypeOK
<1>2. LabelsAreIds'
  BY <1>t, <1>u DEF LabelsAreIds
<1>d. /\ \A q, x : DistanceTo(q, x)' = DistanceTo(q, x)
      /\ \A q, l : DistanceToLabel(q, l)' = DistanceToLabel(q, l)
  BY <1>u DEF DistanceTo, DistanceToLabel
<1>3. NoWorseThanParent'
  <2> SUFFICES ASSUME NEW i \in 1 .. pos + 1
               PROVE  IF trajectory[i].parent = Root
                      THEN DistanceToLabel(trajectory[i].child, ann'[trajectory[i].child])
                             <= DistanceTo(trajectory[i].child, Entry)
                      ELSE DistanceToLabel(trajectory[i].child, ann'[trajectory[i].child])
                             <= DistanceToLabel(trajectory[i].child, ann'[trajectory[i].parent])
    BY <1>u, <1>d DEF NoWorseThanParent, DistanceTo, DistanceToLabel
  <2>1. CASE i \in 1 .. pos
    <3>1. i \in 1 .. N /\ \A j \in 1 .. i - 1 : j \in 1 .. pos
      BY <2>1, <1>p, NAssumption
    <3>2. trajectory[i].child \in Queries \ {c}
      BY <2>1, <3>1, <1>e, <1>t, Given
    <3>3. trajectory[i].parent # Root => trajectory[i].parent \in Queries \ {c}
      BY <3>1, <1>e, <1>t, Given, Earlier
    <3> QED
      BY <2>1, <3>2, <3>3, <1>a, <1>t DEF NoWorseThanParent
  <2>2. CASE i = pos + 1
    <3>1. trajectory[i] = e
      BY <2>2 DEF e
    <3>2. DistanceToLabel(c, r) = DistanceTo(c, r)
      BY <1>s, <1>t, LabelDistance
    <3>3. CASE e.parent = Root
      BY <3>1, <3>2, <3>3, <1>s, <1>a DEF Start
    <3>4. CASE e.parent # Root
      <4>1. e.parent \in Queries \ {c} /\ ann[e.parent] \in Elements
        BY <3>4, <1>e, <1>t DEF RecallTypeOK
      <4>2. DistanceToLabel(c, ann[e.parent]) = DistanceTo(c, ann[e.parent])
        BY <4>1, <1>t, LabelDistance
      <4> QED
        BY <3>1, <3>2, <3>4, <4>1, <4>2, <1>s, <1>a DEF Start
    <3> QED
      BY <3>3, <3>4
  <2> QED
    BY <2>1, <2>2, <1>p
<1>4. RecallExact'
  <2> DEFINE right == {q \in Processed : ann[q] = truth[q]}
  <2>1. Processed \subseteq Queries
    BY <1>t, <1>p, Given DEF Processed
  <2>2. IsFiniteSet(right) /\ c \notin right
    BY <2>1, <1>n, QueriesFinite, FS_Subset
  <2>3. {q \in Processed' : ann'[q] = truth'[q]}
          = IF r = truth[c] THEN right \cup {c} ELSE right
    BY <2>1, <1>n, <1>a, <1>u
  <2>4. Cardinality(right \cup {c}) = Cardinality(right) + 1
    BY <2>2, FS_AddElement
  <2>5. correct = Cardinality(right)
    BY <1>t DEF RecallExact
  <2> QED
    BY <2>3, <2>4, <2>5, <1>r DEF RecallExact
<1> QED
  BY <1>1, <1>2, <1>3, <1>4 DEF RecallInv

-------------------------------------------------------------------------------
(* The walk keeps all of it: get_recall_optimized never leaves RecallInv.  *)
THEOREM WalkInductive == RecallSpec => []RecallInv
<1>1. RecallInv /\ [RecallNext]_recallVars => RecallInv'
  <2>1. ASSUME RecallInv, UNCHANGED recallVars PROVE RecallInv'
    <3>1. RecallTypeOK' /\ LabelsAreIds'
      <4>1. RecallTypeOK'
        <5>1. Processed' = Processed
          BY <2>1 DEF recallVars, Processed
        <5>2. ann' = ann
          BY <2>1 DEF recallVars
        <5>3. \A q \in Queries \ Processed' : ann'[q] = 0
          BY <2>1, <5>1, <5>2 DEF RecallInv, RecallTypeOK
        <5>4. /\ place' \in Places
              /\ label' \in [Elements -> Elements]
              /\ trajectory' \in Trajectories
              /\ pos' \in 0 .. Len(trajectory')
              /\ ann' \in [Queries -> Elements]
              /\ correct' \in 0 .. pos'
              /\ truth' \in [Queries -> Elements]
          BY <2>1 DEF RecallInv, RecallTypeOK, recallVars
        <5> QED
          BY <5>3, <5>4 DEF RecallTypeOK
      <4>2. UNCHANGED recallVars => LabelsAreIds' = LabelsAreIds
        BY DEF recallVars, LabelsAreIds
      <4> QED
        BY <2>1, <4>1, <4>2 DEF RecallInv
    <3>2. NoWorseThanParent'
      BY <2>1 DEF RecallInv, recallVars, NoWorseThanParent, Processed, DistanceTo, DistanceToLabel
    <3>3. RecallExact'
      BY <2>1 DEF RecallInv, recallVars, RecallExact, Processed
    <3> QED
      BY <3>1, <3>2, <3>3 DEF RecallInv
  <2> QED
    BY <2>1, AnswerIInv DEF RecallNext
<1> QED
  BY <1>1, InitIInv, PTL DEF RecallSpec

(* The state of get_recall_optimized is well typed; answers that have not  *)
(* been written are still zero.                                            *)
THEOREM WalkTypeCorrect == RecallSpec => []RecallTypeOK
BY WalkInductive, PTL DEF RecallInv

(* Whatever the searches return within their promise, every answer is at   *)
(* least as good for its query as the parent's final answer.               *)
THEOREM SeedsAreAnswers == RecallSpec => []NoWorseThanParent
BY WalkInductive, PTL DEF RecallInv

(* The counter of get_recall_optimized is the number of right answers.     *)
THEOREM CountedOnce == RecallSpec => []RecallExact
BY WalkInductive, PTL DEF RecallInv

(* An answer loses at most the length of the edge to the parent.           *)
THEOREM Drift == RecallSpec => []DriftBounded
<1>1. RecallInv => DriftBounded
  <2> SUFFICES ASSUME RecallInv, NEW i \in 1 .. pos, trajectory[i].parent # Root
               PROVE  DistanceToLabel(trajectory[i].child, ann[trajectory[i].child])
                        <= Distance(place.query[trajectory[i].child],
                                    place.query[trajectory[i].parent])
                           + DistanceToLabel(trajectory[i].parent, ann[trajectory[i].parent])
    BY DEF DriftBounded
  <2> DEFINE c == trajectory[i].child
             p == trajectory[i].parent
  <2>1. RecallTypeOK /\ LabelsAreIds /\ NoWorseThanParent
    BY DEF RecallInv
  <2>2. i \in 1 .. N
    BY <2>1, Given, NAssumption DEF RecallTypeOK
  <2>3. c \in Queries /\ p \in Queries
    BY <2>1, <2>2, Given
  <2>4. ann[c] \in Elements /\ ann[p] \in Elements
    BY <2>1, <2>3 DEF RecallTypeOK
  <2>5. DistanceTo(c, ann[c]) <= DistanceTo(c, ann[p])
    BY <2>1, <2>3, <2>4, LabelDistance DEF NoWorseThanParent
  <2>6. place.query[c] \in Int /\ place.query[p] \in Int /\ place.element[ann[p]] \in Int
    BY <2>1, <2>3, <2>4, Given
  <2>7. DistanceTo(c, ann[p]) <= Distance(place.query[c], place.query[p]) + DistanceTo(p, ann[p])
    BY <2>6, Triangle DEF DistanceTo
  <2>8. /\ DistanceTo(c, ann[c]) \in Nat /\ DistanceTo(c, ann[p]) \in Nat
        /\ DistanceTo(p, ann[p]) \in Nat
        /\ Distance(place.query[c], place.query[p]) \in Nat
    BY <2>1, <2>3, <2>4, <2>6, Given, DistanceNat
  <2>9. DistanceTo(c, ann[c]) <= Distance(place.query[c], place.query[p]) + DistanceTo(p, ann[p])
    <3> HIDE DEF c, p
    <3> QED
      BY <2>5, <2>7, <2>8
  <2> QED
    BY <2>1, <2>4, <2>9, LabelDistance
<1> QED
  BY <1>1, WalkInductive, PTL
===============================================================================
