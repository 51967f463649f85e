------------------------------- MODULE SeededWalk -------------------------------
(***************************************************************************)
(* hnsw_exp/process.hpp, get_recall_optimized: the queries are answered in *)
(* the order of the trajectory, and the search for a query starts from the *)
(* answer of its parent.  Answers are labels, starting points are internal *)
(* ids, and the code casts one into the other.                             *)
(*                                                                         *)
(* One search is one step, with the promise that SeededSearch keeps        *)
(* (NoWorseThanStart): any node may come back that is no farther from the  *)
(* query than the starting point.  Queries and elements are points on a    *)
(* line, which gives a metric with ties.                                   *)
(***************************************************************************)
EXTENDS Trajectory

CONSTANTS
  M,             \* number of elements of the graph
  Entry,         \* enterpoint_node_
  Places,        \* records [query, element]: where the points lie
  Trajectories   \* what mqo() returns

Elements == 0 .. M - 1

ASSUME WalkAssumption ==
  /\ M \in Nat \ {0}
  /\ Entry \in Elements
  /\ \A w \in Places : w.query \in [Queries -> Int] /\ w.element \in [Elements -> Int]
  /\ \A t \in Trajectories : t \in Seq(Edges) /\ CheckTrajectory(t)

VARIABLES
  place,       \* the points
  label,       \* label[x]: external label of the element with internal id x
  trajectory,
  pos,         \* edges that have been processed
  ann,         \* answer of every query, a label; zero at first
  correct,     \* answers that agree with the file of answers
  truth        \* ans[q][0], the first entry of that file

recallVars == <<place, label, trajectory, pos, ann, correct, truth>>

Distance(a, b) == IF a < b THEN b - a ELSE a - b

(* Distance of query q from the element with internal id x.                *)
DistanceTo(q, x) == Distance(place.query[q], place.element[x])

(* A faulty form: elements are added by several threads.                   *)
LabelsInAnyOrder ==
  {f \in [Elements -> Elements] : \A x, y \in Elements : f[x] = f[y] => x = y}

(* build() adds the elements one by one, so label and internal id agree.   *)
Labels == {[x \in Elements |-> x]}

NearestElements(q) == {x \in Elements : \A y \in Elements : DistanceTo(q, x) <= DistanceTo(q, y)}

RecallInit ==
  /\ place \in Places
  /\ label \in Labels
  /\ trajectory \in Trajectories
  /\ pos = 0
  /\ ann = [q \in Queries |-> 0]
  /\ correct = 0
  /\ truth \in {f \in [Queries -> Elements] : \A q \in Queries : f[q] \in {label[x] : x \in NearestElements(q)}}

(* What the search for q may return if it starts at the node s.            *)
Found(q, s) == {label[x] : x \in {y \in Elements : DistanceTo(q, y) <= DistanceTo(q, s)}}

(* A faulty form: the answer of the query before is the starting point.    *)
StartFromPrevious(e) == IF pos = 0 THEN Entry ELSE ann[trajectory[pos].child]

(* Where the search starts: the label of the answer, taken as a node.      *)
Start(e) == IF e.parent # Root THEN ann[e.parent] ELSE Entry

(* A faulty form: the answer is filed under its place in the trajectory.   *)
AnswerByPosition ==
  /\ pos < N
  /\ LET e == trajectory[pos + 1] IN
       \E r \in Found(e.child, Start(e)) :
         /\ ann' = [ann EXCEPT ![pos] = r]
         /\ correct' = IF r = truth[e.child] THEN correct + 1 ELSE correct
  /\ pos' = pos + 1
  /\ UNCHANGED <<place, label, trajectory, truth>>

(* One iteration of the loop over the trajectory.                          *)
Answer ==
  /\ pos < Len(trajectory)
  /\ LET e == trajectory[pos + 1] IN
       \E r \in Found(e.child, Start(e)) :
         /\ ann' = [ann EXCEPT ![e.child] = r]
         /\ correct' = IF r = truth[e.child] THEN correct + 1 ELSE correct
  /\ pos' = pos + 1
  /\ UNCHANGED <<place, label, trajectory, truth>>

RecallNext == Answer

RecallSpec == RecallInit /\ [][RecallNext]_recallVars /\ WF_recallVars(RecallNext)

-------------------------------------------------------------------------------
(* The queries that have been answered.                                    *)
Processed == {trajectory[i].child : i \in 1 .. pos}

(* A query without an answer still holds the zero.                         *)
RecallTypeOK ==
  /\ place \in Places
  /\ label \in [Elements -> Elements]
  /\ trajectory \in Trajectories
  /\ pos \in 0 .. Len(trajectory)
  /\ ann \in [Queries -> Elements]
  /\ \A q \in Queries \ Processed : ann[q] = 0
  /\ correct \in 0 .. pos
  /\ truth \in [Queries -> Elements]

(* Distance of query q from the element labelled l.                        *)
DistanceToLabel(q, l) == DistanceTo(q, CHOOSE x \in Elements : label[x] = l)

(* An answer is as good for its query as the answer its parent ended up    *)
(* with, or as the entry point for a root: what a search starts from is    *)
(* never the zero with which the answers are initialised, never an answer  *)
(* that is replaced later, and never another element than the answer.      *)
NoWorseThanParent ==
  \A i \in 1 .. pos :
    LET e == trajectory[i] IN
      IF e.parent = Root
      THEN DistanceToLabel(e.child, ann[e.child]) <= DistanceTo(e.child, Entry)
      ELSE DistanceToLabel(e.child, ann[e.child]) <= DistanceToLabel(e.child, ann[e.parent])

(* From parent to child an answer loses no more than the length of the     *)
(* edge: this is why the optimizers look for short edges.                  *)
DriftBounded ==
  \A i \in 1 .. pos :
    LET e == trajectory[i] IN
      e.parent # Root =>
        DistanceToLabel(e.child, ann[e.child])
          <= Distance(place.query[e.child], place.query[e.parent])
             + DistanceToLabel(e.parent, ann[e.parent])

(* The numerator of the recall counts every query once.                    *)
RecallExact ==
  correct = Cardinality({q \in Processed : ann[q] = truth[q]})

LabelsAreIds == label = [x \in Elements |-> x]

(* Why the answers are right: labels are internal ids, every answer so far *)
(* is no worse than its starting point, and the counter is exact.          *)
RecallInv == RecallTypeOK /\ LabelsAreIds /\ NoWorseThanParent /\ RecallExact
===============================================================================
