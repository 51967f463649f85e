---------------------------- MODULE TrajectorySpec ----------------------------
(***************************************************************************)
(* What a producer of trajectories promises to query processing: every     *)
(* query is emitted exactly once, and never before the query whose answer  *)
(* it is going to start from.  The comment on mqo() in mqo/interface.hpp   *)
(* ("returns vector of {child, parent}, if parent == -1, it is the root of *)
(* a new tree") and checkTrajectory say no more than this: which query is  *)
(* emitted next, and from which parent, is left open.                      *)
(***************************************************************************)
EXTENDS Trajectory

VARIABLE trajectory

Init == trajectory = << >>

Emit(c, p) ==
  /\ c \notin Children(trajectory)
  /\ p = Root \/ p \in Children(trajectory)
  /\ trajectory' = Append(trajectory, Edge(c, p))

Next == \E c \in Queries, p \in Queries \cup {Root} : Emit(c, p)

Safety == Init /\ [][Next]_trajectory

-------------------------------------------------------------------------------
(* The promise is worth what the code checks: a trajectory passes the      *)
(* three asserts of checkTrajectory exactly if it is complete.             *)
CompleteIsChecked == Len(trajectory) = N <=> CheckTrajectory(trajectory)
===============================================================================
