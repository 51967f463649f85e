----------------------------- MODULE MCSeededWalk -----------------------------
(* All trajectories of three queries, with queries and elements on a line. *)
EXTENDS SeededWalk

Line(a, b, c) == [x \in Elements |-> <<a, b, c>>[x + 1]]

MCPlaces == [query : [Queries -> 0 .. 2], element : {Line(0, 2, 1), Line(1, 3, 0)}]

MCTrajectories == {t \in [1 .. N -> Edges] : CheckTrajectory(t)}
===============================================================================
