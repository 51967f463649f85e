----------------------------- MODULE MCHnswBuild -----------------------------
(* Points in the plane by squared distance, in the order in which they are *)
(* added.  In Star the first point gets a full list and then a nearer      *)
(* link; in Line the layers are long; in Twins points occur twice.         *)
EXTENDS HnswBuild

Square(a, b) == (a[1] - b[1]) * (a[1] - b[1]) + (a[2] - b[2]) * (a[2] - b[2])

Metric(p) ==
  [x \in Elements |-> [y \in Elements |-> Square(p[x + 1], p[y + 1])]]

Star == <<<<0, 0>>, <<2, 0>>, <<0, 2>>, <<-2, 0>>, <<0, -2>>, <<1, 1>>>>
Line == <<<<0, 0>>, <<9, 0>>, <<6, 0>>, <<4, 0>>, <<7, 0>>, <<5, 0>>>>
Twins == <<<<0, 0>>, <<1, 0>>, <<0, 0>>, <<2, 1>>, <<1, 0>>, <<2, 1>>>>

MCMetrics == {Metric(Star), Metric(Line), Metric(Twins)}
===============================================================================
