----------------------------- MODULE MCVamanaLink -----------------------------
(* Points in the plane, in several numberings and with every medoid.       *)
EXTENDS VamanaLink

Square(a, b) == (a[1] - b[1]) * (a[1] - b[1]) + (a[2] - b[2]) * (a[2] - b[2])

Product(a, b) == a[1] * b[1] + a[2] * b[2]

World(points, q, ip, start, entry) ==
  LET d(a, b) == IF ip THEN - Product(a, b) ELSE Square(a, b)
  IN [dist |-> [x \in Nodes |-> [y \in Nodes |-> d(points[x + 1], points[y + 1])]],
      query |-> [x \in Nodes |-> d(q, points[x + 1])],
      ip |-> ip, start |-> start, entry |-> entry]

(* A line with a point that occurs twice, and a star in the plane.         *)
Layouts == {<<<<0, 1>>, <<3, 1>>, <<1, 1>>, <<3, 1>>>>, <<<<0, 0>>, <<2, 1>>, <<-1, 2>>, <<1, -2>>>>}

MCWorlds ==
  {World(p, <<2, 0>>, ip, s, e) : p \in Layouts, ip \in BOOLEAN, s \in Nodes, e \in {-1, 0}}

MCAlphas == <<10, 12>>
================================================================================
