------------------------------ MODULE MCNsgBuild ------------------------------
(* Points in the plane, by squared distance or by inner product.  In A     *)
(* InterInsert leaves lists with repetitions; in B several nodes are not   *)
(* reached at first; in D a point occurs twice, and an inner product is    *)
(* the distance that ends a list.                                          *)
EXTENDS NsgBuild

Square(a, b) == (a[1] - b[1]) * (a[1] - b[1]) + (a[2] - b[2]) * (a[2] - b[2])

Product(a, b) == a[1] * b[1] + a[2] * b[2]

World(points, center, ip) ==
  LET e(a, b) == IF ip THEN - Product(a, b) ELSE Square(a, b)
  IN [dist |-> [x \in Nodes |-> [y \in Nodes |-> e(points[x + 1], points[y + 1])]],
      center |-> [x \in Nodes |-> e(center, points[x + 1])]]

MCWorlds ==
  LET A == <<<<0, 1>>, <<1, 3>>, <<2, 2>>, <<0, -2>>, <<-1, 3>>>>
      B == <<<<3, -1>>, <<-2, 2>>, <<2, 3>>, <<-1, 0>>, <<-2, 2>>>>
      D == <<<<0, 1>>, <<3, 1>>, <<1, 1>>, <<3, 1>>, <<-1, 0>>>>
  IN {World(A, <<1, 1>>, FALSE), World(B, <<1, 1>>, TRUE),
      World(D, <<1, 1>>, FALSE), World(D, <<1, 1>>, TRUE)}

(* Two ids for the pool and four for nn_new, each a run of the cycle, as   *)
(* GenRandom draws them.                                                   *)
MCStarts ==
  {[pool |-> [x \in Nodes |-> {(x + c) % Size, (x + c + 1) % Size}],
    new |-> [x \in Nodes |-> [i \in 1 .. 4 |-> i]]] : c \in {0, 2}}
===============================================================================
