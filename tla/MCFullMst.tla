------------------------------- MODULE MCFullMst -------------------------------
(* Four queries and a team of three threads; ties, a negative inner        *)
(* product distance, and distances that overflow.                          *)
EXTENDS FullMst

MCDistances == [Pairs -> {-1, 1, Infinity}]
===============================================================================
