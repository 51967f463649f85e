----------------------------- MODULE MCGroupLoop -----------------------------
(* Every split and every local trajectory of a small set of queries.       *)
EXTENDS GroupLoop
===============================================================================
