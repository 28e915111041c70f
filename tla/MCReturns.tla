----------------------------- MODULE MCReturns -----------------------------
(* Small instances of Returns. *)
EXTENDS Returns, TLC

CONSTANTS r1, r2, r3, w1, w2, w3

Interchangeable == Permutations(Request) \cup Permutations(Worker)
=============================================================================
