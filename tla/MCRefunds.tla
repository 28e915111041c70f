----------------------------- MODULE MCRefunds -----------------------------
(* Small instances of Refunds: a cancellation and an item return. *)
EXTENDS Refunds, TLC

CONSTANTS r1, r2, f1, f2, f3, w1, w2, w3

Interchangeable == Permutations(Refund) \cup Permutations(Worker)
=============================================================================
