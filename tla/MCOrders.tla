------------------------------ MODULE MCOrders ------------------------------
(* Small instances of Orders. *)
EXTENDS Orders, TLC

CONSTANTS c1, c2, q1, q2, w1, w2, w3

Interchangeable == Permutations(Charge) \cup Permutations(Request) \cup Permutations(Worker)

\* For liveness: a cut-off handler or a move by hand releases ChargeConfirmsOrder
\* from its promise for good, so that no counterexample passes such a state.
Undisturbed == faults = 0 /\ ~byHand
=============================================================================
