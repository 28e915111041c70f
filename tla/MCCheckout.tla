---------------------------- MODULE MCCheckout ----------------------------
(* Small instances of Checkout. *)
EXTENDS Checkout, FiniteSets, TLC

CONSTANTS a, b, c1, c2, c3, l1, l2, l3, l4, w1, w2, k1, k2, s1, s2, o1, o2, express, pickup

MCPrice == a :> 1 @@ b :> 2
MCFee == express :> 3 @@ pickup :> 0

Interchangeable ==
    Permutations(Cart) \cup Permutations(Line) \cup Permutations(Worker)
    \cup Permutations(Order)

\* Bounds the run. Calls on carts overlap while at most one line has been deleted.
\* Once a session is open, which belongs to the first cart there is, or after a
\* fault, lines are changed and removed in single steps, but no call of several
\* steps runs on a cart, nor have two of them filled it, with two lines at most.
Inserted == {l \in Line : productOf[l] # Nil}
Deleted == {l \in Inserted : cartOf[l] = Nil /\ \A w \in Worker : l \notin written[w]}

CartsFirst ==
    /\ (\E w \in Worker : pc[w] = "idle") \/ Cardinality(Deleted) <= 1
    /\ \A s \in Session : status[s] = "none" \/ \A c \in Cart : owner[c] = "none" \/ cart[s] = c
    /\ (\E s \in Session : status[s] # "none") \/ faults > 0 =>
         /\ \A w \in Worker : pc[w] = "idle"
         /\ \A p \in Product : drift[p] = 0
         /\ Cardinality(Inserted) <= 2 /\ \A l, m \in Inserted : insertedBy[l] = insertedBy[m]
=============================================================================
