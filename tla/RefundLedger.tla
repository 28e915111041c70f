---------------------------- MODULE RefundLedger ----------------------------
(***************************************************************************)
(* What the refund ledger of an order promises.  Refunds are made one at a *)
(* time: a request holds part of what is left of the order total, Paystack *)
(* pays that part at most once, and the hold ends either spent, exactly    *)
(* when the money is out, or given back, exactly when it is not.           *)
(***************************************************************************)
EXTENDS Integers

CONSTANTS Request, NoRequest, Total

VARIABLES
    holder,     \* the request whose refund is under way
    held,       \* the amount set aside for it
    spent,      \* what earlier refunds have used up
    paid        \* what Paystack has sent back to the buyer

ledger == <<holder, held, spent, paid>>

Init == holder = NoRequest /\ held = 0 /\ spent = 0 /\ paid = 0

Hold(r, a) ==
    /\ holder = NoRequest
    /\ spent + a <= Total
    /\ holder' = r
    /\ held' = a
    /\ UNCHANGED <<spent, paid>>

Pay ==
    /\ holder # NoRequest
    /\ paid = spent
    /\ paid' = spent + held
    /\ UNCHANGED <<holder, held, spent>>

\* A refund Paystack took can still fail; the money comes back.
Bounce ==
    /\ holder # NoRequest
    /\ paid = spent + held
    /\ paid' = spent
    /\ UNCHANGED <<holder, held, spent>>

Settle ==
    /\ holder # NoRequest
    /\ paid = spent + held
    /\ spent' = spent + held
    /\ holder' = NoRequest
    /\ held' = 0
    /\ UNCHANGED paid

GiveBack ==
    /\ holder # NoRequest
    /\ paid = spent
    /\ holder' = NoRequest
    /\ held' = 0
    /\ UNCHANGED <<spent, paid>>

Next ==
    \/ \E r \in Request, a \in 1 .. Total : Hold(r, a)
    \/ Pay \/ Bounce \/ Settle \/ GiveBack

Spec == Init /\ [][Next]_ledger
=============================================================================
