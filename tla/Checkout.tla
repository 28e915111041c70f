----------------------------- MODULE Checkout -----------------------------
(***************************************************************************)
(* Checkout sessions over a cart that goes on changing, and the orders     *)
(* they place (checkout.service.ts, orders.service.ts).                    *)
(*                                                                         *)
(* Taxes follow from the subtotal and are left out; so are contents of     *)
(* addresses.  expiresAt is stored and never looked at.                    *)
(***************************************************************************)
EXTENDS Carts

CONSTANTS
    Session, Order,
    Mode, Pickup,       \* delivery modes
    Price, Fee,         \* of a product, of a mode
    Caller              \* concurrent checkout calls

ASSUME ModeAssumption == Pickup \in Mode /\ Nil \notin Mode \cup Order \cup Session
ASSUME PriceAssumption == Price \in [Product -> Nat] /\ Fee \in [Mode -> Nat]

VARIABLES
    status, cart, addressed, validated, mode, collected, snapshot, orderId,     \* sessions
    items, delivery, pricing,   \* orders
    placedBy,                   \* history: the session that placed an order
    shown,                      \* history: the contents a session's summary was priced from
    stage, session, held        \* callers

sessionVars == <<status, cart, addressed, validated, mode, collected, snapshot, orderId>>
orderVars == <<items, delivery, pricing, placedBy>>
callVars == <<stage, session, held>>
checkoutVars == <<sessionVars, orderVars, shown, callVars>>
vars == <<cartVars, checkoutVars>>

-----------------------------------------------------------------------------
Status == {"none", "initiated", "address_set", "delivery_set", "summary_ready", "confirmed"}
Stage == {"idle", "address", "validate", "delivery", "pickup", "summary", "confirm", "close"}

\* What is owed for a cart with a mode of delivery.
Subtotal(contents) == SumFunction([p \in Product |-> Price[p] * contents[p]])
Pricing(contents, m) == [subtotal |-> Subtotal(contents), deliveryFee |-> Fee[m]]
Prices == [subtotal : Nat, deliveryFee : Nat]

TypeOK ==
    /\ CartsTypeOK
    /\ status \in [Session -> Status]
    /\ cart \in [Session -> Cart \cup {Nil}]
    /\ addressed \in [Session -> BOOLEAN]
    /\ validated \in [Session -> BOOLEAN]
    /\ mode \in [Session -> Mode \cup {Nil}]
    /\ collected \in [Session -> BOOLEAN]
    /\ \A s \in Session : snapshot[s] = Nil \/ snapshot[s] \in Prices
    /\ orderId \in [Session -> Order \cup {Nil}]
    /\ items \in [Order -> [Product -> Nat]]
    /\ delivery \in [Order -> Mode \cup {Nil}]
    /\ \A o \in Order : pricing[o] = Nil \/ pricing[o] \in Prices
    /\ placedBy \in [Order -> Session \cup {Nil}]
    /\ shown \in [Session -> [Product -> Nat]]
    /\ stage \in [Caller -> Stage]
    /\ session \in [Caller -> Session \cup {Nil}]
    /\ \A k \in Caller :
        /\ stage[k] = "delivery" => held[k] \in Mode
        /\ stage[k] = "summary" => held[k] \in [contents : [Product -> Nat], pricing : Prices]
        /\ stage[k] = "confirm" =>
             held[k] \in [items : [Product -> Nat], delivery : Mode, pricing : Prices]
        /\ stage[k] = "close" => held[k] \in Order

Init ==
    /\ CartsInit
    /\ status = [s \in Session |-> "none"]
    /\ cart = [s \in Session |-> Nil]
    /\ addressed = [s \in Session |-> FALSE]
    /\ validated = [s \in Session |-> FALSE]
    /\ mode = [s \in Session |-> Nil]
    /\ collected = [s \in Session |-> FALSE]
    /\ snapshot = [s \in Session |-> Nil]
    /\ orderId = [s \in Session |-> Nil]
    /\ items = [o \in Order |-> [p \in Product |-> 0]]
    /\ delivery = [o \in Order |-> Nil]
    /\ pricing = [o \in Order |-> Nil]
    /\ placedBy = [o \in Order |-> Nil]
    /\ shown = [s \in Session |-> [p \in Product |-> 0]]
    /\ stage = [k \in Caller |-> "idle"]
    /\ session = [k \in Caller |-> Nil]
    /\ held = [k \in Caller |-> Nil]

-----------------------------------------------------------------------------
\* Slip: a confirmed session passes as well.
ActiveOrConfirmed(s) == status[s] # "none"

\* assertSessionActive.
Active(s) == status[s] \notin {"none", "confirmed"}

\* A call has read its session, and stands before its write.
Begin(k, next, s, value) ==
    /\ stage[k] = "idle"
    /\ Active(s)
    /\ stage' = [stage EXCEPT ![k] = next]
    /\ session' = [session EXCEPT ![k] = s]
    /\ held' = [held EXCEPT ![k] = value]
    /\ UNCHANGED <<sessionVars, orderVars, shown, cartVars>>

Return(k) ==
    /\ stage' = [stage EXCEPT ![k] = "idle"]
    /\ session' = [session EXCEPT ![k] = Nil]
    /\ held' = [held EXCEPT ![k] = Nil]

Mark(k, st) == status' = [status EXCEPT ![session[k]] = st]

CreateSession ==
    /\ \E s \in Session : \E c \in Cart :
        /\ status[s] = "none"
        /\ Live(c) /\ LinesIn(c) # {}
        /\ status' = [status EXCEPT ![s] = "initiated"]
        /\ cart' = [cart EXCEPT ![s] = c]
    /\ UNCHANGED <<addressed, validated, mode, collected, snapshot, orderId, orderVars, shown, callVars, cartVars>>

\* setAddress
ReadForAddress(k) == \E s \in Session : Begin(k, "address", s, Nil)

SetAddress(k) ==
    /\ stage[k] = "address"
    /\ Mark(k, "address_set")
    /\ addressed' = [addressed EXCEPT ![session[k]] = TRUE]
    /\ validated' = [validated EXCEPT ![session[k]] = FALSE]
    /\ Return(k)
    /\ UNCHANGED <<cart, mode, collected, snapshot, orderId, orderVars, shown, cartVars>>

\* validateAddress
ReadForValidation(k) == \E s \in Session : addressed[s] /\ Begin(k, "validate", s, Nil)

ValidateAddress(k) ==
    /\ stage[k] = "validate"
    /\ validated' = [validated EXCEPT ![session[k]] = TRUE]
    /\ Return(k)
    /\ UNCHANGED <<status, cart, addressed, mode, collected, snapshot, orderId, orderVars, shown, cartVars>>

\* selectDelivery
ReadForDelivery(k) == \E s \in Session : \E m \in Mode : Begin(k, "delivery", s, m)

\* Slip: the session stays ready for confirmation.
SelectDeliveryOnly(k) ==
    /\ stage[k] = "delivery"
    /\ mode' = [mode EXCEPT ![session[k]] = held[k]]
    /\ Return(k)
    /\ UNCHANGED <<status, cart, addressed, validated, collected, snapshot, orderId, orderVars, shown, cartVars>>

SelectDelivery(k) ==
    /\ stage[k] = "delivery"
    /\ Mark(k, "delivery_set")
    /\ mode' = [mode EXCEPT ![session[k]] = held[k]]
    /\ Return(k)
    /\ UNCHANGED <<cart, addressed, validated, collected, snapshot, orderId, orderVars, shown, cartVars>>

\* setPickupDetails
ReadForPickup(k) == \E s \in Session : mode[s] = Pickup /\ Begin(k, "pickup", s, Nil)

SetPickupDetails(k) ==
    /\ stage[k] = "pickup"
    /\ collected' = [collected EXCEPT ![session[k]] = TRUE]
    /\ Return(k)
    /\ UNCHANGED <<status, cart, addressed, validated, mode, snapshot, orderId, orderVars, shown, cartVars>>

-----------------------------------------------------------------------------
(***************************************************************************)
(* getSummary prices the cart it reads and locks the session to that.      *)
(***************************************************************************)
ReadForSummary(k) ==
    \E s \in Session :
        /\ addressed[s] /\ mode[s] # Nil
        /\ Live(cart[s])
        /\ Begin(k, "summary", s, [contents |-> Contents(cart[s]),
                                   pricing |-> Pricing(Contents(cart[s]), mode[s])])

GetSummary(k) ==
    /\ stage[k] = "summary"
    /\ Mark(k, "summary_ready")
    /\ snapshot' = [snapshot EXCEPT ![session[k]] = held[k].pricing]
    /\ shown' = [shown EXCEPT ![session[k]] = held[k].contents]
    /\ Return(k)
    /\ UNCHANGED <<cart, addressed, validated, mode, collected, orderId, orderVars, cartVars>>

(***************************************************************************)
(* confirmSession takes the items from the cart as it is now, and the rest *)
(* from the session ...                                                    *)
(***************************************************************************)
ReadForConfirmation(k) ==
    \E s \in Session :
        /\ status[s] = "summary_ready"
        /\ Live(cart[s])
        /\ Begin(k, "confirm", s,
             [items |-> Contents(cart[s]), delivery |-> mode[s], pricing |-> snapshot[s]])

\* ... inserts the order ...
PlaceOrder(k) ==
    /\ stage[k] = "confirm"
    /\ \E o \in Order :
        /\ placedBy[o] = Nil
        /\ placedBy' = [placedBy EXCEPT ![o] = session[k]]
        /\ items' = [items EXCEPT ![o] = held[k].items]
        /\ delivery' = [delivery EXCEPT ![o] = held[k].delivery]
        /\ pricing' = [pricing EXCEPT ![o] = held[k].pricing]
        /\ held' = [held EXCEPT ![k] = o]
    /\ stage' = [stage EXCEPT ![k] = "close"]
    /\ UNCHANGED <<sessionVars, shown, session, cartVars>>

\* Slip: the update of the session is not told the order.
CloseSessionOnly(k) ==
    /\ stage[k] = "close"
    /\ Mark(k, "confirmed")
    /\ Return(k)
    /\ UNCHANGED <<cart, addressed, validated, mode, collected, snapshot, orderId, orderVars, shown, cartVars>>

\* ... and closes the session.
CloseSession(k) ==
    /\ stage[k] = "close"
    /\ Mark(k, "confirmed")
    /\ orderId' = [orderId EXCEPT ![session[k]] = held[k]]
    /\ Return(k)
    /\ UNCHANGED <<cart, addressed, validated, mode, collected, snapshot, orderVars, shown, cartVars>>

Fail(k) ==
    /\ stage[k] # "idle"
    /\ faults < MaxFaults
    /\ faults' = faults + 1
    /\ Return(k)
    /\ UNCHANGED <<sessionVars, orderVars, shown, owner, lineVars, cartHistory, pc, cartLocals>>

-----------------------------------------------------------------------------
\* The requests of checkout.controller.ts.
CheckoutRequests(k) ==
    \/ CreateSession
    \/ ReadForAddress(k) \/ ReadForValidation(k) \/ ReadForDelivery(k)
    \/ ReadForPickup(k) \/ ReadForSummary(k) \/ ReadForConfirmation(k)

Continue(k) ==
    \/ SetAddress(k) \/ ValidateAddress(k) \/ SelectDelivery(k) \/ SetPickupDetails(k)
    \/ GetSummary(k) \/ PlaceOrder(k) \/ CloseSession(k)

Next ==
    \/ CartsNext /\ UNCHANGED checkoutVars
    \/ \E k \in Caller : CheckoutRequests(k) \/ Continue(k) \/ Fail(k)

Spec == Init /\ [][Next]_vars

(***************************************************************************)
(* Runs in which calls for one session do not overlap, and a confirmation  *)
(* is not cut off after its order is placed.  The cart may change at any   *)
(* time.                                                                   *)
(***************************************************************************)
Overlap == \E k, j \in Caller : k # j /\ session[k] = session[j] /\ session[k] # Nil
Placed(s) == {o \in Order : placedBy[o] = s}
CutOff == \E s \in Session :
    Placed(s) # {} /\ orderId[s] = Nil /\ \A k \in Caller : session[k] # s

Clean == ~Overlap /\ ~CutOff

CleanSpec == Init /\ [][Next /\ Clean']_vars

-----------------------------------------------------------------------------
\* "Checkout session is already confirmed" (assertSessionActive): a session
\* places one order at most.
OneOrderPerSession == \A o, n \in Order :
    placedBy[o] # Nil /\ placedBy[o] = placedBy[n] => o = n

\* An order costs what the buyer was shown (getSummary, confirmSession): what
\* the contents of the last summary cost with the order's own mode of delivery,
\* whatever the cart and the session went through since.
PricedAsShown == \A o \in Order : placedBy[o] # Nil =>
    pricing[o] = Pricing(shown[placedBy[o]], delivery[o])

\* "Review the order summary before confirming" (confirmSession): an order
\* costs what its own items and its own mode of delivery cost, although its
\* items come from the cart and its price from the session.
PricedAsItems == \A o \in Order : placedBy[o] # Nil => pricing[o] = Pricing(items[o], delivery[o])

\* A confirmed session names its order, and shows the buyer the price and the
\* mode of delivery of that order, for ever (getSession).
ConfirmedShowsOrder == \A s \in Session : status[s] = "confirmed" =>
    /\ orderId[s] \in Placed(s)
    /\ pricing[orderId[s]] = snapshot[s]
    /\ delivery[orderId[s]] = mode[s]
=============================================================================
