------------------------------- MODULE Orders -------------------------------
(***************************************************************************)
(* The life of one order: payment through Paystack (payments.service.ts,   *)
(* orders.service.ts), fulfilment by the seller                            *)
(* (seller-post-order.controller.ts), moves by hand of an admin or a       *)
(* supplier (suppliers.controller.ts), and the requests to cancel it once  *)
(* it is paid (returns.service.ts), which hold the order in                *)
(* "refund_requested" until they are decided.                              *)
(*                                                                         *)
(* As in Refunds a worker is one running call of a handler, and an action  *)
(* is the code between two awaits.  The amounts, Paystack's refunds and    *)
(* the lost answers are the subject of Refunds; here a refund is of the    *)
(* whole order, and the row of its request names one or none.              *)
(*                                                                         *)
(* As in Refunds, an operator under "Slip:" is a faulty variant of the one *)
(* that follows it, which nothing uses.                                    *)
(***************************************************************************)
EXTENDS Naturals

CONSTANTS
    Charge,         \* Paystack transactions, by reference; bounds the run
    Request,        \* cancellation requests that can be filed; bounds the run
    Nil,            \* no charge, no request
    Worker,         \* concurrent handler calls
    MaxFaults       \* how many faults a run may contain, but for those a handler makes good

Status == {"pending_payment", "confirmed", "processing", "shipped", "delivered",
           "cancelled", "refund_requested", "refunded"}

ASSUME NilAssumption == Nil \notin Charge \cup Request

VARIABLES
    status, paymentStatus, paystackReference,   \* the order row
    reserved, spent,                            \* order row: the refund ledger (Refunds)
    charge,                                     \* Paystack: its transactions
    request, reviewed, refund, previous,        \* the request rows
    named,                                      \* Paystack: the refund a request row names
    pc, task, seen,                             \* workers: program counter and locals
    byHand,                                     \* history: somebody has set the status by hand
    faults

moneyVars == <<paymentStatus, paystackReference, reserved, spent>>
orderVars == <<status, moneyVars>>
requestVars == <<request, reviewed, refund, previous, named>>
locals == <<task, seen>>
vars == <<orderVars, charge, requestVars, pc, locals, byHand, faults>>

-----------------------------------------------------------------------------
PaymentStatus == {"unpaid", "awaiting_verification", "paid", "refunded"}
ChargeState == {"none", "created", "open", "success"}
RequestStatus == {"none", "pending", "approved", "rejected", "cancelled", "completed"}
RefundStatus == {"none", "processing", "completed", "failed"}
NamedRefund == {"none", "pending", "processed", "failed"}

\* Where a worker gives the reservation of the order back.
Releasing == {"releaseAborted", "releaseRefused", "releaseProcessed", "releaseFailed"}
Label == {"idle", "initialize", "saveReference", "markPaid", "confirm", "hold", "insert",
          "restore", "approve", "reject", "reserve", "startFind", "startWrite", "call",
          "markFailed", "markRefunded", "closeOrder"} \cup Releasing

TypeOK ==
    /\ status \in Status
    /\ paymentStatus \in PaymentStatus
    /\ paystackReference \in Charge \cup {Nil}
    /\ reserved \in Request \cup {Nil}
    /\ spent \in BOOLEAN
    /\ charge \in [Charge -> ChargeState]
    /\ request \in [Request -> RequestStatus]
    /\ reviewed \in [Request -> BOOLEAN]
    /\ refund \in [Request -> RefundStatus]
    /\ previous \in [Request -> Status]
    /\ named \in [Request -> NamedRefund]
    /\ pc \in [Worker -> Label]
    /\ task \in [Worker -> Charge \cup Request \cup {Nil}]
    /\ seen \in [Worker -> Status]
    /\ byHand \in BOOLEAN
    /\ faults \in Nat

\* ordersService.create: the order is placed and unpaid.
Init ==
    /\ status = "pending_payment" /\ paymentStatus = "unpaid" /\ paystackReference = Nil
    /\ reserved = Nil /\ spent = FALSE
    /\ charge = [c \in Charge |-> "none"]
    /\ request = [r \in Request |-> "none"]
    /\ reviewed = [r \in Request |-> FALSE]
    /\ refund = [r \in Request |-> "none"]
    /\ previous = [r \in Request |-> "confirmed"]
    /\ named = [r \in Request |-> "none"]
    /\ pc = [w \in Worker |-> "idle"]
    /\ task = [w \in Worker |-> Nil]
    /\ seen = [w \in Worker |-> "confirmed"]
    /\ byHand = FALSE
    /\ faults = 0

-----------------------------------------------------------------------------
Goto(w, label) ==
    /\ pc' = [pc EXCEPT ![w] = label]
    /\ UNCHANGED locals

Begin(w, label, what, st) ==
    /\ pc[w] = "idle"
    /\ pc' = [pc EXCEPT ![w] = label]
    /\ task' = [task EXCEPT ![w] = what]
    /\ seen' = [seen EXCEPT ![w] = st]

\* The handler returns or throws: its locals are dead.
Finish(w) ==
    /\ pc' = [pc EXCEPT ![w] = "idle"]
    /\ task' = [task EXCEPT ![w] = Nil]
    /\ seen' = [seen EXCEPT ![w] = "confirmed"]

-----------------------------------------------------------------------------
(***************************************************************************)
(* Payment.                                                                *)
(***************************************************************************)
\* initializeOrderPayment: the checks ...
Initialize(w) ==
    /\ paymentStatus # "paid"
    /\ status # "cancelled"
    /\ Begin(w, "initialize", Nil, "confirmed")
    /\ UNCHANGED <<orderVars, charge, requestVars, byHand, faults>>

\* ... the call to Paystack, which may fail ...
CreateCharge(w) ==
    /\ pc[w] = "initialize"
    /\ \/ \E c \in Charge :
            /\ charge[c] = "none"
            /\ charge' = [charge EXCEPT ![c] = "created"]
            /\ pc' = [pc EXCEPT ![w] = "saveReference"]
            /\ task' = [task EXCEPT ![w] = c]
            /\ UNCHANGED seen
       \/ Finish(w) /\ UNCHANGED charge
    /\ UNCHANGED <<orderVars, requestVars, byHand, faults>>

\* ... and the write, whatever has happened to the order since.  Then the
\* buyer gets the link, also when update() has swallowed a database error.
SaveReference(w) ==
    /\ pc[w] = "saveReference"
    /\ \/ /\ paymentStatus' = "awaiting_verification"
          /\ paystackReference' = task[w]
          /\ UNCHANGED faults
       \/ /\ faults < MaxFaults
          /\ faults' = faults + 1
          /\ UNCHANGED <<paymentStatus, paystackReference>>
    /\ charge' = [charge EXCEPT ![task[w]] = "open"]
    /\ Finish(w)
    /\ UNCHANGED <<status, reserved, spent, requestVars, byHand>>

\* The buyer pays on Paystack's page.
Pay(c) ==
    /\ charge[c] = "open"
    /\ charge' = [charge EXCEPT ![c] = "success"]
    /\ UNCHANGED <<orderVars, requestVars, pc, locals, byHand, faults>>

\* verifyOrderPayment: Paystack reports the charge and the order is looked up
\* by its reference.  It does not matter whether the order is paid already.
Verify(w, c) ==
    /\ charge[c] = "success"
    /\ paystackReference = c
    /\ Begin(w, "markPaid", c, "confirmed")
    /\ UNCHANGED <<orderVars, charge, requestVars, byHand, faults>>

\* Slip: any event about the charge counts, charge.success or not.
ChargeWebhookAny(w, c) ==
    /\ charge[c] = "open"
    /\ paystackReference = c
    /\ paymentStatus # "paid"
    /\ Begin(w, "markPaid", c, "confirmed")
    /\ UNCHANGED <<orderVars, charge, requestVars, byHand, faults>>

\* handleOrderPaystackEvent, on charge.success.
ChargeWebhook(w, c) ==
    /\ charge[c] = "success"
    /\ paystackReference = c
    /\ paymentStatus # "paid"
    /\ Begin(w, "markPaid", c, "confirmed")
    /\ UNCHANGED <<orderVars, charge, requestVars, byHand, faults>>

\* Slip: the status is left to somebody else.
MarkPaidOnly(w) ==
    /\ pc[w] = "markPaid"
    /\ paymentStatus' = "paid"
    /\ paystackReference' = task[w]
    /\ Finish(w)
    /\ UNCHANGED <<status, reserved, spent, charge, requestVars, byHand, faults>>

\* updatePaymentStatus: the payment columns, without a condition ...
MarkPaid(w) ==
    /\ pc[w] = "markPaid"
    /\ paymentStatus' = "paid"
    /\ paystackReference' = task[w]
    /\ Goto(w, "confirm")
    /\ UNCHANGED <<status, reserved, spent, charge, requestVars, byHand, faults>>

\* (update() swallows a database error and updatePaymentStatus goes on)
MarkPaidFails(w) ==
    /\ pc[w] = "markPaid"
    /\ faults < MaxFaults
    /\ faults' = faults + 1
    /\ Goto(w, "confirm")
    /\ UNCHANGED <<orderVars, charge, requestVars, byHand>>

\* ... and then the status, without a condition.
Confirm(w) ==
    /\ pc[w] = "confirm"
    /\ status' = "confirmed"
    /\ Finish(w)
    /\ UNCHANGED <<moneyVars, charge, requestVars, byHand, faults>>

-----------------------------------------------------------------------------
(***************************************************************************)
(* Buyer, seller and admin: one locked transaction each, which looks again *)
(* at whatever the handler had read before.                                *)
(***************************************************************************)
CancelByBuyer ==
    /\ status = "pending_payment" /\ paymentStatus = "unpaid"
    /\ status' = "cancelled"
    /\ UNCHANGED <<moneyVars, charge, requestVars, pc, locals, byHand, faults>>

\* transitionStatusIfCurrent
Transition(from, to) ==
    /\ status \in from
    /\ status' = to

Acknowledge ==
    /\ Transition({"confirmed", "processing"}, "processing")
    /\ UNCHANGED <<moneyVars, charge, requestVars, pc, locals, byHand, faults>>

\* Slip: a held order is on the list.
DispatchHeld ==
    /\ Transition({"confirmed", "processing", "refund_requested"}, "shipped")
    /\ UNCHANGED <<moneyVars, charge, requestVars, pc, locals, byHand, faults>>

Dispatch ==
    /\ Transition({"confirmed", "processing"}, "shipped")
    /\ UNCHANGED <<moneyVars, charge, requestVars, pc, locals, byHand, faults>>

\* adminStatusTransition: any status, whatever the order's is ...
AdminUpdatesStatus ==
    /\ status' \in Status
    /\ byHand' = TRUE
    /\ UNCHANGED <<moneyVars, charge, requestVars, pc, locals, faults>>

\* ... and markReady and markDispatched of a supplier look at it no more.
SupplierMoves ==
    /\ status' \in {"processing", "shipped"}
    /\ byHand' = TRUE
    /\ UNCHANGED <<moneyVars, charge, requestVars, pc, locals, faults>>

-----------------------------------------------------------------------------
(***************************************************************************)
(* Cancellation of a paid order.                                           *)
(***************************************************************************)
\* returns.service.ts create: the checks ...
FileCancellation(w) ==
    /\ paymentStatus = "paid"
    /\ status \in {"confirmed", "processing"}
    /\ \E r \in Request :
        /\ request[r] = "none"
        /\ \A v \in Worker : task[v] # r
        /\ Begin(w, "hold", r, status)
    /\ UNCHANGED <<orderVars, charge, requestVars, byHand, faults>>

\* Slip: the order is held whatever has become of it.
HoldOrderBlind(w) ==
    /\ pc[w] = "hold"
    /\ status' = "refund_requested"
    /\ Goto(w, "insert")
    /\ UNCHANGED <<moneyVars, charge, requestVars, byHand, faults>>

\* ... the hold, if the status is still the one seen ...
HoldOrder(w) ==
    /\ pc[w] = "hold"
    /\ \/ Transition({seen[w]}, "refund_requested") /\ Goto(w, "insert")
       \/ status # seen[w] /\ Finish(w) /\ UNCHANGED status
    /\ UNCHANGED <<moneyVars, charge, requestVars, byHand, faults>>

\* ... and the request.
InsertRequest(w) ==
    /\ pc[w] = "insert"
    /\ request' = [request EXCEPT ![task[w]] = "pending"]
    /\ previous' = [previous EXCEPT ![task[w]] = seen[w]]
    /\ Finish(w)
    /\ UNCHANGED <<orderVars, charge, reviewed, refund, named, byHand, faults>>

\* Slip: the hold is not undone.
InsertRequestFailsOnly(w) ==
    /\ pc[w] = "insert"
    /\ Finish(w)
    /\ UNCHANGED <<orderVars, charge, requestVars, byHand, faults>>

\* (an error of the database is caught, and the hold undone)
InsertRequestFails(w) ==
    /\ pc[w] = "insert"
    /\ Goto(w, "restore")
    /\ UNCHANGED <<orderVars, charge, requestVars, byHand, faults>>

\* Give the order back, if it is still held - by whichever request.
RestoreOrder(w) ==
    /\ pc[w] = "restore"
    /\ \/ Transition({"refund_requested"}, seen[w])
       \/ status # "refund_requested" /\ UNCHANGED status
    /\ Finish(w)
    /\ UNCHANGED <<moneyVars, charge, requestVars, byHand, faults>>

\* cancel: cancelPending is one conditional update.
Withdraw(w) ==
    \E r \in Request :
        /\ request[r] = "pending" /\ refund[r] = "none"
        /\ request' = [request EXCEPT ![r] = "cancelled"]
        /\ Begin(w, "restore", r, previous[r])
        /\ UNCHANGED <<orderVars, charge, reviewed, refund, previous, named, byHand, faults>>

\* sellerDecision on a cancellation: the last seller has given input.
SellersReview(r) ==
    /\ request[r] = "pending" /\ ~reviewed[r]
    /\ reviewed' = [reviewed EXCEPT ![r] = TRUE]
    /\ UNCHANGED <<orderVars, charge, request, refund, previous, named, pc, locals, byHand, faults>>

\* adminDecision: decideByAdmin reads the row ...
DecideFind(w) ==
    /\ \E r \in Request : \E decision \in {"approve", "reject"} :
        /\ refund[r] = "none"
        /\ request[r] \in {"pending", "approved", "rejected"}
        /\ decision = "approve" => reviewed[r] /\ request[r] # "rejected"
        /\ Begin(w, decision, r, previous[r])
    /\ UNCHANGED <<orderVars, charge, requestVars, byHand, faults>>

\* ... and writes it.
DecideWrite(w) ==
    /\ \/ /\ pc[w] = "approve"
          /\ request' = [request EXCEPT ![task[w]] = "approved"]
          /\ Finish(w)
       \/ /\ pc[w] = "reject"
          /\ request' = [request EXCEPT ![task[w]] = "rejected"]
          /\ Goto(w, "restore")
    /\ UNCHANGED <<orderVars, charge, reviewed, refund, previous, named, byHand, faults>>

-----------------------------------------------------------------------------
(***************************************************************************)
(* The refund of a cancelled order, which Refunds has in full.             *)
(***************************************************************************)
Startable(r) == request[r] = "approved" /\ refund[r] \in {"none", "failed"}

\* processRefund: the checks.  The status of the order is not looked at.
ProcessRefund(w) ==
    /\ \E r \in Request :
        /\ Startable(r)
        /\ paymentStatus = "paid" /\ paystackReference # Nil
        /\ Begin(w, "reserve", r, "confirmed")
    /\ UNCHANGED <<orderVars, charge, requestVars, byHand, faults>>

\* reserveRefund, under the lock: the ledger lets one refund of the whole total through.
ReserveRefund(w) ==
    /\ pc[w] = "reserve"
    /\ \/ /\ paymentStatus = "paid" /\ reserved = Nil /\ ~spent
          /\ reserved' = task[w]
          /\ Goto(w, "startFind")
       \/ /\ paymentStatus # "paid" \/ reserved # Nil \/ spent
          /\ Finish(w)
          /\ UNCHANGED reserved
    /\ UNCHANGED <<status, paymentStatus, paystackReference, spent, charge, requestVars, byHand, faults>>

\* startRefund reads the request without a lock ...
StartRefundFind(w) ==
    /\ pc[w] = "startFind"
    /\ Goto(w, IF Startable(task[w]) THEN "startWrite" ELSE "releaseAborted")
    /\ UNCHANGED <<orderVars, charge, requestVars, byHand, faults>>

\* ... and writes it by its id, whatever an admin has decided since.
StartRefundWrite(w) ==
    /\ pc[w] = "startWrite"
    /\ refund' = [refund EXCEPT ![task[w]] = "processing"]
    /\ Goto(w, "call")
    /\ UNCHANGED <<orderVars, charge, request, reviewed, previous, named, byHand, faults>>

\* (update() swallows a database error: the refund counts as not started)
StartRefundWriteFails(w) ==
    /\ pc[w] = "startWrite"
    /\ Goto(w, "releaseAborted")
    /\ UNCHANGED <<orderVars, charge, requestVars, byHand, faults>>

\* initializeRefund, if the order still counts as paid: Paystack takes the
\* refund and the row names it, or the answer is lost and the row names none.
CallPaystack(w) ==
    /\ pc[w] = "call"
    /\ paymentStatus = "paid"
    /\ \/ named' = [named EXCEPT ![task[w]] = "pending"]
       \/ UNCHANGED named
    /\ Finish(w)
    /\ UNCHANGED <<orderVars, charge, request, reviewed, refund, previous, byHand, faults>>

\* Paystack or the check of the payment refuses: the reservation goes, then the
\* refund is marked failed.  Nothing gives the order back.
CallRefused(w) ==
    /\ pc[w] = "call"
    /\ Goto(w, "releaseRefused")
    /\ UNCHANGED <<orderVars, charge, requestVars, byHand, faults>>

MarkFailed(w) ==
    /\ pc[w] = "markFailed"
    /\ refund' = [refund EXCEPT ![task[w]] = "failed"]
    /\ Finish(w)
    /\ UNCHANGED <<orderVars, charge, request, reviewed, previous, named, byHand, faults>>

\* handlePaystackRefundEvent: Paystack has settled the refund the row names,
\* and the conditional update of the request is won.
SettleRefund(w, r) ==
    /\ refund[r] = "processing"
    /\ \/ /\ named[r] \in {"pending", "processed"}
          /\ named' = [named EXCEPT ![r] = "processed"]
          /\ refund' = [refund EXCEPT ![r] = "completed"]
          /\ request' = [request EXCEPT ![r] = "completed"]
          /\ Begin(w, "releaseProcessed", r, previous[r])
       \/ /\ named[r] \in {"pending", "failed"}
          /\ named' = [named EXCEPT ![r] = "failed"]
          /\ refund' = [refund EXCEPT ![r] = "failed"]
          /\ UNCHANGED request
          /\ Begin(w, "releaseFailed", r, previous[r])
    /\ UNCHANGED <<orderVars, charge, reviewed, previous, byHand, faults>>

\* What a handler does once the reservation is gone.
AfterRelease(w) ==
    CASE pc[w] = "releaseRefused" -> "markFailed"
      [] pc[w] = "releaseProcessed" -> "markRefunded"
      [] pc[w] = "releaseFailed" -> "restore"
      [] OTHER -> "idle"

\* finishRefundReservation, which Refunds has in two steps.
Release(w) ==
    /\ pc[w] \in Releasing
    /\ \/ /\ reserved = task[w]
          /\ reserved' = Nil
          /\ spent' = (spent \/ pc[w] = "releaseProcessed")
       \/ /\ reserved # task[w]
          /\ UNCHANGED <<reserved, spent>>
    /\ IF AfterRelease(w) = "idle" THEN Finish(w) ELSE Goto(w, AfterRelease(w))
    /\ UNCHANGED <<status, paymentStatus, paystackReference, charge, requestVars, byHand, faults>>

MarkRefunded(w) ==
    /\ pc[w] = "markRefunded"
    /\ \/ /\ paymentStatus' = "refunded"
          /\ UNCHANGED faults
       \/ /\ faults < MaxFaults             \* update() swallows a database error
          /\ faults' = faults + 1
          /\ UNCHANGED paymentStatus
    /\ Goto(w, "closeOrder")
    /\ UNCHANGED <<status, paystackReference, reserved, spent, charge, requestVars, byHand>>

CloseOrder(w) ==
    /\ pc[w] = "closeOrder"
    /\ \/ Transition({"refund_requested"}, "refunded")
       \/ status # "refund_requested" /\ UNCHANGED status
    /\ Finish(w)
    /\ UNCHANGED <<moneyVars, charge, requestVars, byHand, faults>>

\* A crash, or an error thrown by the database, ends a handler at any await.
Abort(w) ==
    /\ pc[w] # "idle"
    /\ faults < MaxFaults
    /\ faults' = faults + 1
    /\ Finish(w)
    /\ UNCHANGED <<orderVars, charge, requestVars, byHand>>

-----------------------------------------------------------------------------
Continue(w) ==
    \/ CreateCharge(w) \/ SaveReference(w) \/ MarkPaid(w) \/ Confirm(w)
    \/ HoldOrder(w) \/ InsertRequest(w) \/ RestoreOrder(w) \/ DecideWrite(w)
    \/ ReserveRefund(w) \/ StartRefundFind(w) \/ StartRefundWrite(w)
    \/ CallPaystack(w) \/ CallRefused(w) \/ MarkFailed(w) \/ Release(w)
    \/ MarkRefunded(w) \/ CloseOrder(w)

Fault(w) == MarkPaidFails(w) \/ InsertRequestFails(w) \/ StartRefundWriteFails(w) \/ Abort(w)

ByHand == SupplierMoves \/ AdminUpdatesStatus

Next ==
    \/ \E w \in Worker :
        \/ Initialize(w) \/ FileCancellation(w) \/ Withdraw(w) \/ DecideFind(w)
        \/ ProcessRefund(w)
        \/ \E c \in Charge : Verify(w, c) \/ ChargeWebhook(w, c)
        \/ \E r \in Request : SettleRefund(w, r)
        \/ Continue(w) \/ Fault(w)
    \/ \E c \in Charge : Pay(c)
    \/ \E r \in Request : SellersReview(r)
    \/ CancelByBuyer \/ Acknowledge \/ Dispatch \/ ByHand

Spec == Init /\ [][Next]_vars

(***************************************************************************)
(* A handler that has been called runs on, and Paystack repeats the event  *)
(* of a successful charge until it has been handled.                       *)
(***************************************************************************)
FairSpec ==
    /\ Spec
    /\ \A w \in Worker : WF_vars(Continue(w))
    /\ \A c \in Charge : SF_vars(\E w \in Worker : ChargeWebhook(w, c))

-----------------------------------------------------------------------------
(***************************************************************************)
(* Some steps undo what another handler has done; under Spec they break    *)
(* GoodsOrMoney and HoldMatchesRequest.  CleanSpec has the runs without    *)
(* them.                                                                   *)
(***************************************************************************)
\* The refund of a request was refused when it was asked for: the order is
\* still held, and an admin can start the refund again.
Refused(r) == refund[r] = "failed" /\ named[r] = "none"

\* A request that asks for the order to stay held.
Holding(r) ==
    /\ request[r] \in {"pending", "approved"}
    /\ refund[r] \in {"none", "processing"} \/ Refused(r)

\* Who would lose by the order being given back: also the buyer whose request
\* is about to be stored, and, once refunded, the shop.
Claims ==
    {r \in Request : Holding(r) \/ refund[r] = "completed"}
        \cup {task[w] : w \in {v \in Worker : pc[v] = "insert"}}

\* A charge is confirmed again after the order has moved on.
LateConfirm == \E w \in Worker : pc[w] = "confirm" /\ status # "pending_payment"

\* A handler is about to give back an order that a request holds: another
\* request than its own, or its own after a failed refund was started again.
RestoreHeld == Claims # {} /\ \E w \in Worker : pc[w] = "restore"

\* An admin's decision is about to overwrite a withdrawal, an earlier
\* decision or a refund, or a refund is about to start of a request that an
\* admin has rejected since it was read.
StaleDecision ==
    \E w \in Worker : \E r \in Request :
        /\ task[w] = r
        /\ \/ /\ pc[w] \in {"approve", "reject"}
              /\ request[r] \in {"cancelled", "completed"} \/ refund[r] # "none"
           \/ pc[w] = "approve" /\ request[r] = "rejected"
           \/ pc[w] = "startWrite" /\ request[r] # "approved"

\* A refund that failed at Paystack, after which the order was given back, is
\* started again, while the row still names it (as in Refunds).
Reusing == \E w \in Worker : pc[w] = "call" /\ named[task[w]] # "none"

Clean == ~LateConfirm /\ ~RestoreHeld /\ ~StaleDecision /\ ~Reusing

CleanSpec == Init /\ [][Next /\ Clean']_vars

-----------------------------------------------------------------------------
Charged == \E c \in Charge : charge[c] = "success"

\* Goods move only for money: an order counts as paid only after a charge has
\* gone through, and if nobody has moved it by hand it is not confirmed,
\* prepared or shipped before either (verify, webhook, acknowledge, dispatch).
ConfirmedWasCharged ==
    /\ paymentStatus = "paid" => Charged
    /\ status \in {"confirmed", "processing", "shipped"} /\ ~byHand => Charged

GoodsAndMoney ==
    status = "shipped" /\ \E r \in Request : refund[r] \in {"processing", "completed"}

\* A buyer never gets the goods and the refund both, unless an admin or a
\* supplier has set the order's status by hand (dispatchOrder moves an order
\* on only from confirmed or processing, and a cancellation holds it first).
GoodsOrMoney == ~byHand => ~GoodsAndMoney

\* "This order cannot be dispatched while cancellation or refund is pending"
\* (seller-post-order.controller.ts), whoever dispatches it.
NeverGoodsAndMoney == ~GoodsAndMoney

\* "Whole-order cancellation is available only before shipment" (create): no
\* handler holds, prepares or confirms a dispatched order again, whatever it
\* had read before; only a move by hand takes it elsewhere.
ShippedStaysShipped == [][status = "shipped" /\ ~ByHand => status' = "shipped"]_vars

\* When no handler is under way, none was cut off and nobody has moved the
\* order by hand, it is held exactly while one request asks for it.
HoldMatchesRequest ==
    (faults = 0 /\ ~byHand /\ \A w \in Worker : pc[w] = "idle") =>
        /\ status = "refund_requested" <=> \E r \in Request : Holding(r)
        /\ \A r, q \in Request : Holding(r) /\ Holding(q) => q = r

\* A charge for the reference on the order row gets the order confirmed, if
\* no handler is cut off (webhook and verify do it in two writes) and nobody
\* sets the status by hand.
ChargeConfirmsOrder ==
    \A c \in Charge :
        charge[c] = "success" /\ paystackReference = c
            ~> status # "pending_payment" \/ paystackReference # c \/ byHand \/ faults > 0
=============================================================================
