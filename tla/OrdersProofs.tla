---------------------------- MODULE OrdersProofs ----------------------------
(***************************************************************************)
(* Theorems about Orders, for any number of charges, requests and workers  *)
(* and any number of faults.                                               *)
(***************************************************************************)
EXTENDS Orders, TLAPS

-----------------------------------------------------------------------------
(* Type correctness *)

\* What the locals of a handler are at some labels: a charge while the payment
\* columns are written, the status of an unshipped order before it is held, a
\* request while its refund is made.
PayingCharge == \A w \in Worker : pc[w] \in {"saveReference", "markPaid"} => task[w] \in Charge
SeenUnshipped == \A w \in Worker : pc[w] = "hold" => seen[w] \in {"confirmed", "processing"}
RefundsRequest ==
    \A w \in Worker :
        pc[w] \in {"reserve", "startFind", "startWrite", "call", "markFailed"} \cup Releasing
            => task[w] \in Request

TypeInv == TypeOK /\ PayingCharge /\ SeenUnshipped /\ RefundsRequest

\* The order starts within its types.
LEMMA InitTypeInv == Init => TypeInv
<1> SUFFICES ASSUME Init PROVE TypeInv
  OBVIOUS
<1>1. TypeOK
  BY DEF Init, TypeOK, Status, PaymentStatus, ChargeState, RequestStatus, RefundStatus,
         NamedRefund, Label
<1>2. PayingCharge /\ SeenUnshipped /\ RefundsRequest
  BY DEF Init, PayingCharge, SeenUnshipped, RefundsRequest, Releasing
<1>3. QED
  BY <1>1, <1>2 DEF TypeInv

\* Every handler keeps the types, and those of its locals.
LEMMA TypeStep == TypeInv /\ [Next]_vars => TypeInv'
<1> SUFFICES ASSUME TypeInv, [Next]_vars PROVE TypeInv'
  OBVIOUS
<1> USE DEF TypeInv, TypeOK, PayingCharge, SeenUnshipped, RefundsRequest, Status, PaymentStatus,
            ChargeState, RequestStatus, RefundStatus, NamedRefund, Label, Releasing, moneyVars,
            orderVars, requestVars, locals, Begin, Goto, Finish
<1>1. ASSUME NEW w \in Worker, Initialize(w) PROVE TypeInv'
  BY <1>1, NilAssumption DEF Initialize
<1>2. ASSUME NEW w \in Worker, CreateCharge(w) PROVE TypeInv'
  BY <1>2, NilAssumption DEF CreateCharge
<1>3. ASSUME NEW w \in Worker, SaveReference(w) PROVE TypeInv'
  BY <1>3, NilAssumption DEF SaveReference
<1>4. ASSUME NEW c \in Charge, Pay(c) PROVE TypeInv'
  BY <1>4, NilAssumption DEF Pay
<1>5. ASSUME NEW w \in Worker, NEW c \in Charge, Verify(w, c) PROVE TypeInv'
  BY <1>5, NilAssumption DEF Verify
<1>6. ASSUME NEW w \in Worker, NEW c \in Charge, ChargeWebhook(w, c) PROVE TypeInv'
  BY <1>6, NilAssumption DEF ChargeWebhook
<1>7. ASSUME NEW w \in Worker, MarkPaid(w) PROVE TypeInv'
  BY <1>7, NilAssumption DEF MarkPaid
<1>8. ASSUME NEW w \in Worker, MarkPaidFails(w) PROVE TypeInv'
  BY <1>8, NilAssumption DEF MarkPaidFails
<1>9. ASSUME NEW w \in Worker, Confirm(w) PROVE TypeInv'
  BY <1>9, NilAssumption DEF Confirm
<1>10. ASSUME CancelByBuyer PROVE TypeInv'
  BY <1>10, NilAssumption DEF CancelByBuyer
<1>11. ASSUME Acknowledge PROVE TypeInv'
  BY <1>11, NilAssumption DEF Acknowledge, Transition
<1>12. ASSUME Dispatch PROVE TypeInv'
  BY <1>12, NilAssumption DEF Dispatch, Transition
<1>13. ASSUME AdminUpdatesStatus PROVE TypeInv'
  BY <1>13, NilAssumption DEF AdminUpdatesStatus
<1>14. ASSUME SupplierMoves PROVE TypeInv'
  BY <1>14, NilAssumption DEF SupplierMoves
<1>15. ASSUME NEW w \in Worker, FileCancellation(w) PROVE TypeInv'
  BY <1>15, NilAssumption DEF FileCancellation
<1>16. ASSUME NEW w \in Worker, HoldOrder(w) PROVE TypeInv'
  BY <1>16, NilAssumption DEF HoldOrder, Transition
<1>17. ASSUME NEW w \in Worker, InsertRequest(w) PROVE TypeInv'
  BY <1>17, NilAssumption DEF InsertRequest
<1>18. ASSUME NEW w \in Worker, InsertRequestFails(w) PROVE TypeInv'
  BY <1>18, NilAssumption DEF InsertRequestFails
<1>19. ASSUME NEW w \in Worker, RestoreOrder(w) PROVE TypeInv'
  BY <1>19, NilAssumption DEF RestoreOrder, Transition
<1>20. ASSUME NEW w \in Worker, Withdraw(w) PROVE TypeInv'
  BY <1>20, NilAssumption DEF Withdraw
<1>21. ASSUME NEW r \in Request, SellersReview(r) PROVE TypeInv'
  BY <1>21, NilAssumption DEF SellersReview
<1>22. ASSUME NEW w \in Worker, DecideFind(w) PROVE TypeInv'
  BY <1>22, NilAssumption DEF DecideFind
<1>23. ASSUME NEW w \in Worker, DecideWrite(w) PROVE TypeInv'
  BY <1>23, NilAssumption DEF DecideWrite
<1>24. ASSUME NEW w \in Worker, ProcessRefund(w) PROVE TypeInv'
  BY <1>24, NilAssumption DEF ProcessRefund, Startable
<1>25. ASSUME NEW w \in Worker, ReserveRefund(w) PROVE TypeInv'
  BY <1>25, NilAssumption DEF ReserveRefund
<1>26. ASSUME NEW w \in Worker, StartRefundFind(w) PROVE TypeInv'
  BY <1>26, NilAssumption DEF StartRefundFind, Startable
<1>27. ASSUME NEW w \in Worker, StartRefundWrite(w) PROVE TypeInv'
  BY <1>27, NilAssumption DEF StartRefundWrite
<1>28. ASSUME NEW w \in Worker, StartRefundWriteFails(w) PROVE TypeInv'
  BY <1>28, NilAssumption DEF StartRefundWriteFails
<1>29. ASSUME NEW w \in Worker, CallPaystack(w) PROVE TypeInv'
  BY <1>29, NilAssumption DEF CallPaystack
<1>30. ASSUME NEW w \in Worker, CallRefused(w) PROVE TypeInv'
  BY <1>30, NilAssumption DEF CallRefused
<1>31. ASSUME NEW w \in Worker, MarkFailed(w) PROVE TypeInv'
  BY <1>31, NilAssumption DEF MarkFailed
<1>32. ASSUME NEW w \in Worker, NEW r \in Request, SettleRefund(w, r) PROVE TypeInv'
  BY <1>32, NilAssumption DEF SettleRefund
<1>33. ASSUME NEW w \in Worker, Release(w) PROVE TypeInv'
  <2>1. pc[w] \in Releasing /\ task[w] \in Request
    BY <1>33 DEF Release
  <2>2. AfterRelease(w) \in {"idle", "markFailed", "markRefunded", "restore"}
    BY <2>1 DEF AfterRelease
  <2>3. reserved' \in Request \cup {Nil} /\ spent' \in BOOLEAN
    BY <1>33 DEF Release
  <2>4. CASE AfterRelease(w) = "idle"
    BY <1>33, <2>3, <2>4 DEF Release
  <2>5. CASE AfterRelease(w) # "idle"
    BY <1>33, <2>1, <2>2, <2>3, <2>5 DEF Release
  <2>6. QED
    BY <2>4, <2>5
<1>34. ASSUME NEW w \in Worker, MarkRefunded(w) PROVE TypeInv'
  BY <1>34, NilAssumption DEF MarkRefunded
<1>35. ASSUME NEW w \in Worker, CloseOrder(w) PROVE TypeInv'
  BY <1>35, NilAssumption DEF CloseOrder, Transition
<1>36. ASSUME NEW w \in Worker, Abort(w) PROVE TypeInv'
  BY <1>36, NilAssumption DEF Abort
<1>37. CASE UNCHANGED vars
  BY <1>37 DEF vars, locals, moneyVars, orderVars, requestVars
<1>38. QED
  BY <1>1, <1>2, <1>3, <1>4, <1>5, <1>6, <1>7, <1>8, <1>9, <1>10, <1>11, <1>12, <1>13, <1>14,
     <1>15, <1>16, <1>17, <1>18, <1>19, <1>20, <1>21, <1>22, <1>23, <1>24, <1>25, <1>26, <1>27,
     <1>28, <1>29, <1>30, <1>31, <1>32, <1>33, <1>34, <1>35, <1>36, <1>37
    DEF Next, Continue, Fault, ByHand

\* The columns of the order and of the requests, and the locals, keep their types.
THEOREM TypeCorrect == Spec => []TypeOK
<1>1. TypeInv => TypeOK
  BY DEF TypeInv
<1>2. QED
  BY InitTypeInv, TypeStep, <1>1, PTL DEF Spec

-----------------------------------------------------------------------------
(***************************************************************************)
(* Until a charge goes through nothing happens to the order but attempts   *)
(* to pay and what an admin or a supplier does by hand.                    *)
(***************************************************************************)
Untouched ==
    /\ \A w \in Worker : pc[w] \in {"idle", "initialize", "saveReference"}
    /\ paymentStatus # "paid"
    /\ byHand \/ status \notin {"confirmed", "processing", "shipped"}
    /\ \A r \in Request : request[r] = "none" /\ refund[r] = "none"

\* A charge whose link is not out yet is known to one handler only.
LinkPending ==
    \A w \in Worker : pc[w] = "saveReference" =>
        /\ charge[task[w]] = "created"
        /\ \A v \in Worker : pc[v] = "saveReference" /\ task[v] = task[w] => v = w

ChargedFirst == LinkPending /\ (Charged \/ Untouched)

\* An order nobody has paid stays untouched until a charge goes through.
LEMMA ChargedFirstStep ==
  ASSUME TypeInv, ChargedFirst, [Next]_vars PROVE ChargedFirst'
<1> USE DEF TypeInv, TypeOK, PayingCharge, LinkPending, ChargedFirst, Charged, Untouched,
            moneyVars, orderVars, requestVars, locals, Begin, Goto, Finish
<1>1. ASSUME NEW w \in Worker, Initialize(w) PROVE ChargedFirst'
  BY <1>1 DEF Initialize
<1>2. ASSUME NEW w \in Worker, CreateCharge(w) PROVE ChargedFirst'
  BY <1>2 DEF CreateCharge
<1>3. ASSUME NEW w \in Worker, SaveReference(w) PROVE ChargedFirst'
  BY <1>3 DEF SaveReference
<1>4. ASSUME NEW c \in Charge, Pay(c) PROVE ChargedFirst'
  BY <1>4 DEF Pay
<1>5. ASSUME NEW w \in Worker, NEW c \in Charge, Verify(w, c) PROVE ChargedFirst'
  BY <1>5 DEF Verify
<1>6. ASSUME NEW w \in Worker, NEW c \in Charge, ChargeWebhook(w, c) PROVE ChargedFirst'
  BY <1>6 DEF ChargeWebhook
<1>7. ASSUME NEW w \in Worker, MarkPaid(w) PROVE ChargedFirst'
  BY <1>7 DEF MarkPaid
<1>8. ASSUME NEW w \in Worker, MarkPaidFails(w) PROVE ChargedFirst'
  BY <1>8 DEF MarkPaidFails
<1>9. ASSUME NEW w \in Worker, Confirm(w) PROVE ChargedFirst'
  BY <1>9 DEF Confirm
<1>10. ASSUME CancelByBuyer PROVE ChargedFirst'
  BY <1>10 DEF CancelByBuyer
<1>11. ASSUME Acknowledge PROVE ChargedFirst'
  BY <1>11 DEF Acknowledge, Transition
<1>12. ASSUME Dispatch PROVE ChargedFirst'
  BY <1>12 DEF Dispatch, Transition
<1>13. ASSUME AdminUpdatesStatus PROVE ChargedFirst'
  BY <1>13 DEF AdminUpdatesStatus
<1>14. ASSUME SupplierMoves PROVE ChargedFirst'
  BY <1>14 DEF SupplierMoves
<1>15. ASSUME NEW w \in Worker, FileCancellation(w) PROVE ChargedFirst'
  BY <1>15 DEF FileCancellation
<1>16. ASSUME NEW w \in Worker, HoldOrder(w) PROVE ChargedFirst'
  BY <1>16 DEF HoldOrder, Transition
<1>17. ASSUME NEW w \in Worker, InsertRequest(w) PROVE ChargedFirst'
  BY <1>17 DEF InsertRequest
<1>18. ASSUME NEW w \in Worker, InsertRequestFails(w) PROVE ChargedFirst'
  BY <1>18 DEF InsertRequestFails
<1>19. ASSUME NEW w \in Worker, RestoreOrder(w) PROVE ChargedFirst'
  BY <1>19 DEF RestoreOrder, Transition
<1>20. ASSUME NEW w \in Worker, Withdraw(w) PROVE ChargedFirst'
  BY <1>20 DEF Withdraw
<1>21. ASSUME NEW r \in Request, SellersReview(r) PROVE ChargedFirst'
  BY <1>21 DEF SellersReview
<1>22. ASSUME NEW w \in Worker, DecideFind(w) PROVE ChargedFirst'
  BY <1>22 DEF DecideFind
<1>23. ASSUME NEW w \in Worker, DecideWrite(w) PROVE ChargedFirst'
  BY <1>23 DEF DecideWrite
<1>24. ASSUME NEW w \in Worker, ProcessRefund(w) PROVE ChargedFirst'
  BY <1>24 DEF ProcessRefund, Startable
<1>25. ASSUME NEW w \in Worker, ReserveRefund(w) PROVE ChargedFirst'
  BY <1>25 DEF ReserveRefund
<1>26. ASSUME NEW w \in Worker, StartRefundFind(w) PROVE ChargedFirst'
  BY <1>26 DEF StartRefundFind, Startable
<1>27. ASSUME NEW w \in Worker, StartRefundWrite(w) PROVE ChargedFirst'
  BY <1>27 DEF StartRefundWrite
<1>28. ASSUME NEW w \in Worker, StartRefundWriteFails(w) PROVE ChargedFirst'
  BY <1>28 DEF StartRefundWriteFails
<1>29. ASSUME NEW w \in Worker, CallPaystack(w) PROVE ChargedFirst'
  BY <1>29 DEF CallPaystack
<1>30. ASSUME NEW w \in Worker, CallRefused(w) PROVE ChargedFirst'
  BY <1>30 DEF CallRefused
<1>31. ASSUME NEW w \in Worker, MarkFailed(w) PROVE ChargedFirst'
  BY <1>31 DEF MarkFailed
<1>32. ASSUME NEW w \in Worker, NEW r \in Request, SettleRefund(w, r) PROVE ChargedFirst'
  BY <1>32 DEF SettleRefund
<1>33. ASSUME NEW w \in Worker, Release(w) PROVE ChargedFirst'
  BY <1>33 DEF Release, AfterRelease, Releasing
<1>34. ASSUME NEW w \in Worker, MarkRefunded(w) PROVE ChargedFirst'
  BY <1>34 DEF MarkRefunded
<1>35. ASSUME NEW w \in Worker, CloseOrder(w) PROVE ChargedFirst'
  BY <1>35 DEF CloseOrder, Transition
<1>36. ASSUME NEW w \in Worker, Abort(w) PROVE ChargedFirst'
  BY <1>36 DEF Abort
<1>37. CASE UNCHANGED vars
  BY <1>37 DEF vars, locals, moneyVars, orderVars, requestVars
<1>38. QED
  BY <1>1, <1>2, <1>3, <1>4, <1>5, <1>6, <1>7, <1>8, <1>9, <1>10, <1>11, <1>12, <1>13, <1>14,
     <1>15, <1>16, <1>17, <1>18, <1>19, <1>20, <1>21, <1>22, <1>23, <1>24, <1>25, <1>26, <1>27,
     <1>28, <1>29, <1>30, <1>31, <1>32, <1>33, <1>34, <1>35, <1>36, <1>37
    DEF Next, Continue, Fault, ByHand

\* No order counts as paid before a charge has gone through, whatever anybody
\* does, and none is confirmed, prepared or shipped before, if nobody has moved
\* it by hand.
THEOREM PaidWasCharged == Spec => []ConfirmedWasCharged
<1>1. Init => ChargedFirst
  BY DEF Init, ChargedFirst, LinkPending, Untouched
<1>2. TypeInv /\ ChargedFirst /\ [Next]_vars => ChargedFirst'
  BY ChargedFirstStep
<1>3. ChargedFirst => ConfirmedWasCharged
  BY DEF ChargedFirst, Untouched, ConfirmedWasCharged
<1>4. QED
  BY InitTypeInv, TypeStep, <1>1, <1>2, <1>3, PTL DEF Spec

-----------------------------------------------------------------------------
\* No handler is under way at the start, so none is about to undo another's work.
LEMMA InitClean == Init => Clean
  BY DEF Init, Clean, LateConfirm, RestoreHeld, StaleDecision, Reusing

\* A step of CleanSpec ends clean, and one that changes nothing stays clean.
LEMMA CleanStep == Clean /\ [Next /\ Clean']_vars => Clean'
  BY DEF Clean, LateConfirm, RestoreHeld, StaleDecision, Reusing, Claims, Holding, Refused, vars,
         locals, moneyVars, orderVars, requestVars

\* No handler takes a dispatched order anywhere else, in the runs without a
\* late confirmation; what an admin or a supplier does by hand may.
THEOREM ShippedStays == CleanSpec => ShippedStaysShipped
<1>1. TypeInv /\ Clean /\ [Next /\ Clean']_vars
        => [status = "shipped" /\ ~ByHand => status' = "shipped"]_vars
  <2> SUFFICES ASSUME TypeInv, Clean, Next, status = "shipped", ~ByHand
               PROVE  status' = "shipped"
    OBVIOUS
  <2>1. ASSUME NEW w \in Worker, Confirm(w) PROVE FALSE
    BY <2>1 DEF Confirm, Clean, LateConfirm
  <2>2. ASSUME NEW w \in Worker, HoldOrder(w) PROVE status' = "shipped"
    BY <2>2 DEF HoldOrder, Transition, TypeInv, SeenUnshipped
  <2>3. CASE UNCHANGED status
    BY <2>3
  <2>4. QED
    BY <2>1, <2>2, <2>3
       DEF Next, Continue, Fault, moneyVars, orderVars, Transition, Initialize, CreateCharge,
           SaveReference, Pay, Verify, ChargeWebhook, MarkPaid, MarkPaidFails, CancelByBuyer,
           Acknowledge, Dispatch, FileCancellation, InsertRequest, InsertRequestFails,
           RestoreOrder, Withdraw, SellersReview, DecideFind, DecideWrite, ProcessRefund,
           ReserveRefund, StartRefundFind, StartRefundWrite, StartRefundWriteFails, CallPaystack,
           CallRefused, MarkFailed, SettleRefund, Release, MarkRefunded, CloseOrder, Abort
<1>2. [Next /\ Clean']_vars => [Next]_vars
  OBVIOUS
<1>3. QED
  BY InitTypeInv, TypeStep, InitClean, CleanStep, <1>1, <1>2, PTL DEF CleanSpec, ShippedStaysShipped

-----------------------------------------------------------------------------
(***************************************************************************)
(* Who holds the order.  The parts of the inductive invariant behind       *)
(* GoodsOrMoney and HoldMatchesRequest, in the runs of CleanSpec, up to    *)
(* the first move by hand.                                                 *)
(***************************************************************************)
Unshipped == {"confirmed", "processing"}

\* An order can only be given back to a status it was held from.
GivenBack ==
    /\ \A w \in Worker : seen[w] \in Unshipped
    /\ \A r \in Request : previous[r] \in Unshipped

\* A request that is being filed is not stored yet, and filed by one handler.
FilingUnstored ==
    \A w \in Worker : pc[w] \in {"hold", "insert"} =>
        /\ task[w] \in Request
        /\ request[task[w]] = "none"
        /\ \A v \in Worker : pc[v] \in {"hold", "insert"} /\ task[v] = task[w] => v = w

\* A decision is about a stored request, and an order is closed for a refund made.
DecidedStored ==
    \A w \in Worker :
        /\ pc[w] \in {"approve", "reject"} => task[w] \in Request /\ request[task[w]] # "none"
        /\ pc[w] \in {"releaseProcessed", "markRefunded", "closeOrder"} =>
              task[w] \in Request /\ refund[task[w]] = "completed"

\* Money goes back only for an approved request.
RefundWasApproved ==
    \A r \in Request :
        /\ refund[r] \in {"processing", "failed"} => request[r] = "approved"
        /\ refund[r] = "completed" => request[r] = "completed"

\* One handler at a time has the reservation of the order, until its refund is
\* under way, refused or settled.
Owning == {"startFind", "startWrite", "call"} \cup Releasing

OneOwner ==
    \A w \in Worker : pc[w] \in Owning =>
        /\ reserved = task[w]
        /\ \A v \in Worker : pc[v] \in Owning => v = w

\* What the row says while a handler starts its refund, and after Paystack has
\* named one: nobody else settles or fails it.
RefundInStep ==
    /\ \A w \in Worker :
          /\ pc[w] = "startWrite" => refund[task[w]] \in {"none", "failed"}
          /\ pc[w] \in {"call", "releaseRefused", "markFailed"} =>
                /\ refund[task[w]] = "processing" /\ named[task[w]] = "none"
                /\ \A v \in Worker :
                      pc[v] \in {"call", "releaseRefused", "markFailed"} /\ task[v] = task[w] => v = w
    /\ \A r \in Request : refund[r] = "processing" /\ named[r] # "none" =>
          reserved = r /\ \A w \in Worker : pc[w] \notin Owning

\* One buyer's request at a time has a claim on the order: one that holds it,
\* one whose refund is made, or one about to be stored.
Claiming(r) == Holding(r) \/ refund[r] = "completed"

OneClaim ==
    /\ \A r, q \in Request : Claiming(r) /\ Claiming(q) => r = q
    /\ \A w \in Worker : pc[w] = "insert" =>
          /\ \A r \in Request : ~Claiming(r)
          /\ \A v \in Worker : pc[v] = "insert" => v = w

\* An order with a request on it is held; one with a refund made is not up for
\* fulfilment again.
ClaimKept ==
    /\ (\E r \in Request : Holding(r)) \/ (\E w \in Worker : pc[w] = "insert")
          => status = "refund_requested"
    /\ \A r \in Request : refund[r] = "completed"
          => status \notin {"pending_payment", "confirmed", "processing", "shipped"}

\* A held order has a request on it, or a handler that is about to store one,
\* to give the order back or to close it - unless one was cut off.
HoldAwaited ==
    status = "refund_requested" /\ faults = 0 =>
        \/ \E r \in Request : Holding(r)
        \/ \E w \in Worker : pc[w] \in {"insert", "restore", "releaseProcessed", "releaseFailed",
                                        "markRefunded", "closeOrder"}

HoldInv ==
    /\ GivenBack /\ FilingUnstored /\ DecidedStored /\ RefundWasApproved
    /\ OneOwner /\ RefundInStep /\ OneClaim /\ ClaimKept /\ HoldAwaited

\* Every handler keeps the claims on the order as they should be, if neither its
\* step nor the state it starts from is one of the four that Clean leaves out.
LEMMA HoldStep ==
  ASSUME TypeInv, Clean, HoldInv, ~byHand', [Next /\ Clean']_vars PROVE HoldInv'
<1> USE DEF TypeInv, TypeOK, RefundsRequest, HoldInv, GivenBack, FilingUnstored, DecidedStored,
            RefundWasApproved, Owning, Releasing, OneOwner, RefundInStep, Claiming, OneClaim, ClaimKept,
            HoldAwaited, Unshipped, Holding, Refused, moneyVars, orderVars, requestVars, locals, Begin,
            Goto, Finish, Transition
<1>1. ASSUME NEW w \in Worker, Initialize(w), Clean' PROVE HoldInv'
  BY <1>1 DEF Initialize
<1>2. ASSUME NEW w \in Worker, CreateCharge(w), Clean' PROVE HoldInv'
  BY <1>2 DEF CreateCharge
<1>3. ASSUME NEW w \in Worker, SaveReference(w), Clean' PROVE HoldInv'
  BY <1>3 DEF SaveReference
<1>4. ASSUME NEW c \in Charge, Pay(c), Clean' PROVE HoldInv'
  BY <1>4 DEF Pay
<1>5. ASSUME NEW w \in Worker, NEW c \in Charge, Verify(w, c), Clean' PROVE HoldInv'
  BY <1>5 DEF Verify
<1>6. ASSUME NEW w \in Worker, NEW c \in Charge, ChargeWebhook(w, c), Clean' PROVE HoldInv'
  BY <1>6 DEF ChargeWebhook
<1>7. ASSUME NEW w \in Worker, MarkPaid(w), Clean' PROVE HoldInv'
  BY <1>7 DEF MarkPaid
<1>8. ASSUME NEW w \in Worker, MarkPaidFails(w), Clean' PROVE HoldInv'
  BY <1>8 DEF MarkPaidFails
<1>9. ASSUME NEW w \in Worker, Confirm(w), Clean' PROVE HoldInv'
  BY <1>9 DEF Confirm, Clean, LateConfirm
<1>10. ASSUME CancelByBuyer, Clean' PROVE HoldInv'
  BY <1>10 DEF CancelByBuyer
<1>11. ASSUME Acknowledge, Clean' PROVE HoldInv'
  BY <1>11 DEF Acknowledge
<1>12. ASSUME Dispatch, Clean' PROVE HoldInv'
  BY <1>12 DEF Dispatch
<1>13. ASSUME AdminUpdatesStatus, Clean' PROVE HoldInv'
  BY <1>13 DEF AdminUpdatesStatus
<1>14. ASSUME SupplierMoves, Clean' PROVE HoldInv'
  BY <1>14 DEF SupplierMoves
<1>15. ASSUME NEW w \in Worker, FileCancellation(w), Clean' PROVE HoldInv'
  BY <1>15 DEF FileCancellation
<1>16. ASSUME NEW w \in Worker, HoldOrder(w), Clean' PROVE HoldInv'
  BY <1>16 DEF HoldOrder
<1>17. ASSUME NEW w \in Worker, InsertRequest(w), Clean' PROVE HoldInv'
  <2> DEFINE r == task[w]
  <2>1. r \in Request /\ request[r] = "none" /\ refund[r] = "none" /\ pc[w] = "insert"
    BY <1>17 DEF InsertRequest, RefundStatus
  <2>2. \A q \in Request : Claiming(q)' <=> q = r
    BY <1>17, <2>1 DEF InsertRequest, RequestStatus
  <2>3. status = "refund_requested" /\ \A v \in Worker : pc'[v] # "insert"
    BY <1>17, <2>1 DEF InsertRequest
  <2>4. GivenBack' /\ FilingUnstored' /\ DecidedStored' /\ RefundWasApproved'
    BY <1>17, <2>1 DEF InsertRequest
  <2>5. OneOwner' /\ RefundInStep'
    BY <1>17, <2>1 DEF InsertRequest
  <2>6. OneClaim' /\ ClaimKept' /\ HoldAwaited'
    BY <1>17, <2>1, <2>2, <2>3 DEF InsertRequest
  <2>7. QED
    BY <2>4, <2>5, <2>6
<1>18. ASSUME NEW w \in Worker, InsertRequestFails(w), Clean' PROVE HoldInv'
  BY <1>18 DEF InsertRequestFails
<1>19. ASSUME NEW w \in Worker, RestoreOrder(w), Clean' PROVE HoldInv'
  <2>1. \A r \in Request : ~Claiming(r)
    BY <1>19 DEF RestoreOrder, Clean, RestoreHeld, Claims
  <2>2. \A v \in Worker : pc[v] # "insert"
    BY <1>19 DEF RestoreOrder, Clean, RestoreHeld, Claims
  <2>3. QED
    BY <1>19, <2>1, <2>2 DEF RestoreOrder
<1>20. ASSUME NEW w \in Worker, Withdraw(w), Clean' PROVE HoldInv'
  BY <1>20 DEF Withdraw
<1>21. ASSUME NEW r \in Request, SellersReview(r), Clean' PROVE HoldInv'
  BY <1>21 DEF SellersReview
<1>22. ASSUME NEW w \in Worker, DecideFind(w), Clean' PROVE HoldInv'
  BY <1>22 DEF DecideFind
<1>23. ASSUME NEW w \in Worker, DecideWrite(w), Clean' PROVE HoldInv'
  <2>1. CASE pc[w] = "approve"
    <3>1. task[w] \in Request /\ request[task[w]] \in {"pending", "approved"} /\ refund[task[w]] = "none"
      BY <2>1 DEF Clean, StaleDecision, RequestStatus
    <3>2. QED
      BY <1>23, <2>1, <3>1 DEF DecideWrite
  <2>2. CASE pc[w] = "reject"
    <3>1. task[w] \in Request /\ request[task[w]] # "none" /\ refund[task[w]] = "none"
      BY <2>2 DEF Clean, StaleDecision, RequestStatus
    <3>2. QED
      BY <1>23, <2>2, <3>1 DEF DecideWrite
  <2>3. QED
    BY <1>23, <2>1, <2>2 DEF DecideWrite
<1>24. ASSUME NEW w \in Worker, ProcessRefund(w), Clean' PROVE HoldInv'
  BY <1>24 DEF ProcessRefund, Startable
<1>25. ASSUME NEW w \in Worker, ReserveRefund(w), Clean' PROVE HoldInv'
  BY <1>25, NilAssumption DEF ReserveRefund
<1>26. ASSUME NEW w \in Worker, StartRefundFind(w), Clean' PROVE HoldInv'
  BY <1>26 DEF StartRefundFind, Startable
<1>27. ASSUME NEW w \in Worker, StartRefundWrite(w), Clean' PROVE HoldInv'
  <2>1. request[task[w]] = "approved" /\ refund[task[w]] \in {"none", "failed"}
    BY <1>27 DEF StartRefundWrite, Clean, StaleDecision
  <2>2. named[task[w]] = "none"
    BY <1>27 DEF StartRefundWrite, Clean, Reusing
  <2>3. Claiming(task[w]) /\ \A r \in Request : Claiming(r)' <=> Claiming(r)
    BY <1>27, <2>1, <2>2 DEF StartRefundWrite
  <2>4. QED
    BY <1>27, <2>1, <2>2, <2>3 DEF StartRefundWrite
<1>28. ASSUME NEW w \in Worker, StartRefundWriteFails(w), Clean' PROVE HoldInv'
  BY <1>28 DEF StartRefundWriteFails
<1>29. ASSUME NEW w \in Worker, CallPaystack(w), Clean' PROVE HoldInv'
  BY <1>29 DEF CallPaystack
<1>30. ASSUME NEW w \in Worker, CallRefused(w), Clean' PROVE HoldInv'
  BY <1>30 DEF CallRefused
<1>31. ASSUME NEW w \in Worker, MarkFailed(w), Clean' PROVE HoldInv'
  BY <1>31 DEF MarkFailed
<1>32. ASSUME NEW w \in Worker, NEW r \in Request, SettleRefund(w, r), Clean' PROVE HoldInv'
  BY <1>32 DEF SettleRefund
<1>33. ASSUME NEW w \in Worker, Release(w), Clean' PROVE HoldInv'
  BY <1>33 DEF Release, AfterRelease
<1>34. ASSUME NEW w \in Worker, MarkRefunded(w), Clean' PROVE HoldInv'
  BY <1>34 DEF MarkRefunded
<1>35. ASSUME NEW w \in Worker, CloseOrder(w), Clean' PROVE HoldInv'
  BY <1>35 DEF CloseOrder
<1>36. ASSUME NEW w \in Worker, Abort(w), Clean' PROVE HoldInv'
  BY <1>36 DEF Abort
<1>37. CASE UNCHANGED vars
  BY <1>37 DEF vars, locals, moneyVars, orderVars, requestVars
<1>38. QED
  BY <1>1, <1>2, <1>3, <1>4, <1>5, <1>6, <1>7, <1>8, <1>9, <1>10, <1>11, <1>12, <1>13, <1>14,
     <1>15, <1>16, <1>17, <1>18, <1>19, <1>20, <1>21, <1>22, <1>23, <1>24, <1>25, <1>26, <1>27,
     <1>28, <1>29, <1>30, <1>31, <1>32, <1>33, <1>34, <1>35, <1>36, <1>37
    DEF Next, Continue, Fault, ByHand

\* A new order is nobody's to hold, and a run of CleanSpec never leaves Clean.
LEMMA HoldInvariant == CleanSpec => [](TypeInv /\ Clean /\ (byHand \/ HoldInv))
<1>1. Init => HoldInv
  BY NilAssumption
     DEF Init, HoldInv, GivenBack, FilingUnstored, DecidedStored, RefundWasApproved, Owning,
         Releasing, OneOwner, RefundInStep, Claiming, OneClaim, ClaimKept, HoldAwaited, Unshipped,
         Holding, Refused
<1>2. TypeInv /\ Clean /\ (byHand \/ HoldInv) /\ [Next /\ Clean']_vars => (byHand \/ HoldInv)'
  <2>1. [Next]_vars /\ byHand => byHand'
    BY DEF Next, Continue, Fault, ByHand, vars, Initialize, CreateCharge, SaveReference, Pay,
           Verify, ChargeWebhook, MarkPaid, MarkPaidFails, Confirm, CancelByBuyer, Acknowledge,
           Dispatch, AdminUpdatesStatus, SupplierMoves, FileCancellation, HoldOrder,
           InsertRequest, InsertRequestFails, RestoreOrder, Withdraw, SellersReview, DecideFind,
           DecideWrite, ProcessRefund, ReserveRefund, StartRefundFind, StartRefundWrite,
           StartRefundWriteFails, CallPaystack, CallRefused, MarkFailed, SettleRefund, Release,
           MarkRefunded, CloseOrder, Abort
  <2>2. QED
    BY <2>1, HoldStep
<1>3. [Next /\ Clean']_vars => [Next]_vars
  OBVIOUS
<1>4. QED
  BY InitTypeInv, TypeStep, InitClean, CleanStep, <1>1, <1>2, <1>3, PTL DEF CleanSpec

\* Nobody gets both the goods and the money: a shipped order has no refund under
\* way and none made, unless somebody has moved it by hand.
THEOREM GoodsNotBoth == CleanSpec => []GoodsOrMoney
<1>1. TypeInv /\ Clean /\ (byHand \/ HoldInv) => GoodsOrMoney
  BY DEF HoldInv, ClaimKept, RefundWasApproved, Holding, GoodsOrMoney, GoodsAndMoney
<1>2. QED
  BY HoldInvariant, <1>1, PTL

\* At rest, with no handler cut off and nobody's move by hand, an order is held
\* exactly while one request asks for it.
THEOREM HoldsMatch == CleanSpec => []HoldMatchesRequest
<1>1. TypeInv /\ Clean /\ (byHand \/ HoldInv) => HoldMatchesRequest
  BY DEF HoldInv, HoldAwaited, ClaimKept, OneClaim, Claiming, HoldMatchesRequest
<1>2. QED
  BY HoldInvariant, <1>1, PTL
=============================================================================
