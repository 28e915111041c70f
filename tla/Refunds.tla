------------------------------ MODULE Refunds ------------------------------
(***************************************************************************)
(* The refunds of one paid order: the ledger kept on the order row         *)
(* (orders.repository.ts), the refund columns of its return requests       *)
(* (returns.repository.ts), and the handlers of returns.service.ts and     *)
(* payments.service.ts that move money: processRefund, the Paystack        *)
(* refund webhook, reconcileRefund and, because it races with them,        *)
(* adminDecision.                                                          *)
(*                                                                         *)
(* A worker is one running call of a handler.  Each action is the code     *)
(* between two awaits: one SQL statement, one locked transaction, or one   *)
(* HTTP call to Paystack.  Any number of workers run at once, in one or    *)
(* several server processes; a fault ends a worker at any await and its    *)
(* locals are gone.                                                        *)
(*                                                                         *)
(* An operator under the comment "Slip:" is a faulty variant of the one    *)
(* that follows it.  Nothing uses it; README.md says which property fails  *)
(* when it takes the other's place.                                        *)
(***************************************************************************)
EXTENDS Integers, Functions

CONSTANTS
    Request,        \* return requests filed against the order
    Cancellation,   \* those of type order_cancellation; the others: item_return
    NoRequest,
    Refund,         \* refunds Paystack can create (their ids); bounds the run
    NoRefund,
    Worker,         \* concurrent handler calls
    Total,          \* order.pricing.total.amount
    MaxFaults       \* how many faults a run may contain

ASSUME TotalAssumption == Total \in Nat \ {0}
ASSUME NullAssumption == NoRequest \notin Request /\ NoRefund \notin Refund
ASSUME CancellationAssumption == Cancellation \subseteq Request

VARIABLES
    paymentStatus, orderStatus,         \* order row
    refundInProgress,                   \* order.refundInProgressRequestId
    reservedAmount, refundedAmount,     \* order row: the refund ledger
    status, refundStatus, refundAmount, \* return request rows
    providerId, reference,              \* refundProviderId, refundReference
    refundState, refundSum, refundFor,  \* Paystack: its refunds ...
    paidOut,                            \* ... and the money it has sent back
    pc, job, amount, refund, outcome,   \* workers: program counter and locals
    faults

orderVars == <<paymentStatus, orderStatus, refundInProgress, reservedAmount, refundedAmount>>
requestVars == <<status, refundStatus, refundAmount, providerId, reference>>
providerVars == <<refundState, refundSum, refundFor, paidOut>>
locals == <<job, amount, refund, outcome>>
vars == <<orderVars, requestVars, providerVars, pc, locals, faults>>

-----------------------------------------------------------------------------
RefundStatus == {"none", "processing", "completed", "failed"}
RefundState == {"none", "pending", "processed", "failed"}

\* How the attempt a worker handles ended, or what an admin decides.
Outcome == {"none", "aborted", "rejected", "processed", "failed", "approve", "reject"}

\* Where a worker owns the order's reservation: from the reservation to the
\* answer of Paystack, and while it releases the reservation.
Owning == {"startFind", "startWrite", "check", "call", "save", "release", "unlock"}
Label == Owning \cup {"idle", "reserve", "markFailed", "apply", "note", "readOrder",
                      "markRefunded", "closeOrder", "decide", "restore"}

TypeOK ==
    /\ paymentStatus \in {"paid", "refunded"}
    /\ orderStatus \in {"confirmed", "delivered", "refund_requested", "refunded"}
    /\ refundInProgress \in Request \cup {NoRequest}
    /\ reservedAmount \in Int /\ refundedAmount \in Int
    /\ status \in [Request -> {"approved", "rejected", "completed"}]
    /\ refundStatus \in [Request -> RefundStatus]
    /\ refundAmount \in [Request -> 0 .. Total]
    /\ providerId \in [Request -> Refund \cup {NoRefund}]
    /\ reference \in [Request -> Refund \cup {NoRefund}]
    /\ refundState \in [Refund -> RefundState]
    /\ refundSum \in [Refund -> 0 .. Total]
    /\ refundFor \in [Refund -> Request \cup {NoRequest}]
    /\ paidOut \in Int
    /\ pc \in [Worker -> Label]
    /\ job \in [Worker -> Request \cup {NoRequest}]
    /\ amount \in [Worker -> 0 .. Total]
    /\ refund \in [Worker -> Refund \cup {NoRefund}]
    /\ outcome \in [Worker -> Outcome]
    /\ faults \in Nat

\* The order is paid and every request approved; a cancellation holds the order.
Init ==
    /\ paymentStatus = "paid"
    /\ orderStatus = IF Cancellation = {} THEN "delivered" ELSE "refund_requested"
    /\ refundInProgress = NoRequest
    /\ reservedAmount = 0 /\ refundedAmount = 0
    /\ status = [r \in Request |-> "approved"]
    /\ refundStatus = [r \in Request |-> "none"]
    /\ refundAmount = [r \in Request |-> 0]
    /\ providerId = [r \in Request |-> NoRefund]
    /\ reference = [r \in Request |-> NoRefund]
    /\ refundState = [f \in Refund |-> "none"]
    /\ refundSum = [f \in Refund |-> 0]
    /\ refundFor = [f \in Refund |-> NoRequest]
    /\ paidOut = 0
    /\ pc = [w \in Worker |-> "idle"]
    /\ job = [w \in Worker |-> NoRequest]
    /\ amount = [w \in Worker |-> 0]
    /\ refund = [w \in Worker |-> NoRefund]
    /\ outcome = [w \in Worker |-> "none"]
    /\ faults = 0

-----------------------------------------------------------------------------
Goto(w, label) == pc' = [pc EXCEPT ![w] = label]

\* The handler returns or throws: its locals are dead.
Finish(w) ==
    /\ pc' = [pc EXCEPT ![w] = "idle"]
    /\ job' = [job EXCEPT ![w] = NoRequest]
    /\ amount' = [amount EXCEPT ![w] = 0]
    /\ refund' = [refund EXCEPT ![w] = NoRefund]
    /\ outcome' = [outcome EXCEPT ![w] = "none"]

\* Give the reservation back, knowing how the attempt ended.
Release(w, o) ==
    /\ Goto(w, "release")
    /\ outcome' = [outcome EXCEPT ![w] = o]
    /\ UNCHANGED <<job, amount, refund>>

\* Slip: the adjusted amount is accepted for a cancellation, too.
RefundAmountsAdjusted(r) == 1 .. Total

\* A cancellation refunds the whole order; an admin may adjust an item return.
RefundAmounts(r) == IF r \in Cancellation THEN {Total} ELSE 1 .. Total

(***************************************************************************)
(* processRefund.  The checks of the request and of the order are one      *)
(* step: whatever they read is checked again under the reservation.        *)
(***************************************************************************)
ProcessRefund(w) ==
    /\ pc[w] = "idle"
    /\ paymentStatus = "paid"
    /\ \E r \in Request : \E a \in RefundAmounts(r) :
        /\ status[r] = "approved"
        /\ refundStatus[r] \notin {"processing", "completed"}
        /\ job' = [job EXCEPT ![w] = r]
        /\ amount' = [amount EXCEPT ![w] = a]
    /\ Goto(w, "reserve")
    /\ UNCHANGED <<orderVars, requestVars, providerVars, refund, outcome, faults>>

\* Slip: a refund under way does not keep another out.
CanReserveShared(a) ==
    /\ paymentStatus = "paid"
    /\ refundedAmount + reservedAmount + a <= Total

CanReserve(a) ==
    /\ paymentStatus = "paid"
    /\ refundInProgress = NoRequest
    /\ refundedAmount + reservedAmount + a <= Total

\* ordersRepository.reserveRefund, one transaction under the row lock.
ReserveRefund(w) ==
    /\ pc[w] = "reserve"
    /\ \/ /\ CanReserve(amount[w])
          /\ refundInProgress' = job[w]
          /\ reservedAmount' = reservedAmount + amount[w]
          /\ Goto(w, "startFind")
          /\ UNCHANGED locals
       \/ /\ ~CanReserve(amount[w])
          /\ Finish(w)
          /\ UNCHANGED <<refundInProgress, reservedAmount>>
    /\ UNCHANGED <<paymentStatus, orderStatus, refundedAmount, requestVars, providerVars, faults>>

\* Slip: the row is not looked at again under the reservation.
StartRefundFindBlind(w) ==
    /\ pc[w] = "startFind"
    /\ Goto(w, "startWrite")
    /\ UNCHANGED <<orderVars, requestVars, providerVars, locals, faults>>

\* returns.repository startRefund: the unlocked read ...
StartRefundFind(w) ==
    /\ pc[w] = "startFind"
    /\ \/ /\ status[job[w]] = "approved"
          /\ refundStatus[job[w]] \in {"none", "failed"}
          /\ Goto(w, "startWrite")
          /\ UNCHANGED locals
       \/ /\ ~ (status[job[w]] = "approved" /\ refundStatus[job[w]] \in {"none", "failed"})
          /\ Release(w, "aborted")
    /\ UNCHANGED <<orderVars, requestVars, providerVars, faults>>

\* ... and the write.  It leaves the provider id and reference of an earlier
\* attempt in the row (see Reusing).
StartRefundWrite(w) ==
    /\ pc[w] = "startWrite"
    /\ refundStatus' = [refundStatus EXCEPT ![job[w]] = "processing"]
    /\ refundAmount' = [refundAmount EXCEPT ![job[w]] = amount[w]]
    /\ Goto(w, "check")
    /\ UNCHANGED <<orderVars, status, providerId, reference, providerVars, locals, faults>>

\* update() swallows a database error, so startRefund reports "not started".
StartRefundWriteFails(w) ==
    /\ pc[w] = "startWrite"
    /\ faults < MaxFaults
    /\ faults' = faults + 1
    /\ Release(w, "aborted")
    /\ UNCHANGED <<orderVars, requestVars, providerVars>>

\* paymentsService.initializeRefund reads the order again.
CheckPaid(w) ==
    /\ pc[w] = "check"
    /\ IF paymentStatus = "paid"
         THEN Goto(w, "call") /\ UNCHANGED locals
         ELSE Release(w, "rejected")
    /\ UNCHANGED <<orderVars, requestVars, providerVars, faults>>

\* Paystack takes the refund; the money is on its way.
CreateRefund(f, r, a) ==
    /\ refundState[f] = "none"
    /\ refundState' = [refundState EXCEPT ![f] = "pending"]
    /\ refundSum' = [refundSum EXCEPT ![f] = a]
    /\ refundFor' = [refundFor EXCEPT ![f] = r]
    /\ paidOut' = paidOut + a

CallAccepted(w) ==
    /\ pc[w] = "call"
    /\ \E f \in Refund :
        /\ CreateRefund(f, job[w], amount[w])
        /\ refund' = [refund EXCEPT ![w] = f]
    /\ Goto(w, "save")
    /\ UNCHANGED <<orderVars, requestVars, job, amount, outcome, faults>>

\* Any answer but a 2xx, read as "no refund was made": BadGatewayException ...
CallRejected(w) ==
    /\ pc[w] = "call"
    /\ Release(w, "rejected")
    /\ UNCHANGED <<orderVars, requestVars, providerVars, faults>>

\* ... though a 5xx may come of a refund that was made (see Disowning).
CallErrs(w) ==
    /\ pc[w] = "call"
    /\ faults < MaxFaults
    /\ faults' = faults + 1
    /\ \E f \in Refund : CreateRefund(f, job[w], amount[w])
    /\ Release(w, "rejected")
    /\ UNCHANGED <<orderVars, requestVars>>

\* No answer within 15 s: the refund may exist or not, and the reservation stays.
CallTimesOut(w) ==
    /\ pc[w] = "call"
    /\ \/ \E f \in Refund : CreateRefund(f, job[w], amount[w])
       \/ UNCHANGED providerVars
    /\ Finish(w)
    /\ UNCHANGED <<orderVars, requestVars, faults>>

\* The answer may lack the reference, which Paystack assigns later.
SaveProviderId(w) ==
    /\ pc[w] = "save"
    /\ providerId' = [providerId EXCEPT ![job[w]] = refund[w]]
    /\ \E ref \in {refund[w], NoRefund} : reference' = [reference EXCEPT ![job[w]] = ref]
    /\ Finish(w)
    /\ UNCHANGED <<orderVars, status, refundStatus, refundAmount, providerVars, faults>>

\* The last write of an attempt that Paystack refused.
MarkFailed(w) ==
    /\ pc[w] = "markFailed"
    /\ refundStatus' = [refundStatus EXCEPT ![job[w]] = "failed"]
    /\ Finish(w)
    /\ UNCHANGED <<orderVars, status, refundAmount, providerId, reference, providerVars, faults>>

-----------------------------------------------------------------------------
(***************************************************************************)
(* finishRefundReservation: an unlocked read, then an update.              *)
(***************************************************************************)
\* What the caller does once the reservation is gone.
AfterRelease(w) ==
    CASE outcome[w] = "rejected" -> "markFailed"
      [] outcome[w] = "processed" /\ job[w] \in Cancellation -> "readOrder"
      [] outcome[w] = "failed" /\ job[w] \in Cancellation -> "restore"
      [] OTHER -> "idle"

Resume(w) ==
    IF AfterRelease(w) = "idle"
      THEN Finish(w)
      ELSE Goto(w, AfterRelease(w)) /\ UNCHANGED locals

ReleaseFind(w) ==
    /\ pc[w] = "release"
    /\ \/ refundInProgress = job[w] /\ Goto(w, "unlock") /\ UNCHANGED locals
       \/ refundInProgress # job[w] /\ Resume(w)
    /\ UNCHANGED <<orderVars, requestVars, providerVars, faults>>

\* Slip: a failed refund counts as spent.
ReleaseWriteSpent(w) ==
    /\ pc[w] = "unlock"
    /\ refundInProgress' = NoRequest
    /\ reservedAmount' = reservedAmount - amount[w]
    /\ refundedAmount' = refundedAmount + amount[w]
    /\ Resume(w)
    /\ UNCHANGED <<paymentStatus, orderStatus, requestVars, providerVars, faults>>

\* Slip: the amounts are settled and the request keeps the order.
ReleaseWriteKeeping(w) ==
    /\ pc[w] = "unlock"
    /\ reservedAmount' = reservedAmount - amount[w]
    /\ refundedAmount' = refundedAmount + IF outcome[w] = "processed" THEN amount[w] ELSE 0
    /\ Resume(w)
    /\ UNCHANGED <<paymentStatus, orderStatus, refundInProgress, requestVars, providerVars, faults>>

ReleaseWrite(w) ==
    /\ pc[w] = "unlock"
    /\ refundInProgress' = NoRequest
    /\ reservedAmount' = reservedAmount - amount[w]
    /\ refundedAmount' = refundedAmount + IF outcome[w] = "processed" THEN amount[w] ELSE 0
    /\ Resume(w)
    /\ UNCHANGED <<paymentStatus, orderStatus, requestVars, providerVars, faults>>

-----------------------------------------------------------------------------
(***************************************************************************)
(* Paystack settles a refund, and tells: handlePaystackRefundEvent.  A     *)
(* webhook may come late, twice, out of order or never; a refund that is   *)
(* not settled yet has only progress events.                               *)
(***************************************************************************)
ProviderSettles(f) ==
    /\ refundState[f] = "pending"
    /\ \/ /\ refundState' = [refundState EXCEPT ![f] = "processed"]
          /\ UNCHANGED paidOut
       \/ /\ refundState' = [refundState EXCEPT ![f] = "failed"]
          /\ paidOut' = paidOut - refundSum[f]
    /\ UNCHANGED <<orderVars, requestVars, refundSum, refundFor, pc, locals, faults>>

\* findProcessingByProviderRefund, and the check of the amount.
Matches(f, r) ==
    /\ refundStatus[r] = "processing"
    /\ f \in {providerId[r], reference[r]}
    /\ refundSum[f] = refundAmount[r]

HandleEvent(w, f) ==
    /\ \E r \in Request :
        /\ Matches(f, r)
        /\ job' = [job EXCEPT ![w] = r]
        /\ amount' = [amount EXCEPT ![w] = refundAmount[r]]
    /\ refund' = [refund EXCEPT ![w] = f]
    /\ \/ /\ refundState[f] = "pending"
          /\ Goto(w, "note")
          /\ UNCHANGED outcome
       \/ /\ refundState[f] \in {"processed", "failed"}
          /\ Goto(w, "apply")
          /\ outcome' = [outcome EXCEPT ![w] = refundState[f]]
    /\ UNCHANGED <<orderVars, requestVars, providerVars, faults>>

Webhook(w) ==
    /\ pc[w] = "idle"
    /\ \E f \in Refund : HandleEvent(w, f)

\* An admin asks Paystack about the refund the row names: the same event,
\* made from the answer.
ReconcileRefund(w) ==
    /\ pc[w] = "idle"
    /\ \E r \in Request :
        /\ refundStatus[r] = "processing"
        /\ providerId[r] # NoRefund
        /\ refundSum[providerId[r]] = refundAmount[r]
        /\ HandleEvent(w, providerId[r])

\* A progress event only names the refund again.
NoteProgress(w) ==
    /\ pc[w] = "note"
    /\ reference' = [reference EXCEPT ![job[w]] = refund[w]]
    /\ Finish(w)
    /\ UNCHANGED <<orderVars, status, refundStatus, refundAmount, providerId, providerVars, faults>>

\* applyFinalProviderStatus: a conditional update, the winner goes on.
ApplyFinalStatus(w) ==
    /\ pc[w] = "apply"
    /\ LET r == job[w] IN
       \/ /\ refundStatus[r] = "processing"
          /\ \/ /\ outcome[w] = "processed"
                /\ refundStatus' = [refundStatus EXCEPT ![r] = "completed"]
                /\ status' = [status EXCEPT ![r] = "completed"]
             \/ /\ outcome[w] # "processed"
                /\ refundStatus' = [refundStatus EXCEPT ![r] = "failed"]
                /\ UNCHANGED status
          /\ reference' = [reference EXCEPT ![r] = refund[w]]
          /\ Goto(w, "release")
          /\ UNCHANGED locals
       \/ /\ refundStatus[r] # "processing"
          /\ Finish(w)
          /\ UNCHANGED <<refundStatus, status, reference>>
    /\ UNCHANGED <<orderVars, refundAmount, providerId, providerVars, faults>>

\* A processed cancellation closes the order.  The amount is counted a second
\* time here, after the release has added it to the ledger.
ReadOrder(w) ==
    /\ pc[w] = "readOrder"
    /\ \/ /\ refundedAmount + amount[w] >= Total
          /\ Goto(w, "markRefunded")
          /\ UNCHANGED locals
       \/ /\ refundedAmount + amount[w] < Total
          /\ Finish(w)
    /\ UNCHANGED <<orderVars, requestVars, providerVars, faults>>

MarkRefunded(w) ==
    /\ pc[w] = "markRefunded"
    /\ paymentStatus' = "refunded"
    /\ Goto(w, "closeOrder")
    /\ UNCHANGED <<orderStatus, refundInProgress, reservedAmount, refundedAmount, requestVars,
                   providerVars, locals, faults>>

\* ordersRepository.update swallows a database error and the handler goes on.
MarkRefundedFails(w) ==
    /\ pc[w] = "markRefunded"
    /\ faults < MaxFaults
    /\ faults' = faults + 1
    /\ Goto(w, "closeOrder")
    /\ UNCHANGED <<orderVars, requestVars, providerVars, locals>>

\* transitionStatusIfCurrent: only an order that is still held moves.
MoveHeldOrder(to) == orderStatus' = IF orderStatus = "refund_requested" THEN to ELSE orderStatus

CloseOrder(w) ==
    /\ pc[w] = "closeOrder"
    /\ MoveHeldOrder("refunded")
    /\ Finish(w)
    /\ UNCHANGED <<paymentStatus, refundInProgress, reservedAmount, refundedAmount, requestVars,
                   providerVars, faults>>

RestoreOrder(w) ==
    /\ pc[w] = "restore"
    /\ MoveHeldOrder("confirmed")
    /\ Finish(w)
    /\ UNCHANGED <<paymentStatus, refundInProgress, reservedAmount, refundedAmount, requestVars,
                   providerVars, faults>>

-----------------------------------------------------------------------------
(***************************************************************************)
(* adminDecision after the sellers' review: decideByAdmin reads, then      *)
(* writes.  The service's own earlier read of the row is the same step.    *)
(***************************************************************************)
DecideFind(w) ==
    /\ pc[w] = "idle"
    /\ \E r \in Request : \E decision \in {"approve", "reject"} :
        /\ refundStatus[r] = "none"
        /\ status[r] \in {"approved", "rejected"}
        /\ decision = "approve" => status[r] # "rejected"
        /\ job' = [job EXCEPT ![w] = r]
        /\ outcome' = [outcome EXCEPT ![w] = decision]
    /\ Goto(w, "decide")
    /\ UNCHANGED <<orderVars, requestVars, providerVars, amount, refund, faults>>

DecideWrite(w) ==
    /\ pc[w] = "decide"
    /\ \/ /\ outcome[w] = "reject"
          /\ status' = [status EXCEPT ![job[w]] = "rejected"]
          /\ IF job[w] \in Cancellation
               THEN Goto(w, "restore") /\ UNCHANGED locals
               ELSE Finish(w)
       \/ /\ outcome[w] = "approve"
          /\ status' = [status EXCEPT ![job[w]] = "approved"]
          /\ Finish(w)
    /\ UNCHANGED <<orderVars, refundStatus, refundAmount, providerId, reference, providerVars, faults>>

\* A crash, or an error thrown by the database, ends a handler at any await.
Abort(w) ==
    /\ pc[w] # "idle"
    /\ faults < MaxFaults
    /\ faults' = faults + 1
    /\ Finish(w)
    /\ UNCHANGED <<orderVars, requestVars, providerVars>>

-----------------------------------------------------------------------------
Continue(w) ==
    \/ ReserveRefund(w) \/ StartRefundFind(w) \/ StartRefundWrite(w) \/ CheckPaid(w)
    \/ CallAccepted(w) \/ CallRejected(w) \/ CallTimesOut(w) \/ SaveProviderId(w)
    \/ MarkFailed(w) \/ ReleaseFind(w) \/ ReleaseWrite(w)
    \/ NoteProgress(w) \/ ApplyFinalStatus(w)
    \/ ReadOrder(w) \/ MarkRefunded(w) \/ CloseOrder(w) \/ RestoreOrder(w)
    \/ DecideWrite(w)

Fault(w) == StartRefundWriteFails(w) \/ CallErrs(w) \/ MarkRefundedFails(w) \/ Abort(w)

Next ==
    \/ \E w \in Worker :
        ProcessRefund(w) \/ Webhook(w) \/ ReconcileRefund(w) \/ DecideFind(w)
            \/ Continue(w) \/ Fault(w)
    \/ \E f \in Refund : ProviderSettles(f)

Spec == Init /\ [][Next]_vars

\* A handler that has been called runs on; nothing makes anyone call it.
FairSpec == Spec /\ \A w \in Worker : WF_vars(Continue(w))

(***************************************************************************)
(* Two things break most of what follows, OneRefundPerRequest first:       *)
(* starting a request again whose row still names an earlier refund, and   *)
(* an answer that disowns a refund Paystack has made.  CleanSpec has the   *)
(* runs in which neither happens.                                          *)
(***************************************************************************)
Live(f) == refundState[f] \in {"pending", "processed"}

Reusing(w) ==
    /\ pc[w] = "check"
    /\ providerId[job[w]] # NoRefund \/ reference[job[w]] # NoRefund

Disowning(w) ==
    /\ pc[w] = "release" /\ outcome[w] = "rejected"
    /\ \E f \in Refund : Live(f) /\ refundFor[f] = job[w]

Clean == \A w \in Worker : ~Reusing(w) /\ ~Disowning(w)

CleanSpec == Init /\ [][Next /\ Clean']_vars
-----------------------------------------------------------------------------
\* Never two refunds at Paystack for one return request, neither of them
\* failed: the buyer is not paid twice (returns.service.ts, processRefund keeps
\* the reservation "to prevent a duplicate refund").
OneRefundPerRequest ==
    \A f, g \in Refund :
        Live(f) /\ Live(g) /\ refundFor[f] = refundFor[g] => f = g

\* Refunds made and reserved never exceed the order total, and the money that
\* is out is what the ledger counts: spent, or spent plus the reservation
\* (reserveRefund's bound and finishRefundReservation's bookkeeping).
LedgerCoversMoney ==
    /\ 0 <= refundedAmount /\ 0 <= reservedAmount
    /\ refundedAmount + reservedAmount <= Total
    /\ paidOut \in {refundedAmount, refundedAmount + reservedAmount}

\* From reserveRefund to finishRefundReservation one handler owns the order,
\* although the release reads and writes without a lock.
ExclusiveReservation ==
    \A v, w \in Worker : pc[v] \in Owning /\ pc[w] \in Owning => v = w

\* The ledger never runs ahead of the completed requests, and agrees with them
\* when no event is half applied and no handler was cut off (the webhook marks
\* the request first and moves the money in the ledger afterwards).
LedgerMatchesRequests ==
    LET completed == SumFunctionOnSet(refundAmount, {r \in Request : refundStatus[r] = "completed"})
    IN  /\ refundedAmount <= completed
        /\ faults = 0 /\ (\A w \in Worker : pc[w] \notin {"release", "unlock"})
              => refundedAmount = completed

\* An order is closed as refunded only when its whole total has been refunded
\* (the webhook's test before it marks a cancelled order).
RefundedOrderIsPaidBack ==
    orderStatus = "refunded" \/ paymentStatus = "refunded" => refundedAmount = Total

\* A completed refund stays completed: no late write of another handler, the
\* failure branch of processRefund among them, takes it back.
CompletedIsFinal ==
    [][\A r \in Request : refundStatus[r] = "completed" => refundStatus'[r] = "completed"]_vars

\* A settled request does not keep the order's reservation, so that the order
\* can be refunded further (the webhook releases it after its update).
SettledRefundFreesOrder ==
    \A r \in Request :
        \/ []<>(refundStatus[r] \in {"completed", "failed"} => refundInProgress # r)
        \/ <>~Clean

-----------------------------------------------------------------------------
(***************************************************************************)
(* The clean runs implement RefundLedger.                                  *)
(***************************************************************************)
Ledger == INSTANCE RefundLedger
            WITH holder <- refundInProgress, held <- reservedAmount,
                 spent <- refundedAmount, paid <- paidOut

LedgerSpec == Ledger!Spec
=============================================================================
