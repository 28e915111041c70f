--------------------------- MODULE RefundsProofs ---------------------------
(***************************************************************************)
(* Theorems about Refunds, for any number of requests, workers and         *)
(* provider refunds, any order total and any number of faults.             *)
(***************************************************************************)
EXTENDS Refunds, SumLemmas, TLAPS

-----------------------------------------------------------------------------
(* Type correctness *)

\* The rows and handlers start within their types.
LEMMA InitTypeOK == Init => TypeOK
<1> USE TotalAssumption
<1> SUFFICES ASSUME Init PROVE TypeOK
  OBVIOUS
<1> USE DEF Init, RefundStatus, RefundState, Outcome, Label, Owning
<1>1. /\ paymentStatus \in {"paid", "refunded"}
      /\ orderStatus \in {"confirmed", "delivered", "refund_requested", "refunded"}
      /\ refundInProgress \in Request \cup {NoRequest}
      /\ reservedAmount \in Int /\ refundedAmount \in Int
      /\ paidOut \in Int /\ faults \in Nat
  OBVIOUS
<1>2. /\ status \in [Request -> {"approved", "rejected", "completed"}]
      /\ refundStatus \in [Request -> RefundStatus]
  OBVIOUS
<1>3. /\ refundAmount \in [Request -> 0 .. Total]
      /\ providerId \in [Request -> Refund \cup {NoRefund}]
      /\ reference \in [Request -> Refund \cup {NoRefund}]
  OBVIOUS
<1>4. /\ refundState \in [Refund -> RefundState]
      /\ refundSum \in [Refund -> 0 .. Total]
      /\ refundFor \in [Refund -> Request \cup {NoRequest}]
  OBVIOUS
<1>5. /\ pc \in [Worker -> Label]
      /\ job \in [Worker -> Request \cup {NoRequest}]
      /\ amount \in [Worker -> 0 .. Total]
  OBVIOUS
<1>6. /\ refund \in [Worker -> Refund \cup {NoRefund}]
      /\ outcome \in [Worker -> Outcome]
  OBVIOUS
<1>7. QED
  BY <1>1, <1>2, <1>3, <1>4, <1>5, <1>6 DEF TypeOK

\* Every action, of a handler or of Paystack, keeps the types.
LEMMA TypeStep == TypeOK /\ [Next]_vars => TypeOK'
<1> USE TotalAssumption
<1> SUFFICES ASSUME TypeOK, [Next]_vars PROVE TypeOK'
  OBVIOUS
<1> USE DEF TypeOK, RefundStatus, RefundState, Outcome, Label, Owning,
            orderVars, requestVars, providerVars, locals, Finish, Goto, Release
<1>1. ASSUME NEW w \in Worker, ProcessRefund(w) PROVE TypeOK'
  BY <1>1 DEF ProcessRefund, RefundAmounts
<1>2. ASSUME NEW w \in Worker, ReserveRefund(w) PROVE TypeOK'
  BY <1>2 DEF ReserveRefund, CanReserve
<1>3. ASSUME NEW w \in Worker, StartRefundFind(w) PROVE TypeOK'
  BY <1>3 DEF StartRefundFind
<1>4. ASSUME NEW w \in Worker, StartRefundWrite(w) PROVE TypeOK'
  BY <1>4 DEF StartRefundWrite
<1>5. ASSUME NEW w \in Worker, StartRefundWriteFails(w) PROVE TypeOK'
  BY <1>5 DEF StartRefundWriteFails
<1>6. ASSUME NEW w \in Worker, CheckPaid(w) PROVE TypeOK'
  BY <1>6 DEF CheckPaid
<1>7. ASSUME NEW w \in Worker, CallAccepted(w) PROVE TypeOK'
  BY <1>7 DEF CallAccepted, CreateRefund
<1>8. ASSUME NEW w \in Worker, CallRejected(w) PROVE TypeOK'
  BY <1>8 DEF CallRejected
<1>9. ASSUME NEW w \in Worker, CallTimesOut(w) PROVE TypeOK'
  BY <1>9 DEF CallTimesOut, CreateRefund
<1>10. ASSUME NEW w \in Worker, SaveProviderId(w) PROVE TypeOK'
  <2>1. PICK ref \in {refund[w], NoRefund} :
          reference' = [reference EXCEPT ![job[w]] = ref]
    BY <1>10 DEF SaveProviderId
  <2>2. reference' \in [Request -> Refund \cup {NoRefund}]
    BY <2>1
  <2>3. providerId' \in [Request -> Refund \cup {NoRefund}]
    BY <1>10 DEF SaveProviderId
  <2>4. QED
    BY <1>10, <2>2, <2>3 DEF SaveProviderId
<1>11. ASSUME NEW w \in Worker, MarkFailed(w) PROVE TypeOK'
  <2>1. refundStatus' \in [Request -> RefundStatus]
    BY <1>11 DEF MarkFailed
  <2>2. QED
    BY <1>11, <2>1 DEF MarkFailed
<1>12. ASSUME NEW w \in Worker, ReleaseFind(w) PROVE TypeOK'
  BY <1>12 DEF ReleaseFind, Resume, AfterRelease
<1>13. ASSUME NEW w \in Worker, ReleaseWrite(w) PROVE TypeOK'
  BY <1>13 DEF ReleaseWrite, Resume, AfterRelease
<1>14. ASSUME NEW f \in Refund, ProviderSettles(f) PROVE TypeOK'
  BY <1>14 DEF ProviderSettles
<1>15. ASSUME NEW w \in Worker, Webhook(w) PROVE TypeOK'
  BY <1>15 DEF Webhook, HandleEvent, Matches
<1>16. ASSUME NEW w \in Worker, ReconcileRefund(w) PROVE TypeOK'
  BY <1>16 DEF ReconcileRefund, HandleEvent, Matches
<1>17. ASSUME NEW w \in Worker, NoteProgress(w) PROVE TypeOK'
  <2>1. reference' \in [Request -> Refund \cup {NoRefund}]
    BY <1>17 DEF NoteProgress
  <2>2. QED
    BY <1>17, <2>1 DEF NoteProgress
<1>18. ASSUME NEW w \in Worker, ApplyFinalStatus(w) PROVE TypeOK'
  BY <1>18 DEF ApplyFinalStatus
<1>19. ASSUME NEW w \in Worker, ReadOrder(w) PROVE TypeOK'
  BY <1>19 DEF ReadOrder
<1>20. ASSUME NEW w \in Worker, MarkRefunded(w) PROVE TypeOK'
  BY <1>20 DEF MarkRefunded
<1>21. ASSUME NEW w \in Worker, MarkRefundedFails(w) PROVE TypeOK'
  BY <1>21 DEF MarkRefundedFails
<1>22. ASSUME NEW w \in Worker, CloseOrder(w) PROVE TypeOK'
  BY <1>22 DEF CloseOrder, MoveHeldOrder
<1>23. ASSUME NEW w \in Worker, RestoreOrder(w) PROVE TypeOK'
  BY <1>23 DEF RestoreOrder, MoveHeldOrder
<1>24. ASSUME NEW w \in Worker, DecideFind(w) PROVE TypeOK'
  BY <1>24 DEF DecideFind
<1>25. ASSUME NEW w \in Worker, DecideWrite(w) PROVE TypeOK'
  BY <1>25 DEF DecideWrite
<1>26. ASSUME NEW w \in Worker, Abort(w) PROVE TypeOK'
  BY <1>26 DEF Abort
<1>27. CASE UNCHANGED vars
  BY <1>27 DEF vars
<1>28. ASSUME NEW w \in Worker, CallErrs(w) PROVE TypeOK'
  BY <1>28 DEF CallErrs, CreateRefund
<1>29. QED
  BY <1>1, <1>2, <1>3, <1>4, <1>5, <1>6, <1>7, <1>8, <1>9, <1>10, <1>11, <1>12, <1>13,
     <1>14, <1>15, <1>16, <1>17, <1>18, <1>19, <1>20, <1>21, <1>22, <1>23, <1>24, <1>25,
     <1>26, <1>27, <1>28 DEF Next, Continue, Fault

\* Every handler keeps the columns and its locals within their types.
THEOREM TypeCorrect == Spec => []TypeOK
  BY InitTypeOK, TypeStep, PTL DEF Spec

-----------------------------------------------------------------------------
(***************************************************************************)
(* The inductive invariant of the clean runs.                              *)
(***************************************************************************)
Owner(w) == pc[w] \in Owning
Releasing(w) == pc[w] \in {"release", "unlock"}
Rejecting(w) == Releasing(w) /\ outcome[w] = "rejected"

\* The owner works for the request that holds the order, on the reserved amount.
OwnerHoldsOrder ==
    \A w \in Worker : Owner(w) => /\ job[w] \in Request
                                  /\ refundInProgress = job[w]
                                  /\ amount[w] = reservedAmount

LedgerBalanced ==
    /\ 0 <= refundedAmount
    /\ refundedAmount + reservedAmount <= Total
    /\ refundInProgress = NoRequest => reservedAmount = 0
    /\ refundInProgress # NoRequest => reservedAmount >= 1
    /\ paidOut \in {refundedAmount, refundedAmount + reservedAmount}

\* Only the reserved refund can be on its way.
PendingIsReserved ==
    \A f \in Refund : refundState[f] = "pending" =>
        /\ refundInProgress # NoRequest
        /\ paidOut = refundedAmount + reservedAmount
        /\ refundSum[f] = reservedAmount
        /\ \A g \in Refund : refundState[g] = "pending" => g = f

\* f is the refund made for the reservation.
Settling(f) ==
    /\ f \in Refund
    /\ refundSum[f] = reservedAmount
    /\ \/ /\ Live(f)
          /\ paidOut = refundedAmount + reservedAmount
          /\ \A g \in Refund : refundState[g] = "pending" => g = f
       \/ /\ refundState[f] = "failed"
          /\ paidOut = refundedAmount

\* w has started the refund of its request, and no answer has been recorded.
Attempting(w) ==
    /\ refundStatus[job[w]] = "processing"
    /\ refundAmount[job[w]] = amount[w]
    /\ providerId[job[w]] = NoRefund
    /\ reference[job[w]] = NoRefund

NoLiveRefund(r) == \A f \in Refund : Live(f) => refundFor[f] # r

\* What holds of a worker between two awaits.
Reserving(w) == pc[w] = "reserve" => job[w] \in Request /\ amount[w] >= 1

Starting(w) ==
    /\ pc[w] \in {"startFind", "startWrite"} => paidOut = refundedAmount
    /\ pc[w] = "startWrite" => refundStatus[job[w]] \in {"none", "failed"}

Calling(w) ==
    /\ pc[w] \in {"check", "call"} =>
          Attempting(w) /\ paidOut = refundedAmount /\ NoLiveRefund(job[w])
    /\ pc[w] = "save" =>
          /\ Attempting(w)
          /\ Settling(refund[w])
          /\ \A f \in Refund : Live(f) /\ refundFor[f] = job[w] => f = refund[w]

Ending(w) ==
    /\ Releasing(w) =>
          /\ outcome[w] \in {"aborted", "rejected", "processed", "failed"}
          /\ outcome[w] # "processed" => paidOut = refundedAmount
          /\ Rejecting(w) => Attempting(w)
          /\ outcome[w] = "failed" => refundStatus[job[w]] = "failed"
          /\ outcome[w] = "processed" =>
                /\ paidOut = refundedAmount + reservedAmount
                /\ refundStatus[job[w]] = "completed"
                /\ \A g \in Refund : refundState[g] # "pending"
    /\ pc[w] = "markFailed" =>
          /\ job[w] \in Request
          /\ refundStatus[job[w]] = "processing"
          /\ providerId[job[w]] = NoRefund
          /\ reference[job[w]] = NoRefund
    /\ pc[w] = "markFailed" \/ Rejecting(w) => NoLiveRefund(job[w])

\* An event names the refund of its request, as it is at Paystack.
Applying(w) ==
    /\ pc[w] \in {"apply", "note"} =>
          job[w] \in Request /\ refund[w] \in Refund /\ providerId[job[w]] = refund[w]
    /\ pc[w] = "apply" =>
          /\ outcome[w] \in {"processed", "failed"}
          /\ outcome[w] = refundState[refund[w]]
          /\ amount[w] = refundAmount[job[w]]

\* No one else works on the attempt of a worker that is about to mark it failed.
FailingAlone ==
    \A v, w \in Worker :
        /\ pc[w] = "markFailed"
        /\ pc[v] \in {"markFailed", "check", "call", "save"}
              \/ Rejecting(v)
        /\ job[v] = job[w]
        => v = w

\* A request whose row names its refund waits for it, and no handler owns the order.
AwaitsRefund ==
    \A r \in Request :
        /\ reference[r] \in {NoRefund, providerId[r]}
        /\ refundStatus[r] = "processing" /\ providerId[r] # NoRefund =>
              /\ refundInProgress = r
              /\ refundAmount[r] = reservedAmount
              /\ Settling(providerId[r])
              /\ \A w \in Worker : ~Owner(w)
              /\ \A f \in Refund : Live(f) /\ refundFor[f] = r => f = providerId[r]

\* A refund that has not failed belongs to a request that is not retried.
LiveIsNotRetried ==
    \A f \in Refund : Live(f) =>
        refundFor[f] \in Request /\ refundStatus[refundFor[f]] \in {"processing", "completed"}

IInv ==
    /\ TypeOK
    /\ ExclusiveReservation
    /\ OwnerHoldsOrder
    /\ LedgerBalanced
    /\ PendingIsReserved
    /\ \A w \in Worker : Reserving(w) /\ Starting(w) /\ Calling(w) /\ Ending(w) /\ Applying(w)
    /\ FailingAlone
    /\ AwaitsRefund
    /\ LiveIsNotRetried
    /\ OneRefundPerRequest

-----------------------------------------------------------------------------
(***************************************************************************)
(* Every action keeps the invariant.                                       *)
(***************************************************************************)
USE TotalAssumption, NullAssumption
USE DEF orderVars, requestVars, providerVars, locals, Goto, Finish, Release,
        TypeOK, IInv, Owner, Owning, Releasing, Rejecting, Live

LEMMA ProcessRefundStep ==
  ASSUME IInv, TypeOK', NEW w \in Worker, ProcessRefund(w)
  PROVE  IInv'
<1> USE DEF ProcessRefund, RefundAmounts
<1>1. ExclusiveReservation' /\ OwnerHoldsOrder' /\ LedgerBalanced' /\
      PendingIsReserved' /\ FailingAlone' /\ AwaitsRefund' /\ LiveIsNotRetried' /\
      OneRefundPerRequest'
  BY DEF ExclusiveReservation, OwnerHoldsOrder, LedgerBalanced, PendingIsReserved,
         FailingAlone, AwaitsRefund, Settling, LiveIsNotRetried, OneRefundPerRequest
<1>2. ASSUME NEW v \in Worker
      PROVE Reserving(v)' /\ Starting(v)' /\ Calling(v)' /\ Ending(v)' /\
            Applying(v)'
  BY DEF Reserving, Starting, Calling, Attempting, Settling, NoLiveRefund, Ending,
         Applying
<1>3. QED
  BY <1>1, <1>2 DEF IInv

LEMMA ReserveRefundStep ==
  ASSUME IInv, TypeOK', NEW w \in Worker, ReserveRefund(w)
  PROVE  IInv'
<1>1. CASE CanReserve(amount[w])
  <2>1. pc[w] = "reserve" /\ job[w] \in Request /\ amount[w] >= 1
    BY DEF ReserveRefund, Reserving
  <2>2. refundInProgress = NoRequest /\ refundedAmount + reservedAmount + amount[w] <= Total
    BY <1>1 DEF CanReserve
  <2>3. reservedAmount = 0 /\ paidOut = refundedAmount
    BY <2>2 DEF LedgerBalanced
  <2>4. /\ refundInProgress' = job[w] /\ reservedAmount' = amount[w]
        /\ pc' = [pc EXCEPT ![w] = "startFind"]
        /\ UNCHANGED <<locals, refundedAmount, requestVars, providerVars>>
    BY <1>1, <2>1, <2>3 DEF ReserveRefund
  \* Nobody owned the order, nothing was on its way, no request waited for its refund.
  <2>5. /\ \A v \in Worker : ~Owner(v)
        /\ \A f \in Refund : refundState[f] # "pending"
        /\ \A r \in Request : refundStatus[r] = "processing" => providerId[r] = NoRefund
    BY <2>2 DEF OwnerHoldsOrder, PendingIsReserved, AwaitsRefund
  <2> HIDE DEF IInv
  <2>6. ExclusiveReservation' /\ OwnerHoldsOrder' /\ LedgerBalanced' /\ PendingIsReserved'
    BY <2>1, <2>2, <2>3, <2>4, <2>5
       DEF IInv, ExclusiveReservation, OwnerHoldsOrder, LedgerBalanced, PendingIsReserved
  <2>7. ASSUME NEW v \in Worker
        PROVE  Reserving(v)' /\ Starting(v)' /\ Applying(v)'
    BY <2>1, <2>3, <2>4, <2>5 DEF IInv, Reserving, Starting, Applying
  <2>8. ASSUME NEW v \in Worker PROVE Calling(v)' /\ Ending(v)'
    BY <2>1, <2>4, <2>5 DEF IInv, Calling, Ending, NoLiveRefund
  <2>9. FailingAlone' /\ AwaitsRefund' /\ LiveIsNotRetried' /\ OneRefundPerRequest'
    BY <2>1, <2>4, <2>5
       DEF IInv, FailingAlone, AwaitsRefund, LiveIsNotRetried, OneRefundPerRequest
  <2>10. QED
    BY <2>6, <2>7, <2>8, <2>9 DEF IInv
<1>2. CASE ~CanReserve(amount[w])
  <2>1. /\ UNCHANGED <<orderVars, requestVars, providerVars>>
        /\ pc' = [pc EXCEPT ![w] = "idle"]
        /\ \A v \in Worker : v # w => /\ job'[v] = job[v] /\ amount'[v] = amount[v]
                                      /\ refund'[v] = refund[v] /\ outcome'[v] = outcome[v]
    BY <1>2 DEF ReserveRefund
  <2>2. ExclusiveReservation' /\ OwnerHoldsOrder' /\ LedgerBalanced' /\ PendingIsReserved'
    BY <2>1 DEF ExclusiveReservation, OwnerHoldsOrder, LedgerBalanced, PendingIsReserved
  <2>3. ASSUME NEW v \in Worker
        PROVE  Reserving(v)' /\ Starting(v)' /\ Calling(v)' /\ Ending(v)' /\ Applying(v)'
    BY <2>1 DEF Reserving, Starting, Calling, Ending, Applying, Attempting, Settling,
                NoLiveRefund
  <2>4. FailingAlone' /\ AwaitsRefund' /\ LiveIsNotRetried' /\ OneRefundPerRequest'
    BY <2>1 DEF FailingAlone, AwaitsRefund, LiveIsNotRetried, OneRefundPerRequest, Settling
  <2>5. QED
    BY <2>2, <2>3, <2>4 DEF IInv
<1>3. QED
  BY <1>1, <1>2

LEMMA StartRefundFindStep ==
  ASSUME IInv, TypeOK', NEW w \in Worker, StartRefundFind(w)
  PROVE  IInv'
<1> USE DEF StartRefundFind
<1>1. ExclusiveReservation' /\ OwnerHoldsOrder' /\ LedgerBalanced' /\
      PendingIsReserved' /\ FailingAlone' /\ AwaitsRefund' /\ LiveIsNotRetried' /\
      OneRefundPerRequest'
  BY DEF ExclusiveReservation, OwnerHoldsOrder, LedgerBalanced, PendingIsReserved,
         FailingAlone, AwaitsRefund, Settling, LiveIsNotRetried, OneRefundPerRequest
<1>2. ASSUME NEW v \in Worker
      PROVE Reserving(v)' /\ Starting(v)' /\ Calling(v)' /\ Applying(v)'
  BY DEF Reserving, Starting, Calling, Attempting, Settling, NoLiveRefund, Applying
<1>3. ASSUME NEW v \in Worker PROVE Ending(v)'
  BY DEF Ending, Attempting, NoLiveRefund, Starting
<1>4. QED
  BY <1>1, <1>2, <1>3 DEF IInv

LEMMA StartRefundWriteStep ==
  ASSUME IInv, TypeOK', NEW w \in Worker, StartRefundWrite(w), Clean'
  PROVE  IInv'
<1> USE DEF StartRefundWrite
<1>1. ExclusiveReservation' /\ OwnerHoldsOrder' /\ LedgerBalanced' /\
      PendingIsReserved' /\ LiveIsNotRetried' /\ OneRefundPerRequest'
  BY DEF ExclusiveReservation, OwnerHoldsOrder, LedgerBalanced, PendingIsReserved,
         LiveIsNotRetried, OneRefundPerRequest
<1>2. ASSUME NEW v \in Worker
      PROVE Reserving(v)'
  BY DEF Reserving
<1>3. ASSUME NEW v \in Worker PROVE Starting(v)'
  BY DEF Starting, ExclusiveReservation
<1>4. ASSUME NEW v \in Worker PROVE Calling(v)'
  BY DEF Calling, Attempting, Settling, NoLiveRefund, Starting, LiveIsNotRetried, Clean,
         Reusing
<1>5. ASSUME NEW v \in Worker PROVE Ending(v)'
  BY DEF Ending, Attempting, NoLiveRefund, ExclusiveReservation
<1>6. ASSUME NEW v \in Worker PROVE Applying(v)'
  BY DEF Applying, Clean, Reusing
<1>7. FailingAlone'
  BY DEF FailingAlone, Starting, Ending
<1>8. AwaitsRefund'
  BY DEF AwaitsRefund, Settling, Clean, Reusing
<1>9. QED
  BY <1>1, <1>2, <1>3, <1>4, <1>5, <1>6, <1>7, <1>8 DEF IInv

LEMMA StartRefundWriteFailsStep ==
  ASSUME IInv, TypeOK', NEW w \in Worker, StartRefundWriteFails(w)
  PROVE  IInv'
<1> USE DEF StartRefundWriteFails
<1>1. ExclusiveReservation' /\ OwnerHoldsOrder' /\ LedgerBalanced' /\
      PendingIsReserved' /\ FailingAlone' /\ AwaitsRefund' /\ LiveIsNotRetried' /\
      OneRefundPerRequest'
  BY DEF ExclusiveReservation, OwnerHoldsOrder, LedgerBalanced, PendingIsReserved,
         FailingAlone, AwaitsRefund, Settling, LiveIsNotRetried, OneRefundPerRequest
<1>2. ASSUME NEW v \in Worker
      PROVE Reserving(v)' /\ Starting(v)' /\ Calling(v)' /\ Applying(v)'
  BY DEF Reserving, Starting, Calling, Attempting, Settling, NoLiveRefund, Applying
<1>3. ASSUME NEW v \in Worker PROVE Ending(v)'
  BY DEF Ending, Attempting, NoLiveRefund, Starting
<1>4. QED
  BY <1>1, <1>2, <1>3 DEF IInv

LEMMA CheckPaidStep ==
  ASSUME IInv, TypeOK', NEW w \in Worker, CheckPaid(w)
  PROVE  IInv'
<1> USE DEF CheckPaid
<1>1. ExclusiveReservation' /\ OwnerHoldsOrder' /\ LedgerBalanced' /\
      PendingIsReserved' /\ FailingAlone' /\ AwaitsRefund' /\ LiveIsNotRetried' /\
      OneRefundPerRequest'
  BY DEF ExclusiveReservation, OwnerHoldsOrder, LedgerBalanced, PendingIsReserved,
         FailingAlone, AwaitsRefund, Settling, LiveIsNotRetried, OneRefundPerRequest
<1>2. ASSUME NEW v \in Worker
      PROVE Reserving(v)' /\ Starting(v)' /\ Calling(v)' /\ Applying(v)'
  BY DEF Reserving, Starting, Calling, Attempting, Settling, NoLiveRefund, Applying
<1>3. ASSUME NEW v \in Worker PROVE Ending(v)'
  BY DEF Ending, Attempting, NoLiveRefund, Calling
<1>4. QED
  BY <1>1, <1>2, <1>3 DEF IInv

LEMMA CallAcceptedStep ==
  ASSUME IInv, TypeOK', NEW w \in Worker, CallAccepted(w)
  PROVE  IInv'
<1> USE DEF CallAccepted, CreateRefund
<1>1. ExclusiveReservation' /\ OwnerHoldsOrder' /\ FailingAlone' /\ AwaitsRefund'
  BY DEF ExclusiveReservation, OwnerHoldsOrder, FailingAlone, AwaitsRefund, Settling
<1>2. ASSUME NEW v \in Worker
      PROVE Reserving(v)' /\ Applying(v)'
  BY DEF Reserving, Applying
<1>3. LedgerBalanced'
  BY DEF LedgerBalanced, OwnerHoldsOrder, Calling
<1>4. PendingIsReserved'
  <2>1. PICK n \in Refund : CreateRefund(n, job[w], amount[w])
    OBVIOUS
  <2>2. /\ refundInProgress # NoRequest /\ amount[w] = reservedAmount
        /\ paidOut = refundedAmount /\ reservedAmount >= 1
    BY DEF OwnerHoldsOrder, Calling, LedgerBalanced
  <2>3. \A f \in Refund : refundState[f] # "pending"
    BY <2>2 DEF PendingIsReserved
  <2>4. \A f \in Refund : refundState'[f] = "pending" => f = n
    BY <2>1, <2>3
  <2>5. /\ refundSum'[n] = amount[w] /\ paidOut' = refundedAmount' + reservedAmount'
        /\ UNCHANGED <<refundInProgress, reservedAmount>>
    BY <2>1, <2>2
  <2>6. QED
    BY <2>2, <2>4, <2>5 DEF PendingIsReserved
<1>5. ASSUME NEW v \in Worker PROVE Starting(v)'
  BY DEF Starting, ExclusiveReservation
<1>6. ASSUME NEW v \in Worker PROVE Calling(v)'
  <2>1. CASE v # w
    BY <2>1 DEF Calling, ExclusiveReservation
  <2>2. CASE v = w
    <3>1. PICK n \in Refund : CreateRefund(n, job[w], amount[w]) /\ refund' = [refund EXCEPT ![w] = n]
      OBVIOUS
    <3>2. /\ Attempting(w) /\ NoLiveRefund(job[w])
          /\ paidOut = refundedAmount /\ amount[w] = reservedAmount /\ reservedAmount >= 1
      BY DEF OwnerHoldsOrder, Calling, LedgerBalanced
    <3>3. \A f \in Refund : refundState[f] # "pending"
      BY <3>2 DEF PendingIsReserved
    <3>4. Settling(n)' /\ refund'[w] = n
      BY <3>1, <3>2, <3>3 DEF Settling
    <3>5. \A f \in Refund : Live(f)' /\ refundFor'[f] = job[w] => f = n
      BY <3>1, <3>2 DEF NoLiveRefund
    <3>6. QED
      BY <2>2, <3>2, <3>4, <3>5 DEF Calling, Attempting
  <2>3. QED
    BY <2>1, <2>2
<1>7. ASSUME NEW v \in Worker PROVE Ending(v)'
  BY DEF Ending, Attempting, NoLiveRefund, ExclusiveReservation, FailingAlone
<1>8. LiveIsNotRetried'
  BY DEF LiveIsNotRetried, OwnerHoldsOrder, Calling, Attempting
<1>9. OneRefundPerRequest'
  BY DEF OneRefundPerRequest, Calling, NoLiveRefund
<1>10. QED
  BY <1>1, <1>2, <1>3, <1>4, <1>5, <1>6, <1>7, <1>8, <1>9 DEF IInv

LEMMA CallRejectedStep ==
  ASSUME IInv, TypeOK', NEW w \in Worker, CallRejected(w)
  PROVE  IInv'
<1> USE DEF CallRejected
<1>1. ExclusiveReservation' /\ OwnerHoldsOrder' /\ LedgerBalanced' /\
      PendingIsReserved' /\ FailingAlone' /\ AwaitsRefund' /\ LiveIsNotRetried' /\
      OneRefundPerRequest'
  BY DEF ExclusiveReservation, OwnerHoldsOrder, LedgerBalanced, PendingIsReserved,
         FailingAlone, AwaitsRefund, Settling, LiveIsNotRetried, OneRefundPerRequest
<1>2. ASSUME NEW v \in Worker
      PROVE Reserving(v)' /\ Starting(v)' /\ Calling(v)' /\ Applying(v)'
  BY DEF Reserving, Starting, Calling, Attempting, Settling, NoLiveRefund, Applying
<1>3. ASSUME NEW v \in Worker PROVE Ending(v)'
  BY DEF Ending, Attempting, NoLiveRefund, Calling
<1>4. QED
  BY <1>1, <1>2, <1>3 DEF IInv

\* A refund made and disowned at once is what Clean leaves out.
LEMMA CallErrsNotClean ==
  ASSUME TypeOK, NEW w \in Worker, CallErrs(w)
  PROVE  ~Clean'
<1>1. PICK f \in Refund : CreateRefund(f, job[w], amount[w])
  BY DEF CallErrs
<1>2. Live(f)' /\ refundFor'[f] = job[w] /\ job'[w] = job[w]
  BY <1>1 DEF CreateRefund, Live, CallErrs, Release, TypeOK
<1>3. pc'[w] = "release" /\ outcome'[w] = "rejected"
  BY DEF CallErrs, Release, Goto, TypeOK
<1>4. QED
  BY <1>2, <1>3 DEF Clean, Disowning

LEMMA CallTimesOutStep ==
  ASSUME IInv, TypeOK', NEW w \in Worker, CallTimesOut(w)
  PROVE  IInv'
<1> USE DEF CallTimesOut, CreateRefund
<1>1. ExclusiveReservation' /\ OwnerHoldsOrder' /\ FailingAlone' /\ AwaitsRefund'
  BY DEF ExclusiveReservation, OwnerHoldsOrder, FailingAlone, AwaitsRefund, Settling
<1>2. ASSUME NEW v \in Worker
      PROVE Reserving(v)' /\ Applying(v)'
  BY DEF Reserving, Applying
<1>3. LedgerBalanced'
  BY DEF LedgerBalanced, OwnerHoldsOrder, Calling
<1>4. PendingIsReserved'
  BY DEF PendingIsReserved, OwnerHoldsOrder, LedgerBalanced, Calling
<1>5. ASSUME NEW v \in Worker PROVE Starting(v)'
  BY DEF Starting, ExclusiveReservation
<1>6. ASSUME NEW v \in Worker PROVE Calling(v)'
  BY DEF Calling, Attempting, Settling, NoLiveRefund, ExclusiveReservation
<1>7. ASSUME NEW v \in Worker PROVE Ending(v)'
  BY DEF Ending, Attempting, NoLiveRefund, ExclusiveReservation, FailingAlone
<1>8. LiveIsNotRetried'
  BY DEF LiveIsNotRetried, OwnerHoldsOrder, Calling, Attempting
<1>9. OneRefundPerRequest'
  BY DEF OneRefundPerRequest, Calling, NoLiveRefund
<1>10. QED
  BY <1>1, <1>2, <1>3, <1>4, <1>5, <1>6, <1>7, <1>8, <1>9 DEF IInv

LEMMA SaveProviderIdStep ==
  ASSUME IInv, TypeOK', NEW w \in Worker, SaveProviderId(w)
  PROVE  IInv'
<1> USE DEF SaveProviderId
<1>1. ExclusiveReservation' /\ OwnerHoldsOrder' /\ LedgerBalanced' /\
      PendingIsReserved' /\ FailingAlone' /\ LiveIsNotRetried' /\
      OneRefundPerRequest'
  BY DEF ExclusiveReservation, OwnerHoldsOrder, LedgerBalanced, PendingIsReserved,
         FailingAlone, LiveIsNotRetried, OneRefundPerRequest
<1>2. ASSUME NEW v \in Worker
      PROVE Reserving(v)' /\ Starting(v)'
  BY DEF Reserving, Starting
<1>3. ASSUME NEW v \in Worker PROVE Calling(v)'
  BY DEF Calling, Attempting, Settling, NoLiveRefund, ExclusiveReservation
<1>4. ASSUME NEW v \in Worker PROVE Ending(v)'
  BY DEF Ending, Attempting, NoLiveRefund, ExclusiveReservation, FailingAlone
<1>5. ASSUME NEW v \in Worker PROVE Applying(v)'
  BY DEF Applying, Calling, Attempting
<1>6. AwaitsRefund'
  BY DEF AwaitsRefund, Settling, ExclusiveReservation, OwnerHoldsOrder, Calling,
         Attempting
<1>7. QED
  BY <1>1, <1>2, <1>3, <1>4, <1>5, <1>6 DEF IInv

LEMMA MarkFailedStep ==
  ASSUME IInv, TypeOK', NEW w \in Worker, MarkFailed(w)
  PROVE  IInv'
<1> USE DEF MarkFailed
<1>1. ExclusiveReservation' /\ OwnerHoldsOrder' /\ LedgerBalanced' /\
      PendingIsReserved' /\ FailingAlone' /\ AwaitsRefund' /\ OneRefundPerRequest'
  BY DEF ExclusiveReservation, OwnerHoldsOrder, LedgerBalanced, PendingIsReserved,
         FailingAlone, AwaitsRefund, Settling, OneRefundPerRequest
<1>2. ASSUME NEW v \in Worker
      PROVE Reserving(v)' /\ Starting(v)' /\ Applying(v)'
  BY DEF Reserving, Starting, Applying
<1>3. ASSUME NEW v \in Worker PROVE Calling(v)'
  BY DEF Calling, Attempting, Settling, NoLiveRefund, FailingAlone
<1>4. ASSUME NEW v \in Worker PROVE Ending(v)'
  BY DEF Ending, Attempting, NoLiveRefund, FailingAlone
<1>5. LiveIsNotRetried'
  BY DEF LiveIsNotRetried, Ending, NoLiveRefund
<1>6. QED
  BY <1>1, <1>2, <1>3, <1>4, <1>5 DEF IInv

LEMMA ReleaseFindStep ==
  ASSUME IInv, TypeOK', NEW w \in Worker, ReleaseFind(w)
  PROVE  IInv'
<1> USE DEF ReleaseFind, Resume, AfterRelease
<1>1. ExclusiveReservation' /\ OwnerHoldsOrder' /\ LedgerBalanced' /\
      PendingIsReserved' /\ AwaitsRefund' /\ LiveIsNotRetried' /\
      OneRefundPerRequest'
  BY DEF ExclusiveReservation, OwnerHoldsOrder, LedgerBalanced, PendingIsReserved,
         AwaitsRefund, Settling, LiveIsNotRetried, OneRefundPerRequest
<1>2. ASSUME NEW v \in Worker
      PROVE Reserving(v)' /\ Starting(v)' /\ Calling(v)' /\ Applying(v)'
  BY DEF Reserving, Starting, Calling, Attempting, Settling, NoLiveRefund, Applying
<1>3. ASSUME NEW v \in Worker PROVE Ending(v)'
  BY DEF Ending, Attempting, NoLiveRefund, OwnerHoldsOrder
<1>4. FailingAlone'
  BY DEF FailingAlone, ExclusiveReservation
<1>5. QED
  BY <1>1, <1>2, <1>3, <1>4 DEF IInv

LEMMA ReleaseWriteStep ==
  ASSUME IInv, TypeOK', NEW w \in Worker, ReleaseWrite(w)
  PROVE  IInv'
<1> USE DEF ReleaseWrite, Resume, AfterRelease
<1>1. ExclusiveReservation' /\ AwaitsRefund' /\ LiveIsNotRetried' /\
      OneRefundPerRequest'
  BY DEF ExclusiveReservation, AwaitsRefund, Settling, LiveIsNotRetried,
         OneRefundPerRequest
<1>2. ASSUME NEW v \in Worker
      PROVE Reserving(v)' /\ Applying(v)'
  BY DEF Reserving, Applying
<1>3. OwnerHoldsOrder'
  BY DEF OwnerHoldsOrder, ExclusiveReservation
<1>4. LedgerBalanced'
  BY DEF LedgerBalanced, OwnerHoldsOrder, Ending
<1>5. PendingIsReserved'
  BY DEF PendingIsReserved, LedgerBalanced, Ending
<1>6. ASSUME NEW v \in Worker PROVE Starting(v)'
  BY DEF Starting, ExclusiveReservation
<1>7. ASSUME NEW v \in Worker PROVE Calling(v)'
  BY DEF Calling, Attempting, Settling, NoLiveRefund, ExclusiveReservation
<1>8. ASSUME NEW v \in Worker PROVE Ending(v)'
  BY DEF Ending, Attempting, NoLiveRefund, OwnerHoldsOrder
<1>9. FailingAlone'
  BY DEF FailingAlone, ExclusiveReservation
<1>10. QED
  BY <1>1, <1>2, <1>3, <1>4, <1>5, <1>6, <1>7, <1>8, <1>9 DEF IInv

LEMMA ProviderSettlesStep ==
  ASSUME IInv, TypeOK', NEW f \in Refund, ProviderSettles(f)
  PROVE  IInv'
<1> USE DEF ProviderSettles
<1>1. ExclusiveReservation' /\ OwnerHoldsOrder' /\ PendingIsReserved' /\
      FailingAlone' /\ LiveIsNotRetried' /\ OneRefundPerRequest'
  BY DEF ExclusiveReservation, OwnerHoldsOrder, PendingIsReserved, FailingAlone,
         LiveIsNotRetried, OneRefundPerRequest
<1>2. ASSUME NEW v \in Worker
      PROVE Reserving(v)' /\ Applying(v)'
  BY DEF Reserving, Applying
<1>3. LedgerBalanced'
  BY DEF LedgerBalanced, PendingIsReserved, Reserving
<1>4. ASSUME NEW v \in Worker PROVE Starting(v)'
  BY DEF Starting, PendingIsReserved
<1>5. ASSUME NEW v \in Worker PROVE Calling(v)'
  BY DEF Calling, Attempting, Settling, NoLiveRefund, PendingIsReserved
<1>6. ASSUME NEW v \in Worker PROVE Ending(v)'
  BY DEF Ending, Attempting, NoLiveRefund, PendingIsReserved
<1>7. AwaitsRefund'
  BY DEF AwaitsRefund, Settling, PendingIsReserved
<1>8. QED
  BY <1>1, <1>2, <1>3, <1>4, <1>5, <1>6, <1>7 DEF IInv

LEMMA WebhookStep ==
  ASSUME IInv, TypeOK', NEW w \in Worker, Webhook(w)
  PROVE  IInv'
<1> USE DEF Webhook, HandleEvent, Matches
<1>1. ExclusiveReservation' /\ OwnerHoldsOrder' /\ LedgerBalanced' /\
      PendingIsReserved' /\ FailingAlone' /\ AwaitsRefund' /\ LiveIsNotRetried' /\
      OneRefundPerRequest'
  BY DEF ExclusiveReservation, OwnerHoldsOrder, LedgerBalanced, PendingIsReserved,
         FailingAlone, AwaitsRefund, Settling, LiveIsNotRetried, OneRefundPerRequest
<1>2. ASSUME NEW v \in Worker
      PROVE Reserving(v)' /\ Starting(v)' /\ Calling(v)' /\ Ending(v)'
  BY DEF Reserving, Starting, Calling, Attempting, Settling, NoLiveRefund, Ending
<1>3. ASSUME NEW v \in Worker PROVE Applying(v)'
  BY DEF Applying, AwaitsRefund
<1>4. QED
  BY <1>1, <1>2, <1>3 DEF IInv

LEMMA ReconcileRefundStep ==
  ASSUME IInv, TypeOK', NEW w \in Worker, ReconcileRefund(w)
  PROVE  IInv'
<1> USE DEF ReconcileRefund, HandleEvent, Matches
<1>1. ExclusiveReservation' /\ OwnerHoldsOrder' /\ LedgerBalanced' /\
      PendingIsReserved' /\ FailingAlone' /\ AwaitsRefund' /\ LiveIsNotRetried' /\
      OneRefundPerRequest'
  BY DEF ExclusiveReservation, OwnerHoldsOrder, LedgerBalanced, PendingIsReserved,
         FailingAlone, AwaitsRefund, Settling, LiveIsNotRetried, OneRefundPerRequest
<1>2. ASSUME NEW v \in Worker
      PROVE Reserving(v)' /\ Starting(v)' /\ Calling(v)' /\ Ending(v)'
  BY DEF Reserving, Starting, Calling, Attempting, Settling, NoLiveRefund, Ending
<1>3. ASSUME NEW v \in Worker PROVE Applying(v)'
  BY DEF Applying, AwaitsRefund
<1>4. QED
  BY <1>1, <1>2, <1>3 DEF IInv

LEMMA NoteProgressStep ==
  ASSUME IInv, TypeOK', NEW w \in Worker, NoteProgress(w)
  PROVE  IInv'
<1> USE DEF NoteProgress
<1>1. ExclusiveReservation' /\ OwnerHoldsOrder' /\ LedgerBalanced' /\
      PendingIsReserved' /\ FailingAlone' /\ LiveIsNotRetried' /\
      OneRefundPerRequest'
  BY DEF ExclusiveReservation, OwnerHoldsOrder, LedgerBalanced, PendingIsReserved,
         FailingAlone, LiveIsNotRetried, OneRefundPerRequest
<1>2. ASSUME NEW v \in Worker
      PROVE Reserving(v)' /\ Starting(v)' /\ Applying(v)'
  BY DEF Reserving, Starting, Applying
<1>3. ASSUME NEW v \in Worker PROVE Calling(v)'
  BY DEF Calling, Attempting, Settling, NoLiveRefund, Applying
<1>4. ASSUME NEW v \in Worker PROVE Ending(v)'
  BY DEF Ending, Attempting, NoLiveRefund, Applying
<1>5. AwaitsRefund'
  BY DEF AwaitsRefund, Settling, Applying
<1>6. QED
  BY <1>1, <1>2, <1>3, <1>4, <1>5 DEF IInv

LEMMA ApplyFinalStatusStep ==
  ASSUME IInv, TypeOK', NEW w \in Worker, ApplyFinalStatus(w)
  PROVE  IInv'
<1> USE DEF ApplyFinalStatus
<1>1. LedgerBalanced' /\ PendingIsReserved' /\ OneRefundPerRequest'
  BY DEF LedgerBalanced, PendingIsReserved, OneRefundPerRequest
<1>2. ASSUME NEW v \in Worker
      PROVE Reserving(v)' /\ Applying(v)'
  BY DEF Reserving, Applying
<1>3. ExclusiveReservation'
  BY DEF ExclusiveReservation, Applying, AwaitsRefund
<1>4. OwnerHoldsOrder'
  BY DEF OwnerHoldsOrder, Applying, AwaitsRefund
<1>5. ASSUME NEW v \in Worker PROVE Starting(v)'
  BY DEF Starting, OwnerHoldsOrder
<1>6. ASSUME NEW v \in Worker PROVE Calling(v)'
  BY DEF Calling, Attempting, Settling, NoLiveRefund, OwnerHoldsOrder, Applying
<1>7. ASSUME NEW v \in Worker PROVE Ending(v)'
  BY DEF Ending, Attempting, NoLiveRefund, Applying, AwaitsRefund, Settling
<1>8. FailingAlone'
  BY DEF FailingAlone, Applying
<1>9. AwaitsRefund'
  BY DEF AwaitsRefund, Settling, Applying
<1>10. LiveIsNotRetried'
  BY DEF LiveIsNotRetried, Applying, AwaitsRefund
<1>11. QED
  BY <1>1, <1>2, <1>3, <1>4, <1>5, <1>6, <1>7, <1>8, <1>9, <1>10 DEF IInv

LEMMA ReadOrderStep ==
  ASSUME IInv, TypeOK', NEW w \in Worker, ReadOrder(w)
  PROVE  IInv'
<1> USE DEF ReadOrder
<1>1. ExclusiveReservation' /\ OwnerHoldsOrder' /\ LedgerBalanced' /\
      PendingIsReserved' /\ FailingAlone' /\ AwaitsRefund' /\ LiveIsNotRetried' /\
      OneRefundPerRequest'
  BY DEF ExclusiveReservation, OwnerHoldsOrder, LedgerBalanced, PendingIsReserved,
         FailingAlone, AwaitsRefund, Settling, LiveIsNotRetried, OneRefundPerRequest
<1>2. ASSUME NEW v \in Worker
      PROVE Reserving(v)' /\ Starting(v)' /\ Calling(v)' /\ Ending(v)' /\
            Applying(v)'
  BY DEF Reserving, Starting, Calling, Attempting, Settling, NoLiveRefund, Ending,
         Applying
<1>3. QED
  BY <1>1, <1>2 DEF IInv

LEMMA MarkRefundedStep ==
  ASSUME IInv, TypeOK', NEW w \in Worker, MarkRefunded(w)
  PROVE  IInv'
<1> USE DEF MarkRefunded
<1>1. ExclusiveReservation' /\ OwnerHoldsOrder' /\ LedgerBalanced' /\
      PendingIsReserved' /\ FailingAlone' /\ AwaitsRefund' /\ LiveIsNotRetried' /\
      OneRefundPerRequest'
  BY DEF ExclusiveReservation, OwnerHoldsOrder, LedgerBalanced, PendingIsReserved,
         FailingAlone, AwaitsRefund, Settling, LiveIsNotRetried, OneRefundPerRequest
<1>2. ASSUME NEW v \in Worker
      PROVE Reserving(v)' /\ Starting(v)' /\ Calling(v)' /\ Ending(v)' /\
            Applying(v)'
  BY DEF Reserving, Starting, Calling, Attempting, Settling, NoLiveRefund, Ending,
         Applying
<1>3. QED
  BY <1>1, <1>2 DEF IInv

LEMMA MarkRefundedFailsStep ==
  ASSUME IInv, TypeOK', NEW w \in Worker, MarkRefundedFails(w)
  PROVE  IInv'
<1> USE DEF MarkRefundedFails
<1>1. ExclusiveReservation' /\ OwnerHoldsOrder' /\ LedgerBalanced' /\
      PendingIsReserved' /\ FailingAlone' /\ AwaitsRefund' /\ LiveIsNotRetried' /\
      OneRefundPerRequest'
  BY DEF ExclusiveReservation, OwnerHoldsOrder, LedgerBalanced, PendingIsReserved,
         FailingAlone, AwaitsRefund, Settling, LiveIsNotRetried, OneRefundPerRequest
<1>2. ASSUME NEW v \in Worker
      PROVE Reserving(v)' /\ Starting(v)' /\ Calling(v)' /\ Ending(v)' /\
            Applying(v)'
  BY DEF Reserving, Starting, Calling, Attempting, Settling, NoLiveRefund, Ending,
         Applying
<1>3. QED
  BY <1>1, <1>2 DEF IInv

LEMMA CloseOrderStep ==
  ASSUME IInv, TypeOK', NEW w \in Worker, CloseOrder(w)
  PROVE  IInv'
<1> USE DEF CloseOrder, MoveHeldOrder
<1>1. ExclusiveReservation' /\ OwnerHoldsOrder' /\ LedgerBalanced' /\
      PendingIsReserved' /\ FailingAlone' /\ AwaitsRefund' /\ LiveIsNotRetried' /\
      OneRefundPerRequest'
  BY DEF ExclusiveReservation, OwnerHoldsOrder, LedgerBalanced, PendingIsReserved,
         FailingAlone, AwaitsRefund, Settling, LiveIsNotRetried, OneRefundPerRequest
<1>2. ASSUME NEW v \in Worker
      PROVE Reserving(v)' /\ Starting(v)' /\ Calling(v)' /\ Ending(v)' /\
            Applying(v)'
  BY DEF Reserving, Starting, Calling, Attempting, Settling, NoLiveRefund, Ending,
         Applying
<1>3. QED
  BY <1>1, <1>2 DEF IInv

LEMMA RestoreOrderStep ==
  ASSUME IInv, TypeOK', NEW w \in Worker, RestoreOrder(w)
  PROVE  IInv'
<1> USE DEF RestoreOrder, MoveHeldOrder
<1>1. ExclusiveReservation' /\ OwnerHoldsOrder' /\ LedgerBalanced' /\
      PendingIsReserved' /\ FailingAlone' /\ AwaitsRefund' /\ LiveIsNotRetried' /\
      OneRefundPerRequest'
  BY DEF ExclusiveReservation, OwnerHoldsOrder, LedgerBalanced, PendingIsReserved,
         FailingAlone, AwaitsRefund, Settling, LiveIsNotRetried, OneRefundPerRequest
<1>2. ASSUME NEW v \in Worker
      PROVE Reserving(v)' /\ Starting(v)' /\ Calling(v)' /\ Ending(v)' /\
            Applying(v)'
  BY DEF Reserving, Starting, Calling, Attempting, Settling, NoLiveRefund, Ending,
         Applying
<1>3. QED
  BY <1>1, <1>2 DEF IInv

LEMMA DecideFindStep ==
  ASSUME IInv, TypeOK', NEW w \in Worker, DecideFind(w)
  PROVE  IInv'
<1> USE DEF DecideFind
<1>1. ExclusiveReservation' /\ OwnerHoldsOrder' /\ LedgerBalanced' /\
      PendingIsReserved' /\ FailingAlone' /\ AwaitsRefund' /\ LiveIsNotRetried' /\
      OneRefundPerRequest'
  BY DEF ExclusiveReservation, OwnerHoldsOrder, LedgerBalanced, PendingIsReserved,
         FailingAlone, AwaitsRefund, Settling, LiveIsNotRetried, OneRefundPerRequest
<1>2. ASSUME NEW v \in Worker
      PROVE Reserving(v)' /\ Starting(v)' /\ Calling(v)' /\ Ending(v)' /\
            Applying(v)'
  BY DEF Reserving, Starting, Calling, Attempting, Settling, NoLiveRefund, Ending,
         Applying
<1>3. QED
  BY <1>1, <1>2 DEF IInv

LEMMA DecideWriteStep ==
  ASSUME IInv, TypeOK', NEW w \in Worker, DecideWrite(w)
  PROVE  IInv'
<1> USE DEF DecideWrite
<1>1. ExclusiveReservation' /\ OwnerHoldsOrder' /\ LedgerBalanced' /\ PendingIsReserved'
  BY DEF ExclusiveReservation, OwnerHoldsOrder, LedgerBalanced, PendingIsReserved
<1>2. AwaitsRefund' /\ LiveIsNotRetried' /\ OneRefundPerRequest'
  BY DEF AwaitsRefund, Settling, LiveIsNotRetried, OneRefundPerRequest
<1>3. FailingAlone'
  BY DEF FailingAlone
<1>4. ASSUME NEW v \in Worker
      PROVE Reserving(v)' /\ Starting(v)' /\ Calling(v)' /\ Ending(v)' /\ Applying(v)'
  BY DEF Reserving, Starting, Calling, Attempting, Settling, NoLiveRefund, Ending,
         Applying
<1>5. QED
  BY <1>1, <1>2, <1>3, <1>4 DEF IInv

LEMMA AbortStep ==
  ASSUME IInv, TypeOK', NEW w \in Worker, Abort(w)
  PROVE  IInv'
<1> USE DEF Abort
<1>1. ExclusiveReservation' /\ OwnerHoldsOrder' /\ LedgerBalanced' /\
      PendingIsReserved' /\ FailingAlone' /\ AwaitsRefund' /\ LiveIsNotRetried' /\
      OneRefundPerRequest'
  BY DEF ExclusiveReservation, OwnerHoldsOrder, LedgerBalanced, PendingIsReserved,
         FailingAlone, AwaitsRefund, Settling, LiveIsNotRetried, OneRefundPerRequest
<1>2. ASSUME NEW v \in Worker
      PROVE Reserving(v)' /\ Starting(v)' /\ Calling(v)' /\ Ending(v)' /\
            Applying(v)'
  BY DEF Reserving, Starting, Calling, Attempting, Settling, NoLiveRefund, Ending,
         Applying
<1>3. QED
  BY <1>1, <1>2 DEF IInv

-----------------------------------------------------------------------------
HIDE DEF orderVars, requestVars, providerVars, locals, Goto, Finish, Release,
         TypeOK, IInv, Owner, Owning, Releasing, Rejecting, Live

\* At first no handler runs, nothing is reserved, no refund exists.
LEMMA InitialInvariant == Init => IInv
<1> SUFFICES ASSUME Init PROVE IInv
  OBVIOUS
<1>1. TypeOK
  BY InitTypeOK
<1>2. \A w \in Worker : pc[w] = "idle"
  BY DEF Init
<1>3. \A f \in Refund : refundState[f] = "none"
  BY DEF Init
<1>4. ExclusiveReservation /\ OwnerHoldsOrder /\ FailingAlone
  BY <1>2 DEF ExclusiveReservation, OwnerHoldsOrder, FailingAlone, Owner, Owning
<1>5. LedgerBalanced
  BY DEF Init, LedgerBalanced
<1>6. PendingIsReserved /\ LiveIsNotRetried /\ OneRefundPerRequest
  BY <1>3 DEF PendingIsReserved, LiveIsNotRetried, OneRefundPerRequest, Live
<1>7. \A w \in Worker : Reserving(w) /\ Starting(w) /\ Calling(w) /\ Ending(w) /\ Applying(w)
  BY <1>2 DEF Reserving, Starting, Calling, Ending, Applying, Releasing, Rejecting
<1>8. AwaitsRefund
  BY DEF Init, AwaitsRefund
<1>9. QED
  BY <1>1, <1>4, <1>5, <1>6, <1>7, <1>8 DEF IInv

\* A step of something else changes nothing the invariant speaks of.
LEMMA StutterStep == IInv /\ UNCHANGED vars => IInv'
  BY DEF vars, orderVars, requestVars, providerVars, locals, IInv, TypeOK,
         ExclusiveReservation, OwnerHoldsOrder, LedgerBalanced, PendingIsReserved,
         Reserving, Starting, Calling, Ending, Applying, FailingAlone, AwaitsRefund,
         LiveIsNotRetried, OneRefundPerRequest, Settling, Attempting, NoLiveRefund,
         Owner, Owning, Releasing, Rejecting, Live

\* IInv is an invariant of every clean run.
THEOREM Invariance == CleanSpec => []IInv
<1>1. IInv /\ [Next /\ Clean']_vars => IInv'
  <2> SUFFICES ASSUME IInv, [Next /\ Clean']_vars PROVE IInv'
    OBVIOUS
  <2>1. TypeOK'
    BY TypeStep DEF IInv
  <2>2. CASE UNCHANGED vars
    BY <2>2, StutterStep
  <2>3. CASE Next /\ Clean'
    BY <2>1, <2>3, ProcessRefundStep, ReserveRefundStep, StartRefundFindStep,
       StartRefundWriteStep, StartRefundWriteFailsStep, CheckPaidStep, CallAcceptedStep,
       CallRejectedStep, CallErrsNotClean, CallTimesOutStep, SaveProviderIdStep,
       MarkFailedStep, ReleaseFindStep, ReleaseWriteStep, ProviderSettlesStep,
       WebhookStep, ReconcileRefundStep, NoteProgressStep, ApplyFinalStatusStep,
       ReadOrderStep, MarkRefundedStep, MarkRefundedFailsStep, CloseOrderStep,
       RestoreOrderStep, DecideFindStep, DecideWriteStep, AbortStep
       DEF Next, Continue, Fault, IInv
  <2>4. QED
    BY <2>2, <2>3
<1>2. QED
  BY InitialInvariant, <1>1, PTL DEF CleanSpec

-----------------------------------------------------------------------------
(***************************************************************************)
(* What follows from the invariant.                                        *)
(***************************************************************************)
\* No two refunds that have not failed are ever made for one request.
THEOREM OneRefund == CleanSpec => []OneRefundPerRequest
<1>1. IInv => OneRefundPerRequest
  BY DEF IInv
<1>2. QED
  BY Invariance, <1>1, PTL

\* One handler at a time works under the order's reservation.
THEOREM Exclusion == CleanSpec => []ExclusiveReservation
<1>1. IInv => ExclusiveReservation
  BY DEF IInv
<1>2. QED
  BY Invariance, <1>1, PTL

\* The order's ledger accounts for all the money sent back, within its total.
THEOREM LedgerCovers == CleanSpec => []LedgerCoversMoney
<1>1. IInv => LedgerCoversMoney
  BY DEF IInv, TypeOK, LedgerBalanced, LedgerCoversMoney
<1>2. QED
  BY Invariance, <1>1, PTL

\* No late write takes a completed refund back.
THEOREM CompletedStays == CleanSpec => CompletedIsFinal
<1> DEFINE A == \A r \in Request : refundStatus[r] = "completed" => refundStatus'[r] = "completed"
<1>1. IInv /\ [Next /\ Clean']_vars => [A]_vars
  <2> SUFFICES ASSUME IInv, Next PROVE A
    OBVIOUS
  <2> USE DEF IInv, TypeOK, requestVars
  <2>1. ASSUME NEW w \in Worker, StartRefundWrite(w) PROVE A
    BY <2>1 DEF StartRefundWrite, Starting
  <2>2. ASSUME NEW w \in Worker, MarkFailed(w) PROVE A
    BY <2>2 DEF MarkFailed, Ending
  <2>3. ASSUME NEW w \in Worker, ApplyFinalStatus(w) PROVE A
    BY <2>3 DEF ApplyFinalStatus
  <2>4. CASE UNCHANGED refundStatus
    BY <2>4
  <2>5. QED
    BY <2>1, <2>2, <2>3, <2>4
       DEF Next, Continue, Fault, ProcessRefund, ReserveRefund, StartRefundFind,
           StartRefundWriteFails, CheckPaid, CallAccepted, CallRejected, CallErrs, CallTimesOut,
           SaveProviderId, ReleaseFind, ReleaseWrite, ProviderSettles, Webhook,
           ReconcileRefund, HandleEvent, NoteProgress, ReadOrder, MarkRefunded,
           MarkRefundedFails, CloseOrder, RestoreOrder, DecideFind, DecideWrite, Abort
<1>2. QED
  BY Invariance, <1>1, PTL DEF CleanSpec, CompletedIsFinal

-----------------------------------------------------------------------------
(***************************************************************************)
(* A cancelled order is closed with its whole total.                       *)
(***************************************************************************)
WholeOrder ==
    /\ \A r \in Cancellation : refundStatus[r] = "processing" => refundAmount[r] = Total
    /\ \A w \in Worker :
          /\ job[w] \in Cancellation
          /\ \/ pc[w] \in {"reserve", "startFind", "startWrite", "check", "call", "apply"}
             \/ Releasing(w) /\ outcome[w] = "processed"
          => amount[w] = Total

ClosedInFull ==
    /\ \A w \in Worker : pc[w] \in {"readOrder", "markRefunded", "closeOrder"}
            => refundedAmount = Total
    /\ RefundedOrderIsPaidBack

\* The refund of a cancellation is for the whole order all the way through.
LEMMA WholeOrderStep ==
  ASSUME IInv, TypeOK', Next, WholeOrder PROVE WholeOrder'
<1> USE TotalAssumption, CancellationAssumption
<1> USE DEF WholeOrder, IInv, TypeOK, requestVars, locals, Releasing, Goto, Finish, Release
<1>1. ASSUME NEW w \in Worker, ProcessRefund(w) PROVE WholeOrder'
  BY <1>1 DEF ProcessRefund, RefundAmounts
<1>2. ASSUME NEW w \in Worker, ReserveRefund(w) PROVE WholeOrder'
  BY <1>2 DEF ReserveRefund, CanReserve, Reserving
<1>3. ASSUME NEW w \in Worker, StartRefundFind(w) PROVE WholeOrder'
  BY <1>3 DEF StartRefundFind
<1>4. ASSUME NEW w \in Worker, StartRefundWrite(w) PROVE WholeOrder'
  BY <1>4 DEF StartRefundWrite
<1>5. ASSUME NEW w \in Worker, StartRefundWriteFails(w) PROVE WholeOrder'
  BY <1>5 DEF StartRefundWriteFails
<1>6. ASSUME NEW w \in Worker, CheckPaid(w) PROVE WholeOrder'
  BY <1>6 DEF CheckPaid
<1>7. ASSUME NEW w \in Worker, CallAccepted(w) PROVE WholeOrder'
  BY <1>7 DEF CallAccepted, CreateRefund
<1>8. ASSUME NEW w \in Worker, CallRejected(w) PROVE WholeOrder'
  BY <1>8 DEF CallRejected
<1>9. ASSUME NEW w \in Worker, CallTimesOut(w) PROVE WholeOrder'
  BY <1>9 DEF CallTimesOut, CreateRefund
<1>10. ASSUME NEW w \in Worker, SaveProviderId(w) PROVE WholeOrder'
  BY <1>10 DEF SaveProviderId
<1>11. ASSUME NEW w \in Worker, MarkFailed(w) PROVE WholeOrder'
  BY <1>11 DEF MarkFailed
<1>12. ASSUME NEW w \in Worker, ReleaseFind(w) PROVE WholeOrder'
  BY <1>12 DEF ReleaseFind, Resume, AfterRelease, OwnerHoldsOrder, Owner, Owning
<1>13. ASSUME NEW w \in Worker, ReleaseWrite(w) PROVE WholeOrder'
  BY <1>13 DEF ReleaseWrite, Resume, AfterRelease
<1>14. ASSUME NEW f \in Refund, ProviderSettles(f) PROVE WholeOrder'
  BY <1>14 DEF ProviderSettles
<1>15. ASSUME NEW w \in Worker, Webhook(w) PROVE WholeOrder'
  BY <1>15 DEF Webhook, HandleEvent, Matches, AwaitsRefund
<1>16. ASSUME NEW w \in Worker, ReconcileRefund(w) PROVE WholeOrder'
  BY <1>16 DEF ReconcileRefund, HandleEvent, Matches
<1>17. ASSUME NEW w \in Worker, NoteProgress(w) PROVE WholeOrder'
  BY <1>17 DEF NoteProgress
<1>18. ASSUME NEW w \in Worker, ApplyFinalStatus(w) PROVE WholeOrder'
  BY <1>18 DEF ApplyFinalStatus, Applying
<1>19. ASSUME NEW w \in Worker, ReadOrder(w) PROVE WholeOrder'
  BY <1>19 DEF ReadOrder
<1>20. ASSUME NEW w \in Worker, MarkRefunded(w) PROVE WholeOrder'
  BY <1>20 DEF MarkRefunded
<1>21. ASSUME NEW w \in Worker, MarkRefundedFails(w) PROVE WholeOrder'
  BY <1>21 DEF MarkRefundedFails
<1>22. ASSUME NEW w \in Worker, CloseOrder(w) PROVE WholeOrder'
  BY <1>22 DEF CloseOrder, MoveHeldOrder
<1>23. ASSUME NEW w \in Worker, RestoreOrder(w) PROVE WholeOrder'
  BY <1>23 DEF RestoreOrder, MoveHeldOrder
<1>24. ASSUME NEW w \in Worker, DecideFind(w) PROVE WholeOrder'
  BY <1>24 DEF DecideFind
<1>25. ASSUME NEW w \in Worker, DecideWrite(w) PROVE WholeOrder'
  BY <1>25 DEF DecideWrite
<1>26. ASSUME NEW w \in Worker, Abort(w) PROVE WholeOrder'
  BY <1>26 DEF Abort
<1>27. ASSUME NEW w \in Worker, CallErrs(w) PROVE WholeOrder'
  BY <1>27 DEF CallErrs, CreateRefund
<1>28. QED
  BY <1>1, <1>2, <1>3, <1>4, <1>5, <1>6, <1>7, <1>8, <1>9, <1>10, <1>11, <1>12, <1>13,
     <1>14, <1>15, <1>16, <1>17, <1>18, <1>19, <1>20, <1>21, <1>22, <1>23, <1>24, <1>25,
     <1>26, <1>27 DEF Next, Continue, Fault

\* The order is closed only after the whole total has been booked as refunded.
LEMMA ClosedInFullStep ==
  ASSUME IInv, TypeOK', Next, WholeOrder, ClosedInFull PROVE ClosedInFull'
<1> USE TotalAssumption
<1> USE DEF ClosedInFull, RefundedOrderIsPaidBack, IInv, TypeOK, orderVars, locals, Goto, Finish,
            Release
<1>1. ASSUME NEW w \in Worker, ProcessRefund(w) PROVE ClosedInFull'
  BY <1>1 DEF ProcessRefund, RefundAmounts
<1>2. ASSUME NEW w \in Worker, ReserveRefund(w) PROVE ClosedInFull'
  BY <1>2 DEF ReserveRefund, CanReserve
<1>3. ASSUME NEW w \in Worker, StartRefundFind(w) PROVE ClosedInFull'
  BY <1>3 DEF StartRefundFind
<1>4. ASSUME NEW w \in Worker, StartRefundWrite(w) PROVE ClosedInFull'
  BY <1>4 DEF StartRefundWrite
<1>5. ASSUME NEW w \in Worker, StartRefundWriteFails(w) PROVE ClosedInFull'
  BY <1>5 DEF StartRefundWriteFails
<1>6. ASSUME NEW w \in Worker, CheckPaid(w) PROVE ClosedInFull'
  BY <1>6 DEF CheckPaid
<1>7. ASSUME NEW w \in Worker, CallAccepted(w) PROVE ClosedInFull'
  BY <1>7 DEF CallAccepted, CreateRefund
<1>8. ASSUME NEW w \in Worker, CallRejected(w) PROVE ClosedInFull'
  BY <1>8 DEF CallRejected
<1>9. ASSUME NEW w \in Worker, CallTimesOut(w) PROVE ClosedInFull'
  BY <1>9 DEF CallTimesOut, CreateRefund
<1>10. ASSUME NEW w \in Worker, SaveProviderId(w) PROVE ClosedInFull'
  BY <1>10 DEF SaveProviderId
<1>11. ASSUME NEW w \in Worker, MarkFailed(w) PROVE ClosedInFull'
  BY <1>11 DEF MarkFailed
<1>12. ASSUME NEW w \in Worker, ReleaseFind(w) PROVE ClosedInFull'
  BY <1>12 DEF ReleaseFind, Resume, AfterRelease, OwnerHoldsOrder, Owner, Owning
<1>13. ASSUME NEW w \in Worker, ReleaseWrite(w) PROVE ClosedInFull'
  BY <1>13 DEF ReleaseWrite, Resume, AfterRelease, WholeOrder, Releasing, OwnerHoldsOrder, LedgerBalanced, Owner, Owning
<1>14. ASSUME NEW f \in Refund, ProviderSettles(f) PROVE ClosedInFull'
  BY <1>14 DEF ProviderSettles
<1>15. ASSUME NEW w \in Worker, Webhook(w) PROVE ClosedInFull'
  BY <1>15 DEF Webhook, HandleEvent, Matches
<1>16. ASSUME NEW w \in Worker, ReconcileRefund(w) PROVE ClosedInFull'
  BY <1>16 DEF ReconcileRefund, HandleEvent, Matches
<1>17. ASSUME NEW w \in Worker, NoteProgress(w) PROVE ClosedInFull'
  BY <1>17 DEF NoteProgress
<1>18. ASSUME NEW w \in Worker, ApplyFinalStatus(w) PROVE ClosedInFull'
  BY <1>18 DEF ApplyFinalStatus
<1>19. ASSUME NEW w \in Worker, ReadOrder(w) PROVE ClosedInFull'
  BY <1>19 DEF ReadOrder
<1>20. ASSUME NEW w \in Worker, MarkRefunded(w) PROVE ClosedInFull'
  BY <1>20 DEF MarkRefunded
<1>21. ASSUME NEW w \in Worker, MarkRefundedFails(w) PROVE ClosedInFull'
  BY <1>21 DEF MarkRefundedFails
<1>22. ASSUME NEW w \in Worker, CloseOrder(w) PROVE ClosedInFull'
  BY <1>22 DEF CloseOrder, MoveHeldOrder
<1>23. ASSUME NEW w \in Worker, RestoreOrder(w) PROVE ClosedInFull'
  BY <1>23 DEF RestoreOrder, MoveHeldOrder
<1>24. ASSUME NEW w \in Worker, DecideFind(w) PROVE ClosedInFull'
  BY <1>24 DEF DecideFind
<1>25. ASSUME NEW w \in Worker, DecideWrite(w) PROVE ClosedInFull'
  BY <1>25 DEF DecideWrite
<1>26. ASSUME NEW w \in Worker, Abort(w) PROVE ClosedInFull'
  BY <1>26 DEF Abort
<1>27. ASSUME NEW w \in Worker, CallErrs(w) PROVE ClosedInFull'
  BY <1>27 DEF CallErrs, CreateRefund
<1>28. QED
  BY <1>1, <1>2, <1>3, <1>4, <1>5, <1>6, <1>7, <1>8, <1>9, <1>10, <1>11, <1>12, <1>13,
     <1>14, <1>15, <1>16, <1>17, <1>18, <1>19, <1>20, <1>21, <1>22, <1>23, <1>24, <1>25,
     <1>26, <1>27 DEF Next, Continue, Fault

\* An order shows as refunded only when its whole total has been refunded.
THEOREM PaidBack == CleanSpec => []RefundedOrderIsPaidBack
<1>1. Init => WholeOrder /\ ClosedInFull
  <2> SUFFICES ASSUME Init PROVE WholeOrder /\ ClosedInFull
    OBVIOUS
  <2>1. \A w \in Worker : pc[w] = "idle"
    BY DEF Init
  <2>2. \A r \in Cancellation : refundStatus[r] = "none"
    BY CancellationAssumption DEF Init
  <2>3. paymentStatus = "paid" /\ orderStatus # "refunded"
    BY DEF Init
  <2>4. QED
    BY <2>1, <2>2, <2>3
       DEF WholeOrder, ClosedInFull, RefundedOrderIsPaidBack, Releasing
<1>2. IInv /\ TypeOK' /\ WholeOrder /\ ClosedInFull /\ [Next /\ Clean']_vars
        => (WholeOrder /\ ClosedInFull)'
  <2>1. CASE Next
    BY <2>1, WholeOrderStep, ClosedInFullStep
  <2>2. CASE UNCHANGED vars
    BY <2>2 DEF vars, orderVars, requestVars, locals, WholeOrder, ClosedInFull,
                RefundedOrderIsPaidBack, Releasing
  <2>3. QED
    BY <2>1, <2>2
<1>3. IInv => TypeOK
  BY DEF IInv
<1>4. ClosedInFull => RefundedOrderIsPaidBack
  BY DEF ClosedInFull
<1>5. QED
  BY Invariance, <1>1, <1>2, <1>3, <1>4, PTL DEF CleanSpec

-----------------------------------------------------------------------------
(***************************************************************************)
(* The ledger and the completed requests.                                  *)
(***************************************************************************)
Completed == {r \in Request : refundStatus[r] = "completed"}
CompletedSum == SumFunctionOnSet(refundAmount, Completed)

\* A handler that has completed a request and not yet moved its amount.
Crediting(w) == Releasing(w) /\ outcome[w] = "processed"

\* The ledger lacks what is being credited, and, after a fault, perhaps more.
Counted ==
    /\ refundedAmount <= CompletedSum
    /\ \A w \in Worker : Crediting(w) =>
          /\ refundedAmount + reservedAmount <= CompletedSum
          /\ faults = 0 => refundedAmount + reservedAmount = CompletedSum
    /\ faults = 0 /\ (\A w \in Worker : ~Crediting(w)) => refundedAmount = CompletedSum

\* What completed requests add up to is an amount of money.
LEMMA CompletedSumType ==
  ASSUME IsFiniteSet(Request), TypeOK PROVE CompletedSum \in Nat
<1>1. IsFiniteSet(Completed)
  BY FS_Subset DEF Completed
<1>2. \A r \in Completed : refundAmount[r] \in Nat
  BY TotalAssumption DEF TypeOK, Completed
<1>3. QED
  BY <1>1, <1>2, SumType DEF CompletedSum

\* The sum stands while the same requests are complete, of the same amounts.
LEMMA CompletedSumStands ==
  ASSUME IsFiniteSet(Request), Completed' = Completed,
         \A r \in Completed : refundAmount'[r] = refundAmount[r]
  PROVE  CompletedSum' = CompletedSum
<1>1. IsFiniteSet(Completed)
  BY FS_Subset DEF Completed
<1>2. SumFunctionOnSet(refundAmount', Completed) = SumFunctionOnSet(refundAmount, Completed)
  BY <1>1, SumSame
<1>3. QED
  BY <1>2 DEF CompletedSum

\* A request that is completed adds its amount.
LEMMA CompletedSumGrows ==
  ASSUME IsFiniteSet(Request), TypeOK, NEW r \in Request, refundStatus[r] = "processing",
         refundStatus' = [refundStatus EXCEPT ![r] = "completed"], refundAmount' = refundAmount
  PROVE  CompletedSum' = CompletedSum + refundAmount[r]
<1>1. IsFiniteSet(Completed)
  BY FS_Subset DEF Completed
<1>2. r \notin Completed /\ Completed' = Completed \cup {r}
  BY DEF Completed, TypeOK
<1>3. \A q \in Completed \cup {r} : refundAmount[q] \in Int
  BY TotalAssumption DEF TypeOK, Completed
<1>4. SumFunctionOnSet(refundAmount, Completed \cup {r})
        = SumFunctionOnSet(refundAmount, Completed) + refundAmount[r]
  BY <1>1, <1>2, <1>3, SumOneMore
<1>5. QED
  BY <1>2, <1>4 DEF CompletedSum

\* Nothing is lost where the ledger and the completed requests stand, and nobody
\* begins or ends crediting.
LEMMA CountedStays ==
  ASSUME Counted, faults' = faults, UNCHANGED <<refundedAmount, reservedAmount>>,
         CompletedSum' = CompletedSum, \A w \in Worker : Crediting(w)' <=> Crediting(w)
  PROVE  Counted'
  BY DEF Counted

\* A fault only takes a handler away.
LEMMA CountedAfterFault ==
  ASSUME Counted, faults \in Nat, faults' = faults + 1, CompletedSum' = CompletedSum,
         UNCHANGED <<refundedAmount, reservedAmount>>,
         \A w \in Worker : Crediting(w)' => Crediting(w)
  PROVE  Counted'
  BY DEF Counted

\* Only the reservation's release moves money in the ledger, and only an applied
\* event completes a request, which makes its handler the one that credits it.
LEMMA CountedStep ==
  ASSUME IsFiniteSet(Request), IInv, TypeOK', Counted, Next PROVE Counted'
<1> USE DEF Crediting, Releasing, orderVars, requestVars, providerVars, locals, Goto, Finish, Release
<1>1. TypeOK /\ CompletedSum \in Nat
  BY CompletedSumType DEF IInv
<1>2. UNCHANGED <<refundStatus, refundAmount>> => CompletedSum' = CompletedSum
  BY CompletedSumStands DEF Completed
<1>3. ASSUME NEW w \in Worker, ReserveRefund(w) PROVE Counted'
  <2>1. CASE CanReserve(amount[w])
    <3>1. \A v \in Worker : ~Owner(v)
      BY <2>1, NullAssumption DEF CanReserve, IInv, OwnerHoldsOrder
    <3>2. \A v \in Worker : ~Crediting(v) /\ ~Crediting(v)'
      BY <1>1, <1>3, <2>1, <3>1 DEF ReserveRefund, Owner, Owning, TypeOK
    <3>3. UNCHANGED <<refundedAmount, refundStatus, refundAmount, faults>>
      BY <1>3, <2>1 DEF ReserveRefund
    <3>4. QED
      BY <1>2, <3>2, <3>3 DEF Counted
  <2>2. CASE ~CanReserve(amount[w])
    BY <1>1, <1>2, <1>3, <2>2, CountedStays DEF ReserveRefund, TypeOK
  <2>3. QED
    BY <2>1, <2>2
<1>4. ASSUME NEW w \in Worker, StartRefundWrite(w) PROVE Counted'
  <2>1. refundStatus[job[w]] # "completed"
    BY <1>4 DEF StartRefundWrite, IInv, Starting
  <2>2. Completed' = Completed /\ \A r \in Completed : refundAmount'[r] = refundAmount[r]
    BY <1>1, <1>4, <2>1 DEF StartRefundWrite, Completed, TypeOK
  <2>3. CompletedSum' = CompletedSum
    BY <2>2, CompletedSumStands
  <2>4. QED
    BY <1>1, <1>4, <2>3, CountedStays DEF StartRefundWrite, TypeOK
<1>5. ASSUME NEW w \in Worker, MarkFailed(w) PROVE Counted'
  <2>1. refundStatus[job[w]] = "processing"
    BY <1>5 DEF MarkFailed, IInv, Ending
  <2>2. Completed' = Completed /\ refundAmount' = refundAmount
    BY <1>1, <1>5, <2>1 DEF MarkFailed, Completed, TypeOK
  <2>3. CompletedSum' = CompletedSum
    BY <2>2, CompletedSumStands
  <2>4. QED
    BY <1>1, <1>5, <2>3, CountedStays DEF MarkFailed, TypeOK
<1>6. ASSUME NEW w \in Worker, ApplyFinalStatus(w) PROVE Counted'
  <2> DEFINE r == job[w]
  <2>1. r \in Request /\ refund[w] \in Refund /\ providerId[r] = refund[w]
        /\ amount[w] = refundAmount[r] /\ outcome[w] \in {"processed", "failed"}
        /\ pc[w] = "apply"
    BY <1>6 DEF ApplyFinalStatus, IInv, Applying
  <2>2. CASE refundStatus[r] # "processing"
    BY <1>1, <1>2, <1>6, <2>1, <2>2, CountedStays DEF ApplyFinalStatus, TypeOK
  <2>3. CASE refundStatus[r] = "processing" /\ outcome[w] = "failed"
    <3>1. /\ refundStatus' = [refundStatus EXCEPT ![r] = "failed"]
          /\ UNCHANGED <<refundAmount, refundedAmount, reservedAmount, locals, faults>>
          /\ pc' = [pc EXCEPT ![w] = "release"]
      BY <1>6, <2>3 DEF ApplyFinalStatus
    <3>2. Completed' = Completed
      BY <1>1, <2>3, <3>1 DEF Completed, TypeOK
    <3>3. CompletedSum' = CompletedSum
      BY <3>1, <3>2, CompletedSumStands
    <3>4. QED
      BY <1>1, <2>1, <2>3, <3>1, <3>3, CountedStays DEF TypeOK
  <2>4. CASE refundStatus[r] = "processing" /\ outcome[w] = "processed"
    <3>1. /\ refundStatus' = [refundStatus EXCEPT ![r] = "completed"]
          /\ UNCHANGED <<refundAmount, refundedAmount, reservedAmount, locals, faults>>
          /\ pc' = [pc EXCEPT ![w] = "release"]
      BY <1>6, <2>4 DEF ApplyFinalStatus
    <3>2. refundAmount[r] = reservedAmount /\ \A v \in Worker : ~Owner(v)
      BY <2>1, <2>4, NullAssumption DEF IInv, AwaitsRefund
    <3>3. CompletedSum' = CompletedSum + reservedAmount
      BY <1>1, <2>1, <2>4, <3>1, <3>2, CompletedSumGrows
    <3>4. \A v \in Worker : ~Crediting(v) /\ (Crediting(v)' => v = w)
      BY <1>1, <3>1, <3>2 DEF Owner, Owning, TypeOK
    <3>5. Crediting(w)'
      BY <1>1, <2>4, <3>1 DEF TypeOK
    <3>6. reservedAmount \in Int /\ refundedAmount \in Int /\ reservedAmount >= 0
      BY <1>1, TotalAssumption DEF IInv, LedgerBalanced, TypeOK
    <3>7. QED
      BY <1>1, <3>1, <3>3, <3>4, <3>5, <3>6 DEF Counted
  <2>5. QED
    BY <2>1, <2>2, <2>3, <2>4
<1>7. ASSUME NEW w \in Worker, ReleaseFind(w) PROVE Counted'
  <2>1. refundInProgress = job[w]
    BY <1>7 DEF ReleaseFind, IInv, OwnerHoldsOrder, Owner, Owning
  <2>2. QED
    BY <1>1, <1>2, <1>7, <2>1, CountedStays DEF ReleaseFind, TypeOK
<1>8. ASSUME NEW w \in Worker, ReleaseWrite(w) PROVE Counted'
  <2>1. amount[w] = reservedAmount /\ \A v \in Worker : Crediting(v) => v = w
    BY <1>8 DEF ReleaseWrite, IInv, OwnerHoldsOrder, ExclusiveReservation, Owner, Owning
  <2>2. \A v \in Worker : ~Crediting(v)'
    BY <1>1, <1>8, <2>1 DEF ReleaseWrite, Resume, AfterRelease, TypeOK
  <2>3. CompletedSum' = CompletedSum /\ faults' = faults
    BY <1>2, <1>8 DEF ReleaseWrite
  <2>4. refundedAmount \in Int /\ reservedAmount \in Int
    BY <1>1 DEF TypeOK
  <2>5. CASE outcome[w] = "processed"
    <3>1. refundedAmount' = refundedAmount + reservedAmount
      BY <1>8, <2>1, <2>5 DEF ReleaseWrite
    <3>2. Crediting(w)
      BY <1>8, <2>5 DEF ReleaseWrite
    <3>3. QED
      BY <2>2, <2>3, <3>1, <3>2 DEF Counted
  <2>6. CASE outcome[w] # "processed"
    <3>1. refundedAmount' = refundedAmount
      BY <1>8, <2>4, <2>6 DEF ReleaseWrite
    <3>2. \A v \in Worker : ~Crediting(v)
      BY <2>1, <2>6
    <3>3. QED
      BY <2>2, <2>3, <3>1, <3>2 DEF Counted
  <2>7. QED
    BY <2>5, <2>6
<1>9. ASSUME NEW w \in Worker, StartRefundFind(w) \/ CheckPaid(w) \/ CallRejected(w)
      PROVE Counted'
  BY <1>1, <1>2, <1>9, CountedStays DEF StartRefundFind, CheckPaid, CallRejected, TypeOK
<1>10. ASSUME NEW w \in Worker, ProcessRefund(w) \/ DecideFind(w) PROVE Counted'
  BY <1>1, <1>2, <1>10, CountedStays DEF ProcessRefund, DecideFind, TypeOK
<1>11. ASSUME NEW w \in Worker, Webhook(w) \/ ReconcileRefund(w) PROVE Counted'
  BY <1>1, <1>2, <1>11, CountedStays DEF Webhook, ReconcileRefund, HandleEvent, TypeOK
<1>12. ASSUME NEW w \in Worker, CallAccepted(w) \/ CallTimesOut(w) PROVE Counted'
  BY <1>1, <1>2, <1>12, CountedStays DEF CallAccepted, CallTimesOut, TypeOK
<1>13. ASSUME NEW w \in Worker, SaveProviderId(w) \/ NoteProgress(w) PROVE Counted'
  BY <1>1, <1>2, <1>13, CountedStays DEF SaveProviderId, NoteProgress, TypeOK
<1>14. ASSUME NEW w \in Worker, ReadOrder(w) \/ MarkRefunded(w) \/ CloseOrder(w) \/ RestoreOrder(w)
       PROVE Counted'
  BY <1>1, <1>2, <1>14, CountedStays DEF ReadOrder, MarkRefunded, CloseOrder, RestoreOrder, TypeOK
<1>15. ASSUME NEW w \in Worker, DecideWrite(w) PROVE Counted'
  BY <1>1, <1>2, <1>15, CountedStays DEF DecideWrite, TypeOK
<1>16. ASSUME NEW w \in Worker, Fault(w) PROVE Counted'
  BY <1>1, <1>2, <1>16, CountedAfterFault
     DEF Fault, StartRefundWriteFails, CallErrs, MarkRefundedFails, Abort, TypeOK
<1>17. ASSUME NEW f \in Refund, ProviderSettles(f) PROVE Counted'
  BY <1>1, <1>2, <1>17, CountedStays DEF ProviderSettles
<1>18. QED
  BY <1>3, <1>4, <1>5, <1>6, <1>7, <1>8, <1>9, <1>10, <1>11, <1>12, <1>13, <1>14, <1>15,
     <1>16, <1>17 DEF Next, Continue

\* The ledger never runs ahead of what completed requests add up to, and agrees
\* with it when no event is half applied and no handler was cut off.
THEOREM LedgerAgrees ==
  ASSUME IsFiniteSet(Request) PROVE CleanSpec => []LedgerMatchesRequests
<1>1. Init => Counted
  <2> SUFFICES ASSUME Init PROVE Counted
    OBVIOUS
  <2>1. Completed = {}
    BY DEF Init, Completed
  <2>2. CompletedSum = 0
    BY <2>1, FS_EmptySet, SumUnfolds DEF CompletedSum
  <2>3. QED
    BY <2>2 DEF Init, Counted, Crediting, Releasing
<1>2. IInv /\ TypeOK' /\ Counted /\ [Next /\ Clean']_vars => Counted'
  <2> SUFFICES ASSUME IInv, TypeOK', Counted, [Next /\ Clean']_vars PROVE Counted'
    OBVIOUS
  <2>1. CASE Next
    BY <2>1, CountedStep
  <2>2. CASE UNCHANGED vars
    <3>1. CompletedSum' = CompletedSum
      BY <2>2 DEF vars, requestVars, CompletedSum, Completed
    <3>2. QED
      BY <2>2, <3>1, CountedStays DEF vars, orderVars, locals, Crediting, Releasing
  <2>3. QED
    BY <2>1, <2>2
<1>3. Counted => LedgerMatchesRequests
  BY DEF Counted, LedgerMatchesRequests, CompletedSum, Completed, Crediting, Releasing
<1>4. IInv => TypeOK
  BY DEF IInv
<1>5. QED
  BY Invariance, <1>1, <1>2, <1>3, <1>4, PTL DEF CleanSpec

-----------------------------------------------------------------------------
(***************************************************************************)
(* The clean runs implement RefundLedger.                                  *)
(***************************************************************************)
\* A step of the handlers is a step of the ledger, or leaves it alone.
LEMMA LedgerStep ==
  ASSUME IInv, TypeOK', Next PROVE [Ledger!Next]_(Ledger!ledger)
<1> USE DEF IInv, TypeOK, orderVars, providerVars, Ledger!Next, Ledger!ledger
<1>1. ASSUME NEW w \in Worker, ReserveRefund(w) PROVE [Ledger!Next]_(Ledger!ledger)
  <2>1. CASE CanReserve(amount[w])
    <3>1. pc[w] = "reserve" /\ job[w] \in Request /\ amount[w] \in 1 .. Total
      BY <1>1, TotalAssumption DEF ReserveRefund, Reserving
    <3>2. refundInProgress = NoRequest /\ reservedAmount = 0
      BY <2>1 DEF CanReserve, LedgerBalanced
    <3>3. Ledger!Hold(job[w], amount[w])
      BY <1>1, <2>1, <3>1, <3>2 DEF ReserveRefund, CanReserve, Ledger!Hold
    <3>4. QED
      BY <3>1, <3>3
  <2>2. CASE ~CanReserve(amount[w])
    BY <1>1, <2>2 DEF ReserveRefund
  <2>3. QED
    BY <2>1, <2>2
<1>2. ASSUME NEW w \in Worker, CallAccepted(w) \/ CallErrs(w) \/ CallTimesOut(w)
      PROVE [Ledger!Next]_(Ledger!ledger)
  <2>1. /\ refundInProgress # NoRequest /\ amount[w] = reservedAmount
        /\ paidOut = refundedAmount
    BY <1>2, NullAssumption
       DEF CallAccepted, CallErrs, CallTimesOut, OwnerHoldsOrder, Calling, Owner, Owning
  <2>2. CASE paidOut' = paidOut + amount[w]
    BY <1>2, <2>1, <2>2 DEF CallAccepted, CallErrs, CallTimesOut, Ledger!Pay
  <2>3. CASE UNCHANGED paidOut
    BY <1>2, <2>3 DEF CallAccepted, CallErrs, CallTimesOut
  <2>4. QED
    BY <1>2, <2>2, <2>3 DEF CallAccepted, CallErrs, CallTimesOut, CreateRefund
<1>3. ASSUME NEW w \in Worker, ReleaseWrite(w) PROVE [Ledger!Next]_(Ledger!ledger)
  <2>1. refundInProgress # NoRequest /\ amount[w] = reservedAmount
    BY <1>3, NullAssumption DEF ReleaseWrite, OwnerHoldsOrder, Owner, Owning
  <2>2. CASE outcome[w] = "processed"
    <3>1. paidOut = refundedAmount + reservedAmount
      BY <1>3, <2>2 DEF ReleaseWrite, Ending, Releasing
    <3>2. Ledger!Settle
      BY <1>3, <2>1, <2>2, <3>1 DEF ReleaseWrite, Ledger!Settle
    <3>3. QED
      BY <3>2
  <2>3. CASE outcome[w] # "processed"
    <3>1. paidOut = refundedAmount
      BY <1>3, <2>3 DEF ReleaseWrite, Ending, Releasing
    <3>2. Ledger!GiveBack
      BY <1>3, <2>1, <2>3, <3>1 DEF ReleaseWrite, Ledger!GiveBack
    <3>3. QED
      BY <3>2
  <2>4. QED
    BY <2>2, <2>3
<1>4. ASSUME NEW f \in Refund, ProviderSettles(f) PROVE [Ledger!Next]_(Ledger!ledger)
  <2>1. /\ refundInProgress # NoRequest /\ paidOut = refundedAmount + reservedAmount
        /\ refundSum[f] = reservedAmount
    BY <1>4 DEF ProviderSettles, PendingIsReserved
  <2>2. CASE paidOut' = paidOut - refundSum[f]
    BY <1>4, <2>1, <2>2 DEF ProviderSettles, Ledger!Bounce
  <2>3. CASE UNCHANGED paidOut
    BY <1>4, <2>3 DEF ProviderSettles
  <2>4. QED
    BY <1>4, <2>2, <2>3 DEF ProviderSettles
<1>5. CASE UNCHANGED <<refundInProgress, reservedAmount, refundedAmount, paidOut>>
  BY <1>5
<1>6. QED
  BY <1>1, <1>2, <1>3, <1>4, <1>5
     DEF Next, Continue, Fault, ProcessRefund, StartRefundFind, StartRefundWrite,
         StartRefundWriteFails, CheckPaid, CallRejected, SaveProviderId, MarkFailed,
         ReleaseFind, Webhook, ReconcileRefund, HandleEvent, NoteProgress,
         ApplyFinalStatus, ReadOrder, MarkRefunded, MarkRefundedFails, CloseOrder,
         RestoreOrder, DecideFind, DecideWrite, Abort

\* Seen through the order row and the money, the handlers do what RefundLedger says.
THEOREM Refinement == CleanSpec => LedgerSpec
<1>1. Init => Ledger!Init
  BY DEF Init, Ledger!Init
<1>2. IInv /\ TypeOK' /\ [Next /\ Clean']_vars => [Ledger!Next]_(Ledger!ledger)
  <2> SUFFICES ASSUME IInv, TypeOK', [Next /\ Clean']_vars
               PROVE  [Ledger!Next]_(Ledger!ledger)
    OBVIOUS
  <2>1. CASE Next
    BY <2>1, LedgerStep
  <2>2. CASE UNCHANGED vars
    BY <2>2 DEF vars, orderVars, providerVars, Ledger!ledger
  <2>3. QED
    BY <2>1, <2>2
<1>3. IInv => TypeOK
  BY DEF IInv
<1>4. QED
  BY Invariance, <1>1, <1>2, <1>3, PTL DEF CleanSpec, LedgerSpec, Ledger!Spec
=============================================================================
