CONSTANTS
    r1 = r1  r2 = r2  f1 = f1  f2 = f2  f3 = f3  w1 = w1  w2 = w2  w3 = w3
    Request = {r1, r2}
    Cancellation = {r1}
    Refund = {f1, f2}
    Worker = {w1, w2, w3}
    NoRequest = NoRequest
    NoRefund = NoRefund
    Total = 2
    MaxFaults = 1
SPECIFICATION Spec
CONSTRAINT Clean
SYMMETRY Interchangeable
INVARIANTS
    OneRefundPerRequest ExclusiveReservation
    LedgerMatchesRequests RefundedOrderIsPaidBack
PROPERTIES CompletedIsFinal LedgerSpec
CHECK_DEADLOCK FALSE
