CONSTANTS
    r1 = r1  r2 = r2  f1 = f1  f2 = f2  f3 = f3  w1 = w1  w2 = w2  w3 = w3
    Request = {r1}
    Cancellation = {}
    Refund = {f1, f2, f3}
    Worker = {w1, w2}
    NoRequest = NoRequest
    NoRefund = NoRefund
    Total = 1
    MaxFaults = 0
SPECIFICATION Spec
SYMMETRY Interchangeable
INVARIANT OneRefundPerRequest
CHECK_DEADLOCK FALSE
