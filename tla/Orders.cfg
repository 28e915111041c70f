CONSTANTS
    c1 = c1  c2 = c2  q1 = q1  q2 = q2  w1 = w1  w2 = w2  w3 = w3
    Charge = {c1}
    Request = {q1, q2}
    Worker = {w1, w2, w3}
    Nil = Nil
    MaxFaults = 1
SPECIFICATION CleanSpec
SYMMETRY Interchangeable
INVARIANTS ConfirmedWasCharged GoodsOrMoney HoldMatchesRequest
PROPERTY ShippedStaysShipped
CHECK_DEADLOCK FALSE
