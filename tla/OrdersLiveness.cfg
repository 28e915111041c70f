CONSTANTS
    c1 = c1  c2 = c2  q1 = q1  q2 = q2  w1 = w1  w2 = w2  w3 = w3
    Charge = {c1, c2}
    Request = {q1}
    Worker = {w1, w2}
    Nil = Nil
    MaxFaults = 1
SPECIFICATION FairSpec
CONSTRAINT Undisturbed
PROPERTY ChargeConfirmsOrder
CHECK_DEADLOCK FALSE
