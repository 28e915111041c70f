CONSTANTS
    r1 = r1  r2 = r2  r3 = r3  w1 = w1  w2 = w2  w3 = w3
    Request = {r1, r2, r3}
    Worker = {w1, w2, w3}
    Nil = Nil
    Bought = 2
    MaxFaults = 2
SPECIFICATION Spec
CONSTRAINT Clean
SYMMETRY Interchangeable
INVARIANTS ReturnsWithinBought OpenIsReserved ApprovedWasReviewed
CHECK_DEADLOCK FALSE
