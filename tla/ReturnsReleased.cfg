CONSTANTS
    r1 = r1  r2 = r2  r3 = r3  w1 = w1  w2 = w2  w3 = w3
    Request = {r1, r2}
    Worker = {w1, w2}
    Nil = Nil
    Bought = 2
    MaxFaults = 0
SPECIFICATION Spec
SYMMETRY Interchangeable
INVARIANT ReleasedIsFree
CHECK_DEADLOCK FALSE
