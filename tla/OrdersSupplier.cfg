CONSTANTS
    c1 = c1  c2 = c2  q1 = q1  q2 = q2  w1 = w1  w2 = w2  w3 = w3
    Charge = {c1}
    Request = {q1}
    Worker = {w1}
    Nil = Nil
    MaxFaults = 0
SPECIFICATION Spec
SYMMETRY Interchangeable
INVARIANT NeverGoodsAndMoney
CHECK_DEADLOCK FALSE
