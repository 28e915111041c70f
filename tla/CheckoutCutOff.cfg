CONSTANTS
    a = a  b = b  c1 = c1  c2 = c2  c3 = c3  l1 = l1  l2 = l2  l3 = l3  l4 = l4
    w1 = w1  w2 = w2  k1 = k1  k2 = k2  s1 = s1  s2 = s2  o1 = o1  o2 = o2
    express = express  pickup = pickup
    Cart = {c1}
    Line = {l1}
    Product = {a, b}
    Variant = {b}
    Nil = Nil
    Worker = {w1}
    MaxQuantity = 1
    MaxFaults = 1
    Session = {s1}
    Order = {o1, o2}
    Mode = {express, pickup}
    Pickup = pickup
    Price <- MCPrice
    Fee <- MCFee
    Caller = {k1}
SPECIFICATION Spec
INVARIANT OneOrderPerSession
CHECK_DEADLOCK FALSE
