CONSTANTS
    e1 = e1  e2 = e2  u1 = u1  u2 = u2  s1 = s1  s2 = s2  w1 = w1  w2 = w2
    k1 = k1  k2 = k2
    Email = {e1}
    Worker = {w1}
    Nil = Nil
    User = {u1}
    Session = {s1}
    ClerkId = {k1}
    MaxAttempts = 1
    MaxCodes = 1
    MaxFaults = 0
SPECIFICATION Spec
INVARIANT RefreshAccepted
CHECK_DEADLOCK FALSE
