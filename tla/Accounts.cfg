CONSTANTS
    e1 = e1  e2 = e2  u1 = u1  u2 = u2  s1 = s1  s2 = s2  w1 = w1  w2 = w2
    k1 = k1  k2 = k2
    Email = {e1}
    Worker = {w1, w2}
    Nil = Nil
    User = {u1, u2}
    Session = {s1}
    ClerkId = {k1}
    MaxAttempts = 1
    MaxCodes = 2
    MaxFaults = 1
SPECIFICATION Spec
CONSTRAINTS Clean Narrow
SYMMETRY Interchangeable
INVARIANTS VerifiedByCode SignupNotLost EmailNeverLinks
PROPERTY DeletedUntilSignIn
CHECK_DEADLOCK FALSE
