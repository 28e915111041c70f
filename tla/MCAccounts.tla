---------------------------- MODULE MCAccounts ----------------------------
(* Small instances of Accounts. *)
EXTENDS Accounts, TLC

CONSTANTS e1, e2, u1, u2, s1, s2, w1, w2, k1, k2

Interchangeable ==
    Permutations(Email) \cup Permutations(User) \cup Permutations(Session)
    \cup Permutations(Worker) \cup Permutations(ClerkId)

\* Bounds the run: a call is cut off, someone signs in, turns on the second factor
\* or may reset a password, one of these at a time, and from then on calls do not
\* overlap, nor do they while a registration is open and an account deleted; a
\* second code is sent only after the first is used, with one account at most and
\* nothing cut off.
Narrow ==
    LET tokens == {u \in User : user[u].token}
        factors == {u \in User : user[u].twoFactor}
        extras == Cardinality(tokens) + Cardinality(factors) + Cardinality(reset)
    IN  /\ extras + faults <= 1
        /\ \/ Cardinality({w \in Worker : ~At(w, "idle")}) <= 1
           \/ /\ Len(codes) < MaxCodes /\ faults = 0 /\ extras = 0
              /\ (\A s \in Session : step[s] = 0) \/ (\A u \in User : ~user[u].deleted)
        /\ Len(codes) = MaxCodes =>
            /\ codes[1].used /\ codes[1].guesses = 0 /\ faults = 0
            /\ \E u \in User : user[u] = None
            /\ \A u \in User : user[u].clerkId = Nil
=============================================================================
