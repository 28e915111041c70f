--------------------------- MODULE AccountsProofs ---------------------------
(***************************************************************************)
(* Theorems about Accounts, for any number of calls, users, addresses,     *)
(* sessions, Clerk users, codes and faults.                                *)
(***************************************************************************)
EXTENDS Accounts, TLAPS

-----------------------------------------------------------------------------
(* What holds of a call at each await *)

OnCode == {"useCode", "countAttempt", "retireCode"}
Coding == {"checkCooldown", "invalidate", "insertCode", "findCode"} \cup OnCode
Rests == {"idle", "closeSession", "createAccount", "verifyUser", "verifyLegacy",
          "signIn", "grantReset", "enable", "disable"}
Proving == {"createAccount", "verifyUser", "verifyLegacy"}
NoAddress == {"issueTokens", "refuseRefresh", "setPassword", "createClerkBuyer",
              "reactivate", "sync", "createFromEvent"}
OfUser == {"verifyUser", "verifyLegacy", "insertProfile", "issueTokens", "setPassword",
           "enable", "disable", "reactivate", "sync", "deletePending"}
OfSession == {"createPending", "createAgain", "readAgain", "replacePending",
              "deleteSession", "dropSession", "closeSession"}
OfClerk == {"createClerkBuyer", "createFromEvent", "reactivate", "sync"}

Label == Coding \cup Rests \cup NoAddress \cup OfSession
           \cup {"resend", "deletePending", "createSeller", "insertProfile"}

AnyCall == [at : Label, then : Rests, email : Email \cup {Nil}, purpose : Purpose \cup {Nil},
            code : Nat, user : User \cup {Nil}, session : Session \cup {Nil},
            clerk : ClerkId \cup {Nil}]

\* What a call carries at its await, and after the code it is about.
WellFormed(c) ==
    /\ c \in AnyCall
    /\ c.then # "idle" => c.at \in Coding
    /\ c.at \in Coding => c.purpose \in Purpose
    /\ c.at \notin NoAddress => c.email \in Email
    /\ c.at \in OfUser \/ c.then \in OfUser => c.user # Nil
    /\ c.at \in OfSession \/ c.then = "closeSession" => c.session # Nil
    /\ c.at \in OfClerk => c.clerk # Nil
    /\ c.clerk # Nil => c.at \in OfClerk \cup {"issueTokens"}
    /\ c.then \in Proving =>
         c.purpose = "email_verification" /\ c.at \in {"findCode"} \cup OnCode

\* A code that was sent to the address has been accepted.
Accepted(e) == \E i \in Sent(e, "email_verification") : codes[i].accepted > 0

\* What the call has read and is still so: the code is one for its address,
\* the user exists, the details of the session are given, the Clerk user was
\* let in to the account, a user it verifies has its address or was changed by
\* Clerk, and an address is proved before an account is made or verified.
Grounded(c) ==
    /\ c.at \in OnCode =>
         /\ c.code \in DOMAIN codes
         /\ codes[c.code].email = c.email /\ codes[c.code].purpose = c.purpose
    /\ c.user # Nil => user[c.user].kind # "none"
    /\ c.session # Nil => step[c.session] >= 2
    /\ c.user # Nil /\ c.clerk # Nil => c.clerk \in owners[c.user]
    /\ c.at \in {"verifyUser", "verifyLegacy"} \/ c.then \in {"verifyUser", "verifyLegacy"} =>
         user[c.user].email = c.email \/ owners[c.user] # {}
    /\ c.at \in Proving => Accepted(c.email)

Sound(c) == c = Idle \/ (WellFormed(c) /\ Grounded(c))

CallsSound == call \in [Worker -> {Idle} \cup AnyCall] /\ \A w \in Worker : Sound(call[w])

-----------------------------------------------------------------------------
(* The invariant *)

Tables ==
    /\ codes \in Seq(CodeRow) /\ faults \in Nat
    /\ user \in [User -> Account]
    /\ step \in [Session -> 0 .. 3]
    /\ signup \in [Session -> Email \cup {Nil}]
    /\ pending \subseteq Email /\ reset \subseteq Email /\ saved \subseteq Email
    /\ owners \in [User -> SUBSET ClerkId]
    /\ \A s \in Session : step[s] >= 1 => signup[s] \in Email

\* A row that is not there is empty; a Clerk user stands in a row only if it
\* was let in; and an address nobody's Clerk user brought is proved.
Backed(u) ==
    /\ user[u].deleted \/ user[u].clerkId # Nil \/ user[u].verified => user[u].kind # "none"
    /\ user[u].clerkId # Nil => user[u].clerkId \in owners[u]
    /\ user[u].verified /\ owners[u] = {} => Accepted(user[u].email)

AccountsInv == Tables /\ CallsSound /\ \A u \in User : Backed(u)

LEMMA RowType ==
  ASSUME Tables
  PROVE  /\ Len(codes) \in Nat /\ DOMAIN codes = 1 .. Len(codes)
         /\ \A i \in DOMAIN codes : i \in Nat /\ codes[i] \in CodeRow
  BY DEF Tables

\* The type invariant follows.
LEMMA InvIsTyped == AccountsInv => TypeOK
<1> SUFFICES ASSUME AccountsInv PROVE TypeOK
  OBVIOUS
<1>1. Tables /\ CallsSound
  BY DEF AccountsInv
<1>2. ASSUME NEW w \in Worker, call[w].at # "idle"
      PROVE  WellFormed(call[w]) /\ Grounded(call[w])
  BY <1>1, <1>2 DEF CallsSound, Sound, Idle
<1>3. ASSUME NEW w \in Worker,
             call[w].at \in {"checkCooldown", "invalidate", "insertCode", "findCode"}
      PROVE  call[w].email \in Email /\ call[w].purpose \in Purpose
  BY <1>2, <1>3 DEF WellFormed, Coding, NoAddress
<1>4. ASSUME NEW w \in Worker, call[w].at \in OnCode PROVE call[w].code \in DOMAIN codes
  BY <1>2, <1>4 DEF Grounded, OnCode
<1>5. CodesTypeOK
  BY <1>1, <1>3, <1>4 DEF CodesTypeOK, Tables, OnCode
<1>6. ASSUME NEW w \in Worker,
             call[w].at \in {"verifyUser", "verifyLegacy", "insertProfile", "issueTokens",
                             "setPassword", "enable", "disable", "reactivate", "sync"}
      PROVE  user[call[w].user].kind # "none"
  <2>1. call[w].user # Nil
    BY <1>2, <1>6 DEF WellFormed, OfUser
  <2>2. QED
    BY <1>2, <1>6, <2>1 DEF Grounded
<1>7. ASSUME NEW w \in Worker, call[w].at \in {"deleteSession", "dropSession", "closeSession"}
      PROVE  step[call[w].session] >= 2
  <2>1. call[w].session # Nil
    BY <1>2, <1>7 DEF WellFormed, OfSession
  <2>2. QED
    BY <1>2, <1>7, <2>1 DEF Grounded
<1>8. QED
  BY <1>1, <1>5, <1>6, <1>7 DEF TypeOK, Tables

LEMMA MemberType ==
  ASSUME NEW e \in Email
  PROVE  /\ Buyer(e) \in Account /\ Member("buyer", e) \in Account /\ Member("seller", e) \in Account
         /\ Buyer(e).kind = "buyer" /\ Buyer(e).email = e /\ Buyer(e).clerkId = Nil
         /\ Member("seller", e).kind = "seller" /\ Member("seller", e).clerkId = Nil
         /\ ~Member("seller", e).verified /\ ~Member("seller", e).deleted
         /\ ~Member("buyer", e).verified /\ ~Member("buyer", e).deleted /\ ~Buyer(e).deleted
         /\ Member("buyer", e).kind = "buyer" /\ Member("buyer", e).clerkId = Nil
  BY DEF Buyer, Member, None, Account

LEMMA NoneType == None \in Account /\ None.kind = "none" /\ ~None.deleted /\ ~None.verified /\ None.clerkId = Nil
  BY DEF None, Account

LEMMA InitInv == Init => AccountsInv
<1> SUFFICES ASSUME Init PROVE AccountsInv
  OBVIOUS
<1>1. \A u \in User : user[u] = None \/ \E e \in Email : user[u] = Member("buyer", e)
  BY DEF Init
<1>2. user \in [User -> Account]
  BY MemberType, NoneType DEF Init
<1>3. codes \in Seq(CodeRow) /\ faults \in Nat
  BY DEF Init, CodesInit, CallsInit
<1>4. Tables
  BY <1>2, <1>3 DEF Init, Tables
<1>5. CallsSound
  BY DEF Init, CodesInit, CallsInit, CallsSound, Sound
<1>6. \A u \in User : Backed(u)
  BY <1>1, MemberType, NoneType DEF Backed
<1>7. QED
  BY <1>4, <1>5, <1>6 DEF AccountsInv

-----------------------------------------------------------------------------
(* What a call has read stays so: each table only grows *)

RowsGrow ==
    /\ DOMAIN codes \subseteq DOMAIN codes'
    /\ \A i \in DOMAIN codes :
         /\ codes'[i].email = codes[i].email /\ codes'[i].purpose = codes[i].purpose
         /\ codes'[i].accepted >= codes[i].accepted

UsersGrow == \A u \in User :
    /\ owners[u] \subseteq owners'[u]
    /\ user[u].kind # "none" =>
         user'[u].kind # "none" /\ (user'[u].email = user[u].email \/ owners'[u] # {})

StepsGrow == \A s \in Session : step[s] >= 2 => step'[s] >= 2

LEMMA RowsSame == ASSUME Tables, UNCHANGED codes PROVE RowsGrow
  BY RowType DEF RowsGrow, CodeRow

LEMMA UsersSame == ASSUME UNCHANGED <<user, owners>> PROVE UsersGrow
  BY DEF UsersGrow

LEMMA StepsSame == ASSUME UNCHANGED step PROVE StepsGrow
  BY DEF StepsGrow

LEMMA StaysAccepted ==
  ASSUME Tables, Tables', RowsGrow, NEW e, Accepted(e)
  PROVE  Accepted(e)'
<1>1. PICK i \in DOMAIN codes : /\ codes[i].email = e /\ codes[i].purpose = "email_verification"
                                /\ codes[i].accepted > 0
  BY DEF Accepted, Sent
<1>2. /\ i \in DOMAIN codes' /\ codes'[i].email = e /\ codes'[i].purpose = "email_verification"
      /\ codes'[i].accepted >= codes[i].accepted
  BY <1>1 DEF RowsGrow
<1>3. codes[i].accepted \in Nat
  BY RowType DEF CodeRow
<1>4. codes'[i] \in CodeRow
  BY <1>2 DEF Tables
<1>5. codes'[i].accepted > 0
  BY <1>1, <1>2, <1>3, <1>4 DEF CodeRow
<1>6. QED
  BY <1>2, <1>5 DEF Accepted, Sent

LEMMA StaysSound ==
  ASSUME Tables, Tables', RowsGrow, UsersGrow, StepsGrow, NEW c, Sound(c)
  PROVE  Sound(c)'
<1>1. CASE c = Idle
  BY <1>1 DEF Sound
<1>2. CASE WellFormed(c) /\ Grounded(c)
  <2>1. /\ c.user \in User \cup {Nil} /\ c.session \in Session \cup {Nil}
        /\ c.at \in {"verifyUser", "verifyLegacy"} \/ c.then \in {"verifyUser", "verifyLegacy"}
             => c.user # Nil
    BY <1>2 DEF WellFormed, AnyCall, OfUser
  <2>2. c.at \in OnCode =>
          /\ c.code \in DOMAIN codes'
          /\ codes'[c.code].email = c.email /\ codes'[c.code].purpose = c.purpose
    BY <1>2 DEF Grounded, RowsGrow
  <2>3. c.user # Nil => user'[c.user].kind # "none"
    BY <1>2, <2>1 DEF Grounded, UsersGrow
  <2>4. c.session # Nil => step'[c.session] >= 2
    BY <1>2, <2>1 DEF Grounded, StepsGrow
  <2>5. c.user # Nil /\ c.clerk # Nil => c.clerk \in owners'[c.user]
    BY <1>2, <2>1 DEF Grounded, UsersGrow
  <2>6. c.at \in {"verifyUser", "verifyLegacy"} \/ c.then \in {"verifyUser", "verifyLegacy"} =>
          user'[c.user].email = c.email \/ owners'[c.user] # {}
    <3> SUFFICES ASSUME c.at \in {"verifyUser", "verifyLegacy"} \/ c.then \in {"verifyUser", "verifyLegacy"}
                 PROVE  user'[c.user].email = c.email \/ owners'[c.user] # {}
      OBVIOUS
    <3>1. c.user \in User /\ user[c.user].kind # "none"
      BY <1>2, <2>1 DEF Grounded
    <3>2. user[c.user].email = c.email \/ owners[c.user] # {}
      BY <1>2 DEF Grounded
    <3>3. QED
      BY <3>1, <3>2 DEF UsersGrow
  <2>7. c.at \in Proving => Accepted(c.email)'
    BY <1>2, StaysAccepted DEF Grounded
  <2>8. Grounded(c)'
    BY <2>2, <2>3, <2>4, <2>5, <2>6, <2>7 DEF Grounded
  <2>9. QED
    BY <1>2, <2>8 DEF Sound
<1>3. QED
  BY <1>1, <1>2 DEF Sound

LEMMA StaysBacked ==
  ASSUME Tables, Tables', RowsGrow, NEW u \in User, Backed(u),
         user'[u].kind = user[u].kind, user'[u].clerkId = user[u].clerkId,
         user'[u].email = user[u].email, user'[u].verified = user[u].verified,
         user'[u].deleted => user[u].kind # "none",
         owners[u] \subseteq owners'[u]
  PROVE  Backed(u)'
<1>1. PICK e : e = user[u].email
  OBVIOUS
<1>2. Accepted(e) => Accepted(e)'
  BY StaysAccepted
<1>3. QED
  BY <1>1, <1>2 DEF Backed

-----------------------------------------------------------------------------
(* One call moves on *)

LEMMA Moves ==
  ASSUME AccountsInv, Tables', RowsGrow, UsersGrow, StepsGrow, \A u \in User : Backed(u)',
         NEW w \in Worker, NEW c, Become(w, c), Sound(c)'
  PROVE  AccountsInv'
<1>1. Tables /\ CallsSound
  BY DEF AccountsInv
<1>2. call' = [call EXCEPT ![w] = c] /\ call \in [Worker -> {Idle} \cup AnyCall]
  BY <1>1 DEF CallsSound, Become
<1>3. c \in {Idle} \cup AnyCall
  BY DEF Sound, WellFormed
<1>4. ASSUME NEW v \in Worker PROVE Sound(call[v])'
  <2>1. CASE v = w
    BY <1>2, <2>1
  <2>2. CASE v # w
    <3>1. PICK d : d = call[v]
      OBVIOUS
    <3>2. Sound(d) /\ call'[v] = d
      BY <1>1, <1>2, <2>2, <3>1 DEF CallsSound
    <3>3. Sound(d)'
      BY <1>1, <3>2, StaysSound
    <3>4. QED
      BY <3>2, <3>3
  <2>3. QED
    BY <2>1, <2>2
<1>5. CallsSound'
  BY <1>2, <1>3, <1>4 DEF CallsSound
<1>6. QED
  BY <1>5 DEF AccountsInv

\* ... or none does.
LEMMA CallsStay ==
  ASSUME AccountsInv, Tables', RowsGrow, UsersGrow, StepsGrow, \A u \in User : Backed(u)',
         UNCHANGED call
  PROVE  AccountsInv'
<1>1. Tables /\ CallsSound
  BY DEF AccountsInv
<1>2. ASSUME NEW v \in Worker PROVE Sound(call[v])'
  <2>1. PICK d : d = call[v]
    OBVIOUS
  <2>2. Sound(d) /\ call'[v] = d
    BY <1>1, <2>1 DEF CallsSound
  <2>3. Sound(d)'
    BY <1>1, <2>2, StaysSound
  <2>4. QED
    BY <2>2, <2>3
<1>3. CallsSound'
  BY <1>1, <1>2 DEF CallsSound
<1>4. QED
  BY <1>3 DEF AccountsInv

\* Nothing but the call changes.
LEMMA TablesSame ==
  ASSUME AccountsInv, UNCHANGED <<accountVars, codes, faults>>
  PROVE  Tables' /\ RowsGrow /\ UsersGrow /\ StepsGrow /\ \A u \in User : Backed(u)'
<1>1. /\ UNCHANGED <<user, step, signup, pending, reset, saved, owners>>
      /\ UNCHANGED codes /\ UNCHANGED faults /\ UNCHANGED <<user, owners>>
  BY DEF accountVars
<1>2. Tables /\ \A u \in User : Backed(u)
  BY DEF AccountsInv
<1>3. Tables'
  BY <1>1, <1>2 DEF Tables
<1>4. \A u \in User : Backed(u)'
  BY <1>1, <1>2 DEF Backed, Accepted, Sent
<1>5. QED
  BY <1>1, <1>2, <1>3, <1>4, RowsSame, UsersSame, StepsSame

LEMMA OnlyMoves ==
  ASSUME AccountsInv, UNCHANGED <<accountVars, codes, faults>>,
         NEW w \in Worker, NEW c, Become(w, c), Sound(c)
  PROVE  AccountsInv'
<1>1. Sound(c)'
  BY TablesSame, StaysSound DEF AccountsInv
<1>2. QED
  BY <1>1, TablesSame, Moves

LEMMA IdleSound == Sound(Idle) /\ Sound(Idle)'
  BY DEF Sound

\* What a call that is under way is known to carry.
LEMMA Holding ==
  ASSUME AccountsInv, NEW w \in Worker, call[w].at # "idle"
  PROVE  WellFormed(call[w]) /\ Grounded(call[w]) /\ Tables
  BY DEF AccountsInv, CallsSound, Sound, Idle

-----------------------------------------------------------------------------
(* The calls that requests begin *)

LEMMA SendingSound ==
  ASSUME NEW e \in Email, NEW p \in Purpose
  PROVE  Sound(Sending(e, p, "idle"))
<1> DEFINE c == Sending(e, p, "idle")
<1>1. /\ c.at = "checkCooldown" /\ c.then = "idle" /\ c.email = e /\ c.purpose = p
      /\ c.user = Nil /\ c.session = Nil /\ c.clerk = Nil
  BY DEF Sending, NewCall
<1>5. c \in AnyCall
  BY DEF Sending, NewCall, AnyCall, Label, Coding, Rests
<1> HIDE DEF c
<1>2. WellFormed(c)
  BY <1>1, <1>5 DEF WellFormed, Coding, OnCode, NoAddress, OfUser, OfSession, OfClerk, Proving
<1>3. Grounded(c)
  BY <1>1 DEF Grounded, OnCode, Proving
<1>4. QED
  BY <1>2, <1>3 DEF Sound, c

\* A code is to be verified: for an account to be made, for a user that has
\* the address, or for whoever it is afterwards.
LEMMA VerifyingSound ==
  ASSUME NEW e \in Email, NEW p \in Purpose, NEW next \in Rests \ {"closeSession"},
         NEW u \in User \cup {Nil}, u # Nil => user[u].kind # "none",
         next \in OfUser => u # Nil,
         next \in Proving => p = "email_verification",
         next \in {"verifyUser", "verifyLegacy"} => user[u].email = e
  PROVE  Sound(Verifying(e, p, next, u))
<1> DEFINE c == Verifying(e, p, next, u)
<1>1. /\ c.at = "findCode" /\ c.then = next /\ c.email = e /\ c.purpose = p
      /\ c.user = u /\ c.session = Nil /\ c.clerk = Nil
  BY DEF Verifying, NewCall
<1>5. c \in AnyCall
  BY DEF Verifying, NewCall, AnyCall, Label, Coding, Rests
<1> HIDE DEF c
<1>2. WellFormed(c)
  BY <1>1, <1>5 DEF WellFormed, Coding, OnCode, NoAddress, OfUser, OfSession, OfClerk, Proving
<1>3. Grounded(c)
  BY <1>1 DEF Grounded, OnCode, Proving
<1>4. QED
  BY <1>2, <1>3 DEF Sound, c

LEMMA SigningSound ==
  ASSUME NEW u \in User, user[u].kind # "none", NEW k \in ClerkId \cup {Nil},
         k # Nil => k \in owners[u]
  PROVE  Sound(SigningIn(u, k))
<1> DEFINE c == SigningIn(u, k)
<1>1. /\ c.at = "issueTokens" /\ c.then = "idle"
      /\ c.user = u /\ c.session = Nil /\ c.clerk = k
  BY DEF SigningIn, NewCall
<1>c. c \in AnyCall
  BY DEF SigningIn, NewCall, AnyCall, Label, NoAddress, Rests
<1>2. u # Nil
  BY AccountNilAssumption
<1> HIDE DEF c
<1>3. WellFormed(c)
  BY <1>1, <1>2, <1>c DEF WellFormed, Coding, OnCode, NoAddress, OfUser, OfSession, OfClerk, Proving
<1>4. Grounded(c)
  BY <1>1 DEF Grounded, OnCode, Proving
<1>5. QED
  BY <1>3, <1>4 DEF Sound, c

\* A call that stands before no code, and has none in hand.
LEMMA PlainSound ==
  ASSUME NEW c \in AnyCall, c.then = "idle", c.at \notin Coding \cup Proving,
         c.at \notin NoAddress => c.email \in Email,
         c.at \in OfUser => c.user # Nil,
         c.at \in OfSession => c.session # Nil,
         c.at \in OfClerk => c.clerk # Nil,
         c.clerk # Nil => c.at \in OfClerk \cup {"issueTokens"},
         c.user # Nil => user[c.user].kind # "none",
         c.session # Nil => step[c.session] >= 2,
         c.user # Nil /\ c.clerk # Nil => c.clerk \in owners[c.user]
  PROVE  Sound(c)
<1>1. WellFormed(c)
  BY DEF WellFormed, Rests, Proving, OfUser
<1>2. Grounded(c)
  BY DEF Grounded, Coding, Proving
<1>3. QED
  BY <1>1, <1>2 DEF Sound

-----------------------------------------------------------------------------
(* Requests that only read, and begin a call *)

LEMMA LiveType ==
  ASSUME AccountsInv, NEW u \in User, Live(u)
  PROVE  /\ user[u].kind # "none" /\ u # Nil /\ user[u].email \in Email \cup {Nil}
         /\ user[u].email # Nil => user[u].email \in Email
  BY AccountNilAssumption DEF AccountsInv, Tables, Live, Account

LEMMA BeginsCode == ASSUME AccountsInv, NEW w \in Worker,
    \/ ResendVerificationOtp(w) \/ RequestOtp(w) \/ VerifyOtp(w)
    \/ ForgotPassword(w) \/ ForgotPasswordVerify(w)
    \/ Initiate2faEnable(w) \/ Confirm2faEnable(w) \/ Disable2fa(w)
  PROVE AccountsInv'
<1> USE DEF Begin
<1>1. UNCHANGED <<accountVars, codes, faults>>
  BY DEF ResendVerificationOtp, RequestOtp, VerifyOtp, ForgotPassword, ForgotPasswordVerify,
         Initiate2faEnable, Confirm2faEnable, Disable2fa
<1>2. ASSUME NEW e \in Email, NEW p \in Purpose, Become(w, Sending(e, p, "idle"))
      PROVE  AccountsInv'
  BY <1>1, <1>2, SendingSound, OnlyMoves
<1>3. ASSUME NEW e \in Email, NEW p \in Purpose, NEW next \in {"signIn", "grantReset"},
             Become(w, Verifying(e, p, next, Nil))
      PROVE  AccountsInv'
  <2>1. Sound(Verifying(e, p, next, Nil))
    BY VerifyingSound DEF Rests, OfUser, Proving
  <2>2. QED
    BY <1>1, <1>3, <2>1, OnlyMoves
<1>4. ASSUME NEW u \in User, Addressed(u), NEW next \in {"enable", "disable"},
             Become(w, Verifying(user[u].email, "login_2fa", next, u))
      PROVE  AccountsInv'
  <2>1. user[u].email \in Email /\ user[u].kind # "none" /\ u # Nil
    BY <1>4, LiveType DEF Addressed
  <2>2. Sound(Verifying(user[u].email, "login_2fa", next, u))
    BY <2>1, VerifyingSound DEF Rests, OfUser, Proving, Purpose
  <2>3. QED
    BY <1>1, <1>4, <2>2, OnlyMoves
<1>5. ASSUME NEW u \in User, Addressed(u), NEW p \in Purpose,
             Become(w, Sending(user[u].email, p, "idle"))
      PROVE  AccountsInv'
  BY <1>2, <1>5, LiveType DEF Addressed
<1>6. {"email_verification", "login_2fa", "password_reset"} \subseteq Purpose
  BY DEF Purpose
<1>7. CASE ResendVerificationOtp(w)
  BY <1>2, <1>6, <1>7 DEF ResendVerificationOtp
<1>8. CASE RequestOtp(w)
  BY <1>5, <1>6, <1>8 DEF RequestOtp
<1>9. CASE VerifyOtp(w)
  BY <1>3, <1>6, <1>9 DEF VerifyOtp
<1>10. CASE ForgotPassword(w)
  BY <1>5, <1>6, <1>10 DEF ForgotPassword
<1>11. CASE ForgotPasswordVerify(w)
  BY <1>3, <1>6, <1>11 DEF ForgotPasswordVerify
<1>12. CASE Initiate2faEnable(w)
  BY <1>5, <1>6, <1>12 DEF Initiate2faEnable
<1>13. CASE Confirm2faEnable(w)
  BY <1>4, <1>13 DEF Confirm2faEnable
<1>14. CASE Disable2fa(w)
  BY <1>4, <1>14 DEF Disable2fa
<1>15. QED
  BY <1>7, <1>8, <1>9, <1>10, <1>11, <1>12, <1>13, <1>14

LEMMA BeginsSignup == ASSUME AccountsInv, NEW w \in Worker,
    RegisterPassword(w) \/ RegisterSellerPassword(w) \/ OnboardPublic(w)
  PROVE AccountsInv'
<1> USE DEF Begin
<1>1. UNCHANGED <<accountVars, codes, faults>>
  BY DEF RegisterPassword, RegisterSellerPassword, OnboardPublic
<1>2. ASSUME NEW c \in AnyCall, Become(w, c), c.email \in Email, c.then = "idle",
             c.at \in {"dropSession", "createPending", "createSeller"},
             c.at # "createSeller" => c.session # Nil, c.session # Nil => step[c.session] >= 2,
             c.user = Nil, c.clerk = Nil
      PROVE  AccountsInv'
  <2>1. Sound(c)
    BY <1>2, PlainSound DEF Coding, OnCode, Proving, NoAddress, OfUser, OfSession, OfClerk
  <2>2. QED
    BY <1>1, <1>2, <2>1, OnlyMoves
<1>3. ASSUME NEW s \in Session, ValidateStep(s)
      PROVE  s # Nil /\ step[s] >= 2 /\ signup[s] \in Email
  BY <1>3, AccountNilAssumption DEF AccountsInv, Tables, ValidateStep
<1>4. CASE RegisterPassword(w)
  <2>1. PICK s \in Session :
          /\ ValidateStep(s)
          /\ Become(w, [NewCall EXCEPT !.session = s, !.email = signup[s],
                          !.at = IF signup[s] \in pending THEN "dropSession" ELSE "createPending"])
    BY <1>4 DEF RegisterPassword
  <2> DEFINE c == [NewCall EXCEPT !.session = s, !.email = signup[s],
                     !.at = IF signup[s] \in pending THEN "dropSession" ELSE "createPending"]
  <2>2. /\ c.at \in {"dropSession", "createPending"} /\ c.then = "idle" /\ c.email = signup[s]
        /\ c.session = s /\ c.user = Nil /\ c.clerk = Nil
    BY DEF NewCall
  <2>3. c \in AnyCall
    BY <1>3, <2>1 DEF NewCall, AnyCall, Label, OfSession, Rests
  <2>4. Become(w, c)
    BY <2>1
  <2> HIDE DEF c
  <2>5. QED
    BY <1>2, <1>3, <2>1, <2>2, <2>3, <2>4
<1>5. CASE RegisterSellerPassword(w)
  <2>1. PICK s \in Session :
          /\ ValidateStep(s)
          /\ Become(w, [NewCall EXCEPT !.at = "createSeller", !.session = s, !.email = signup[s]])
    BY <1>5 DEF RegisterSellerPassword
  <2> DEFINE c == [NewCall EXCEPT !.at = "createSeller", !.session = s, !.email = signup[s]]
  <2>2. /\ c.at = "createSeller" /\ c.then = "idle" /\ c.email = signup[s]
        /\ c.session = s /\ c.user = Nil /\ c.clerk = Nil
    BY DEF NewCall
  <2>3. c \in AnyCall
    BY <1>3, <2>1 DEF NewCall, AnyCall, Label, OfSession, Rests
  <2>4. Become(w, c)
    BY <2>1
  <2> HIDE DEF c
  <2>5. QED
    BY <1>2, <1>3, <2>1, <2>2, <2>3, <2>4
<1>6. CASE OnboardPublic(w)
  <2>1. PICK e \in Email : Become(w, [NewCall EXCEPT !.at = "createSeller", !.email = e])
    BY <1>6 DEF OnboardPublic
  <2> DEFINE c == [NewCall EXCEPT !.at = "createSeller", !.email = e]
  <2>2. /\ c.at = "createSeller" /\ c.then = "idle" /\ c.email = e
        /\ c.session = Nil /\ c.user = Nil /\ c.clerk = Nil
    BY DEF NewCall
  <2>3. c \in AnyCall
    BY DEF NewCall, AnyCall, Label, OfSession, Rests
  <2>4. Become(w, c)
    BY <2>1
  <2> HIDE DEF c
  <2>5. QED
    BY <1>2, <2>2, <2>3, <2>4
<1>7. QED
  BY <1>4, <1>5, <1>6

LEMMA BeginsVerify == ASSUME AccountsInv, NEW w \in Worker, VerifyEmail(w) PROVE AccountsInv'
<1> USE DEF Begin
<1>1. UNCHANGED <<accountVars, codes, faults>>
  BY DEF VerifyEmail
<1>2. "email_verification" \in Purpose
  BY DEF Purpose
<1>3. ASSUME NEW e \in Email, Become(w, Verifying(e, "email_verification", "createAccount", Nil))
      PROVE  AccountsInv'
  <2>1. Sound(Verifying(e, "email_verification", "createAccount", Nil))
    BY <1>2, VerifyingSound DEF Rests, OfUser, Proving
  <2>2. QED
    BY <1>1, <1>3, <2>1, OnlyMoves
<1>4. ASSUME NEW e \in Email, NEW u \in ByEmail(e) PROVE u \in User /\ Live(u) /\ user[u].email = e
  BY DEF ByEmail
<1>5. ASSUME NEW e \in Email, NEW u \in ByEmail(e), NEW next \in {"verifyUser", "verifyLegacy"},
             Become(w, Verifying(e, "email_verification", next, u))
      PROVE  AccountsInv'
  <2>1. u \in User /\ user[u].email = e /\ user[u].kind # "none" /\ u # Nil
    BY <1>4, LiveType
  <2>2. Sound(Verifying(e, "email_verification", next, u))
    BY <1>2, <2>1, VerifyingSound DEF Rests, OfUser, Proving
  <2>3. QED
    BY <1>1, <1>5, <2>2, OnlyMoves
<1>6. ASSUME NEW e \in Email, NEW u \in ByEmail(e),
             Become(w, [NewCall EXCEPT !.at = "deletePending", !.email = e, !.user = u])
      PROVE  AccountsInv'
  <2> DEFINE c == [NewCall EXCEPT !.at = "deletePending", !.email = e, !.user = u]
  <2>1. u \in User /\ user[u].kind # "none" /\ u # Nil
    BY <1>4, LiveType
  <2>2. /\ c.at = "deletePending" /\ c.then = "idle" /\ c.email = e
        /\ c.session = Nil /\ c.user = u /\ c.clerk = Nil
    BY DEF NewCall
  <2>3. c \in AnyCall
    BY <2>1 DEF NewCall, AnyCall, Label, Rests
  <2>4. Become(w, c)
    BY <1>6
  <2> HIDE DEF c
  <2>5. Sound(c)
    BY <2>1, <2>2, <2>3, PlainSound
    DEF Coding, OnCode, Proving, NoAddress, OfUser, OfSession, OfClerk
  <2>6. QED
    BY <1>1, <2>4, <2>5, OnlyMoves
<1>7. PICK e \in Email :
        \/ Become(w, Verifying(e, "email_verification", "createAccount", Nil))
        \/ \E u \in ByEmail(e) :
             Become(w, IF user[u].verified
                       THEN [NewCall EXCEPT !.at = "deletePending", !.email = e, !.user = u]
                       ELSE Verifying(e, "email_verification", "verifyLegacy", u))
        \/ \E u \in ByEmail(e) : Become(w, Verifying(e, "email_verification", "verifyUser", u))
  BY DEF VerifyEmail, VerifyOfUser
<1>8. ASSUME NEW u \in ByEmail(e),
             Become(w, IF user[u].verified
                       THEN [NewCall EXCEPT !.at = "deletePending", !.email = e, !.user = u]
                       ELSE Verifying(e, "email_verification", "verifyLegacy", u))
      PROVE  AccountsInv'
  <2>1. CASE user[u].verified
    BY <1>6, <1>8, <2>1
  <2>2. CASE ~user[u].verified
    BY <1>5, <1>8, <2>2
  <2>3. QED
    BY <2>1, <2>2
<1>9. QED
  BY <1>3, <1>5, <1>7, <1>8

LEMMA BeginsOfUser == ASSUME AccountsInv, NEW w \in Worker,
    \/ Login(w) \/ RefreshTokens(w) \/ ForgotPasswordReset(w) \/ ChangePassword(w)
  PROVE AccountsInv'
<1> USE DEF Begin
<1>1. UNCHANGED <<accountVars, codes, faults>>
  BY DEF Login, RefreshTokens, ForgotPasswordReset, ChangePassword
<1>2. ASSUME NEW u \in User, Live(u), Become(w, SigningIn(u, Nil)) PROVE AccountsInv'
  <2>1. Sound(SigningIn(u, Nil))
    BY <1>2, LiveType, SigningSound
  <2>2. QED
    BY <1>1, <1>2, <2>1, OnlyMoves
<1>3. ASSUME NEW u \in User, Live(u), Become(w, [NewCall EXCEPT !.at = "setPassword", !.user = u])
      PROVE  AccountsInv'
  <2> DEFINE c == [NewCall EXCEPT !.at = "setPassword", !.user = u]
  <2>1. user[u].kind # "none" /\ u # Nil
    BY <1>3, LiveType
  <2>2. /\ c.at = "setPassword" /\ c.then = "idle" /\ c.session = Nil /\ c.user = u /\ c.clerk = Nil
    BY DEF NewCall
  <2>3. c \in AnyCall
    BY <2>1 DEF NewCall, AnyCall, Label, NoAddress, Rests
  <2>4. Become(w, c)
    BY <1>3
  <2> HIDE DEF c
  <2>5. Sound(c)
    BY <2>1, <2>2, <2>3, PlainSound
    DEF Coding, OnCode, Proving, NoAddress, OfUser, OfSession, OfClerk
  <2>6. QED
    BY <1>1, <2>4, <2>5, OnlyMoves
<1>4. ASSUME Become(w, [NewCall EXCEPT !.at = "refuseRefresh"]) PROVE AccountsInv'
  <2> DEFINE c == [NewCall EXCEPT !.at = "refuseRefresh"]
  <2>2. /\ c.at = "refuseRefresh" /\ c.then = "idle" /\ c.session = Nil /\ c.user = Nil /\ c.clerk = Nil
    BY DEF NewCall
  <2>3. c \in AnyCall
    BY DEF NewCall, AnyCall, Label, NoAddress, Rests
  <2>4. Become(w, c)
    BY <1>4
  <2> HIDE DEF c
  <2>5. Sound(c)
    BY <2>2, <2>3, PlainSound DEF Coding, OnCode, Proving, NoAddress, OfUser, OfSession, OfClerk
  <2>6. QED
    BY <1>1, <2>4, <2>5, OnlyMoves
<1>5. CASE Login(w)
  <2>1. PICK u \in User :
          /\ Addressed(u)
          /\ Become(w, IF user[u].twoFactor THEN Sending(user[u].email, "login_2fa", "idle")
                       ELSE SigningIn(u, Nil))
    BY <1>5 DEF Login
  <2>2. CASE user[u].twoFactor
    <3>1. user[u].email \in Email /\ "login_2fa" \in Purpose
      BY <2>1, LiveType DEF Addressed, Purpose
    <3>2. Sound(Sending(user[u].email, "login_2fa", "idle"))
      BY <3>1, SendingSound
    <3>3. QED
      BY <1>1, <2>1, <2>2, <3>2, OnlyMoves
  <2>3. CASE ~user[u].twoFactor
    BY <1>2, <2>1, <2>3 DEF Addressed
  <2>4. QED
    BY <2>2, <2>3
<1>6. CASE RefreshTokens(w)
  <2>1. PICK u \in User :
          /\ Live(u)
          /\ Become(w, IF ToUser(u).token THEN SigningIn(u, Nil)
                       ELSE [NewCall EXCEPT !.at = "refuseRefresh"])
    BY <1>6 DEF RefreshTokens
  <2>2. QED
    BY <1>2, <1>4, <2>1
<1>7. CASE ForgotPasswordReset(w)
  BY <1>3, <1>7 DEF ForgotPasswordReset, ByEmail
<1>8. CASE ChangePassword(w)
  BY <1>3, <1>8 DEF ChangePassword
<1>9. QED
  BY <1>5, <1>6, <1>7, <1>8

\* A Clerk user is known by the row it stands in, and was let in to that.
LEMMA ByClerk ==
  ASSUME AccountsInv, NEW k \in ClerkId, NEW u \in ByClerkId(k) \cup DeletedByClerkId(k)
  PROVE  u \in User /\ u # Nil /\ k # Nil /\ user[u].kind # "none" /\ k \in owners[u]
<1>1. u \in User /\ user[u].clerkId = k /\ k # Nil /\ u # Nil
  BY AccountNilAssumption DEF ByClerkId, DeletedByClerkId
<1>2. Backed(u)
  BY <1>1 DEF AccountsInv
<1>3. QED
  BY <1>1, <1>2 DEF Backed

LEMMA BeginsClerk == ASSUME AccountsInv, NEW w \in Worker, ClerkLogin(w) \/ SyncClerkUser(w)
  PROVE AccountsInv'
<1> USE DEF Begin
<1>1. UNCHANGED <<accountVars, codes, faults>>
  BY DEF ClerkLogin, SyncClerkUser
<1>2. ASSUME NEW k \in ClerkId, NEW u \in ByClerkId(k), Become(w, SigningIn(u, k))
      PROVE  AccountsInv'
  <2>1. u \in User /\ user[u].kind # "none" /\ k \in owners[u]
    BY <1>2, ByClerk
  <2>2. Sound(SigningIn(u, k))
    BY <2>1, SigningSound
  <2>3. QED
    BY <1>1, <1>2, <2>2, OnlyMoves
<1>3. ASSUME NEW k \in ClerkId, NEW u \in ByClerkId(k) \cup DeletedByClerkId(k),
             NEW e \in Email \cup {Nil}, NEW label \in {"reactivate", "sync"},
             Become(w, [NewCall EXCEPT !.at = label, !.user = u, !.clerk = k, !.email = e])
      PROVE  AccountsInv'
  <2> DEFINE c == [NewCall EXCEPT !.at = label, !.user = u, !.clerk = k, !.email = e]
  <2>1. u \in User /\ u # Nil /\ k # Nil /\ user[u].kind # "none" /\ k \in owners[u]
    BY ByClerk
  <2>2. /\ c.at = label /\ c.then = "idle" /\ c.email = e
        /\ c.session = Nil /\ c.user = u /\ c.clerk = k
    BY DEF NewCall
  <2>3. c \in AnyCall
    BY <2>1 DEF NewCall, AnyCall, Label, NoAddress, Rests
  <2>4. Become(w, c)
    BY <1>3
  <2> HIDE DEF c
  <2>5. Sound(c)
    BY <2>1, <2>2, <2>3, PlainSound
    DEF Coding, OnCode, Proving, NoAddress, OfUser, OfSession, OfClerk
  <2>6. QED
    BY <1>1, <2>4, <2>5, OnlyMoves
<1>4. ASSUME NEW k \in ClerkId, NEW e \in Email \cup {Nil},
             NEW label \in {"createClerkBuyer", "createFromEvent"},
             Become(w, [NewCall EXCEPT !.at = label, !.clerk = k, !.email = e])
      PROVE  AccountsInv'
  <2> DEFINE c == [NewCall EXCEPT !.at = label, !.clerk = k, !.email = e]
  <2>1. k # Nil
    BY AccountNilAssumption
  <2>2. /\ c.at = label /\ c.then = "idle" /\ c.email = e
        /\ c.session = Nil /\ c.user = Nil /\ c.clerk = k
    BY DEF NewCall
  <2>3. c \in AnyCall
    BY DEF NewCall, AnyCall, Label, NoAddress, Rests
  <2>4. Become(w, c)
    BY <1>4
  <2> HIDE DEF c
  <2>5. Sound(c)
    BY <2>1, <2>2, <2>3, PlainSound
    DEF Coding, OnCode, Proving, NoAddress, OfUser, OfSession, OfClerk
  <2>6. QED
    BY <1>1, <2>4, <2>5, OnlyMoves
<1>5. CASE ClerkLogin(w)
  <2>1. PICK k \in ClerkId :
          \/ \E u \in ByClerkId(k) : Become(w, SigningIn(u, k))
          \/ \E e \in Verified :
               \/ \E u \in DeletedByClerkId(k) :
                    Become(w, [NewCall EXCEPT !.at = "reactivate", !.user = u,
                                              !.clerk = k, !.email = e])
               \/ Become(w, [NewCall EXCEPT !.at = "createClerkBuyer", !.clerk = k, !.email = e])
    BY <1>5 DEF ClerkLogin
  <2>2. QED
    BY <1>2, <1>3, <1>4, <2>1 DEF Verified
<1>6. CASE SyncClerkUser(w)
  <2>1. PICK k \in ClerkId, e \in Verified :
          \/ \E u \in ByClerkId(k) : \E kept \in AddressFor(u, e) :
               Become(w, [NewCall EXCEPT !.at = "sync", !.user = u, !.clerk = k, !.email = kept])
          \/ Become(w, [NewCall EXCEPT !.at = "createFromEvent", !.clerk = k, !.email = e])
    BY <1>6 DEF SyncClerkUser
  <2>2. ASSUME NEW u \in ByClerkId(k), NEW kept \in AddressFor(u, e)
        PROVE  kept \in Email \cup {Nil}
    <3>1. user[u].email \in Email \cup {Nil}
      BY DEF ByClerkId, AccountsInv, Tables, Account
    <3>2. QED
      BY <3>1 DEF AddressFor, Verified
  <2>3. QED
    BY <1>3, <1>4, <2>1, <2>2 DEF Verified
<1>7. QED
  BY <1>5, <1>6

-----------------------------------------------------------------------------
(* The steps of a code *)

LEMMA RowsWritten ==
  ASSUME Tables, NEW new \in [DOMAIN codes -> CodeRow]
  PROVE  new \in Seq(CodeRow) /\ DOMAIN new = DOMAIN codes
<1>1. DOMAIN codes = 1 .. Len(codes) /\ Len(codes) \in Nat
  BY RowType
<1>2. QED
  BY <1>1

\* The rows may change if they only grow.
LEMMA CodesChange ==
  ASSUME AccountsInv, codes' \in Seq(CodeRow), RowsGrow, faults' \in Nat, UNCHANGED accountVars
  PROVE  Tables' /\ UsersGrow /\ StepsGrow /\ \A u \in User : Backed(u)'
<1>1. UNCHANGED <<user, step, signup, pending, reset, saved, owners>> /\ UNCHANGED <<user, owners>>
  BY DEF accountVars
<1>2. Tables /\ \A u \in User : Backed(u)
  BY DEF AccountsInv
<1>3. Tables'
  BY <1>1, <1>2 DEF Tables
<1>4. ASSUME NEW u \in User PROVE Backed(u)'
  <2>1. Backed(u) /\ (user[u].deleted => user[u].kind # "none")
    BY <1>2 DEF Backed
  <2>2. QED
    BY <1>1, <1>2, <1>3, <2>1, StaysBacked
<1>5. QED
  BY <1>1, <1>3, <1>4, UsersSame, StepsSame

LEMMA RowWritten ==
  ASSUME Tables, NEW i \in DOMAIN codes, NEW row \in CodeRow, codes' = [codes EXCEPT ![i] = row],
         row.email = codes[i].email, row.purpose = codes[i].purpose,
         row.accepted >= codes[i].accepted
  PROVE  codes' \in Seq(CodeRow) /\ RowsGrow
<1>1. codes \in [DOMAIN codes -> CodeRow]
  <2>1. codes \in [1 .. Len(codes) -> CodeRow]
    BY DEF Tables
  <2>2. QED
    BY <2>1, RowType
<1>2. codes' \in [DOMAIN codes -> CodeRow]
  BY <1>1
<1>3. codes' \in Seq(CodeRow) /\ DOMAIN codes' = DOMAIN codes
  BY <1>2, RowsWritten
<1>4. \A j \in DOMAIN codes : codes[j].accepted >= codes[j].accepted
  BY RowType DEF CodeRow
<1>5. \A j \in DOMAIN codes : codes'[j] = IF j = i THEN row ELSE codes[j]
  BY <1>1
<1>6. QED
  BY <1>3, <1>4, <1>5 DEF RowsGrow

\* The writes of the steps below.
LEMMA RowChanges ==
  ASSUME NEW r \in CodeRow, NEW a \in {"new", "old", "expired"}
  PROVE  /\ [r EXCEPT !.used = TRUE] \in CodeRow
         /\ [r EXCEPT !.age = a] \in CodeRow
         /\ [r EXCEPT !.attempts = @ + 1] \in CodeRow
         /\ [r EXCEPT !.guesses = @ + 1] \in CodeRow
         /\ [r EXCEPT !.used = TRUE, !.accepted = @ + 1] \in CodeRow
         /\ [r EXCEPT !.used = TRUE, !.accepted = @ + 1].accepted = r.accepted + 1
         /\ r.accepted \in Nat /\ r.accepted >= r.accepted /\ r.accepted + 1 >= r.accepted
<1>1. [r EXCEPT !.used = TRUE] \in CodeRow
  BY DEF CodeRow
<1>2. [r EXCEPT !.age = a] \in CodeRow
  BY DEF CodeRow
<1>3. [r EXCEPT !.attempts = @ + 1] \in CodeRow
  BY DEF CodeRow
<1>4. [r EXCEPT !.guesses = @ + 1] \in CodeRow
  BY DEF CodeRow
<1>5. r.accepted \in Nat
  BY DEF CodeRow
<1>6. [r EXCEPT !.used = TRUE, !.accepted = @ + 1]
        = [[r EXCEPT !.used = TRUE] EXCEPT !.accepted = r.accepted + 1]
  BY DEF CodeRow
<1>7. ASSUME NEW q \in CodeRow, NEW n \in Nat PROVE [q EXCEPT !.accepted = n] \in CodeRow
  BY DEF CodeRow
<1>8. [r EXCEPT !.used = TRUE, !.accepted = @ + 1] \in CodeRow
  <2>1. PICK q \in CodeRow : q = [r EXCEPT !.used = TRUE]
    BY <1>1
  <2>2. PICK n \in Nat : n = r.accepted + 1
    BY <1>5
  <2>3. [q EXCEPT !.accepted = n] \in CodeRow
    BY <1>7
  <2>4. QED
    BY <1>6, <2>1, <2>2, <2>3
<1>9. [r EXCEPT !.used = TRUE, !.accepted = @ + 1].accepted = r.accepted + 1
  BY DEF CodeRow
<1>10. r.accepted >= r.accepted /\ r.accepted + 1 >= r.accepted
  BY <1>5
<1>11. QED
  BY <1>1, <1>2, <1>3, <1>4, <1>5, <1>8, <1>9, <1>10

\* ... leave what the code is for.
LEMMA RowKeeps ==
  ASSUME NEW r \in CodeRow, NEW a \in {"new", "old", "expired"}
  PROVE  /\ [r EXCEPT !.used = TRUE].email = r.email
         /\ [r EXCEPT !.used = TRUE].purpose = r.purpose
         /\ [r EXCEPT !.used = TRUE].accepted = r.accepted
         /\ [r EXCEPT !.age = a].email = r.email
         /\ [r EXCEPT !.age = a].purpose = r.purpose
         /\ [r EXCEPT !.age = a].accepted = r.accepted
         /\ [r EXCEPT !.attempts = @ + 1].email = r.email
         /\ [r EXCEPT !.attempts = @ + 1].purpose = r.purpose
         /\ [r EXCEPT !.attempts = @ + 1].accepted = r.accepted
         /\ [r EXCEPT !.guesses = @ + 1].email = r.email
         /\ [r EXCEPT !.guesses = @ + 1].purpose = r.purpose
         /\ [r EXCEPT !.guesses = @ + 1].accepted = r.accepted
         /\ [r EXCEPT !.used = TRUE, !.accepted = @ + 1].email = r.email
         /\ [r EXCEPT !.used = TRUE, !.accepted = @ + 1].purpose = r.purpose
  BY DEF CodeRow

\* A call that goes on after its code.
LEMMA ResumeSound ==
  ASSUME AccountsInv, Tables', RowsGrow, UsersGrow, StepsGrow,
         NEW w \in Worker, call[w].at \in Coding, call[w].then # "idle",
         NEW e, e = call[w].email, call[w].then \in Proving => Accepted(e)',
         NEW c, c = [call[w] EXCEPT !.at = call[w].then, !.then = "idle", !.purpose = Nil, !.code = 0]
  PROVE  Sound(c)'
<1>1. PICK d : d = call[w]
  OBVIOUS
<1>2. WellFormed(d) /\ Grounded(d) /\ Tables /\ d.at \in Coding /\ d.then # "idle" /\ d # Idle
  <2>1. call[w].at # "idle"
    BY DEF Coding, OnCode
  <2>2. QED
    BY <1>1, <2>1, Holding DEF Idle
<1>3. Sound(d)'
  BY <1>2, StaysSound DEF Sound
<1>4. Grounded(d)'
  BY <1>2, <1>3 DEF Sound
<1>5. c = [d EXCEPT !.at = d.then, !.then = "idle", !.purpose = Nil, !.code = 0]
  BY <1>1
<1>6. d \in AnyCall
  BY <1>2 DEF WellFormed
<1>7. /\ c.at = d.then /\ c.then = "idle" /\ c.email = d.email /\ c.user = d.user
      /\ c.session = d.session /\ c.clerk = d.clerk
  BY <1>5, <1>6 DEF AnyCall
<1>8. c \in AnyCall
  <2>1. d.then \in Label /\ "idle" \in Rests
    BY <1>6 DEF AnyCall, Label, Rests
  <2>2. PICK a \in Label, t \in Rests, p \in Purpose \cup {Nil}, n \in Nat :
          a = d.then /\ t = "idle" /\ p = Nil /\ n = 0
    BY <2>1
  <2>3. [d EXCEPT !.at = a, !.then = t, !.purpose = p, !.code = n] \in AnyCall
    BY <1>6 DEF AnyCall
  <2>4. QED
    BY <1>5, <2>2, <2>3
<1>9. WellFormed(c)
  <2>1. d.email \in Email /\ d.then \in Rests /\ d.then # "idle"
    BY <1>2, <1>6 DEF WellFormed, Coding, OnCode, NoAddress, AnyCall
  <2>2. /\ d.then \in OfUser => d.user # Nil
        /\ d.then = "closeSession" => d.session # Nil
        /\ d.clerk = Nil
    BY <1>2 DEF WellFormed, Coding, OnCode, OfClerk
  <2>3. QED
    BY <1>7, <1>8, <2>1, <2>2 DEF WellFormed, Rests, Coding, OnCode, OfUser, OfSession, OfClerk, Proving
<1>10. Grounded(c)'
  <2>1. d.then \notin OnCode
    BY <1>6 DEF AnyCall, Rests, OnCode
  <2>2. d.then \in Proving => Accepted(d.email)'
    BY <1>1
  <2>3. QED
    BY <1>4, <1>7, <2>1, <2>2 DEF Grounded
<1>11. QED
  BY <1>9, <1>10 DEF Sound

LEMMA CodeSteps == ASSUME AccountsInv, NEW w \in Worker, CodeStep(w), UNCHANGED accountVars
  PROVE AccountsInv'
<1> USE DEF At
<1>1. Tables /\ faults \in Nat /\ codes \in Seq(CodeRow)
  BY DEF AccountsInv, Tables
<1>2. call[w].at \in Coding /\ call[w].at # "idle" /\ UNCHANGED faults
  BY DEF CodeStep, CheckCooldown, InvalidateAll, InsertCode, FindCode, RetireCode, CountAttempt,
         UseCode, Coding, OnCode
<1>3. PICK d : d = call[w]
  OBVIOUS
<1>4. WellFormed(d) /\ Grounded(d) /\ d \in AnyCall /\ d.email \in Email /\ d.purpose \in Purpose
  BY <1>2, <1>3, Holding DEF WellFormed, Coding, OnCode, NoAddress
<1>5. ASSUME codes' \in Seq(CodeRow), RowsGrow, NEW c, Become(w, c), Sound(c) \/ Sound(c)'
      PROVE  AccountsInv'
  <2>1. Tables' /\ UsersGrow /\ StepsGrow /\ \A u \in User : Backed(u)'
    BY <1>1, <1>2, <1>5, CodesChange
  <2>2. Sound(c)'
    BY <1>1, <1>5, <2>1, StaysSound
  <2>3. QED
    BY <1>5, <2>1, <2>2, Moves
<1>6. ASSUME codes' \in Seq(CodeRow), RowsGrow, Return(w) PROVE AccountsInv'
  BY <1>5, <1>6, IdleSound DEF Return
<1>7. ASSUME codes' \in Seq(CodeRow), RowsGrow, Goto(w, "invalidate"), d.at = "checkCooldown"
      PROVE  AccountsInv'
  <2> DEFINE c == [d EXCEPT !.at = "invalidate"]
  <2>1. /\ c.at = "invalidate" /\ c.then = d.then /\ c.email = d.email /\ c.purpose = d.purpose
        /\ c.user = d.user /\ c.session = d.session /\ c.clerk = d.clerk
        /\ c \in AnyCall
    BY <1>4 DEF AnyCall, Label, Coding
  <2>2. Become(w, c)
    BY <1>3, <1>7 DEF Goto
  <2> HIDE DEF c
  <2>3. WellFormed(c)
    BY <1>4, <1>7, <2>1 DEF WellFormed, Coding, OnCode, NoAddress, OfUser, OfSession, OfClerk
  <2>4. Grounded(c)
    BY <1>4, <2>1 DEF Grounded, OnCode, Proving
  <2>5. QED
    BY <1>5, <1>7, <2>2, <2>3, <2>4 DEF Sound
<1>8. CASE CheckCooldown(w)
  BY <1>1, <1>3, <1>6, <1>7, <1>8, RowsSame DEF CheckCooldown
<1>9. CASE InvalidateAll(w)
  <2>1. codes' = [i \in DOMAIN codes |->
                    IF i \in Sent(d.email, d.purpose) THEN [codes[i] EXCEPT !.used = TRUE] ELSE codes[i]]
    BY <1>3, <1>9 DEF InvalidateAll
  <2>2. \A i \in DOMAIN codes : /\ codes'[i] \in CodeRow /\ codes'[i].email = codes[i].email
                                /\ codes'[i].purpose = codes[i].purpose
                                /\ codes'[i].accepted >= codes[i].accepted
    BY <1>1, <2>1, RowType, RowChanges, RowKeeps
  <2>3. codes' \in [DOMAIN codes -> CodeRow]
    BY <2>1, <2>2
  <2>4. codes' \in Seq(CodeRow) /\ RowsGrow
    BY <1>1, <2>2, <2>3, RowsWritten DEF RowsGrow
  <2> DEFINE c == [d EXCEPT !.at = "insertCode"]
  <2>5. /\ c.at = "insertCode" /\ c.then = d.then /\ c.email = d.email /\ c.purpose = d.purpose
        /\ c.user = d.user /\ c.session = d.session /\ c.clerk = d.clerk
        /\ c \in AnyCall
    BY <1>4 DEF AnyCall, Label, Coding
  <2>6. Become(w, c) /\ d.at = "invalidate"
    BY <1>3, <1>9 DEF InvalidateAll, Goto
  <2> HIDE DEF c
  <2>7. WellFormed(c)
    BY <1>4, <2>5, <2>6 DEF WellFormed, Coding, OnCode, NoAddress, OfUser, OfSession, OfClerk
  <2>8. Grounded(c)
    BY <1>4, <2>5 DEF Grounded, OnCode, Proving
  <2>9. QED
    BY <1>5, <2>4, <2>6, <2>7, <2>8 DEF Sound
<1>10. CASE InsertCode(w)
  <2> DEFINE row == [email |-> d.email, purpose |-> d.purpose, used |-> FALSE,
                     age |-> "new", attempts |-> 0, guesses |-> 0, accepted |-> 0]
  <2>1. row \in CodeRow
    BY <1>4 DEF CodeRow
  <2>2. codes' = Append(codes, row) /\ d.at = "insertCode" /\ Resume(w)
    BY <1>3, <1>10 DEF InsertCode
  <2> HIDE DEF row
  <2>3. codes' \in Seq(CodeRow) /\ RowsGrow
    <3>1. codes' \in Seq(CodeRow) /\ Len(codes') = Len(codes) + 1
          /\ \A i \in 1 .. Len(codes) : codes'[i] = codes[i]
      BY <1>1, <2>1, <2>2
    <3>2. DOMAIN codes' = 1 .. Len(codes) + 1
      BY <3>1
    <3>3. \A j \in DOMAIN codes : codes[j].accepted >= codes[j].accepted
      BY <1>1, RowType DEF CodeRow
    <3>4. QED
      BY <1>1, <3>1, <3>2, <3>3, RowType DEF RowsGrow
  <2>4. d.then \notin Proving
    BY <1>4, <2>2 DEF WellFormed, OnCode
  <2>5. CASE d.then = "idle"
    BY <1>3, <1>6, <2>2, <2>3, <2>5 DEF Resume, Return
  <2>6. CASE d.then # "idle"
    <3>1. Tables' /\ UsersGrow /\ StepsGrow
      BY <1>1, <1>2, <2>3, CodesChange
    <3>2. PICK e : e = call[w].email
      OBVIOUS
    <3>3. PICK c : c = [call[w] EXCEPT !.at = call[w].then, !.then = "idle", !.purpose = Nil, !.code = 0]
      OBVIOUS
    <3>4. Sound(c)'
      BY <1>2, <1>3, <2>3, <2>4, <2>6, <3>1, <3>2, <3>3, ResumeSound
    <3>5. QED
      BY <1>3, <1>5, <2>2, <2>3, <2>6, <3>3, <3>4 DEF Resume
  <2>7. QED
    BY <2>5, <2>6
<1>11. CASE FindCode(w)
  <2>1. d.at = "findCode"
    BY <1>3, <1>11 DEF FindCode
  <2>2. CASE Return(w) /\ UNCHANGED codes
    BY <1>1, <1>6, <2>2, RowsSame
  <2>3. ASSUME NEW i \in DOMAIN codes, IsLatest(i, Valid(d.email, d.purpose)),
               NEW label \in OnCode, Hold(w, i, label),
               \/ UNCHANGED codes
               \/ codes' = [codes EXCEPT ![i].guesses = @ + 1]
        PROVE  AccountsInv'
    <3>1. codes' \in Seq(CodeRow) /\ RowsGrow
      <4>1. CASE UNCHANGED codes
        BY <1>1, <4>1, RowsSame
      <4>2. CASE codes' = [codes EXCEPT ![i].guesses = @ + 1]
        <5> DEFINE row == [codes[i] EXCEPT !.guesses = @ + 1]
        <5>1. /\ row \in CodeRow /\ row.email = codes[i].email
              /\ row.purpose = codes[i].purpose /\ row.accepted >= codes[i].accepted
          BY <1>1, RowType, RowChanges, RowKeeps
        <5>2. codes' = [codes EXCEPT ![i] = row]
          BY <4>2
        <5> HIDE DEF row
        <5>3. QED
          BY <1>1, <5>1, <5>2, RowWritten
      <4>3. QED
        BY <2>3, <4>1, <4>2
    <3>2. i \in Nat /\ codes[i].email = d.email /\ codes[i].purpose = d.purpose
      BY <1>1, <2>3, RowType DEF IsLatest, Valid, Sent
    <3> DEFINE c == [d EXCEPT !.at = label, !.code = i]
    <3>3. /\ c.at = label /\ c.then = d.then /\ c.email = d.email /\ c.purpose = d.purpose
          /\ c.code = i /\ c.user = d.user /\ c.session = d.session /\ c.clerk = d.clerk
      BY <1>4 DEF AnyCall
    <3>4. c \in AnyCall
      BY <1>4, <3>2 DEF AnyCall, Label, Coding
    <3>5. Become(w, c)
      BY <1>3, <2>3 DEF Hold
    <3> HIDE DEF c
    <3>6. WellFormed(c)
      BY <1>4, <2>1, <3>3, <3>4 DEF WellFormed, Coding, OnCode, NoAddress, OfUser, OfSession, OfClerk
    <3>7. Grounded(c)
      BY <1>4, <3>2, <3>3 DEF Grounded, OnCode, Proving
    <3>8. QED
      BY <1>5, <3>1, <3>5, <3>6, <3>7 DEF Sound
  <2>4. QED
    BY <1>3, <1>11, <2>2, <2>3 DEF FindCode, OnCode
<1>12. ASSUME d.at \in OnCode, NEW row \in CodeRow,
              row.email = codes[d.code].email, row.purpose = codes[d.code].purpose,
              row.accepted >= codes[d.code].accepted, codes' = [codes EXCEPT ![d.code] = row]
       PROVE  codes' \in Seq(CodeRow) /\ RowsGrow
  <2>1. d.code \in DOMAIN codes
    BY <1>4, <1>12 DEF Grounded
  <2>2. QED
    BY <1>1, <1>12, <2>1, RowWritten
<1>13. d.at \in OnCode => codes[d.code] \in CodeRow
  BY <1>1, <1>4, RowType DEF Grounded
<1>14. CASE RetireCode(w)
  <2> DEFINE row == [codes[d.code] EXCEPT !.used = TRUE]
  <2>1. d.at \in OnCode /\ Return(w)
    BY <1>3, <1>14 DEF RetireCode, OnCode
  <2>2. /\ row \in CodeRow /\ row.email = codes[d.code].email
        /\ row.purpose = codes[d.code].purpose /\ row.accepted >= codes[d.code].accepted
    BY <1>13, <2>1, RowChanges, RowKeeps
  <2>3. codes' = [codes EXCEPT ![d.code] = row]
    BY <1>3, <1>14 DEF RetireCode
  <2> HIDE DEF row
  <2>4. QED
    BY <1>6, <1>12, <2>1, <2>2, <2>3
<1>15. CASE CountAttempt(w)
  <2> DEFINE row == [codes[d.code] EXCEPT !.attempts = @ + 1]
  <2>1. d.at \in OnCode /\ Return(w)
    BY <1>3, <1>15 DEF CountAttempt, OnCode
  <2>2. /\ row \in CodeRow /\ row.email = codes[d.code].email
        /\ row.purpose = codes[d.code].purpose /\ row.accepted >= codes[d.code].accepted
    BY <1>13, <2>1, RowChanges, RowKeeps
  <2>3. codes' = [codes EXCEPT ![d.code] = row]
    BY <1>3, <1>15 DEF CountAttempt
  <2> HIDE DEF row
  <2>4. QED
    BY <1>6, <1>12, <2>1, <2>2, <2>3
<1>16. CASE UseCode(w)
  <2>1. d.at = "useCode" /\ d.at \in OnCode /\ Resume(w) /\ d.code \in DOMAIN codes
    BY <1>3, <1>4, <1>16 DEF UseCode, OnCode, Grounded
  <2> DEFINE row == [codes[d.code] EXCEPT !.used = TRUE, !.accepted = @ + 1]
  <2>3. /\ row \in CodeRow /\ row.email = codes[d.code].email
        /\ row.purpose = codes[d.code].purpose /\ row.accepted = codes[d.code].accepted + 1
        /\ codes[d.code].accepted \in Nat /\ row.accepted >= codes[d.code].accepted
    BY <1>13, <2>1, RowChanges, RowKeeps
  <2>4. codes' = [codes EXCEPT ![d.code] = row]
    BY <1>3, <1>16 DEF UseCode
  <2> HIDE DEF row
  <2>5. codes' \in Seq(CodeRow) /\ RowsGrow
    BY <1>12, <2>1, <2>3, <2>4
  <2>6. CASE d.then = "idle"
    BY <1>3, <1>6, <2>1, <2>5, <2>6 DEF Resume, Return
  <2>7. CASE d.then # "idle"
    <3>1. Tables' /\ UsersGrow /\ StepsGrow
      BY <1>1, <1>2, <2>5, CodesChange
    <3>2. PICK e : e = call[w].email
      OBVIOUS
    <3>3. ASSUME d.then \in Proving PROVE Accepted(e)'
      <4>1. codes[d.code].email = e /\ codes[d.code].purpose = "email_verification"
        BY <1>3, <1>4, <2>1, <3>2, <3>3 DEF Grounded, WellFormed
      <4>2. d.code \in DOMAIN codes' /\ codes'[d.code] = row
        BY <2>1, <2>4, <2>5 DEF RowsGrow
      <4>3. row.accepted > 0
        BY <2>3
      <4>4. QED
        BY <2>3, <4>1, <4>2, <4>3 DEF Accepted, Sent
    <3>4. PICK c : c = [call[w] EXCEPT !.at = call[w].then, !.then = "idle", !.purpose = Nil, !.code = 0]
      OBVIOUS
    <3>5. Sound(c)'
      BY <1>2, <1>3, <2>5, <2>7, <3>1, <3>2, <3>3, <3>4, ResumeSound
    <3>6. QED
      BY <1>3, <1>5, <2>1, <2>5, <2>7, <3>4, <3>5 DEF Resume
  <2>8. QED
    BY <2>6, <2>7
<1>17. QED
  BY <1>8, <1>9, <1>10, <1>11, <1>14, <1>15, <1>16 DEF CodeStep

LEMMA ElapseStep == ASSUME AccountsInv, Elapse, UNCHANGED accountVars PROVE AccountsInv'
<1>1. Tables /\ faults \in Nat
  BY DEF AccountsInv, Tables
<1>2. PICK i \in DOMAIN codes :
          codes' = [codes EXCEPT ![i].age = IF @ = "new" THEN "old" ELSE "expired"]
  BY DEF Elapse
<1> DEFINE row == [codes[i] EXCEPT !.age = IF @ = "new" THEN "old" ELSE "expired"]
<1>3. /\ row \in CodeRow /\ row.email = codes[i].email
      /\ row.purpose = codes[i].purpose /\ row.accepted >= codes[i].accepted
  BY <1>1, RowType, RowChanges, RowKeeps
<1>4. codes' = [codes EXCEPT ![i] = row]
  BY <1>2
<1> HIDE DEF row
<1>5. codes' \in Seq(CodeRow) /\ RowsGrow
  BY <1>1, <1>3, <1>4, RowWritten
<1>6. UNCHANGED <<call, faults>>
  BY DEF Elapse
<1>7. QED
  BY <1>1, <1>5, <1>6, CodesChange, CallsStay

-----------------------------------------------------------------------------
(* Steps that leave the users and the codes alone *)

LEMMA UsersUntouched ==
  ASSUME AccountsInv, Tables', UNCHANGED <<user, owners, codes>>
  PROVE  RowsGrow /\ UsersGrow /\ \A u \in User : Backed(u)'
<1>1. Tables /\ \A u \in User : Backed(u)
  BY DEF AccountsInv
<1>2. RowsGrow /\ UsersGrow
  BY <1>1, RowsSame, UsersSame
<1>3. \A u \in User : Backed(u)'
  BY <1>1 DEF Backed, Accepted, Sent
<1>4. QED
  BY <1>2, <1>3

\* A call that is not about a code goes on to where none is needed.
LEMMA GoesOn ==
  ASSUME AccountsInv, NEW w \in Worker, call[w].at \notin Coding \cup NoAddress \cup {"idle"},
         NEW label \in Label \ (Coding \cup Proving \cup NoAddress),
         label \in OfUser => call[w].user # Nil, label \in OfSession => call[w].session # Nil,
         NEW c, c = [call[w] EXCEPT !.at = label]
  PROVE  Sound(c)
<1>1. PICK d : d = call[w]
  OBVIOUS
<1>2. WellFormed(d) /\ Grounded(d) /\ d.then = "idle" /\ d \in AnyCall /\ d.email \in Email
      /\ d.clerk = Nil
  BY <1>1, Holding DEF WellFormed, OfClerk, NoAddress
<1>3. c = [d EXCEPT !.at = label]
  BY <1>1
<1>4. /\ c.at = label /\ c.then = "idle" /\ c.email = d.email /\ c.user = d.user
      /\ c.session = d.session /\ c.clerk = d.clerk /\ c \in AnyCall
  BY <1>2, <1>3 DEF AnyCall
<1>5. label \notin OfClerk
  BY DEF OfClerk, NoAddress
<1>6. /\ c.user # Nil => user[c.user].kind # "none"
      /\ c.session # Nil => step[c.session] >= 2
      /\ c.user # Nil /\ c.clerk # Nil => c.clerk \in owners[c.user]
  BY <1>2, <1>4 DEF Grounded
<1>7. c.at \notin Coding \cup Proving
  BY <1>4
<1>8. /\ c.at \in OfUser => c.user # Nil
      /\ c.at \in OfSession => c.session # Nil
      /\ c.at \notin OfClerk
  BY <1>1, <1>4, <1>5
<1>9. QED
  BY <1>2, <1>4, <1>6, <1>7, <1>8, PlainSound

\* What the tables need for such a step, and that it keeps the invariant.
LEMMA PlainStep ==
  ASSUME AccountsInv, Tables', StepsGrow, UNCHANGED <<user, owners, codes>>,
         NEW w \in Worker, NEW c, Become(w, c), Sound(c)
  PROVE  AccountsInv'
<1>1. RowsGrow /\ UsersGrow /\ Tables /\ \A u \in User : Backed(u)'
  BY UsersUntouched DEF AccountsInv
<1>2. Sound(c)'
  BY <1>1, StaysSound
<1>3. QED
  BY <1>1, <1>2, Moves

LEMMA PlainGoto ==
  ASSUME AccountsInv, Tables', StepsGrow, UNCHANGED <<user, owners, codes>>,
         NEW w \in Worker, call[w].at \notin Coding \cup NoAddress \cup {"idle"},
         NEW label \in Label \ (Coding \cup Proving \cup NoAddress), Goto(w, label),
         label \in OfUser => call[w].user # Nil, label \in OfSession => call[w].session # Nil
  PROVE  AccountsInv'
<1>1. PICK c : c = [call[w] EXCEPT !.at = label]
  OBVIOUS
<1>2. Sound(c) /\ Become(w, c)
  BY <1>1, GoesOn DEF Goto
<1>3. QED
  BY <1>2, PlainStep

LEMMA PlainReturn ==
  ASSUME AccountsInv, Tables', StepsGrow, UNCHANGED <<user, owners, codes>>,
         NEW w \in Worker, Return(w)
  PROVE  AccountsInv'
  BY IdleSound, PlainStep DEF Return

\* A session begins, gets its details or ends.
LEMMA StepWritten ==
  ASSUME Tables, NEW s \in Session, NEW n \in 0 .. 3, step' = [step EXCEPT ![s] = n],
         step[s] >= 2 => n >= 2,
         signup' \in [Session -> Email \cup {Nil}],
         \A t \in Session : step'[t] >= 1 => signup'[t] \in Email,
         UNCHANGED <<user, pending, reset, saved, owners, codes, faults>>
  PROVE  Tables' /\ StepsGrow
<1>1. step' \in [Session -> 0 .. 3]
  BY DEF Tables
<1>2. \A t \in Session : step'[t] = IF t = s THEN n ELSE step[t]
  BY DEF Tables
<1>3. QED
  BY <1>1, <1>2 DEF Tables, StepsGrow

LEMMA SessionEnds ==
  ASSUME Tables, NEW s \in Session, EndSession(s), step[s] >= 1,
         UNCHANGED <<user, signup, pending, reset, saved, owners, codes, faults>>
  PROVE  Tables' /\ StepsGrow
<1>1. step' = [step EXCEPT ![s] = 3]
  BY DEF EndSession
<1>2. \A t \in Session : step'[t] >= 1 => signup'[t] \in Email
  BY <1>1 DEF Tables
<1>3. signup' \in [Session -> Email \cup {Nil}]
  BY DEF Tables
<1>4. 3 \in 0 .. 3 /\ 3 >= 2
  OBVIOUS
<1>5. UNCHANGED <<user, pending, reset, saved, owners, codes, faults>>
  OBVIOUS
<1>6. QED
  BY <1>1, <1>2, <1>3, <1>4, <1>5, StepWritten

LEMMA OpenSessionStep == ASSUME AccountsInv, RegisterEmail \/ RegisterSellerEmail PROVE AccountsInv'
<1>1. PICK e \in Email : OpenSession(e)
  BY DEF RegisterEmail, RegisterSellerEmail
<1>2. PICK s \in Session : /\ step[s] = 0 /\ step' = [step EXCEPT ![s] = 1]
                           /\ signup' = [signup EXCEPT ![s] = e]
  BY <1>1 DEF OpenSession
<1>3. /\ UNCHANGED <<user, pending, reset, saved, owners>>
      /\ UNCHANGED codes /\ UNCHANGED call /\ UNCHANGED faults
  BY <1>1 DEF OpenSession, codeVars, callVars
<1>4. Tables
  BY DEF AccountsInv
<1>5. signup' \in [Session -> Email \cup {Nil}] /\ \A t \in Session : step'[t] >= 1 => signup'[t] \in Email
  BY <1>2, <1>4 DEF Tables
<1>6. Tables' /\ StepsGrow
  <2>1. 1 \in 0 .. 3 /\ ~(step[s] >= 2)
    BY <1>2
  <2>2. UNCHANGED <<user, pending, reset, saved, owners, codes, faults>>
    BY <1>3
  <2>3. QED
    BY <1>2, <1>4, <1>5, <2>1, <2>2, StepWritten
<1>7. QED
  BY <1>3, <1>6, UsersUntouched, CallsStay

LEMMA DetailsStep == ASSUME AccountsInv, RegisterDetails PROVE AccountsInv'
<1>1. PICK s \in Session : step[s] = 1 /\ step' = [step EXCEPT ![s] = 2]
  BY DEF RegisterDetails, SetDetails
<1>2. /\ UNCHANGED <<user, signup, pending, reset, saved, owners>>
      /\ UNCHANGED codes /\ UNCHANGED call /\ UNCHANGED faults
  BY DEF RegisterDetails, codeVars, callVars
<1>3. Tables
  BY DEF AccountsInv
<1>4. signup' \in [Session -> Email \cup {Nil}] /\ \A t \in Session : step'[t] >= 1 => signup'[t] \in Email
  BY <1>1, <1>2, <1>3 DEF Tables
<1>5. Tables' /\ StepsGrow
  <2>1. 2 \in 0 .. 3 /\ 2 >= 2
    OBVIOUS
  <2>2. UNCHANGED <<user, pending, reset, saved, owners, codes, faults>>
    BY <1>2
  <2>3. QED
    BY <1>1, <1>3, <1>4, <2>1, <2>2, StepWritten
<1>6. QED
  BY <1>2, <1>5, UsersUntouched, CallsStay

\* One of the sets of addresses changes.
LEMMA SetsWritten ==
  ASSUME Tables, pending' \subseteq Email, reset' \subseteq Email, saved' \subseteq Email,
         UNCHANGED <<user, step, signup, owners, codes, faults>>
  PROVE  Tables' /\ StepsGrow
<1>1. Tables'
  BY DEF Tables
<1>2. QED
  BY <1>1, StepsSame

LEMMA PendingSteps == ASSUME AccountsInv, NEW w \in Worker,
    CreatePending(w) \/ ReadPendingAgain(w) \/ ReplacePending(w) \/ DeletePending(w) \/ GrantReset(w)
  PROVE AccountsInv'
<1> USE DEF At
<1>1. /\ call[w].at \in {"createPending", "createAgain", "readAgain", "replacePending",
                         "deletePending", "grantReset"}
      /\ UNCHANGED <<user, step, signup, owners, codes, faults>>
  BY DEF CreatePending, ReadPendingAgain, ReplacePending, DeletePending, GrantReset, accountVars
<1>2. /\ Tables /\ pending \subseteq Email /\ reset \subseteq Email /\ saved \subseteq Email
      /\ call[w].email \in Email
  BY <1>1, Holding DEF WellFormed, NoAddress, Tables
<1>3. pending' \subseteq Email /\ reset' \subseteq Email /\ saved' \subseteq Email
  BY <1>2 DEF CreatePending, ReadPendingAgain, ReplacePending, DeletePending, GrantReset, accountVars
<1>4. Tables' /\ StepsGrow
  BY <1>1, <1>2, <1>3, SetsWritten
<1>5. ASSUME NEW label \in {"deleteSession", "readAgain", "replacePending", "createAgain"},
             call[w].at \in OfSession, Goto(w, label)
      PROVE  AccountsInv'
  <2>1. call[w].session # Nil
    BY <1>1, <1>5, Holding DEF WellFormed
  <2>2. label \in Label \ (Coding \cup Proving \cup NoAddress) /\ label \notin OfUser
    BY DEF Label, OfSession, Coding, OnCode, Proving, NoAddress, OfUser
  <2>3. call[w].at \notin Coding \cup NoAddress \cup {"idle"}
    BY <1>1 DEF Coding, OnCode, NoAddress
  <2>4. QED
    BY <1>1, <1>4, <1>5, <2>1, <2>2, <2>3, PlainGoto
<1>6. ASSUME Return(w) PROVE AccountsInv'
  BY <1>1, <1>4, <1>6, PlainReturn
<1>7. CASE CreatePending(w)
  BY <1>5, <1>6, <1>7 DEF CreatePending, OfSession
<1>8. CASE ReadPendingAgain(w)
  BY <1>5, <1>8 DEF ReadPendingAgain, OfSession
<1>9. CASE ReplacePending(w)
  BY <1>5, <1>9 DEF ReplacePending, OfSession
<1>10. CASE DeletePending(w)
  BY <1>6, <1>10 DEF DeletePending
<1>11. CASE GrantReset(w)
  BY <1>6, <1>11 DEF GrantReset
<1>12. QED
  BY <1>7, <1>8, <1>9, <1>10, <1>11

LEMMA SessionSteps == ASSUME AccountsInv, NEW w \in Worker, DeleteSession(w) \/ CloseSession(w)
  PROVE AccountsInv'
<1> USE DEF At
<1>1. /\ call[w].at \in {"deleteSession", "dropSession", "closeSession"}
      /\ EndSession(call[w].session)
      /\ UNCHANGED <<user, signup, pending, reset, saved, owners, codes, faults>>
  BY DEF DeleteSession, CloseSession
<1>2. /\ Tables /\ call[w].email \in Email
      /\ call[w].session \in Session /\ call[w].session # Nil /\ step[call[w].session] >= 2
  BY <1>1, Holding DEF WellFormed, Grounded, NoAddress, OfSession, AnyCall
<1>3. Tables' /\ StepsGrow
  <2>1. step[call[w].session] >= 1
    BY <1>2 DEF Tables
  <2>2. QED
    BY <1>1, <1>2, <2>1, SessionEnds
<1>4. CASE CloseSession(w)
  BY <1>1, <1>3, <1>4, PlainReturn DEF CloseSession
<1>5. CASE Goto(w, "resend")
  <2>1. "resend" \in Label \ (Coding \cup Proving \cup NoAddress)
    BY DEF Label, Coding, OnCode, Proving, NoAddress
  <2>2. "resend" \notin OfUser \cup OfSession
    BY DEF OfUser, OfSession
  <2>3. call[w].at \notin Coding \cup NoAddress \cup {"idle"}
    BY <1>1 DEF Coding, OnCode, NoAddress
  <2>4. QED
    BY <1>1, <1>3, <1>5, <2>1, <2>2, <2>3, PlainGoto
<1>6. CASE Become(w, Sending(call[w].email, "email_verification", "idle"))
  <2>1. Sound(Sending(call[w].email, "email_verification", "idle"))
    BY <1>2, SendingSound DEF Purpose
  <2>2. QED
    BY <1>1, <1>3, <1>6, <2>1, PlainStep
<1>7. QED
  BY <1>4, <1>5, <1>6 DEF DeleteSession

LEMMA ResendStep == ASSUME AccountsInv, NEW w \in Worker, Resend(w) PROVE AccountsInv'
<1>1. At(w, "resend") /\ UNCHANGED <<accountVars, codes, faults>>
  BY DEF Resend
<1>2. call[w].email \in Email
  BY <1>1, Holding DEF At, WellFormed, NoAddress
<1>3. Sound(Sending(call[w].email, "email_verification", "idle"))
  BY <1>2, SendingSound DEF Purpose
<1>4. QED
  BY <1>1, <1>3, IdleSound, OnlyMoves DEF Resend

LEMMA SignInStep == ASSUME AccountsInv, NEW w \in Worker, SignIn(w) PROVE AccountsInv'
<1>1. UNCHANGED <<accountVars, codes, faults>>
  BY DEF SignIn
<1>2. ASSUME NEW u \in ByEmail(call[w].email), Become(w, SigningIn(u, Nil)) PROVE AccountsInv'
  <2>1. u \in User /\ user[u].kind # "none"
    BY LiveType DEF ByEmail
  <2>2. Sound(SigningIn(u, Nil))
    BY <2>1, SigningSound
  <2>3. QED
    BY <1>1, <1>2, <2>2, OnlyMoves
<1>3. QED
  BY <1>1, <1>2, IdleSound, OnlyMoves DEF SignIn, Return

LEMMA EndingSteps ==
  ASSUME AccountsInv, NEW w \in Worker, RefuseRefresh(w) \/ Abort(w) PROVE AccountsInv'
<1>1. Return(w) /\ UNCHANGED <<accountVars, codes>> /\ faults' \in Nat
  BY DEF RefuseRefresh, Abort, CutOff, AccountsInv, Tables
<1>2. Tables' /\ StepsGrow /\ UNCHANGED <<user, owners, codes>>
  BY <1>1, StepsSame DEF AccountsInv, Tables, accountVars
<1>3. QED
  BY <1>1, <1>2, PlainReturn

LEMMA ExpireStep == ASSUME AccountsInv, Expire PROVE AccountsInv'
<1>1. /\ UNCHANGED <<user, signup, owners>>
      /\ UNCHANGED codes /\ UNCHANGED call /\ UNCHANGED faults
  BY DEF Expire, codeVars, callVars
<1>2. Tables
  BY DEF AccountsInv
<1>3. Tables' /\ StepsGrow
  <2>1. ASSUME NEW s \in Session, step[s] \in {1, 2}, EndSession(s), UNCHANGED <<pending, saved, reset>>
        PROVE  Tables' /\ StepsGrow
    BY <1>1, <1>2, <2>1, SessionEnds
  <2>2. ASSUME UNCHANGED step, pending' \subseteq pending, saved' \subseteq saved, reset' \subseteq reset
        PROVE  Tables' /\ StepsGrow
    <3>1. pending' \subseteq Email /\ reset' \subseteq Email /\ saved' \subseteq Email
      BY <1>2, <2>2 DEF Tables
    <3>2. QED
      BY <1>1, <1>2, <2>2, <3>1, SetsWritten
  <2>3. QED
    BY <2>1, <2>2 DEF Expire
<1>4. QED
  BY <1>1, <1>3, UsersUntouched, CallsStay

-----------------------------------------------------------------------------
(* Steps that write the row of a user *)

LEMMA UserWritten ==
  ASSUME AccountsInv, NEW u \in User, NEW row \in Account, user' = [user EXCEPT ![u] = row],
         owners' \in [User -> SUBSET ClerkId], \A v \in User : owners[v] \subseteq owners'[v],
         UNCHANGED <<step, signup, pending, reset, saved, codes, faults>>,
         user[u].kind # "none" =>
           row.kind # "none" /\ (row.email = user[u].email \/ owners'[u] # {}),
         row.deleted \/ row.clerkId # Nil \/ row.verified => row.kind # "none",
         row.clerkId # Nil => row.clerkId \in owners'[u],
         row.verified /\ owners'[u] = {} => Accepted(row.email)
  PROVE  Tables' /\ RowsGrow /\ UsersGrow /\ StepsGrow /\ \A v \in User : Backed(v)'
<1>1. Tables /\ \A v \in User : Backed(v)
  BY DEF AccountsInv
<1>2. user' \in [User -> Account]
  BY <1>1 DEF Tables
<1>3. \A v \in User : user'[v] = IF v = u THEN row ELSE user[v]
  BY <1>1 DEF Tables
<1>4. Tables'
  BY <1>1, <1>2 DEF Tables
<1>5. RowsGrow /\ StepsGrow
  BY <1>1, RowsSame, StepsSame
<1>6. UsersGrow
  BY <1>3 DEF UsersGrow
<1>7. ASSUME NEW v \in User PROVE Backed(v)'
  <2>1. CASE v = u
    <3>1. Accepted(row.email) => Accepted(row.email)'
      BY DEF Accepted, Sent
    <3>2. user'[v] = row
      BY <1>3, <2>1
    <3>3. QED
      BY <2>1, <3>1, <3>2 DEF Backed
  <2>2. CASE v # u
    <3>1. Backed(v) /\ user'[v] = user[v] /\ owners[v] \subseteq owners'[v]
      BY <1>1, <1>3, <2>2
    <3>2. user[v].deleted => user[v].kind # "none"
      BY <3>1 DEF Backed
    <3>3. QED
      BY <1>1, <1>4, <1>5, <3>1, <3>2, StaysBacked
  <2>3. QED
    BY <2>1, <2>2
<1>8. QED
  BY <1>4, <1>5, <1>6, <1>7

\* ... in what says nothing of who the user is.
LEMMA FlagWritten ==
  ASSUME AccountsInv, NEW u \in User, NEW row \in Account, user' = [user EXCEPT ![u] = row],
         UNCHANGED <<step, signup, pending, reset, saved, owners, codes, faults>>,
         row.kind = user[u].kind, row.email = user[u].email, row.clerkId = user[u].clerkId,
         row.verified = user[u].verified, row.deleted => user[u].kind # "none"
  PROVE  Tables' /\ RowsGrow /\ UsersGrow /\ StepsGrow /\ \A v \in User : Backed(v)'
<1>1. Backed(u) /\ owners' \in [User -> SUBSET ClerkId]
  BY DEF AccountsInv, Tables
<1>2. /\ row.deleted \/ row.clerkId # Nil \/ row.verified => row.kind # "none"
      /\ row.clerkId # Nil => row.clerkId \in owners'[u]
      /\ row.verified /\ owners'[u] = {} => Accepted(row.email)
  BY <1>1 DEF Backed
<1>3. UNCHANGED <<step, signup, pending, reset, saved, codes, faults>>
      /\ \A v \in User : owners[v] \subseteq owners'[v]
  OBVIOUS
<1>4. QED
  BY <1>1, <1>2, <1>3, UserWritten

LEMMA UserType ==
  ASSUME AccountsInv, NEW u \in User
  PROVE  user[u] \in Account /\ Backed(u) /\ (user[u].deleted => user[u].kind # "none")
  BY DEF AccountsInv, Tables, Backed

\* The flags of an account.
LEMMA Flags ==
  ASSUME NEW r \in Account, NEW b \in BOOLEAN
  PROVE  /\ [r EXCEPT !.token = b] \in Account
         /\ [r EXCEPT !.password = b] \in Account
         /\ [r EXCEPT !.twoFactor = b] \in Account
         /\ [r EXCEPT !.profile = b] \in Account
         /\ [r EXCEPT !.verified = b] \in Account
         /\ [r EXCEPT !.deleted = b] \in Account
<1>1. [r EXCEPT !.token = b] \in Account
  BY DEF Account
<1>2. [r EXCEPT !.password = b] \in Account
  BY DEF Account
<1>3. [r EXCEPT !.twoFactor = b] \in Account
  BY DEF Account
<1>4. [r EXCEPT !.profile = b] \in Account
  BY DEF Account
<1>5. [r EXCEPT !.verified = b] \in Account
  BY DEF Account
<1>6. [r EXCEPT !.deleted = b] \in Account
  BY DEF Account
<1>7. QED
  BY <1>1, <1>2, <1>3, <1>4, <1>5, <1>6

LEMMA MoveReturns ==
  ASSUME AccountsInv, NEW w \in Worker, Return(w),
         Tables', RowsGrow, UsersGrow, StepsGrow, \A v \in User : Backed(v)'
  PROVE  AccountsInv'
  BY IdleSound, Moves DEF Return

LEMMA FlagSteps == ASSUME AccountsInv, NEW w \in Worker,
    IssueTokens(w) \/ SetPassword(w) \/ SetTwoFactor(w)
  PROVE AccountsInv'
<1> USE DEF At
<1>1. /\ call[w].at \in {"issueTokens", "setPassword", "enable", "disable"} /\ Return(w)
      /\ UNCHANGED <<step, signup, pending, reset, saved, owners, codes, faults>>
  BY DEF IssueTokens, SetPassword, SetTwoFactor
<1>2. PICK u : u = call[w].user
  OBVIOUS
<1>3. u \in User
  BY <1>1, <1>2, Holding DEF WellFormed, OfUser, AnyCall
<1>4. user[u] \in Account /\ (user[u].deleted => user[u].kind # "none")
  BY <1>3, UserType
<1>5. ASSUME NEW row \in Account, user' = [user EXCEPT ![u] = row],
             row.kind = user[u].kind, row.email = user[u].email, row.clerkId = user[u].clerkId,
             row.verified = user[u].verified, row.deleted = user[u].deleted
      PROVE  AccountsInv'
  BY <1>1, <1>3, <1>4, <1>5, FlagWritten, MoveReturns
<1>6. CASE IssueTokens(w)
  <2> DEFINE row == [user[u] EXCEPT !.token = TRUE]
  <2>1. /\ row \in Account /\ row.kind = user[u].kind /\ row.email = user[u].email
        /\ row.clerkId = user[u].clerkId /\ row.verified = user[u].verified
        /\ row.deleted = user[u].deleted
    BY <1>4, Flags DEF Account
  <2>2. user' = [user EXCEPT ![u] = row]
    BY <1>2, <1>6 DEF IssueTokens
  <2> HIDE DEF row
  <2>3. QED
    BY <1>5, <2>1, <2>2
<1>7. CASE SetPassword(w)
  <2> DEFINE row == [user[u] EXCEPT !.password = TRUE]
  <2>4. row \in Account
    BY <1>4, Flags
  <2>1. /\ row.kind = user[u].kind /\ row.email = user[u].email
        /\ row.clerkId = user[u].clerkId /\ row.verified = user[u].verified
        /\ row.deleted = user[u].deleted
    BY <1>4 DEF Account
  <2>2. user' = [user EXCEPT ![u] = row]
    BY <1>2, <1>7 DEF SetPassword
  <2> HIDE DEF row
  <2>3. QED
    BY <1>5, <2>1, <2>2, <2>4
<1>8. CASE SetTwoFactor(w)
  <2>1. PICK b \in BOOLEAN : b = (call[w].at = "enable")
    OBVIOUS
  <2> DEFINE row == [user[u] EXCEPT !.twoFactor = b]
  <2>5. row \in Account
    BY <1>4, Flags
  <2>2. /\ row.kind = user[u].kind /\ row.email = user[u].email
        /\ row.clerkId = user[u].clerkId /\ row.verified = user[u].verified
        /\ row.deleted = user[u].deleted
    BY <1>4 DEF Account
  <2>3. user' = [user EXCEPT ![u] = row]
    BY <1>2, <1>8, <2>1 DEF SetTwoFactor
  <2> HIDE DEF row
  <2>4. QED
    BY <1>5, <2>2, <2>3, <2>5
<1>9. QED
  BY <1>6, <1>7, <1>8

LEMMA QuietSteps == ASSUME AccountsInv, Logout \/ HandleUserDeleted \/ Remove PROVE AccountsInv'
<1>1. /\ UNCHANGED <<step, signup, pending, reset, saved, owners, codes, faults>>
      /\ UNCHANGED call
  BY DEF Logout, HandleUserDeleted, Remove, codeVars, callVars
<1>2. PICK u \in User, b \in BOOLEAN :
        \/ user' = [user EXCEPT ![u].token = b]
        \/ user' = [user EXCEPT ![u].deleted = b] /\ Live(u)
  <2>1. CASE Logout
    BY <2>1 DEF Logout
  <2>2. CASE HandleUserDeleted
    BY <2>2 DEF HandleUserDeleted, SoftDelete, ByClerkId
  <2>3. CASE Remove
    BY <2>3 DEF Remove, SoftDelete
  <2>4. QED
    BY <2>1, <2>2, <2>3
<1>3. user[u] \in Account /\ (user[u].deleted => user[u].kind # "none")
  BY UserType
<1>4. PICK row \in Account :
        /\ user' = [user EXCEPT ![u] = row]
        /\ row.kind = user[u].kind /\ row.email = user[u].email /\ row.clerkId = user[u].clerkId
        /\ row.verified = user[u].verified /\ (row.deleted => user[u].kind # "none")
  <2>1. CASE user' = [user EXCEPT ![u].token = b]
    <3> DEFINE row == [user[u] EXCEPT !.token = b]
    <3>1. /\ row \in Account /\ row.kind = user[u].kind /\ row.email = user[u].email
          /\ row.clerkId = user[u].clerkId /\ row.verified = user[u].verified
          /\ row.deleted = user[u].deleted
      BY <1>3, Flags DEF Account
    <3>2. user' = [user EXCEPT ![u] = row]
      BY <2>1
    <3> HIDE DEF row
    <3>3. QED
      BY <1>3, <3>1, <3>2
  <2>2. CASE user' = [user EXCEPT ![u].deleted = b] /\ Live(u)
    <3> DEFINE row == [user[u] EXCEPT !.deleted = b]
    <3>1. /\ row \in Account /\ row.kind = user[u].kind /\ row.email = user[u].email
          /\ row.clerkId = user[u].clerkId /\ row.verified = user[u].verified
      BY <1>3, Flags DEF Account
    <3>2. user' = [user EXCEPT ![u] = row] /\ user[u].kind # "none"
      BY <2>2 DEF Live
    <3> HIDE DEF row
    <3>3. QED
      BY <3>1, <3>2
  <2>3. QED
    BY <1>2, <2>1, <2>2
<1>5. QED
  BY <1>1, <1>4, FlagWritten, CallsStay

LEMMA VerifyUserStep == ASSUME AccountsInv, NEW w \in Worker, VerifyUser(w) PROVE AccountsInv'
<1> USE DEF At
<1>1. /\ call[w].at \in {"verifyUser", "verifyLegacy"}
      /\ UNCHANGED <<step, signup, pending, reset, saved, owners, codes, faults>>
  BY DEF VerifyUser
<1>2. PICK u : u = call[w].user
  OBVIOUS
<1>3. /\ u \in User /\ user[u].kind # "none" /\ Accepted(call[w].email)
      /\ user[u].email = call[w].email \/ owners[u] # {}
  BY <1>1, <1>2, Holding DEF WellFormed, Grounded, OfUser, AnyCall, Proving
<1>4. user[u] \in Account /\ Backed(u)
  BY <1>3, UserType
<1> DEFINE row == [user[u] EXCEPT !.verified = TRUE]
<1>5. row \in Account
  BY <1>4, Flags
<1>6. row.kind = user[u].kind /\ row.email = user[u].email /\ row.clerkId = user[u].clerkId
  BY <1>4 DEF Account
<1>7. user' = [user EXCEPT ![u] = row]
  BY <1>2 DEF VerifyUser
<1> HIDE DEF row
<1>8. /\ row.deleted \/ row.clerkId # Nil \/ row.verified => row.kind # "none"
      /\ row.clerkId # Nil => row.clerkId \in owners'[u]
      /\ row.verified /\ owners'[u] = {} => Accepted(row.email)
      /\ owners' \in [User -> SUBSET ClerkId] /\ \A v \in User : owners[v] \subseteq owners'[v]
  BY <1>1, <1>3, <1>4, <1>6 DEF Backed, AccountsInv, Tables
<1>9. Tables' /\ RowsGrow /\ UsersGrow /\ StepsGrow /\ \A v \in User : Backed(v)'
  BY <1>1, <1>3, <1>5, <1>6, <1>7, <1>8, UserWritten
<1>10. CASE Return(w)
  BY <1>9, <1>10, MoveReturns
<1>11. CASE call[w].at = "verifyLegacy" /\ Goto(w, "deletePending")
  <2>1. PICK c : c = [call[w] EXCEPT !.at = "deletePending"]
    OBVIOUS
  <2>2. Sound(c) /\ Become(w, c) /\ Tables
    <3>1. /\ call[w].at \notin Coding \cup NoAddress \cup {"idle"} /\ call[w].user # Nil
          /\ "deletePending" \in Label \ (Coding \cup Proving \cup NoAddress)
          /\ "deletePending" \notin OfSession
      BY <1>2, <1>3, <1>11, AccountNilAssumption
      DEF Coding, OnCode, NoAddress, Label, Proving, OfSession
    <3>2. QED
      BY <1>11, <2>1, <3>1, GoesOn DEF Goto, AccountsInv
  <2>3. Sound(c)'
    BY <1>9, <2>2, StaysSound
  <2>4. QED
    BY <1>9, <2>2, <2>3, Moves
<1>12. QED
  BY <1>10, <1>11 DEF VerifyUser

\* An account is made of an address by a call that signs someone up.
LEMMA MadeSound ==
  ASSUME AccountsInv, Tables', RowsGrow, UsersGrow, StepsGrow,
         NEW w \in Worker, call[w].at \in {"createAccount", "createSeller"},
         NEW label \in {"deletePending", "insertProfile"},
         NEW u \in User, user'[u].kind # "none",
         NEW c, c = [call[w] EXCEPT !.at = label, !.user = u]
  PROVE  Sound(c)'
<1>1. PICK d : d = call[w]
  OBVIOUS
<1>2. /\ WellFormed(d) /\ Grounded(d) /\ Tables /\ d.then = "idle" /\ d \in AnyCall
      /\ d.email \in Email /\ d.clerk = Nil /\ d # Idle
  BY <1>1, Holding DEF WellFormed, OfClerk, NoAddress, Coding, OnCode, Idle
<1>3. Grounded(d)'
  BY <1>2, StaysSound DEF Sound
<1>4. c = [d EXCEPT !.at = label, !.user = u]
  BY <1>1
<1>5. /\ c.at = label /\ c.then = "idle" /\ c.email = d.email /\ c.user = u
      /\ c.session = d.session /\ c.clerk = Nil
  BY <1>2, <1>4 DEF AnyCall
<1>6. c \in AnyCall
  BY <1>2, <1>4 DEF AnyCall, Label
<1>7. u # Nil
  BY AccountNilAssumption
<1>8. WellFormed(c)
  BY <1>2, <1>5, <1>6, <1>7 DEF WellFormed, Coding, OnCode, NoAddress, OfUser, OfSession, OfClerk, Proving
<1>9. Grounded(c)'
  BY <1>3, <1>5, <1>7 DEF Grounded, OnCode, Proving
<1>10. QED
  BY <1>8, <1>9 DEF Sound

LEMMA Inserted ==
  ASSUME AccountsInv, NEW u \in User, NEW row \in Account, Insert(u, row),
         UNCHANGED <<step, signup, pending, reset, saved, codes, faults>>,
         owners' \in [User -> SUBSET ClerkId], \A v \in User : owners[v] \subseteq owners'[v],
         row.kind # "none", row.clerkId # Nil => row.clerkId \in owners'[u],
         row.verified => Accepted(row.email) \/ owners'[u] # {}
  PROVE  /\ Tables' /\ RowsGrow /\ UsersGrow /\ StepsGrow /\ \A v \in User : Backed(v)'
         /\ user'[u] = row
<1>1. user[u].kind = "none" /\ user' = [user EXCEPT ![u] = row] /\ user'[u] = row
  BY NoneType DEF Insert, AccountsInv, Tables
<1>2. QED
  BY <1>1, UserWritten

LEMMA CreateAccountStep == ASSUME AccountsInv, NEW w \in Worker, CreateAccount(w) PROVE AccountsInv'
<1> USE DEF At
<1>1. /\ call[w].at = "createAccount"
      /\ UNCHANGED <<step, signup, pending, reset, saved, owners, codes, faults>>
  BY DEF CreateAccount
<1>2. PICK e : e = call[w].email
  OBVIOUS
<1>3. e \in Email /\ Accepted(e)
  BY <1>1, <1>2, Holding DEF WellFormed, Grounded, NoAddress, Proving
<1>4. ASSUME NEW u \in User, Tables', RowsGrow, UsersGrow, StepsGrow, \A v \in User : Backed(v)',
             user'[u].kind # "none", Made(w, u)
      PROVE  AccountsInv'
  <2>1. PICK c : c = [call[w] EXCEPT !.at = "deletePending", !.user = u]
    OBVIOUS
  <2>2. Sound(c)'
    BY <1>1, <1>4, <2>1, MadeSound
  <2>3. QED
    BY <1>4, <2>1, <2>2, Moves DEF Made
<1>5. ASSUME NEW u \in User, Insert(u, Buyer(e)), Made(w, u) PROVE AccountsInv'
  <2>1. /\ Buyer(e) \in Account /\ Buyer(e).kind = "buyer" /\ Buyer(e).clerkId = Nil
        /\ Accepted(Buyer(e).email)
    BY <1>3, MemberType
  <2>2. owners' \in [User -> SUBSET ClerkId] /\ \A v \in User : owners[v] \subseteq owners'[v]
    BY <1>1 DEF AccountsInv, Tables
  <2>3. /\ Tables' /\ RowsGrow /\ UsersGrow /\ StepsGrow /\ \A v \in User : Backed(v)'
        /\ user'[u] = Buyer(e)
    BY <1>1, <1>5, <2>1, <2>2, Inserted
  <2>4. QED
    BY <1>4, <1>5, <2>1, <2>3
<1>6. ASSUME UNCHANGED user
      PROVE  Tables' /\ RowsGrow /\ UsersGrow /\ StepsGrow /\ \A v \in User : Backed(v)'
  <2>1. UNCHANGED <<accountVars, codes, faults>>
    BY <1>1, <1>6 DEF accountVars
  <2>2. QED
    BY <2>1, TablesSame
<1>7. ASSUME NEW u \in MadeAlready(e), Made(w, u), UNCHANGED user PROVE AccountsInv'
  <2>1. u \in User /\ user'[u].kind # "none"
    BY <1>7 DEF MadeAlready, ByEmail
  <2>2. QED
    BY <1>4, <1>6, <1>7, <2>1
<1>8. ASSUME Return(w), UNCHANGED user PROVE AccountsInv'
  BY <1>6, <1>8, MoveReturns
<1>9. QED
  BY <1>2, <1>5, <1>7, <1>8 DEF CreateAccount

LEMMA CreateSellerStep == ASSUME AccountsInv, NEW w \in Worker, CreateSeller(w) PROVE AccountsInv'
<1> USE DEF At
<1>1. /\ call[w].at = "createSeller"
      /\ UNCHANGED <<step, signup, pending, reset, saved, owners, codes, faults>>
  BY DEF CreateSeller
<1>2. PICK e : e = call[w].email
  OBVIOUS
<1>3. e \in Email
  BY <1>1, <1>2, Holding DEF WellFormed, NoAddress
<1>4. ASSUME Return(w), UNCHANGED user PROVE AccountsInv'
  <2>1. UNCHANGED <<accountVars, codes, faults>>
    BY <1>1, <1>4 DEF accountVars
  <2>2. QED
    BY <1>4, <2>1, TablesSame, MoveReturns
<1>5. ASSUME NEW u \in User, Insert(u, Member("seller", e)),
             Become(w, [call[w] EXCEPT !.at = "insertProfile", !.user = u])
      PROVE  AccountsInv'
  <2>1. /\ Member("seller", e) \in Account /\ Member("seller", e).kind = "seller"
        /\ Member("seller", e).clerkId = Nil /\ ~Member("seller", e).verified
    BY <1>3, MemberType
  <2>2. owners' \in [User -> SUBSET ClerkId] /\ \A v \in User : owners[v] \subseteq owners'[v]
    BY <1>1 DEF AccountsInv, Tables
  <2>3. /\ Tables' /\ RowsGrow /\ UsersGrow /\ StepsGrow /\ \A v \in User : Backed(v)'
        /\ user'[u] = Member("seller", e)
    BY <1>1, <1>5, <2>1, <2>2, Inserted
  <2>4. PICK c : c = [call[w] EXCEPT !.at = "insertProfile", !.user = u]
    OBVIOUS
  <2>5. Sound(c)'
    BY <1>1, <2>1, <2>3, <2>4, MadeSound
  <2>6. QED
    BY <1>5, <2>3, <2>4, <2>5, Moves
<1>6. QED
  BY <1>2, <1>4, <1>5 DEF CreateSeller

LEMMA InsertProfileStep == ASSUME AccountsInv, NEW w \in Worker, InsertProfile(w) PROVE AccountsInv'
<1> USE DEF At
<1>1. /\ call[w].at = "insertProfile"
      /\ UNCHANGED <<step, signup, pending, reset, saved, owners, codes, faults>>
  BY DEF InsertProfile
<1>2. PICK d : d = call[w]
  OBVIOUS
<1>3. /\ d \in AnyCall /\ d.user \in User /\ d.email \in Email
      /\ d.session # Nil => step[d.session] >= 2
  BY <1>1, <1>2, Holding DEF WellFormed, Grounded, NoAddress, OfUser, AnyCall
<1>4. user[d.user] \in Account /\ (user[d.user].deleted => user[d.user].kind # "none")
  BY <1>3, UserType
<1> DEFINE row == [user[d.user] EXCEPT !.profile = TRUE]
<1>5. row \in Account
  BY <1>4, Flags
<1>6. /\ row.kind = user[d.user].kind /\ row.email = user[d.user].email
      /\ row.clerkId = user[d.user].clerkId /\ row.verified = user[d.user].verified
      /\ row.deleted = user[d.user].deleted
  BY <1>4 DEF Account
<1>7. user' = [user EXCEPT ![d.user] = row]
  BY <1>2 DEF InsertProfile
<1> HIDE DEF row
<1>8. Tables' /\ RowsGrow /\ UsersGrow /\ StepsGrow /\ \A v \in User : Backed(v)'
  BY <1>1, <1>3, <1>4, <1>5, <1>6, <1>7, FlagWritten
<1>9. PICK next : next = IF d.session = Nil THEN "idle" ELSE "closeSession"
  OBVIOUS
<1> DEFINE c == [Sending(d.email, "email_verification", next) EXCEPT !.session = d.session]
<1>10. /\ c.at = "checkCooldown" /\ c.then = next /\ c.email = d.email
       /\ c.purpose = "email_verification" /\ c.user = Nil /\ c.clerk = Nil
       /\ c.session = d.session
  BY DEF Sending, NewCall
<1>11. d.session \in Session \cup {Nil} /\ next \in Rests /\ "email_verification" \in Purpose
  BY <1>3, <1>9 DEF AnyCall, Rests, Purpose
<1>12. c \in AnyCall
  BY <1>3, <1>11 DEF Sending, NewCall, AnyCall, Label, Coding
<1>13. Become(w, c)
  BY <1>2, <1>9 DEF InsertProfile
<1> HIDE DEF c
<1>14. WellFormed(c)
  BY <1>3, <1>9, <1>10, <1>11, <1>12
  DEF WellFormed, Coding, OnCode, NoAddress, OfUser, OfSession, OfClerk, Proving
<1>15. Grounded(c)
  BY <1>3, <1>9, <1>10 DEF Grounded, OnCode, Proving
<1>16. PICK b : b = c
  OBVIOUS
<1>17. Sound(b)'
  <2>1. Sound(b) /\ Tables
    BY <1>14, <1>15, <1>16 DEF Sound, AccountsInv
  <2>2. QED
    BY <1>8, <2>1, StaysSound
<1>18. QED
  BY <1>8, <1>13, <1>16, <1>17, Moves

-----------------------------------------------------------------------------
(* Clerk's steps *)

LEMMA ClerkSound ==
  ASSUME Tables', RowsGrow, UsersGrow, StepsGrow,
         NEW u \in User, user'[u].kind # "none", NEW k \in ClerkId, k \in owners'[u],
         NEW c, c = SigningIn(u, k)
  PROVE  Sound(c)'
<1>1. /\ c.at = "issueTokens" /\ c.then = "idle"
      /\ c.user = u /\ c.session = Nil /\ c.clerk = k
  BY DEF SigningIn, NewCall
<1>2. c \in AnyCall
  BY DEF SigningIn, NewCall, AnyCall, Label, NoAddress, Rests
<1>3. u # Nil
  BY AccountNilAssumption
<1>4. WellFormed(c)
  BY <1>1, <1>2, <1>3 DEF WellFormed, Coding, OnCode, NoAddress, OfUser, OfSession, OfClerk, Proving
<1>5. Grounded(c)'
  BY <1>1 DEF Grounded, OnCode, Proving
<1>6. QED
  BY <1>4, <1>5 DEF Sound

\* A Clerk user that was let in to an account changes its address.
LEMMA ClerkWrites ==
  ASSUME AccountsInv, NEW u \in User, NEW row \in Account, user' = [user EXCEPT ![u] = row],
         UNCHANGED <<step, signup, pending, reset, saved, owners, codes, faults>>,
         user[u].kind # "none", NEW k \in owners[u],
         row.kind = user[u].kind, row.clerkId = user[u].clerkId
  PROVE  Tables' /\ RowsGrow /\ UsersGrow /\ StepsGrow /\ \A v \in User : Backed(v)'
<1>1. /\ owners' \in [User -> SUBSET ClerkId] /\ \A v \in User : owners[v] \subseteq owners'[v]
      /\ owners'[u] # {}
  BY DEF AccountsInv, Tables
<1>2. row.clerkId # Nil => row.clerkId \in owners'[u]
  BY UserType DEF Backed
<1>3. QED
  BY <1>1, <1>2, UserWritten

LEMMA OfClerkCalls ==
  ASSUME AccountsInv, NEW w \in Worker, call[w].at \in {"reactivate", "sync"}
  PROVE  /\ call[w].user \in User /\ user[call[w].user].kind # "none"
         /\ call[w].clerk \in ClerkId /\ call[w].clerk \in owners[call[w].user]
         /\ call[w].email \in Email \cup {Nil}
  BY Holding DEF WellFormed, Grounded, OfUser, OfClerk, AnyCall

LEMMA ReactivateStep == ASSUME AccountsInv, NEW w \in Worker, ReactivateClerkUser(w) PROVE AccountsInv'
<1> USE DEF At
<1>1. /\ call[w].at = "reactivate"
      /\ UNCHANGED <<step, signup, pending, reset, saved, owners, codes, faults>>
  BY DEF ReactivateClerkUser
<1>2. PICK u, e, k : u = call[w].user /\ e = call[w].email /\ k = call[w].clerk
  OBVIOUS
<1>3. /\ u \in User /\ user[u].kind # "none" /\ k \in ClerkId /\ k \in owners[u]
      /\ e \in Email \cup {Nil}
  BY <1>1, <1>2, OfClerkCalls
<1>4. CASE Return(w) /\ UNCHANGED user
  <2>1. UNCHANGED <<accountVars, codes, faults>>
    BY <1>1, <1>4 DEF accountVars
  <2>2. QED
    BY <1>4, <2>1, TablesSame, MoveReturns
<1>5. CASE /\ user' = [user EXCEPT ![u].deleted = FALSE, ![u].email = e,
                                   ![u].verified = TRUE, ![u].local = FALSE]
           /\ Become(w, SigningIn(u, k))
  <2>1. user[u] \in Account
    BY <1>3, UserType
  <2> DEFINE row == [user[u] EXCEPT !.deleted = FALSE, !.email = e, !.verified = TRUE, !.local = FALSE]
  <2>2. row \in Account
    BY <1>3, <2>1 DEF Account
  <2>3. row.kind = user[u].kind /\ row.clerkId = user[u].clerkId
    BY <2>1 DEF Account
  <2>4. user' = [user EXCEPT ![u] = row]
    BY <1>3, <1>5 DEF AccountsInv, Tables
  <2> HIDE DEF row
  <2>5. Tables' /\ RowsGrow /\ UsersGrow /\ StepsGrow /\ \A v \in User : Backed(v)'
    BY <1>1, <1>3, <2>2, <2>3, <2>4, ClerkWrites
  <2>6. user'[u].kind # "none" /\ k \in owners'[u]
    BY <1>1, <1>3, <2>5 DEF UsersGrow
  <2>7. PICK c : c = SigningIn(u, k)
    OBVIOUS
  <2>8. Sound(c)'
    BY <1>3, <2>5, <2>6, <2>7, ClerkSound
  <2>9. QED
    BY <1>5, <2>5, <2>7, <2>8, Moves
<1>6. QED
  BY <1>2, <1>4, <1>5 DEF ReactivateClerkUser

LEMMA SyncStep == ASSUME AccountsInv, NEW w \in Worker, SyncClerkIdentity(w) PROVE AccountsInv'
<1> USE DEF At
<1>1. /\ call[w].at = "sync" /\ Return(w)
      /\ UNCHANGED <<step, signup, pending, reset, saved, owners, codes, faults>>
  BY DEF SyncClerkIdentity
<1>2. PICK u, e, k : u = call[w].user /\ e = call[w].email /\ k = call[w].clerk
  OBVIOUS
<1>3. /\ u \in User /\ user[u].kind # "none" /\ k \in ClerkId /\ k \in owners[u]
      /\ e \in Email \cup {Nil}
  BY <1>1, <1>2, OfClerkCalls
<1>4. CASE UNCHANGED user
  <2>1. UNCHANGED <<accountVars, codes, faults>>
    BY <1>1, <1>4 DEF accountVars
  <2>2. QED
    BY <1>1, <2>1, TablesSame, MoveReturns
<1>5. CASE user' = [user EXCEPT ![u].email = e, ![u].verified = TRUE]
  <2>1. user[u] \in Account
    BY <1>3, UserType
  <2> DEFINE row == [user[u] EXCEPT !.email = e, !.verified = TRUE]
  <2>2. row \in Account
    BY <1>3, <2>1 DEF Account
  <2>3. row.kind = user[u].kind /\ row.clerkId = user[u].clerkId
    BY <2>1 DEF Account
  <2>4. user' = [user EXCEPT ![u] = row]
    BY <1>3, <1>5 DEF AccountsInv, Tables
  <2> HIDE DEF row
  <2>5. Tables' /\ RowsGrow /\ UsersGrow /\ StepsGrow /\ \A v \in User : Backed(v)'
    BY <1>1, <1>3, <2>2, <2>3, <2>4, ClerkWrites
  <2>6. QED
    BY <1>1, <2>5, MoveReturns
<1>6. QED
  BY <1>2, <1>4, <1>5 DEF SyncClerkIdentity

\* A Clerk user is added to those that were let in.
LEMMA LetIn ==
  ASSUME Tables, NEW u \in User, NEW k \in ClerkId, owners' = [owners EXCEPT ![u] = @ \cup {k}]
  PROVE  /\ owners' \in [User -> SUBSET ClerkId] /\ k \in owners'[u]
         /\ \A v \in User : owners[v] \subseteq owners'[v]
  BY DEF Tables

LEMMA LinkStep == ASSUME AccountsInv, LinkClerkIdentity PROVE AccountsInv'
<1>1. PICK u \in User, k \in ClerkId :
        /\ Live(u) /\ user[u].verified /\ user' = [user EXCEPT ![u].clerkId = k]
        /\ owners' = [owners EXCEPT ![u] = @ \cup {k}]
  BY DEF LinkClerkIdentity
<1>2. UNCHANGED <<step, signup, pending, reset, saved, codes, faults>> /\ UNCHANGED call
  BY DEF LinkClerkIdentity, codeVars, callVars
<1>3. /\ owners' \in [User -> SUBSET ClerkId] /\ k \in owners'[u]
      /\ \A v \in User : owners[v] \subseteq owners'[v]
  BY <1>1, LetIn DEF AccountsInv
<1>4. user[u] \in Account /\ user[u].kind # "none"
  BY <1>1, UserType DEF Live
<1> DEFINE row == [user[u] EXCEPT !.clerkId = k]
<1>5. row \in Account
  BY <1>4 DEF Account
<1>6. row.kind = user[u].kind /\ row.email = user[u].email /\ row.clerkId = k
  BY <1>4 DEF Account
<1>7. user' = [user EXCEPT ![u] = row]
  BY <1>1
<1> HIDE DEF row
<1>8. Tables' /\ RowsGrow /\ UsersGrow /\ StepsGrow /\ \A v \in User : Backed(v)'
  BY <1>2, <1>3, <1>4, <1>5, <1>6, <1>7, UserWritten
<1>9. QED
  BY <1>2, <1>8, CallsStay

LEMMA InsertClerk ==
  ASSUME AccountsInv, NEW w \in Worker, call[w].at \in {"createClerkBuyer", "createFromEvent"},
         NEW u \in User, InsertClerkBuyer(w, u),
         UNCHANGED <<step, signup, pending, reset, saved, codes, faults>>
  PROVE  /\ Tables' /\ RowsGrow /\ UsersGrow /\ StepsGrow /\ \A v \in User : Backed(v)'
         /\ user'[u].kind # "none" /\ call[w].clerk \in ClerkId /\ call[w].clerk \in owners'[u]
<1>1. PICK k, e : k = call[w].clerk /\ e = call[w].email
  OBVIOUS
<1>2. k \in ClerkId /\ e \in Email \cup {Nil}
  BY <1>1, Holding DEF WellFormed, OfClerk, AnyCall
<1>3. Insert(u, ClerkBuyer(k, e)) /\ owners' = [owners EXCEPT ![u] = @ \cup {k}]
  BY <1>1 DEF InsertClerkBuyer
<1>4. /\ owners' \in [User -> SUBSET ClerkId] /\ k \in owners'[u]
      /\ \A v \in User : owners[v] \subseteq owners'[v]
  BY <1>2, <1>3, LetIn DEF AccountsInv
<1>5. ClerkBuyer(k, e) \in Account
  BY <1>2 DEF ClerkBuyer, None, Account
<1>6. ClerkBuyer(k, e).kind = "buyer" /\ ClerkBuyer(k, e).clerkId = k
  BY DEF ClerkBuyer, None
<1>7. /\ Tables' /\ RowsGrow /\ UsersGrow /\ StepsGrow /\ \A v \in User : Backed(v)'
      /\ user'[u] = ClerkBuyer(k, e)
  BY <1>3, <1>4, <1>5, <1>6, Inserted
<1>8. QED
  BY <1>1, <1>2, <1>4, <1>6, <1>7

LEMMA CreateClerkBuyerStep ==
  ASSUME AccountsInv, NEW w \in Worker, CreateClerkBuyer(w) PROVE AccountsInv'
<1> USE DEF At
<1>1. /\ call[w].at = "createClerkBuyer"
      /\ UNCHANGED <<step, signup, pending, reset, saved, codes, faults>>
  BY DEF CreateClerkBuyer
<1>2. PICK k : k = call[w].clerk
  OBVIOUS
<1>3. k \in ClerkId
  BY <1>1, <1>2, Holding DEF WellFormed, OfClerk, AnyCall
<1>4. ASSUME NEW u \in User, InsertClerkBuyer(w, u), Become(w, SigningIn(u, k)) PROVE AccountsInv'
  <2>1. /\ Tables' /\ RowsGrow /\ UsersGrow /\ StepsGrow /\ \A v \in User : Backed(v)'
        /\ user'[u].kind # "none" /\ k \in owners'[u]
    BY <1>1, <1>2, <1>4, InsertClerk
  <2>2. PICK c : c = SigningIn(u, k)
    OBVIOUS
  <2>3. Sound(c)'
    BY <1>3, <2>1, <2>2, ClerkSound
  <2>4. QED
    BY <1>4, <2>1, <2>2, <2>3, Moves
<1>5. ASSUME Refused(w) PROVE UNCHANGED <<accountVars, codes, faults>>
  BY <1>1, <1>5 DEF Refused, accountVars
<1>6. ASSUME Refused(w), NEW u \in SameIdentity(w), Become(w, SigningIn(u, k)) PROVE AccountsInv'
  <2>1. u \in User /\ user[u].kind # "none" /\ k \in owners[u]
    BY <1>2, <1>3, ByClerk DEF SameIdentity
  <2>2. Sound(SigningIn(u, k))
    BY <1>3, <2>1, SigningSound
  <2>3. QED
    BY <1>5, <1>6, <2>2, OnlyMoves
<1>7. ASSUME Refused(w), Return(w) PROVE AccountsInv'
  BY <1>5, <1>7, IdleSound, OnlyMoves DEF Return
<1>8. QED
  BY <1>2, <1>4, <1>6, <1>7 DEF CreateClerkBuyer

LEMMA CreateFromEventStep ==
  ASSUME AccountsInv, NEW w \in Worker, CreateFromEvent(w) PROVE AccountsInv'
<1> USE DEF At
<1>1. /\ call[w].at = "createFromEvent" /\ Return(w)
      /\ UNCHANGED <<step, signup, pending, reset, saved, codes, faults>>
  BY DEF CreateFromEvent
<1>2. ASSUME NEW u \in User, InsertClerkBuyer(w, u) PROVE AccountsInv'
  BY <1>1, <1>2, InsertClerk, MoveReturns
<1>3. ASSUME Refused(w) PROVE AccountsInv'
  <2>1. UNCHANGED <<accountVars, codes, faults>>
    BY <1>1, <1>3 DEF Refused, accountVars
  <2>2. QED
    BY <1>1, <2>1, IdleSound, OnlyMoves DEF Return
<1>4. QED
  BY <1>2, <1>3 DEF CreateFromEvent

-----------------------------------------------------------------------------
(* Every step keeps the invariant *)

LEMMA RequestStep == ASSUME AccountsInv, NEW w \in Worker, Request(w) PROVE AccountsInv'
<1>1. CASE Register(w) \/ VerifyEmail(w)
  BY <1>1, OpenSessionStep, DetailsStep, BeginsSignup, BeginsCode, BeginsVerify DEF Register
<1>2. CASE SellerRegistration(w) \/ OnboardPublic(w)
  BY <1>2, OpenSessionStep, DetailsStep, BeginsSignup, BeginsVerify
  DEF SellerRegistration, RegisterSellerDetails
<1>3. CASE CodeRequests(w)
  BY <1>3, BeginsCode, BeginsVerify DEF CodeRequests
<1>4. CASE ClerkRequests(w) \/ HandleClerkWebhook(w)
  BY <1>4, BeginsClerk, LinkStep, QuietSteps DEF ClerkRequests, HandleClerkWebhook
<1>5. CASE LoginRequests(w) \/ PasswordRequests(w) \/ SecurityRequests(w)
  BY <1>5, BeginsOfUser, BeginsCode DEF LoginRequests, PasswordRequests, SecurityRequests
<1>6. CASE TokenRequests(w) \/ Remove
  BY <1>6, BeginsOfUser, QuietSteps DEF TokenRequests
<1>7. QED
  BY <1>1, <1>2, <1>3, <1>4, <1>5, <1>6 DEF Request, BuyerRegistration

LEMMA ContinueStep == ASSUME AccountsInv, NEW w \in Worker, Continue(w) PROVE AccountsInv'
  BY PendingSteps, SessionSteps, ResendStep, SignInStep, EndingSteps, FlagSteps, VerifyUserStep,
     CreateAccountStep, CreateSellerStep, InsertProfileStep, ReactivateStep, SyncStep,
     CreateClerkBuyerStep, CreateFromEventStep
  DEF Continue

LEMMA AccountsStep == AccountsInv /\ [Next]_vars => AccountsInv'
<1> SUFFICES ASSUME AccountsInv, [Next]_vars PROVE AccountsInv'
  OBVIOUS
<1>1. CASE UNCHANGED vars
  <2>1. UNCHANGED <<accountVars, codes, faults>> /\ UNCHANGED call
    BY <1>1 DEF vars, codeVars, callVars
  <2>2. QED
    BY <2>1, TablesSame, CallsStay
<1>2. CASE Next
  BY <1>2, ExpireStep, ElapseStep, CodeSteps, RequestStep, ContinueStep, EndingSteps DEF Next
<1>3. QED
  BY <1>1, <1>2

LEMMA AccountsInvariant == Spec => []AccountsInv
  BY InitInv, AccountsStep, PTL DEF Spec

-----------------------------------------------------------------------------
(* The properties *)

\* Every reachable state is typed: a call is about a user that exists, a code
\* that was sent and a session whose details were given (auth.service.ts).
THEOREM AccountTypes == Spec => []TypeOK
  BY AccountsInvariant, InvIsTyped, PTL

\* The address of a verified account was proved by a code that was sent to it
\* (verifyEmail), unless a Clerk user that was let in brought it.
THEOREM AddressProved == Spec => []VerifiedByCode
<1>1. AccountsInv => VerifiedByCode
  BY DEF AccountsInv, Backed, Accepted, VerifiedByCode
<1>2. QED
  BY <1>1, AccountsInvariant, PTL

\* A Clerk user stands in an account, and signs in to it, only if it made it
\* or its owner linked it (clerkLogin, syncClerkUser, linkClerkIdentity).
THEOREM OnlyOwnersSignIn == Spec => []EmailNeverLinks
<1>1. AccountsInv => EmailNeverLinks
  <2> SUFFICES ASSUME AccountsInv PROVE EmailNeverLinks
    OBVIOUS
  <2>1. \A u \in User : user[u].clerkId # Nil => user[u].clerkId \in owners[u]
    BY DEF AccountsInv, Backed
  <2>2. ASSUME NEW w \in Worker, At(w, "issueTokens"), call[w].clerk # Nil
        PROVE  call[w].clerk \in owners[call[w].user]
    BY <2>2, Holding DEF At, WellFormed, Grounded, OfUser
  <2>3. QED
    BY <2>1, <2>2 DEF EmailNeverLinks
<1>2. QED
  BY <1>1, AccountsInvariant, PTL

-----------------------------------------------------------------------------
(* Pending signups *)

\* Who else but the steps that create, replace, delete or expire a pending
\* signup leaves them all as they are.
LEMMA RequestsKeepPending ==
  ASSUME NEW w \in Worker, Request(w)
  PROVE  UNCHANGED <<pending, saved>>
<1>1. CASE Register(w)
  BY <1>1 DEF Register, RegisterEmail, OpenSession, RegisterDetails, RegisterPassword,
              ResendVerificationOtp, accountVars
<1>2. CASE SellerRegistration(w) \/ OnboardPublic(w) \/ VerifyEmail(w)
  BY <1>2 DEF SellerRegistration, RegisterSellerEmail, OpenSession, RegisterSellerDetails,
              RegisterDetails, RegisterSellerPassword, OnboardPublic, VerifyEmail, accountVars
<1>3. CASE CodeRequests(w) \/ LoginRequests(w) \/ PasswordRequests(w)
  BY <1>3 DEF CodeRequests, LoginRequests, PasswordRequests, RequestOtp, ForgotPassword, VerifyOtp,
              VerifyEmail, ForgotPasswordVerify, Login, ForgotPasswordReset, accountVars
<1>4. CASE ClerkRequests(w) \/ HandleClerkWebhook(w) \/ Remove
  BY <1>4 DEF ClerkRequests, ClerkLogin, LinkClerkIdentity, HandleClerkWebhook, SyncClerkUser,
              HandleUserDeleted, Remove, accountVars
<1>5. CASE SecurityRequests(w) \/ TokenRequests(w)
  BY <1>5 DEF SecurityRequests, ChangePassword, Initiate2faEnable, Confirm2faEnable, Disable2fa,
              TokenRequests, RefreshTokens, Logout, accountVars
<1>6. QED
  BY <1>1, <1>2, <1>3, <1>4, <1>5 DEF Request, BuyerRegistration

LEMMA CallsKeepPending ==
  ASSUME NEW w \in Worker, Continue(w), ~CreatePending(w), ~ReplacePending(w), ~DeletePending(w)
  PROVE  UNCHANGED <<pending, saved>>
<1>1. CASE ReadPendingAgain(w) \/ DeleteSession(w) \/ Resend(w) \/ CreateAccount(w) \/ VerifyUser(w)
  BY <1>1 DEF ReadPendingAgain, DeleteSession, Resend, CreateAccount, VerifyUser, accountVars
<1>2. CASE CreateSeller(w) \/ InsertProfile(w) \/ CloseSession(w) \/ SignIn(w) \/ IssueTokens(w)
  BY <1>2 DEF CreateSeller, InsertProfile, CloseSession, SignIn, IssueTokens, accountVars
<1>3. CASE RefuseRefresh(w) \/ GrantReset(w) \/ SetPassword(w) \/ SetTwoFactor(w)
  BY <1>3 DEF RefuseRefresh, GrantReset, SetPassword, SetTwoFactor, accountVars
<1>4. CASE \/ CreateClerkBuyer(w) \/ ReactivateClerkUser(w)
           \/ SyncClerkIdentity(w) \/ CreateFromEvent(w)
  BY <1>4 DEF CreateClerkBuyer, ReactivateClerkUser, SyncClerkIdentity, CreateFromEvent
<1>5. QED
  BY <1>1, <1>2, <1>3, <1>4 DEF Continue

LEMMA PendingStep == AccountsInv /\ Clean /\ SignupNotLost /\ [Next]_vars => SignupNotLost'
<1> SUFFICES ASSUME AccountsInv, Clean, SignupNotLost, [Next]_vars PROVE SignupNotLost'
  OBVIOUS
<1> USE DEF SignupNotLost
<1>1. ASSUME UNCHANGED <<pending, saved>> PROVE SignupNotLost'
  BY <1>1
<1>2. ASSUME NEW w \in Worker, CreatePending(w) PROVE SignupNotLost'
  BY <1>2 DEF CreatePending
<1>3. ASSUME NEW w \in Worker, ReplacePending(w) PROVE SignupNotLost'
  BY <1>3 DEF ReplacePending, Clean, LateReplace
<1>4. ASSUME NEW w \in Worker, DeletePending(w) PROVE SignupNotLost'
  <2>1. call[w].at = "deletePending"
    BY <1>4 DEF DeletePending, At
  <2>2. call[w].user # Nil
    BY <2>1, Holding DEF WellFormed, OfUser
  <2>3. ByEmail(call[w].email) # {}
    BY <2>1, <2>2 DEF Clean, LateDelete, At
  <2>4. QED
    BY <1>4, <2>3 DEF DeletePending
<1>5. CASE Expire
  BY <1>5 DEF Expire
<1>6. CASE Elapse /\ UNCHANGED accountVars
  BY <1>1, <1>6 DEF accountVars
<1>7. ASSUME NEW w \in Worker, (CodeStep(w) /\ UNCHANGED accountVars) \/ Abort(w) PROVE SignupNotLost'
  BY <1>1, <1>7 DEF accountVars, Abort
<1>8. ASSUME NEW w \in Worker, Request(w) \/ Continue(w) PROVE SignupNotLost'
  BY <1>1, <1>2, <1>3, <1>4, <1>8, RequestsKeepPending, CallsKeepPending
<1>9. CASE UNCHANGED vars
  BY <1>1, <1>9 DEF vars, accountVars
<1>10. QED
  BY <1>5, <1>6, <1>7, <1>8, <1>9 DEF Next

LEMMA InitClean == Init => Clean /\ SignupNotLost
<1>1. Idle.at = "idle"
  BY DEF Idle
<1>2. QED
  BY <1>1 DEF Init, CodesInit, CallsInit, Clean, LateReplace, LateDelete, At, SignupNotLost

LEMMA CleanStep == Clean /\ [Next /\ Clean']_vars => Clean' /\ [Next]_vars
  BY DEF Clean, LateReplace, LateDelete, At, ByEmail, Live, vars, codeVars, callVars, accountVars

\* "Signup saved" (registerPassword): no other signup, account or verification
\* with the same address makes a pending signup go, if no call replaces or
\* deletes one late (CleanSpec).
THEOREM SignupsStay == CleanSpec => []SignupNotLost
<1>1. Init => Clean /\ AccountsInv /\ SignupNotLost
  BY InitClean, InitInv
<1>2. AccountsInv /\ SignupNotLost /\ Clean /\ [Next /\ Clean']_vars
        => (AccountsInv /\ SignupNotLost /\ Clean)'
  BY CleanStep, AccountsStep, PendingStep
<1>3. QED
  BY <1>1, <1>2, PTL DEF CleanSpec

-----------------------------------------------------------------------------
(* Deleted accounts *)

LEMMA StaysDeleted ==
  ASSUME AccountsInv, NEW u \in User, user[u].deleted, NEW v \in User,
         NEW row, user' = [user EXCEPT ![v] = row], user[v].deleted => row.deleted
  PROVE  user'[u].deleted
  BY DEF AccountsInv, Tables

LEMMA InsertKeeps ==
  ASSUME AccountsInv, NEW u \in User, user[u].deleted, NEW v \in User, NEW row, Insert(v, row)
  PROVE  user'[u].deleted
  BY NoneType, StaysDeleted DEF Insert

\* Who else writes no user.
LEMMA RequestsKeepUsers ==
  ASSUME NEW w \in Worker, Request(w)
  PROVE  UNCHANGED user \/ Logout \/ LinkClerkIdentity \/ HandleUserDeleted \/ Remove
<1>1. CASE Register(w)
  BY <1>1 DEF Register, RegisterEmail, OpenSession, RegisterDetails, RegisterPassword,
              ResendVerificationOtp, accountVars
<1>2. CASE SellerRegistration(w) \/ OnboardPublic(w) \/ VerifyEmail(w)
  BY <1>2 DEF SellerRegistration, RegisterSellerEmail, OpenSession, RegisterSellerDetails,
              RegisterDetails, RegisterSellerPassword, OnboardPublic, VerifyEmail, accountVars
<1>3. CASE CodeRequests(w) \/ LoginRequests(w) \/ PasswordRequests(w)
  BY <1>3 DEF CodeRequests, LoginRequests, PasswordRequests, RequestOtp, ForgotPassword, VerifyOtp,
              VerifyEmail, ForgotPasswordVerify, Login, ForgotPasswordReset, accountVars
<1>4. CASE ClerkRequests(w) \/ HandleClerkWebhook(w) \/ Remove
  BY <1>4 DEF ClerkRequests, ClerkLogin, HandleClerkWebhook, SyncClerkUser, accountVars
<1>5. CASE SecurityRequests(w) \/ TokenRequests(w)
  BY <1>5 DEF SecurityRequests, ChangePassword, Initiate2faEnable, Confirm2faEnable, Disable2fa,
              TokenRequests, RefreshTokens, accountVars
<1>6. QED
  BY <1>1, <1>2, <1>3, <1>4, <1>5 DEF Request, BuyerRegistration

LEMMA CallsKeepUsers ==
  ASSUME NEW w \in Worker,
         \/ CreatePending(w) \/ ReadPendingAgain(w) \/ ReplacePending(w) \/ DeleteSession(w)
         \/ Resend(w) \/ DeletePending(w) \/ CloseSession(w) \/ SignIn(w) \/ RefuseRefresh(w)
         \/ GrantReset(w)
  PROVE  UNCHANGED user
  BY DEF CreatePending, ReadPendingAgain, ReplacePending, DeleteSession, Resend, DeletePending,
         CloseSession, SignIn, RefuseRefresh, GrantReset, accountVars

\* No step but that of a Clerk user's sign-in brings an account back.
LEMMA Revived ==
  ASSUME AccountsInv, Next, NEW u \in User, user[u].deleted, ~user'[u].deleted
  PROVE  \E w \in Worker : At(w, "reactivate") /\ call[w].clerk \in owners[u]
<1> USE DEF At
<1>1. \A v \in User : user[v] \in Account
  BY DEF AccountsInv, Tables
<1>2. user' # user
  OBVIOUS
<1>3. ASSUME NEW v \in User, NEW row, user' = [user EXCEPT ![v] = row], user[v].deleted => row.deleted
      PROVE  FALSE
  BY <1>3, StaysDeleted
<1>4. ASSUME NEW v, NEW b,
             \/ user' = [user EXCEPT ![v].token = b]
             \/ user' = [user EXCEPT ![v].password = b]
             \/ user' = [user EXCEPT ![v].twoFactor = b]
             \/ user' = [user EXCEPT ![v].profile = b]
             \/ user' = [user EXCEPT ![v].verified = b]
             \/ user' = [user EXCEPT ![v].clerkId = b]
             \/ user' = [user EXCEPT ![v].deleted = TRUE]
      PROVE  FALSE
  <2>1. v = u
    BY <1>4 DEF AccountsInv, Tables
  <2>2. user[u] \in Account /\ user \in [User -> Account]
    BY DEF AccountsInv, Tables
  <2>3. user'[u].deleted = user[u].deleted \/ user'[u].deleted
    BY <1>4, <2>1, <2>2 DEF Account
  <2>4. QED
    BY <2>3
<1>5. ASSUME NEW w \in Worker, Request(w) PROVE FALSE
  <2>1. UNCHANGED user \/ Logout \/ LinkClerkIdentity \/ HandleUserDeleted \/ Remove
    BY <1>5, RequestsKeepUsers
  <2>2. QED
    BY <1>2, <1>4, <2>1 DEF Logout, LinkClerkIdentity, HandleUserDeleted, Remove, SoftDelete
<1>6. ASSUME NEW w \in Worker, Continue(w), ~ReactivateClerkUser(w) PROVE FALSE
  <2>1. ~CreateAccount(w)
    BY <1>2, InsertKeeps DEF CreateAccount
  <2>2. ~CreateSeller(w)
    BY <1>2, InsertKeeps DEF CreateSeller
  <2>3. ~VerifyUser(w) /\ ~InsertProfile(w) /\ ~IssueTokens(w) /\ ~SetPassword(w) /\ ~SetTwoFactor(w)
    BY <1>4 DEF VerifyUser, InsertProfile, IssueTokens, SetPassword, SetTwoFactor
  <2>4. ~CreateClerkBuyer(w) /\ ~CreateFromEvent(w)
    BY <1>2, InsertKeeps DEF CreateClerkBuyer, CreateFromEvent, InsertClerkBuyer, Refused
  <2>5. ~SyncClerkIdentity(w)
    <3> SUFFICES ASSUME SyncClerkIdentity(w) PROVE FALSE
      OBVIOUS
    <3>1. PICK v, e : v = call[w].user /\ user' = [user EXCEPT ![v].email = e, ![v].verified = TRUE]
      BY <1>2 DEF SyncClerkIdentity
    <3>2. v \in User
      BY <3>1, OfClerkCalls DEF SyncClerkIdentity
    <3>3. user' = [user EXCEPT ![v] = [user[v] EXCEPT !.email = e, !.verified = TRUE]]
      BY <3>1, <3>2 DEF AccountsInv, Tables
    <3>4. [user[v] EXCEPT !.email = e, !.verified = TRUE].deleted = user[v].deleted
      BY <1>1, <3>2 DEF Account
    <3>5. QED
      BY <1>3, <3>2, <3>3, <3>4
  <2>6. QED
    BY <1>2, <1>6, <2>1, <2>2, <2>3, <2>4, <2>5, CallsKeepUsers DEF Continue
<1>7. ASSUME NEW w \in Worker, ReactivateClerkUser(w)
      PROVE  At(w, "reactivate") /\ call[w].clerk \in owners[u]
  <2>1. call[w].at = "reactivate" /\ call[w].clerk \in owners[call[w].user]
    BY <1>7, OfClerkCalls DEF ReactivateClerkUser
  <2>2. call[w].user = u
    BY <1>2, <1>7 DEF ReactivateClerkUser, AccountsInv, Tables
  <2>3. QED
    BY <2>1, <2>2
<1>8. ~UNCHANGED accountVars
  BY <1>2 DEF accountVars
<1>9. ~Expire
  BY <1>2 DEF Expire
<1>10. \A w \in Worker : ~Abort(w)
  BY <1>2 DEF Abort, accountVars
<1>11. QED
  BY <1>5, <1>6, <1>7, <1>8, <1>9, <1>10 DEF Next

\* A deleted account comes back only in the step that signs its own Clerk user
\* in (reactivateClerkUser), however late the events of Clerk arrive.
THEOREM DeletedStays == Spec => DeletedUntilSignIn
<1>1. AccountsInv /\ [Next]_vars =>
        [\A u \in User : user[u].deleted /\ ~user'[u].deleted =>
           \E w \in Worker : At(w, "reactivate") /\ call[w].clerk \in owners[u]]_vars
  BY Revived DEF vars, accountVars
<1>2. QED
  BY <1>1, AccountsInvariant, PTL DEF Spec, DeletedUntilSignIn
=============================================================================
