------------------------------ MODULE Accounts ------------------------------
(***************************************************************************)
(* Accounts: buyers and sellers signing up and verifying their e-mail      *)
(* address, signing in by password, code or Clerk, and Clerk's webhooks    *)
(* (auth.service.ts, users, registration-session,                          *)
(* clerk-webhook.controller.ts, onboardPublic of sellers.service.ts).      *)
(*                                                                         *)
(* Contents of passwords and tokens are left out, and accounts are active. *)
(* The reads a call begins with are one step.  The address a Clerk user    *)
(* has verified is chosen anew each time: it changes, and events are late. *)
(***************************************************************************)
EXTENDS Codes

CONSTANTS User, Session, ClerkId    \* rows of users and registration_sessions

ASSUME AccountNilAssumption == Nil \notin User \cup Session \cup ClerkId

VARIABLES
    user, step, signup,
    pending,            \* addresses with a pending_buyer_signups row
    reset,              \* addresses a reset token is out for
    saved, owners       \* history: signups to be kept, Clerk users let in

accountVars == <<user, step, signup, pending, reset, saved, owners>>
vars == <<codeVars, accountVars>>

-----------------------------------------------------------------------------
Account == [kind : {"none", "buyer", "seller"}, email : Email \cup {Nil},
            verified : BOOLEAN, deleted : BOOLEAN, clerkId : ClerkId \cup {Nil},
            local : BOOLEAN, password : BOOLEAN, twoFactor : BOOLEAN,
            profile : BOOLEAN, token : BOOLEAN]

None == [kind |-> "none", email |-> Nil, verified |-> FALSE, deleted |-> FALSE,
         clerkId |-> Nil, local |-> FALSE, password |-> FALSE, twoFactor |-> FALSE,
         profile |-> FALSE, token |-> FALSE]

Member(kind, e) == [None EXCEPT !.kind = kind, !.email = e, !.local = TRUE, !.password = TRUE]
Buyer(e) == [Member("buyer", e) EXCEPT !.verified = TRUE]
ClerkBuyer(k, e) ==
    [None EXCEPT !.kind = "buyer", !.email = e, !.verified = TRUE, !.clerkId = k]

TypeOK ==
    /\ CodesTypeOK
    /\ user \in [User -> Account]
    /\ step \in [Session -> 0 .. 3]
    /\ signup \in [Session -> Email \cup {Nil}]
    /\ pending \subseteq Email /\ reset \subseteq Email /\ saved \subseteq Email
    /\ owners \in [User -> SUBSET ClerkId]
    /\ \A w \in Worker :
        /\ call[w].at \in {"verifyUser", "verifyLegacy", "insertProfile", "issueTokens",
                           "setPassword", "enable", "disable", "reactivate", "sync"} =>
             user[call[w].user].kind # "none"
        /\ call[w].at \in {"deleteSession", "dropSession", "closeSession"} =>
             step[call[w].session] >= 2

\* There is nobody, or a buyer who never verified, from before signups were pending.
Init ==
    /\ CodesInit
    /\ \/ user = [u \in User |-> None]
       \/ \E u \in User : \E e \in Email :
            user = [[v \in User |-> None] EXCEPT ![u] = Member("buyer", e)]
    /\ step = [s \in Session |-> 0]
    /\ signup = [s \in Session |-> Nil]
    /\ pending = {} /\ reset = {} /\ saved = {}
    /\ owners = [u \in User |-> {}]

-----------------------------------------------------------------------------
Live(u) == user[u].kind # "none" /\ ~user[u].deleted
ByEmail(e) == {u \in User : Live(u) /\ user[u].email = e}
ByClerkId(k) == {u \in User : Live(u) /\ user[u].clerkId = k}
DeletedByClerkId(k) == {u \in User : user[u].deleted /\ user[u].clerkId = k}
DeletedByEmail(e) == {u \in User : user[u].deleted /\ user[u].email = e}

\* The unique indexes, which know of deleted rows too.
EmailTaken(e, but) == e # Nil /\ \E u \in User \ {but} : user[u].email = e
ClerkIdTaken(k) == \E u \in User : user[u].clerkId = k

\* What a read of a user returns: the refresh token is withheld.
ToUser(u) == [user[u] EXCEPT !.token = FALSE]

Sending(e, p, next) ==
    [NewCall EXCEPT !.at = "checkCooldown", !.email = e, !.purpose = p, !.then = next]
Verifying(e, p, next, u) ==
    [NewCall EXCEPT !.at = "findCode", !.email = e, !.purpose = p, !.then = next, !.user = u]
SigningIn(u, k) == [NewCall EXCEPT !.at = "issueTokens", !.user = u, !.clerk = k]

Insert(u, row) == user[u] = None /\ user' = [user EXCEPT ![u] = row]
EndSession(s) == step' = [step EXCEPT ![s] = 3]

-----------------------------------------------------------------------------
(***************************************************************************)
(* Signing up, step by step (1: address, 2: details, 3: gone).             *)
(***************************************************************************)
OpenSession(e) ==
    /\ \E s \in Session :
        /\ step[s] = 0
        /\ step' = [step EXCEPT ![s] = 1]
        /\ signup' = [signup EXCEPT ![s] = e]
    /\ UNCHANGED <<user, pending, reset, saved, owners, codeVars>>

RegisterEmail == \E e \in Email : ByEmail(e) = {} /\ OpenSession(e)
RegisterSellerEmail == \E e \in Email \ pending : ByEmail(e) = {} /\ OpenSession(e)

SetDetails(s) == step[s] = 1 /\ step' = [step EXCEPT ![s] = 2]

RegisterDetails ==
    /\ \E s \in Session : SetDetails(s)
    /\ UNCHANGED <<user, signup, pending, reset, saved, owners, codeVars>>

\* What a seller adds about the business is put on a copy of the row, and lost.
RegisterSellerDetails == RegisterDetails

(***************************************************************************)
(* A buyer's password: registerPassword.                                   *)
(***************************************************************************)
ValidateStep(s) == step[s] = 2

RegisterPassword(w) ==
    /\ \E s \in Session :
        /\ ValidateStep(s)
        /\ Begin(w, [NewCall EXCEPT !.session = s, !.email = signup[s],
                       !.at = IF signup[s] \in pending THEN "dropSession" ELSE "createPending"])
    /\ UNCHANGED <<accountVars, codes, faults>>

\* An address has one pending signup: create fails if another call was faster.
CreatePending(w) ==
    /\ At(w, "createPending") \/ At(w, "createAgain")
    /\ LET e == call[w].email
       IN  \/ /\ e \notin pending
              /\ pending' = pending \cup {e} /\ saved' = saved \cup {e}
              /\ Goto(w, "deleteSession")
           \/ /\ e \in pending
              /\ \/ At(w, "createPending") /\ Goto(w, "readAgain")
                 \/ At(w, "createAgain") /\ Return(w)
              /\ UNCHANGED <<pending, saved>>
    /\ UNCHANGED <<user, step, signup, reset, owners, codes, faults>>

ReadPendingAgain(w) ==
    /\ At(w, "readAgain")
    /\ \/ call[w].email \in pending /\ Goto(w, "deleteSession")
       \/ call[w].email \notin pending /\ Goto(w, "replacePending")
    /\ UNCHANGED <<accountVars, codes, faults>>

ReplacePending(w) ==
    /\ At(w, "replacePending")
    /\ pending' = pending \ {call[w].email}
    /\ Goto(w, "createAgain")
    /\ UNCHANGED <<user, step, signup, reset, saved, owners, codes, faults>>

\* The signup has been saved: the session goes, and a code is sent.
DeleteSession(w) ==
    /\ \/ At(w, "deleteSession")
          /\ Become(w, Sending(call[w].email, "email_verification", "idle"))
       \/ At(w, "dropSession") /\ Goto(w, "resend")
    /\ EndSession(call[w].session)
    /\ UNCHANGED <<user, signup, pending, reset, saved, owners, codes, faults>>

\* resendVerificationOtp, on its own or for a signup that is pending already.
Unverified(e) == e \in pending \/ \E u \in ByEmail(e) : ~user[u].verified

Resend(w) ==
    /\ At(w, "resend")
    /\ Become(w, IF Unverified(call[w].email)
                 THEN Sending(call[w].email, "email_verification", "idle") ELSE Idle)
    /\ UNCHANGED <<accountVars, codes, faults>>

ResendVerificationOtp(w) ==
    /\ \E e \in Email : Unverified(e) /\ Begin(w, Sending(e, "email_verification", "idle"))
    /\ UNCHANGED <<accountVars, codes, faults>>

\* register makes these requests in one, and its steps are theirs.
Register(w) ==
    RegisterEmail \/ RegisterDetails \/ RegisterPassword(w) \/ ResendVerificationOtp(w)

(***************************************************************************)
(* verifyEmail makes an account of a pending signup, or verifies a user.   *)
(***************************************************************************)
VerifyOfUser(w, e) == \E u \in ByEmail(e) :
    /\ e \notin pending /\ ~user[u].verified
    /\ Begin(w, Verifying(e, "email_verification", "verifyUser", u))

VerifyEmail(w) ==
    /\ \E e \in Email :
        \/ /\ e \in pending /\ ByEmail(e) = {}
           /\ Begin(w, Verifying(e, "email_verification", "createAccount", Nil))
        \/ \E u \in ByEmail(e) :
            /\ e \in pending /\ user[u].kind = "buyer"
            /\ Begin(w, IF user[u].verified
                        THEN [NewCall EXCEPT !.at = "deletePending", !.email = e, !.user = u]
                        ELSE Verifying(e, "email_verification", "verifyLegacy", u))
        \/ VerifyOfUser(w, e)
    /\ UNCHANGED <<accountVars, codes, faults>>

Made(w, u) == Become(w, [call[w] EXCEPT !.at = "deletePending", !.user = u])

\* Slip: any row with the address counts as the account, a deleted one too.
MadeAlreadyOrDeleted(e) == {Nil : u \in {v \in User : user[v].email = e}}

\* A verified buyer was made by another call; no other user will do.
MadeAlready(e) == {u \in ByEmail(e) : user[u].kind = "buyer" /\ user[u].verified}

CreateAccount(w) ==
    /\ At(w, "createAccount")
    /\ LET e == call[w].email
       IN  \/ ~EmailTaken(e, Nil) /\ \E u \in User : Insert(u, Buyer(e)) /\ Made(w, u)
           \/ /\ EmailTaken(e, Nil)
              /\ \/ \E u \in MadeAlready(e) : Made(w, u)
                 \/ MadeAlready(e) = {} /\ Return(w)
              /\ UNCHANGED user
    /\ UNCHANGED <<step, signup, pending, reset, saved, owners, codes, faults>>

VerifyUser(w) ==
    /\ \/ At(w, "verifyLegacy") /\ Goto(w, "deletePending")
       \/ At(w, "verifyUser") /\ Return(w)
    /\ user' = [user EXCEPT ![call[w].user].verified = TRUE]
    /\ UNCHANGED <<step, signup, pending, reset, saved, owners, codes, faults>>

DeletePending(w) ==
    /\ At(w, "deletePending")
    /\ pending' = pending \ {call[w].email}
    /\ saved' = IF ByEmail(call[w].email) = {} THEN saved ELSE saved \ {call[w].email}
    /\ Return(w)
    /\ UNCHANGED <<user, step, signup, reset, owners, codes, faults>>

(***************************************************************************)
(* Sellers: registerSellerPassword, onboardPublic.                         *)
(***************************************************************************)
RegisterSellerPassword(w) ==
    /\ \E s \in Session :
        /\ ValidateStep(s)
        /\ Begin(w, [NewCall EXCEPT !.at = "createSeller", !.session = s, !.email = signup[s]])
    /\ UNCHANGED <<accountVars, codes, faults>>

OnboardPublic(w) ==
    /\ \E e \in Email :
        ByEmail(e) = {} /\ Begin(w, [NewCall EXCEPT !.at = "createSeller", !.email = e])
    /\ UNCHANGED <<accountVars, codes, faults>>

CreateSeller(w) ==
    /\ At(w, "createSeller")
    /\ \/ EmailTaken(call[w].email, Nil) /\ Return(w) /\ UNCHANGED user
       \/ /\ ~EmailTaken(call[w].email, Nil)
          /\ \E u \in User :
                /\ Insert(u, Member("seller", call[w].email))
                /\ Become(w, [call[w] EXCEPT !.at = "insertProfile", !.user = u])
    /\ UNCHANGED <<step, signup, pending, reset, saved, owners, codes, faults>>

InsertProfile(w) ==
    /\ At(w, "insertProfile")
    /\ user' = [user EXCEPT ![call[w].user].profile = TRUE]
    /\ Become(w, [Sending(call[w].email, "email_verification",
                          IF call[w].session = Nil THEN "idle" ELSE "closeSession")
                  EXCEPT !.session = call[w].session])
    /\ UNCHANGED <<step, signup, pending, reset, saved, owners, codes, faults>>

CloseSession(w) ==
    /\ At(w, "closeSession")
    /\ EndSession(call[w].session)
    /\ Return(w)
    /\ UNCHANGED <<user, signup, pending, reset, saved, owners, codes, faults>>

-----------------------------------------------------------------------------
(***************************************************************************)
(* Signing in by password or code.                                         *)
(***************************************************************************)
Addressed(u) == Live(u) /\ user[u].email # Nil

Login(w) ==
    /\ \E u \in User :
        /\ Addressed(u) /\ user[u].verified /\ user[u].password
        /\ Begin(w, IF user[u].twoFactor THEN Sending(user[u].email, "login_2fa", "idle")
                    ELSE SigningIn(u, Nil))
    /\ UNCHANGED <<accountVars, codes, faults>>

RequestOtp(w) ==
    /\ \E u \in User :
        /\ Addressed(u)
        /\ Begin(w, Sending(user[u].email, IF user[u].verified THEN "login_2fa"
                                           ELSE "email_verification", "idle"))
    /\ UNCHANGED <<accountVars, codes, faults>>

VerifyOtp(w) ==
    /\ \E e \in Email : Begin(w, Verifying(e, "login_2fa", "signIn", Nil))
    /\ UNCHANGED <<accountVars, codes, faults>>

SignIn(w) ==
    /\ At(w, "signIn")
    /\ \/ ByEmail(call[w].email) = {} /\ Return(w)
       \/ \E u \in ByEmail(call[w].email) : Become(w, SigningIn(u, Nil))
    /\ UNCHANGED <<accountVars, codes, faults>>

IssueTokens(w) ==
    /\ At(w, "issueTokens")
    /\ user' = [user EXCEPT ![call[w].user].token = TRUE]
    /\ Return(w)
    /\ UNCHANGED <<step, signup, pending, reset, saved, owners, codes, faults>>

\* The caller presents the refresh token that is stored for the user.
RefreshTokens(w) ==
    /\ \E u \in User :
        /\ Live(u) /\ user[u].token
        /\ Begin(w, IF ToUser(u).token THEN SigningIn(u, Nil)
                    ELSE [NewCall EXCEPT !.at = "refuseRefresh"])
    /\ UNCHANGED <<accountVars, codes, faults>>

RefuseRefresh(w) ==
    /\ At(w, "refuseRefresh")
    /\ Return(w)
    /\ UNCHANGED <<accountVars, codes, faults>>

Logout ==
    /\ \E u \in User : user[u].token /\ user' = [user EXCEPT ![u].token = FALSE]
    /\ UNCHANGED <<step, signup, pending, reset, saved, owners, codeVars>>

(***************************************************************************)
(* A forgotten password, and two-factor sign-in.                           *)
(***************************************************************************)
ForgotPassword(w) ==
    /\ \E u \in User : Addressed(u) /\ Begin(w, Sending(user[u].email, "password_reset", "idle"))
    /\ UNCHANGED <<accountVars, codes, faults>>

ForgotPasswordVerify(w) ==
    /\ \E e \in Email : Begin(w, Verifying(e, "password_reset", "grantReset", Nil))
    /\ UNCHANGED <<accountVars, codes, faults>>

GrantReset(w) ==
    /\ At(w, "grantReset")
    /\ reset' = reset \cup {call[w].email}
    /\ Return(w)
    /\ UNCHANGED <<user, step, signup, pending, saved, owners, codes, faults>>

ForgotPasswordReset(w) ==
    /\ \E e \in reset : \E u \in ByEmail(e) :
        Begin(w, [NewCall EXCEPT !.at = "setPassword", !.user = u])
    /\ UNCHANGED <<accountVars, codes, faults>>

\* The user knows the password, and signs in with it.
ChangePassword(w) ==
    /\ \E u \in User :
        /\ Live(u) /\ user[u].local /\ user[u].password
        /\ Begin(w, [NewCall EXCEPT !.at = "setPassword", !.user = u])
    /\ UNCHANGED <<accountVars, codes, faults>>

SetPassword(w) ==
    /\ At(w, "setPassword")
    /\ user' = [user EXCEPT ![call[w].user].password = TRUE]
    /\ Return(w)
    /\ UNCHANGED <<step, signup, pending, reset, saved, owners, codes, faults>>

Initiate2faEnable(w) ==
    /\ \E u \in User :
        /\ Addressed(u) /\ user[u].verified /\ user[u].local /\ ~user[u].twoFactor
        /\ Begin(w, Sending(user[u].email, "login_2fa", "idle"))
    /\ UNCHANGED <<accountVars, codes, faults>>

Confirm2faEnable(w) ==
    /\ \E u \in User :
        /\ Addressed(u) /\ user[u].verified /\ user[u].local
        /\ Begin(w, Verifying(user[u].email, "login_2fa", "enable", u))
    /\ UNCHANGED <<accountVars, codes, faults>>

Disable2fa(w) ==
    /\ \E u \in User :
        /\ Addressed(u) /\ user[u].verified /\ user[u].local /\ user[u].twoFactor
        /\ Begin(w, Verifying(user[u].email, "login_2fa", "disable", u))
    /\ UNCHANGED <<accountVars, codes, faults>>

SetTwoFactor(w) ==
    /\ At(w, "enable") \/ At(w, "disable")
    /\ user' = [user EXCEPT ![call[w].user].twoFactor = At(w, "enable")]
    /\ Return(w)
    /\ UNCHANGED <<step, signup, pending, reset, saved, owners, codes, faults>>

-----------------------------------------------------------------------------
(***************************************************************************)
(* Clerk: signing in, linking, and its webhooks.  An address that is an    *)
(* account's, or was a deleted one's, leads nowhere.                       *)
(***************************************************************************)
Verified == Email \cup {Nil}

ClerkLogin(w) ==
    /\ \E k \in ClerkId :
        \/ \E u \in ByClerkId(k) : Begin(w, SigningIn(u, k))
        \/ /\ ByClerkId(k) = {}
           /\ \E e \in Verified :
                /\ e # Nil => ByEmail(e) = {} /\ DeletedByEmail(e) \subseteq DeletedByClerkId(k)
                /\ \/ \E u \in DeletedByClerkId(k) :
                        Begin(w, [NewCall EXCEPT !.at = "reactivate", !.user = u,
                                              !.clerk = k, !.email = e])
                   \/ /\ DeletedByClerkId(k) = {}
                      /\ Begin(w, [NewCall EXCEPT !.at = "createClerkBuyer",
                                               !.clerk = k, !.email = e])
    /\ UNCHANGED <<accountVars, codes, faults>>

InsertClerkBuyer(w, u) ==
    /\ ~EmailTaken(call[w].email, Nil) /\ ~ClerkIdTaken(call[w].clerk)
    /\ Insert(u, ClerkBuyer(call[w].clerk, call[w].email))
    /\ owners' = [owners EXCEPT ![u] = @ \cup {call[w].clerk}]

Refused(w) ==
    /\ EmailTaken(call[w].email, Nil) \/ ClerkIdTaken(call[w].clerk)
    /\ UNCHANGED <<user, owners>>

\* Slip: the user that was faster is looked up by the address as well.
SameIdentityOrEmail(w) == ByClerkId(call[w].clerk) \cup ByEmail(call[w].email)

\* createClerkBuyer, and its retry: a webhook may have been faster.
SameIdentity(w) == ByClerkId(call[w].clerk)

CreateClerkBuyer(w) ==
    /\ At(w, "createClerkBuyer")
    /\ \/ \E u \in User : InsertClerkBuyer(w, u) /\ Become(w, SigningIn(u, call[w].clerk))
       \/ Refused(w) /\ \E u \in SameIdentity(w) : Become(w, SigningIn(u, call[w].clerk))
       \/ Refused(w) /\ SameIdentity(w) = {} /\ Return(w)
    /\ UNCHANGED <<step, signup, pending, reset, saved, codes, faults>>

ReactivateClerkUser(w) ==
    /\ At(w, "reactivate")
    /\ LET u == call[w].user
           e == call[w].email
       IN  \/ EmailTaken(e, u) /\ Return(w) /\ UNCHANGED user
           \/ /\ ~EmailTaken(e, u)
              /\ user' = [user EXCEPT ![u].deleted = FALSE, ![u].email = e,
                                      ![u].verified = TRUE, ![u].local = FALSE]
              /\ Become(w, SigningIn(u, call[w].clerk))
    /\ UNCHANGED <<step, signup, pending, reset, saved, owners, codes, faults>>

\* One conditional update: of a buyer who has signed in and has no Clerk user.
LinkClerkIdentity ==
    /\ \E u \in User, k \in ClerkId :
        /\ Live(u) /\ user[u].kind = "buyer" /\ user[u].verified /\ user[u].clerkId = Nil
        /\ ~ClerkIdTaken(k)
        /\ user' = [user EXCEPT ![u].clerkId = k]
        /\ owners' = [owners EXCEPT ![u] = @ \cup {k}]
    /\ UNCHANGED <<step, signup, pending, reset, saved, codeVars>>

\* An account keeps its own address if the new one is another account's, and
\* loses it if Clerk no longer vouches for that either.
AddressFor(u, e) ==
    IF e # Nil /\ ByEmail(e) \subseteq {u} THEN {e} ELSE {user[u].email, Nil}

SyncClerkUser(w) ==
    /\ \E k \in ClerkId, e \in Verified :
        \/ \E u \in ByClerkId(k) : \E kept \in AddressFor(u, e) :
            Begin(w, [NewCall EXCEPT !.at = "sync", !.user = u, !.clerk = k, !.email = kept])
        \/ /\ ByClerkId(k) = {} /\ (e # Nil => ByEmail(e) = {})
           /\ Begin(w, [NewCall EXCEPT !.at = "createFromEvent", !.clerk = k, !.email = e])
    /\ UNCHANGED <<accountVars, codes, faults>>

\* Slip: the update does not look at deletedAt, and clears it.
SyncDeleted(w) ==
    /\ At(w, "sync")
    /\ \/ EmailTaken(call[w].email, call[w].user) /\ UNCHANGED user
       \/ /\ ~EmailTaken(call[w].email, call[w].user)
          /\ user' = [user EXCEPT ![call[w].user].email = call[w].email,
                                  ![call[w].user].verified = TRUE,
                                  ![call[w].user].deleted = FALSE]
    /\ Return(w)
    /\ UNCHANGED <<step, signup, pending, reset, saved, owners, codes, faults>>

SyncClerkIdentity(w) ==
    /\ At(w, "sync")
    /\ LET blocked == ~Live(call[w].user) \/ EmailTaken(call[w].email, call[w].user)
       IN  \/ blocked /\ UNCHANGED user
           \/ /\ ~blocked
              /\ user' = [user EXCEPT ![call[w].user].email = call[w].email,
                                      ![call[w].user].verified = TRUE]
    /\ Return(w)
    /\ UNCHANGED <<step, signup, pending, reset, saved, owners, codes, faults>>

CreateFromEvent(w) ==
    /\ At(w, "createFromEvent")
    /\ Refused(w) \/ \E u \in User : InsertClerkBuyer(w, u)
    /\ Return(w)
    /\ UNCHANGED <<step, signup, pending, reset, saved, codes, faults>>

SoftDelete(u) == Live(u) /\ user' = [user EXCEPT ![u].deleted = TRUE]

\* By Clerk, or by an admin.
HandleUserDeleted ==
    /\ \E k \in ClerkId : \E u \in ByClerkId(k) : SoftDelete(u)
    /\ UNCHANGED <<step, signup, pending, reset, saved, owners, codeVars>>

Remove ==
    /\ \E u \in User : SoftDelete(u)
    /\ UNCHANGED <<step, signup, pending, reset, saved, owners, codeVars>>

-----------------------------------------------------------------------------
\* A session, a pending signup or a reset token reaches its expiresAt.
Expire ==
    /\ \/ \E s \in Session : step[s] \in {1, 2} /\ EndSession(s)
          /\ UNCHANGED <<pending, saved, reset>>
       \/ \E e \in pending : pending' = pending \ {e} /\ saved' = saved \ {e}
          /\ UNCHANGED <<step, reset>>
       \/ \E e \in reset : reset' = reset \ {e}
          /\ UNCHANGED <<step, pending, saved>>
    /\ UNCHANGED <<user, signup, owners, codeVars>>

Abort(w) == CutOff(w) /\ UNCHANGED <<accountVars, codes>>

(***************************************************************************)
(* The requests of each part of auth.controller.ts, and Clerk's events.    *)
(***************************************************************************)
BuyerRegistration(w) == Register(w) \/ VerifyEmail(w)
SellerRegistration(w) ==
    RegisterSellerEmail \/ RegisterSellerDetails \/ RegisterSellerPassword(w) \/ VerifyEmail(w)
CodeRequests(w) ==      \* a code may be for each of its three purposes
    RequestOtp(w) \/ ForgotPassword(w) \/ VerifyOtp(w) \/ VerifyEmail(w) \/ ForgotPasswordVerify(w)
ClerkRequests(w) == ClerkLogin(w) \/ LinkClerkIdentity
LoginRequests(w) == Login(w) \/ VerifyOtp(w)
PasswordRequests(w) == ForgotPassword(w) \/ ForgotPasswordVerify(w) \/ ForgotPasswordReset(w)
SecurityRequests(w) ==
    ChangePassword(w) \/ Initiate2faEnable(w) \/ Confirm2faEnable(w) \/ Disable2fa(w)
TokenRequests(w) == RefreshTokens(w) \/ Logout
HandleClerkWebhook(w) == SyncClerkUser(w) \/ HandleUserDeleted

Request(w) ==
    \/ BuyerRegistration(w) \/ SellerRegistration(w) \/ OnboardPublic(w)
    \/ CodeRequests(w) \/ ClerkRequests(w) \/ LoginRequests(w) \/ PasswordRequests(w)
    \/ SecurityRequests(w) \/ TokenRequests(w) \/ HandleClerkWebhook(w) \/ Remove

Continue(w) ==
    \/ CreatePending(w) \/ ReadPendingAgain(w) \/ ReplacePending(w) \/ DeleteSession(w)
    \/ Resend(w) \/ CreateAccount(w) \/ VerifyUser(w) \/ DeletePending(w)
    \/ CreateSeller(w) \/ InsertProfile(w) \/ CloseSession(w)
    \/ SignIn(w) \/ IssueTokens(w) \/ RefuseRefresh(w)
    \/ GrantReset(w) \/ SetPassword(w) \/ SetTwoFactor(w)
    \/ CreateClerkBuyer(w) \/ ReactivateClerkUser(w)
    \/ SyncClerkIdentity(w) \/ CreateFromEvent(w)

Next ==
    \/ Expire
    \/ Elapse /\ UNCHANGED accountVars
    \/ \E w \in Worker :
        \/ CodeStep(w) /\ UNCHANGED accountVars
        \/ Request(w) \/ Continue(w) \/ Abort(w)

Spec == Init /\ [][Next]_vars

(***************************************************************************)
(* Runs in which no call replaces an expired signup that is another's by   *)
(* now, or deletes one for an account that has gone since.                 *)
(***************************************************************************)
LateReplace(w) == At(w, "replacePending") /\ call[w].email \in pending
LateDelete(w) ==
    /\ At(w, "deletePending") /\ call[w].user # Nil
    /\ call[w].user \notin ByEmail(call[w].email)

Clean == \A w \in Worker : ~LateReplace(w) /\ ~LateDelete(w)

CleanSpec == Init /\ [][Next /\ Clean']_vars

-----------------------------------------------------------------------------
\* An account whose address no Clerk user brought is verified by a code that
\* was sent to this address (verifyEmail), whoever else signs up with it.
VerifiedByCode == \A u \in User :
    user[u].verified /\ owners[u] = {} =>
        \E i \in Sent(user[u].email, "email_verification") : codes[i].accepted > 0

\* "Signup saved" (registerPassword): a signup stays pending until it expires
\* or the buyer has an account, also if others sign up with the address, make
\* an account for it or verify it at the same time.
SignupNotLost == saved \subseteq pending

\* "A matching email alone must never link accounts" (syncClerkUser,
\* clerkLogin): a Clerk user signs in only to the account it has made or that
\* its owner has linked to it, even if two calls make an account at once.
EmailNeverLinks ==
    /\ \A u \in User : user[u].clerkId # Nil => user[u].clerkId \in owners[u]
    /\ \A w \in Worker : At(w, "issueTokens") /\ call[w].clerk # Nil =>
         call[w].clerk \in owners[call[w].user]

\* A deleted account comes back only when its own Clerk user signs in
\* (reactivateClerkUser): a late webhook does not revive it.
DeletedUntilSignIn == [][\A u \in User :
    user[u].deleted /\ ~user'[u].deleted =>
        \E w \in Worker : At(w, "reactivate") /\ call[w].clerk \in owners[u]]_vars

\* "Refresh access token" (the endpoint refresh): the token that is stored for
\* the user is not refused.
RefreshAccepted == \A w \in Worker : ~At(w, "refuseRefresh")
=============================================================================
