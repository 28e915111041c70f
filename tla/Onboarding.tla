----------------------------- MODULE Onboarding -----------------------------
(***************************************************************************)
(* The way of a seller from registration to a store (sellers.service.ts,   *)
(* admin-sellers.controller.ts).  The seller and the profile exist; the    *)
(* code that verifies the address is in Accounts, the store in Stores, and *)
(* both are single steps here.  getMyOnboardingStatus reads three tables   *)
(* at once, in any order, and names the next step.  Approval is looked for *)
(* and then written by id, and may be revoked.  A store may be opened      *)
(* before it.  "Slip:" marks a faulty variant of the operator below it.    *)
(***************************************************************************)
EXTENDS Calls

VARIABLES
    done,       \* steps the rows say are done
    revoked     \* history: an approval was revoked during the call

onboardingVars == <<done, revoked>>
onboardingsVars == <<onboardingVars, callVars>>

-----------------------------------------------------------------------------
Step == {"verify_email", "submit_banking", "await_approval", "create_storefront"}

\* The steps in their order.
Steps == <<"verify_email", "submit_banking", "await_approval", "create_storefront">>

\* unread are the rows still to read; seen, the steps they say are done; before
\* is history: the steps done when the call began.
OnboardingCall ==
    [at : {"status", "respond"}, unread : SUBSET {"user", "profile", "storefront"},
     seen : SUBSET Step, before : SUBSET Step]
    \cup [at : {"approve", "reject"}]

OnboardingTypeOK ==
    /\ done \subseteq Step
    /\ revoked \subseteq Worker
    /\ call \in [Worker -> {Idle} \cup OnboardingCall]

OnboardingInit ==
    /\ CallsInit
    /\ done = {} /\ revoked = {}

-----------------------------------------------------------------------------
VerifyEmail ==
    /\ done' = done \cup {"verify_email"}
    /\ UNCHANGED <<revoked, callVars>>

\* All three columns and the time, none of them empty.
SetMyBankingDetails ==
    /\ done' = done \cup {"submit_banking"}
    /\ UNCHANGED <<revoked, callVars>>

OpenStorefront ==
    /\ done' = done \cup {"create_storefront"}
    /\ UNCHANGED <<revoked, callVars>>

\* The profile is found, whatever it lacks.
BeginDecideSeller(w) ==
    /\ \E at \in {"approve", "reject"} : Begin(w, [at |-> at])
    /\ UNCHANGED <<onboardingVars, faults>>

ApproveSellerProfile(w) ==
    /\ At(w, "approve")
    /\ done' = done \cup {"await_approval"}
    /\ Return(w)
    /\ UNCHANGED <<revoked, faults>>

RejectSellerProfile(w) ==
    /\ At(w, "reject")
    /\ done' = done \ {"await_approval"}
    /\ revoked' = IF "await_approval" \in done
                  THEN revoked \cup {v \in Worker : At(v, "status") \/ At(v, "respond")}
                  ELSE revoked
    /\ Return(w)
    /\ UNCHANGED faults

-----------------------------------------------------------------------------
\* What each of the rows tells.
Told(row) == CASE row = "user" -> {"verify_email"}
               [] row = "profile" -> {"submit_banking", "await_approval"}
               [] row = "storefront" -> {"create_storefront"}

BeginStatus(w) ==
    /\ Begin(w, [at |-> "status", unread |-> {"user", "profile", "storefront"},
                 seen |-> {}, before |-> done])
    /\ revoked' = revoked \ {w}
    /\ UNCHANGED <<done, faults>>

ReadRow(w) ==
    /\ At(w, "status")
    /\ \E row \in call[w].unread :
        Become(w, [at |-> IF call[w].unread = {row} THEN "respond" ELSE "status",
                   unread |-> call[w].unread \ {row},
                   seen |-> call[w].seen \cup (Told(row) \cap done),
                   before |-> call[w].before])
    /\ UNCHANGED <<onboardingVars, faults>>

\* Slip: approval is asked for before the bank account.
NextStepApprovalFirst(seen) ==
    CASE "verify_email" \notin seen -> "verify_email"
      [] "verify_email" \in seen /\ "await_approval" \notin seen -> "await_approval"
      [] {"verify_email", "await_approval"} \subseteq seen /\ "submit_banking" \notin seen -> "submit_banking"
      [] OTHER -> IF "create_storefront" \notin seen THEN "create_storefront" ELSE "ready"

NextStep(seen) ==
    IF seen = Step THEN "ready"
    ELSE Steps[CHOOSE i \in 1 .. 4 : Steps[i] \notin seen /\ \A j \in 1 .. i - 1 : Steps[j] \in seen]

Respond(w) ==
    /\ At(w, "respond")
    /\ Return(w)
    /\ UNCHANGED <<onboardingVars, faults>>

\* A seller's requests of sellers.controller.ts.
WizardRequests(w) == SetMyBankingDetails \/ BeginStatus(w)

OnboardingNext ==
    \/ VerifyEmail \/ OpenStorefront
    \/ \E w \in Worker :
        \/ WizardRequests(w) \/ ReadRow(w) \/ Respond(w)
        \/ BeginDecideSeller(w) \/ ApproveSellerProfile(w) \/ RejectSellerProfile(w)
        \/ CutOff(w) /\ UNCHANGED onboardingVars

OnboardingSpec == OnboardingInit /\ [][OnboardingNext]_onboardingsVars

-----------------------------------------------------------------------------
\* The step a seller is told comes next (getMyOnboardingStatus) was still to do
\* when the call began, and all that come before it are done, whatever changed
\* between the reads, unless an approval was revoked meanwhile.
StepReported == \A w \in Worker : At(w, "respond") /\ w \notin revoked =>
    LET step == NextStep(call[w].seen)
        rank == [s \in Step |-> CHOOSE i \in 1 .. 4 : Steps[i] = s]
    IN  /\ step \notin call[w].before
        /\ \A s \in Step : step = "ready" \/ rank[s] < rank[step] => s \in done
=============================================================================
