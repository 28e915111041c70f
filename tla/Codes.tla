------------------------------- MODULE Codes -------------------------------
(***************************************************************************)
(* One-time codes (otp.service.ts, otp.repository.ts), as production runs  *)
(* them: outside it the code 000000 passes as well.                        *)
(*                                                                         *)
(* A call sends or verifies a code and goes on at then.  Codes are kept in *)
(* the order of their creation.  "Slip:" marks a faulty variant of the     *)
(* operator below it, which nothing uses.                                  *)
(***************************************************************************)
EXTENDS Calls, Sequences

CONSTANTS
    Email,
    MaxAttempts,    \* OTP_MAX_ATTEMPTS
    MaxCodes        \* bounds the codes that are sent

ASSUME AttemptsAssumption == MaxAttempts \in Nat \ {0} /\ MaxCodes \in Nat
ASSUME EmailAssumption == Nil \notin Email

VARIABLE codes

codeVars == <<codes, callVars>>

-----------------------------------------------------------------------------
Purpose == {"email_verification", "login_2fa", "password_reset"}

\* An age is new until the cooldown ends, old until the code expires; guesses
\* and accepted are history: the wrong and the right codes compared with it.
CodeRow == [email : Email, purpose : Purpose, used : BOOLEAN,
            age : {"new", "old", "expired"}, attempts : Nat, guesses : Nat, accepted : Nat]

\* user, session and clerk are for the rest of the call.
NewCall == [at |-> "idle", then |-> "idle", email |-> Nil, purpose |-> Nil, code |-> 0,
            user |-> Nil, session |-> Nil, clerk |-> Nil]

CodesTypeOK ==
    /\ codes \in Seq(CodeRow)
    /\ \A w \in Worker :
        /\ call[w].at \in {"checkCooldown", "invalidate", "insertCode", "findCode"} =>
             call[w].email \in Email /\ call[w].purpose \in Purpose
        /\ call[w].at \in {"useCode", "countAttempt", "retireCode"} =>
             call[w].code \in DOMAIN codes
    /\ faults \in Nat

CodesInit ==
    /\ CallsInit
    /\ codes = << >>

-----------------------------------------------------------------------------
Sent(e, p) == {i \in DOMAIN codes : codes[i].email = e /\ codes[i].purpose = p}
Valid(e, p) == {i \in Sent(e, p) : ~codes[i].used /\ codes[i].age # "expired"}
IsLatest(i, rows) == i \in rows /\ \A j \in rows : j <= i

\* The code is dealt with.
Resume(w) ==
    Become(w, IF call[w].then = "idle" THEN Idle
              ELSE [call[w] EXCEPT !.at = call[w].then, !.then = "idle",
                                   !.purpose = Nil, !.code = 0])

(***************************************************************************)
(* generateAndStore                                                        *)
(***************************************************************************)
CheckCooldown(w) ==
    /\ At(w, "checkCooldown")
    /\ LET recent == \E i \in DOMAIN codes :
            IsLatest(i, Sent(call[w].email, call[w].purpose)) /\ codes[i].age = "new"
       IN  \/ recent /\ Return(w)
           \/ ~recent /\ Goto(w, "invalidate")
    /\ UNCHANGED <<codes, faults>>

\* Slip: the codes sent before stay valid.
InvalidateNone(w) ==
    /\ At(w, "invalidate")
    /\ Goto(w, "insertCode")
    /\ UNCHANGED <<codes, faults>>

InvalidateAll(w) ==
    /\ At(w, "invalidate")
    /\ codes' = [i \in DOMAIN codes |->
         IF i \in Sent(call[w].email, call[w].purpose) THEN [codes[i] EXCEPT !.used = TRUE] ELSE codes[i]]
    /\ Goto(w, "insertCode")
    /\ UNCHANGED faults

InsertCode(w) ==
    /\ At(w, "insertCode")
    /\ Len(codes) < MaxCodes
    /\ codes' = Append(codes, [email |-> call[w].email, purpose |-> call[w].purpose, used |-> FALSE,
                               age |-> "new", attempts |-> 0, guesses |-> 0, accepted |-> 0])
    /\ Resume(w)
    /\ UNCHANGED faults

(***************************************************************************)
(* verify compares what the caller sent with the latest valid code ...     *)
(***************************************************************************)
\* Slip: one attempt more than OTP_MAX_ATTEMPTS is let through.
ExhaustedLate(i) == codes[i].attempts > MaxAttempts

Exhausted(i) == codes[i].attempts >= MaxAttempts

Hold(w, i, label) == Become(w, [call[w] EXCEPT !.at = label, !.code = i])

\* Slip: a call that finds no code goes on.
FindCodeOrPass(w) ==
    /\ At(w, "findCode")
    /\ \/ Valid(call[w].email, call[w].purpose) = {} /\ Resume(w)
       \/ \E i \in DOMAIN codes :
            /\ IsLatest(i, Valid(call[w].email, call[w].purpose))
            /\ Hold(w, i, IF Exhausted(i) THEN "retireCode" ELSE "useCode")
    /\ UNCHANGED <<codes, faults>>

FindCode(w) ==
    /\ At(w, "findCode")
    /\ \/ Valid(call[w].email, call[w].purpose) = {} /\ Return(w) /\ UNCHANGED codes
       \/ \E i \in DOMAIN codes :
            /\ IsLatest(i, Valid(call[w].email, call[w].purpose))
            /\ \/ Exhausted(i) /\ Hold(w, i, "retireCode") /\ UNCHANGED codes
               \/ ~Exhausted(i) /\ Hold(w, i, "useCode") /\ UNCHANGED codes
               \/ ~Exhausted(i) /\ Hold(w, i, "countAttempt")
                  /\ codes' = [codes EXCEPT ![i].guesses = @ + 1]
    /\ UNCHANGED faults

RetireCode(w) ==
    /\ At(w, "retireCode")
    /\ codes' = [codes EXCEPT ![call[w].code].used = TRUE]
    /\ Return(w)
    /\ UNCHANGED faults

CountAttempt(w) ==
    /\ At(w, "countAttempt")
    /\ codes' = [codes EXCEPT ![call[w].code].attempts = @ + 1]
    /\ Return(w)
    /\ UNCHANGED faults

\* Slip: the code is not marked.
AcceptCode(w) ==
    /\ At(w, "useCode")
    /\ codes' = [codes EXCEPT ![call[w].code].accepted = @ + 1]
    /\ Resume(w)
    /\ UNCHANGED faults

\* ... and marks a right one by its id, used or not.
UseCode(w) ==
    /\ At(w, "useCode")
    /\ codes' = [codes EXCEPT ![call[w].code].used = TRUE, ![call[w].code].accepted = @ + 1]
    /\ Resume(w)
    /\ UNCHANGED faults

\* The cooldown or the life of a code ends.
Elapse ==
    /\ \E i \in DOMAIN codes :
        /\ codes[i].age # "expired"
        /\ codes' = [codes EXCEPT ![i].age = IF @ = "new" THEN "old" ELSE "expired"]
    /\ UNCHANGED <<call, faults>>

CodeStep(w) ==
    \/ CheckCooldown(w) \/ InvalidateAll(w) \/ InsertCode(w)
    \/ FindCode(w) \/ RetireCode(w) \/ CountAttempt(w) \/ UseCode(w)

(***************************************************************************)
(* Codes by themselves, whoever asks for them.                             *)
(***************************************************************************)
UseCodes(w) ==
    /\ \E e \in Email, p \in Purpose, label \in {"checkCooldown", "findCode"} :
        Begin(w, [NewCall EXCEPT !.at = label, !.email = e, !.purpose = p])
    /\ UNCHANGED <<codes, faults>>

AbortCode(w) == CutOff(w) /\ UNCHANGED codes

CodesNext == Elapse \/ \E w \in Worker : UseCodes(w) \/ CodeStep(w) \/ AbortCode(w)

CodesSpec == CodesInit /\ [][CodesNext]_codeVars

-----------------------------------------------------------------------------
\* OTP_MAX_ATTEMPTS bounds the guesses at a code (verify) although attempts
\* are counted after the comparison: concurrent calls compare one guess each
\* before the counter stops them, and a call that is cut off leaves one uncounted.
GuessesBounded == \A i \in DOMAIN codes :
    codes[i].guesses <= MaxAttempts - 1 + Cardinality(Worker) + faults

\* A code is accepted once (verify), or once by each of the calls that had read
\* it when it was first accepted, and no call accepts it later.
NoSecondUse == \A i \in DOMAIN codes : codes[i].accepted <= Cardinality(Worker)

\* A new code replaces the older ones (generateAndStore): more than one code
\* is valid only if calls overlap, and then at most one from each of them.
CodesReplaced == \A e \in Email, p \in Purpose :
    Cardinality(Valid(e, p)) <= Cardinality(Worker)
=============================================================================
