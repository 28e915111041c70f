----------------------------- MODULE UsersProofs -----------------------------
(***************************************************************************)
(* Theorems about what belongs to a user: the one-time codes, the devices  *)
(* that pushes go to, the delivery addresses, a seller's onboarding and    *)
(* the recently viewed products, each by its own specification, for any    *)
(* number of calls and of rows.                                            *)
(***************************************************************************)
EXTENDS Codes, Notices, Addresses, Onboarding, Views, FiniteSetTheorems,
        SequenceTheorems, WellFoundedInduction, TLAPS

-----------------------------------------------------------------------------
(***************************************************************************)
(* One-time codes                                                          *)
(***************************************************************************)

Sending == {"checkCooldown", "invalidate", "insertCode"}
OnCode == {"useCode", "countAttempt", "retireCode"}

CodeCall == [at : Sending \cup {"findCode"} \cup OnCode, then : {"idle"}, email : Email,
             purpose : Purpose, code : Nat, user : {Nil}, session : {Nil}, clerk : {Nil}]

\* Every call is of this type, and one that is about a code has it in hand.
CallsTyped ==
    /\ codes \in Seq(CodeRow)
    /\ call \in [Worker -> {Idle} \cup CodeCall]
    /\ \A w \in Worker : call[w].at \in OnCode => call[w].code \in DOMAIN codes
    /\ faults \in Nat

LEMMA TypedImpliesTypeOK == CallsTyped => CodesTypeOK
<1> SUFFICES ASSUME CallsTyped PROVE CodesTypeOK
  OBVIOUS
<1>1. codes \in Seq(CodeRow) /\ faults \in Nat
  BY DEF CallsTyped
<1>2. ASSUME NEW w \in Worker, call[w].at # "idle"
      PROVE  call[w].email \in Email /\ call[w].purpose \in Purpose
  <2>1. call[w] \in {Idle} \cup CodeCall
    BY DEF CallsTyped
  <2>2. CASE call[w] = Idle
    BY <1>2, <2>2 DEF Idle
  <2>3. CASE call[w] \in CodeCall
    BY <2>3 DEF CodeCall
  <2>4. QED
    BY <2>1, <2>2, <2>3
<1>3. \A w \in Worker : call[w].at \in OnCode => call[w].code \in DOMAIN codes
  BY DEF CallsTyped
<1>4. QED
  BY <1>1, <1>2, <1>3 DEF CodesTypeOK, OnCode

LEMMA InitTyped == CodesInit => CallsTyped
<1> SUFFICES ASSUME CodesInit PROVE CallsTyped
  OBVIOUS
<1>1. codes \in Seq(CodeRow) /\ faults \in Nat
  BY DEF CodesInit, CallsInit
<1>2. \A w \in Worker : call[w] = Idle /\ call[w].at = "idle"
  BY DEF CodesInit, CallsInit, Idle
<1>3. call \in [Worker -> {Idle} \cup CodeCall]
  BY DEF CodesInit, CallsInit
<1>4. QED
  BY <1>1, <1>2, <1>3 DEF CallsTyped, OnCode

\* A worker that is not idle holds a call, which resumes to nothing else.
LEMMA Holding ==
  ASSUME CallsTyped, NEW w \in Worker, call[w].at # "idle"
  PROVE  call[w] \in CodeCall /\ call[w].then = "idle"
<1>1. call[w] \in {Idle} \cup CodeCall
  BY DEF CallsTyped
<1>2. call[w] # Idle
  BY DEF Idle
<1>3. call[w] \in CodeCall
  BY <1>1, <1>2
<1>4. QED
  BY <1>3 DEF CodeCall

LEMMA RowType ==
  ASSUME CallsTyped
  PROVE  /\ Len(codes) \in Nat
         /\ DOMAIN codes = 1 .. Len(codes)
         /\ \A i \in DOMAIN codes : codes[i] \in CodeRow
  BY DEF CallsTyped

\* An index of codes stays one when the rows are written.
LEMMA WriteRows ==
  ASSUME CallsTyped, NEW new, new \in [DOMAIN codes -> CodeRow]
  PROVE  new \in Seq(CodeRow) /\ DOMAIN new = DOMAIN codes
<1>1. DOMAIN codes = 1 .. Len(codes) /\ Len(codes) \in Nat
  BY RowType
<1>2. QED
  BY <1>1

LEMMA WriteRow ==
  ASSUME CallsTyped, NEW i \in DOMAIN codes, NEW row \in CodeRow
  PROVE  /\ [codes EXCEPT ![i] = row] \in Seq(CodeRow)
         /\ DOMAIN [codes EXCEPT ![i] = row] = DOMAIN codes
<1>1. codes \in [DOMAIN codes -> CodeRow]
  <2>1. codes \in [1 .. Len(codes) -> CodeRow]
    BY DEF CallsTyped
  <2>2. QED
    BY <2>1, RowType
<1>2. [codes EXCEPT ![i] = row] \in [DOMAIN codes -> CodeRow]
  BY <1>1
<1>3. QED
  BY <1>2, WriteRows

\* A step that ends the call, or leaves it where it must hold a code, keeps
\* the calls typed if it keeps the rows typed.
LEMMA KeepsTyped ==
  ASSUME CallsTyped, NEW w \in Worker, NEW c \in {Idle} \cup CodeCall,
         call' = [call EXCEPT ![w] = c], faults' \in Nat,
         codes' \in Seq(CodeRow), DOMAIN codes \subseteq DOMAIN codes',
         c.at \in OnCode => c.code \in DOMAIN codes
  PROVE  CallsTyped'
<1>1. call' \in [Worker -> {Idle} \cup CodeCall]
  BY DEF CallsTyped
<1>2. ASSUME NEW v \in Worker, call'[v].at \in OnCode PROVE call'[v].code \in DOMAIN codes'
  <2>1. CASE v = w
    BY <1>2, <2>1 DEF CallsTyped
  <2>2. CASE v # w
    BY <1>2, <2>2 DEF CallsTyped
  <2>3. QED
    BY <2>1, <2>2
<1>3. QED
  BY <1>1, <1>2 DEF CallsTyped

\* Every step keeps the calls typed.
LEMMA TypedStep == CallsTyped /\ [CodesNext]_codeVars => CallsTyped'
<1> SUFFICES ASSUME CallsTyped, [CodesNext]_codeVars PROVE CallsTyped'
  OBVIOUS
<1> USE DEF callVars, At, Begin, Become, Goto, Return
<1>a. Idle \in {Idle} \cup CodeCall /\ Idle.at \notin OnCode
  BY DEF Idle, OnCode
<1>b. faults \in Nat /\ codes \in Seq(CodeRow)
  BY DEF CallsTyped
<1>1. ASSUME NEW w \in Worker, UseCodes(w) PROVE CallsTyped'
  <2>1. PICK e \in Email, p \in Purpose, label \in {"checkCooldown", "findCode"} :
            Begin(w, [NewCall EXCEPT !.at = label, !.email = e, !.purpose = p])
    BY <1>1 DEF UseCodes
  <2> DEFINE c == [NewCall EXCEPT !.at = label, !.email = e, !.purpose = p]
  <2>2. c \in CodeCall /\ c.at \notin OnCode
    BY DEF NewCall, CodeCall, OnCode, Sending
  <2>3. call' = [call EXCEPT ![w] = c] /\ UNCHANGED <<codes, faults>>
    BY <1>1, <2>1 DEF UseCodes
  <2> HIDE DEF c
  <2>4. QED
    BY <1>b, <2>2, <2>3, KeepsTyped
<1>2. ASSUME NEW w \in Worker, CheckCooldown(w) PROVE CallsTyped'
  <2>1. call[w] \in CodeCall /\ UNCHANGED <<codes, faults>>
    BY <1>2, Holding DEF CheckCooldown
  <2>2. CASE Return(w)
    BY <1>a, <1>b, <2>1, <2>2, KeepsTyped
  <2>3. CASE Goto(w, "invalidate")
    <3> DEFINE c == [call[w] EXCEPT !.at = "invalidate"]
    <3>1. c \in CodeCall /\ c.at \notin OnCode
      BY <2>1 DEF CodeCall, OnCode, Sending
    <3>2. call' = [call EXCEPT ![w] = c]
      BY <2>3
    <3> HIDE DEF c
    <3>3. QED
      BY <1>b, <2>1, <3>1, <3>2, KeepsTyped
  <2>4. QED
    BY <1>2, <2>2, <2>3 DEF CheckCooldown
<1>3. ASSUME NEW w \in Worker, InvalidateAll(w) PROVE CallsTyped'
  <2>1. call[w] \in CodeCall /\ UNCHANGED faults
    BY <1>3, Holding DEF InvalidateAll
  <2>2. codes' \in [DOMAIN codes -> CodeRow]
    BY <1>3, RowType DEF InvalidateAll, CodeRow
  <2>3. codes' \in Seq(CodeRow) /\ DOMAIN codes' = DOMAIN codes
    BY <2>2, WriteRows
  <2> DEFINE c == [call[w] EXCEPT !.at = "insertCode"]
  <2>4. c \in CodeCall /\ c.at \notin OnCode
    BY <2>1 DEF CodeCall, OnCode, Sending
  <2>5. call' = [call EXCEPT ![w] = c]
    BY <1>3 DEF InvalidateAll
  <2> HIDE DEF c
  <2>6. QED
    BY <1>b, <2>1, <2>3, <2>4, <2>5, KeepsTyped
<1>4. ASSUME NEW w \in Worker, InsertCode(w) PROVE CallsTyped'
  <2>1. call[w] \in CodeCall /\ call[w].then = "idle"
    BY <1>4, Holding DEF InsertCode
  <2> DEFINE row == [email |-> call[w].email, purpose |-> call[w].purpose, used |-> FALSE,
                     age |-> "new", attempts |-> 0, guesses |-> 0, accepted |-> 0]
  <2>2. row \in CodeRow
    BY <2>1 DEF CodeCall, CodeRow
  <2>3. codes' = Append(codes, row)
    BY <1>4 DEF InsertCode
  <2> HIDE DEF row
  <2>4. codes' \in Seq(CodeRow) /\ DOMAIN codes \subseteq DOMAIN codes'
    <3>1. codes' \in Seq(CodeRow) /\ Len(codes') = Len(codes) + 1
      BY <1>b, <2>2, <2>3
    <3>2. DOMAIN codes' = 1 .. Len(codes) + 1
      BY <3>1
    <3>3. QED
      BY <3>1, <3>2, RowType
  <2>5. call' = [call EXCEPT ![w] = Idle] /\ UNCHANGED faults
    BY <1>4, <2>1 DEF InsertCode, Resume
  <2>6. QED
    BY <1>a, <1>b, <2>4, <2>5, KeepsTyped
<1>5. ASSUME NEW w \in Worker, FindCode(w) PROVE CallsTyped'
  <2>1. call[w] \in CodeCall /\ UNCHANGED faults
    BY <1>5, Holding DEF FindCode
  <2>2. CASE Return(w) /\ UNCHANGED codes
    BY <1>a, <1>b, <2>1, <2>2, KeepsTyped
  <2>3. ASSUME NEW i \in DOMAIN codes, NEW label \in OnCode, Hold(w, i, label),
               \/ UNCHANGED codes
               \/ codes' = [codes EXCEPT ![i].guesses = @ + 1]
        PROVE  CallsTyped'
    <3>1. codes' \in Seq(CodeRow) /\ DOMAIN codes' = DOMAIN codes
      <4>1. CASE UNCHANGED codes
        BY <4>1, <1>b
      <4>2. CASE codes' = [codes EXCEPT ![i].guesses = @ + 1]
        <5>1. [codes[i] EXCEPT !.guesses = @ + 1] \in CodeRow
          BY RowType DEF CodeRow
        <5>2. codes' = [codes EXCEPT ![i] = [codes[i] EXCEPT !.guesses = @ + 1]]
          BY <4>2
        <5>3. QED
          BY <5>1, <5>2, WriteRow
      <4>3. QED
        BY <2>3, <4>1, <4>2
    <3>2. i \in Nat
      BY RowType
    <3> DEFINE c == [call[w] EXCEPT !.at = label, !.code = i]
    <3>3. c \in CodeCall /\ c.code = i
      BY <2>1, <3>2 DEF CodeCall
    <3>4. call' = [call EXCEPT ![w] = c]
      BY <2>3 DEF Hold
    <3> HIDE DEF c
    <3>5. QED
      BY <1>b, <2>1, <3>1, <3>3, <3>4, KeepsTyped
  <2>4. QED
    BY <1>5, <2>2, <2>3 DEF FindCode, OnCode
<1>6. ASSUME NEW w \in Worker, call[w].at \in OnCode, UNCHANGED faults,
             call' = [call EXCEPT ![w] = Idle],
             NEW row \in CodeRow, codes' = [codes EXCEPT ![call[w].code] = row]
      PROVE  CallsTyped'
  <2>1. call[w].code \in DOMAIN codes
    BY <1>6 DEF CallsTyped
  <2>2. codes' \in Seq(CodeRow) /\ DOMAIN codes' = DOMAIN codes
    BY <1>6, <2>1, WriteRow
  <2>3. QED
    BY <1>a, <1>b, <1>6, <2>2, KeepsTyped
<1>7. ASSUME NEW w \in Worker, call[w].at \in OnCode
      PROVE  codes[call[w].code] \in CodeRow /\ call[w].then = "idle"
  BY <1>7, RowType, Holding DEF CallsTyped, OnCode
<1>8. ASSUME NEW w \in Worker, RetireCode(w) PROVE CallsTyped'
  <2>1. call[w].at \in OnCode
    BY <1>8 DEF RetireCode, OnCode
  <2>2. [codes[call[w].code] EXCEPT !.used = TRUE] \in CodeRow
    BY <1>7, <2>1 DEF CodeRow
  <2>3. codes' = [codes EXCEPT ![call[w].code] = [codes[call[w].code] EXCEPT !.used = TRUE]]
    BY <1>8 DEF RetireCode
  <2>4. QED
    BY <1>6, <1>8, <2>1, <2>2, <2>3 DEF RetireCode
<1>9. ASSUME NEW w \in Worker, CountAttempt(w) PROVE CallsTyped'
  <2>1. call[w].at \in OnCode
    BY <1>9 DEF CountAttempt, OnCode
  <2>2. [codes[call[w].code] EXCEPT !.attempts = @ + 1] \in CodeRow
    BY <1>7, <2>1 DEF CodeRow
  <2>3. codes' = [codes EXCEPT ![call[w].code] = [codes[call[w].code] EXCEPT !.attempts = @ + 1]]
    BY <1>9 DEF CountAttempt
  <2>4. QED
    BY <1>6, <1>9, <2>1, <2>2, <2>3 DEF CountAttempt
<1>10. ASSUME NEW w \in Worker, UseCode(w) PROVE CallsTyped'
  <2>1. call[w].at \in OnCode /\ call[w].then = "idle"
    BY <1>10, <1>7 DEF UseCode, OnCode
  <2>2. [codes[call[w].code] EXCEPT !.used = TRUE, !.accepted = @ + 1] \in CodeRow
    <3>1. ASSUME NEW row \in CodeRow
          PROVE  [row EXCEPT !.used = TRUE, !.accepted = @ + 1] \in CodeRow
      <4>1. [row EXCEPT !.used = TRUE] \in CodeRow
        BY DEF CodeRow
      <4>2. row.accepted + 1 \in Nat
        BY DEF CodeRow
      <4>3. [row EXCEPT !.used = TRUE, !.accepted = @ + 1]
              = [[row EXCEPT !.used = TRUE] EXCEPT !.accepted = row.accepted + 1]
        BY DEF CodeRow
      <4>4. ASSUME NEW r \in CodeRow, NEW n \in Nat PROVE [r EXCEPT !.accepted = n] \in CodeRow
        BY DEF CodeRow
      <4>5. QED
        BY <4>1, <4>2, <4>3, <4>4
    <3>2. codes[call[w].code] \in CodeRow
      BY <1>7, <2>1
    <3>3. QED
      BY <3>1, <3>2
  <2>3. codes' = [codes EXCEPT ![call[w].code] =
                    [codes[call[w].code] EXCEPT !.used = TRUE, !.accepted = @ + 1]]
    BY <1>10 DEF UseCode
  <2>4. call' = [call EXCEPT ![w] = Idle] /\ UNCHANGED faults
    BY <1>10, <2>1 DEF UseCode, Resume
  <2>5. QED
    BY <1>6, <2>1, <2>2, <2>3, <2>4
<1>11. CASE Elapse
  <2>1. PICK i \in DOMAIN codes :
            codes' = [codes EXCEPT ![i].age = IF @ = "new" THEN "old" ELSE "expired"]
    BY <1>11 DEF Elapse
  <2>2. [codes[i] EXCEPT !.age = IF @ = "new" THEN "old" ELSE "expired"] \in CodeRow
    BY RowType DEF CodeRow
  <2>3. codes' = [codes EXCEPT ![i] = [codes[i] EXCEPT !.age = IF @ = "new" THEN "old" ELSE "expired"]]
    BY <2>1
  <2>4. codes' \in Seq(CodeRow) /\ DOMAIN codes' = DOMAIN codes
    BY <2>2, <2>3, WriteRow
  <2>5. QED
    BY <1>11, <2>4 DEF Elapse, CallsTyped
<1>12. ASSUME NEW w \in Worker, AbortCode(w) PROVE CallsTyped'
  <2>1. call' = [call EXCEPT ![w] = Idle] /\ faults' \in Nat /\ UNCHANGED codes
    BY <1>b, <1>12 DEF AbortCode, CutOff
  <2>2. QED
    BY <1>a, <1>b, <2>1, KeepsTyped
<1>13. CASE UNCHANGED codeVars
  BY <1>13 DEF codeVars, CallsTyped
<1>14. QED
  BY <1>1, <1>2, <1>3, <1>4, <1>5, <1>8, <1>9, <1>10, <1>11, <1>12, <1>13 DEF CodesNext, CodeStep

\* The types hold in every reachable state.
THEOREM CodesTyped == CodesSpec => []CallsTyped
  BY InitTyped, TypedStep, PTL DEF CodesSpec

THEOREM CodesTypeCorrect == CodesSpec => []CodesTypeOK
  BY CodesTyped, TypedImpliesTypeOK, PTL

-----------------------------------------------------------------------------
(* The calls that stand at a label with a code in hand *)

Holders(label, i) == {w \in Worker : call[w].at = label /\ call[w].code = i}

LEMMA HoldersCount ==
  ASSUME NEW label, NEW i
  PROVE  /\ IsFiniteSet(Holders(label, i)) /\ Cardinality(Holders(label, i)) \in Nat
         /\ Cardinality(Worker) \in Nat
         /\ Cardinality(Holders(label, i)) <= Cardinality(Worker)
<1>1. Holders(label, i) \subseteq Worker
  BY DEF Holders
<1>2. QED
  BY <1>1, WorkerAssumption, FS_Subset, FS_CardinalityType

\* What one call does to the holders, and to their number: it stays as it is,
\* joins them or leaves them.
LEMMA HoldersStep ==
  ASSUME CallsTyped, NEW w \in Worker, NEW c \in {Idle} \cup CodeCall, call' = [call EXCEPT ![w] = c],
         NEW label \in OnCode, NEW i \in Nat
  PROVE  Holders(label, i)' = IF c.at = label /\ c.code = i
                              THEN Holders(label, i) \cup {w} ELSE Holders(label, i) \ {w}
  BY DEF Holders, CallsTyped

LEMMA HoldersStay ==
  ASSUME CallsTyped, NEW w \in Worker, NEW c \in {Idle} \cup CodeCall, call' = [call EXCEPT ![w] = c],
         NEW label \in OnCode, NEW i \in Nat,
         call[w].at # label \/ call[w].code # i,
         c.at # label \/ c.code # i
  PROVE  Cardinality(Holders(label, i)') = Cardinality(Holders(label, i))
<1>1. Holders(label, i)' = Holders(label, i)
  BY HoldersStep DEF Holders
<1>2. QED
  BY <1>1

LEMMA HoldersJoin ==
  ASSUME CallsTyped, NEW w \in Worker, NEW c \in {Idle} \cup CodeCall, call' = [call EXCEPT ![w] = c],
         NEW label \in OnCode, NEW i \in Nat,
         call[w].at # label \/ call[w].code # i,
         c.at = label, c.code = i
  PROVE  /\ Cardinality(Holders(label, i)') = Cardinality(Holders(label, i)) + 1
         /\ Cardinality(Holders(label, i)') <= Cardinality(Worker)
<1>1. Holders(label, i)' = Holders(label, i) \cup {w}
  BY HoldersStep
<1>2. w \notin Holders(label, i) /\ Holders(label, i)' \subseteq Worker
  BY <1>1 DEF Holders
<1>3. QED
  BY <1>1, <1>2, HoldersCount, WorkerAssumption, FS_AddElement, FS_Subset

LEMMA HoldersLeave ==
  ASSUME CallsTyped, NEW w \in Worker, NEW c \in {Idle} \cup CodeCall, call' = [call EXCEPT ![w] = c],
         NEW label \in OnCode, NEW i \in Nat,
         call[w].at = label, call[w].code = i,
         c.at # label
  PROVE  /\ Cardinality(Holders(label, i)') = Cardinality(Holders(label, i)) - 1
         /\ Cardinality(Holders(label, i)') \in Nat
<1>1. Holders(label, i)' = Holders(label, i) \ {w}
  BY DEF Holders, CallsTyped
<1>2. w \in Holders(label, i)
  BY DEF Holders
<1>3. IsFiniteSet(Holders(label, i) \ {w})
  BY HoldersCount, FS_RemoveElement
<1>4. QED
  BY <1>1, <1>2, <1>3, HoldersCount, FS_RemoveElement, FS_CardinalityType

-----------------------------------------------------------------------------
(* The guesses at a code *)

\* A guess that attempts does not count yet is that of a call which is about
\* to count it, or of one that was cut off.
Within(g, a, k, f) ==
    /\ g <= a + k + f
    /\ g <= MaxAttempts - 1 + Cardinality(Worker) + f

Counting(i) == Cardinality(Holders("countAttempt", i))

GuessesInv == \A i \in DOMAIN codes :
    Within(codes[i].guesses, codes[i].attempts, Counting(i), faults)

LEMMA WithinGuess ==
  ASSUME NEW g \in Nat, NEW a \in Nat, NEW k \in Nat, NEW f \in Nat,
         Within(g, a, k, f), a < MaxAttempts, k + 1 <= Cardinality(Worker)
  PROVE  Within(g + 1, a, k + 1, f)
  BY AttemptsAssumption, HoldersCount DEF Within

\* ... and none has been made at a new code.
LEMMA WithinNew ==
  ASSUME NEW l \in Nat, NEW f \in Nat
  PROVE  Within(0, 0, l, f)
  BY AttemptsAssumption, HoldersCount DEF Within

LEMMA GuessesStep == CallsTyped /\ CallsTyped' /\ GuessesInv /\ [CodesNext]_codeVars => GuessesInv'
<1> SUFFICES ASSUME CallsTyped, CallsTyped', GuessesInv, [CodesNext]_codeVars, NEW i \in DOMAIN codes'
             PROVE  Within(codes'[i].guesses, codes'[i].attempts, Counting(i)', faults')
  BY DEF GuessesInv
<1> USE DEF callVars, At, Begin, Become, Goto, Return
<1>a. /\ Counting(i) \in Nat /\ faults \in Nat
      /\ \A j \in DOMAIN codes : codes[j].guesses \in Nat /\ codes[j].attempts \in Nat
  BY HoldersCount, RowType DEF Counting, CallsTyped, CodeRow
<1>b. i \in DOMAIN codes => Within(codes[i].guesses, codes[i].attempts, Counting(i), faults)
  BY DEF GuessesInv
<1>f. i \in Nat /\ "countAttempt" \in OnCode
  <2>1. codes' \in Seq(CodeRow)
    BY DEF CallsTyped
  <2>2. DOMAIN codes' = 1 .. Len(codes') /\ Len(codes') \in Nat
    BY <2>1
  <2>3. QED
    BY <2>2 DEF OnCode
<1>g. \A j \in DOMAIN codes : j \in Nat
  BY RowType
<1>c. ASSUME NEW w \in Worker, NEW c \in {Idle} \cup CodeCall, call' = [call EXCEPT ![w] = c],
             call[w].at # "countAttempt", c.at # "countAttempt"
      PROVE  Counting(i)' = Counting(i)
  BY <1>c, <1>f, HoldersStay DEF Counting
<1>d. ASSUME NEW w \in Worker, NEW c \in {Idle} \cup CodeCall, call' = [call EXCEPT ![w] = c],
             call[w].at # "countAttempt", c.at # "countAttempt",
             UNCHANGED faults, i \in DOMAIN codes,
             codes'[i].guesses = codes[i].guesses, codes'[i].attempts = codes[i].attempts
      PROVE  Within(codes'[i].guesses, codes'[i].attempts, Counting(i)', faults')
  BY <1>b, <1>c, <1>d
<1>e. Idle.at # "countAttempt"
  BY DEF Idle
<1>1. ASSUME NEW w \in Worker, UseCodes(w)
      PROVE  Within(codes'[i].guesses, codes'[i].attempts, Counting(i)', faults')
  <2>1. PICK e \in Email, p \in Purpose, label \in {"checkCooldown", "findCode"} :
            Begin(w, [NewCall EXCEPT !.at = label, !.email = e, !.purpose = p])
    BY <1>1 DEF UseCodes
  <2>2. /\ [NewCall EXCEPT !.at = label, !.email = e, !.purpose = p] \in CodeCall
        /\ [NewCall EXCEPT !.at = label, !.email = e, !.purpose = p].at # "countAttempt"
    BY DEF NewCall, CodeCall, Sending
  <2>3. UNCHANGED <<codes, faults>>
    BY <1>1 DEF UseCodes
  <2>4. QED
    BY <1>d, <2>1, <2>2, <2>3
<1>2. ASSUME NEW w \in Worker, CheckCooldown(w)
      PROVE  Within(codes'[i].guesses, codes'[i].attempts, Counting(i)', faults')
  <2>1. UNCHANGED <<codes, faults>> /\ call[w].at # "countAttempt"
    BY <1>2 DEF CheckCooldown
  <2>2. CASE Return(w)
    BY <1>d, <1>e, <2>1, <2>2
  <2>3. CASE Goto(w, "invalidate")
    <3>1. /\ [call[w] EXCEPT !.at = "invalidate"] \in CodeCall
          /\ [call[w] EXCEPT !.at = "invalidate"].at # "countAttempt"
      BY <1>2, Holding DEF CheckCooldown, CodeCall, Sending
    <3>2. QED
      BY <1>d, <2>1, <2>3, <3>1
  <2>4. QED
    BY <1>2, <2>2, <2>3 DEF CheckCooldown
<1>3. ASSUME NEW w \in Worker, InvalidateAll(w)
      PROVE  Within(codes'[i].guesses, codes'[i].attempts, Counting(i)', faults')
  <2>1. /\ i \in DOMAIN codes
        /\ codes'[i].guesses = codes[i].guesses /\ codes'[i].attempts = codes[i].attempts
    BY <1>3, RowType DEF InvalidateAll, CodeRow
  <2>2. /\ [call[w] EXCEPT !.at = "insertCode"] \in CodeCall
        /\ [call[w] EXCEPT !.at = "insertCode"].at # "countAttempt"
    BY <1>3, Holding DEF InvalidateAll, CodeCall, Sending
  <2>3. QED
    BY <1>3, <1>d, <2>1, <2>2 DEF InvalidateAll
<1>4. ASSUME NEW w \in Worker, InsertCode(w)
      PROVE  Within(codes'[i].guesses, codes'[i].attempts, Counting(i)', faults')
  <2>1. call[w] \in CodeCall /\ call[w].then = "idle" /\ call[w].at # "countAttempt"
    BY <1>4, Holding DEF InsertCode
  <2>2. call' = [call EXCEPT ![w] = Idle] /\ UNCHANGED faults
    BY <1>4, <2>1 DEF InsertCode, Resume
  <2> DEFINE row == [email |-> call[w].email, purpose |-> call[w].purpose, used |-> FALSE,
                     age |-> "new", attempts |-> 0, guesses |-> 0, accepted |-> 0]
  <2>3. row \in CodeRow /\ row.guesses = 0 /\ row.attempts = 0
    BY <2>1 DEF CodeCall, CodeRow
  <2>4. codes' = Append(codes, row)
    BY <1>4 DEF InsertCode
  <2> HIDE DEF row
  <2>5. i \in 1 .. Len(codes) + 1
    <3>1. Len(codes') = Len(codes) + 1 /\ codes' \in Seq(CodeRow)
      BY <2>3, <2>4 DEF CallsTyped
    <3>2. QED
      BY <3>1
  <2>6. CASE i \in 1 .. Len(codes)
    <3>1. i \in DOMAIN codes /\ codes'[i] = codes[i]
      BY <2>3, <2>4, <2>6, RowType DEF CallsTyped
    <3>2. QED
      BY <1>d, <1>e, <2>1, <2>2, <3>1
  <2>7. CASE i = Len(codes) + 1
    <3>1. codes'[i] = row
      BY <2>3, <2>4, <2>7 DEF CallsTyped
    <3>2. Counting(i)' = Counting(i)
      BY <1>c, <1>e, <2>1, <2>2
    <3>3. Within(0, 0, Counting(i)', faults')
      BY <1>a, <2>2, <3>2, WithinNew
    <3>4. QED
      BY <2>3, <3>1, <3>3
  <2>8. QED
    BY <2>5, <2>6, <2>7, RowType
<1>5. ASSUME NEW w \in Worker, FindCode(w)
      PROVE  Within(codes'[i].guesses, codes'[i].attempts, Counting(i)', faults')
  <2>1. call[w] \in CodeCall /\ UNCHANGED faults /\ call[w].at # "countAttempt"
    BY <1>5, Holding DEF FindCode
  <2>2. CASE Return(w) /\ UNCHANGED codes
    BY <1>d, <1>e, <2>1, <2>2
  <2>3. ASSUME NEW j \in DOMAIN codes, NEW label \in {"retireCode", "useCode"},
               Hold(w, j, label), UNCHANGED codes
        PROVE  Within(codes'[i].guesses, codes'[i].attempts, Counting(i)', faults')
    <3>1. /\ [call[w] EXCEPT !.at = label, !.code = j] \in CodeCall
          /\ [call[w] EXCEPT !.at = label, !.code = j].at # "countAttempt"
      BY <2>1, <1>g DEF CodeCall, OnCode
    <3>2. QED
      BY <1>d, <2>1, <2>3, <3>1 DEF Hold
  <2>4. ASSUME NEW j \in DOMAIN codes, ~Exhausted(j), Hold(w, j, "countAttempt"),
               codes' = [codes EXCEPT ![j].guesses = @ + 1]
        PROVE  Within(codes'[i].guesses, codes'[i].attempts, Counting(i)', faults')
    <3> DEFINE c == [call[w] EXCEPT !.at = "countAttempt", !.code = j]
    <3>1. c \in CodeCall /\ c.at = "countAttempt" /\ c.code = j
      BY <2>1, <1>g DEF CodeCall, OnCode
    <3>2. call' = [call EXCEPT ![w] = c]
      BY <2>4 DEF Hold
    <3> HIDE DEF c
    <3>3. i \in DOMAIN codes /\ codes'[i].attempts = codes[i].attempts
      BY <2>4, RowType DEF CodeRow
    <3>4. CASE i = j
      <4>1. codes'[i].guesses = codes[i].guesses + 1
        BY <2>4, <3>4, RowType DEF CodeRow
      <4>2. Counting(i)' = Counting(i) + 1 /\ Counting(i)' <= Cardinality(Worker)
        BY <2>1, <3>1, <3>2, <3>4, <1>f, HoldersJoin DEF Counting
      <4>3. codes[i].attempts < MaxAttempts
        <5>1. codes[i].attempts \in Nat /\ MaxAttempts \in Nat
          BY <1>a, <3>3, AttemptsAssumption
        <5>2. ~(codes[i].attempts >= MaxAttempts)
          BY <2>4, <3>4 DEF Exhausted
        <5>3. QED
          BY <5>1, <5>2
      <4>4. Within(codes[i].guesses + 1, codes[i].attempts, Counting(i) + 1, faults)
        BY <1>a, <1>b, <3>3, <4>2, <4>3, WithinGuess
      <4>5. QED
        BY <2>1, <3>3, <4>1, <4>2, <4>4
    <3>5. CASE i # j
      <4>1. codes'[i].guesses = codes[i].guesses
        BY <2>4, <3>3, <3>5
      <4>2. Counting(i)' = Counting(i)
        BY <2>1, <3>1, <3>2, <3>5, <1>f, HoldersStay DEF Counting
      <4>3. QED
        BY <1>b, <2>1, <3>3, <4>1, <4>2
    <3>6. QED
      BY <3>4, <3>5
  <2>5. QED
    BY <1>5, <2>2, <2>3, <2>4 DEF FindCode
<1>6. ASSUME NEW w \in Worker, RetireCode(w)
      PROVE  Within(codes'[i].guesses, codes'[i].attempts, Counting(i)', faults')
  <2>1. i \in DOMAIN codes /\ call[w].at # "countAttempt"
    BY <1>6 DEF RetireCode
  <2>2. codes'[i].guesses = codes[i].guesses /\ codes'[i].attempts = codes[i].attempts
    BY <1>6, <2>1, RowType DEF RetireCode, CodeRow
  <2>3. QED
    BY <1>6, <1>d, <1>e, <2>1, <2>2 DEF RetireCode
<1>7. ASSUME NEW w \in Worker, CountAttempt(w)
      PROVE  Within(codes'[i].guesses, codes'[i].attempts, Counting(i)', faults')
  <2>1. /\ i \in DOMAIN codes /\ call[w].at = "countAttempt" /\ call[w].code \in DOMAIN codes
        /\ call' = [call EXCEPT ![w] = Idle] /\ UNCHANGED faults
    BY <1>7 DEF CountAttempt, CallsTyped, OnCode
  <2>2. codes'[i].guesses = codes[i].guesses
    BY <1>7, <2>1, RowType DEF CountAttempt, CodeRow
  <2>3. CASE i = call[w].code
    <3>1. codes'[i].attempts = codes[i].attempts + 1
      BY <1>7, <2>1, <2>3, RowType DEF CountAttempt, CodeRow
    <3>2. Counting(i)' = Counting(i) - 1 /\ Counting(i)' \in Nat
      BY <1>e, <2>1, <2>3, <1>f, HoldersLeave DEF Counting
    <3>3. Within(codes[i].guesses, codes[i].attempts + 1, Counting(i)', faults')
      <4>1. Within(codes[i].guesses, codes[i].attempts, Counting(i), faults)
        BY <1>b, <2>1
      <4>2. /\ codes[i].guesses \in Nat /\ codes[i].attempts \in Nat
            /\ Counting(i) \in Nat /\ faults \in Nat
        BY <1>a, <2>1
      <4>3. /\ codes[i].guesses <= codes[i].attempts + Counting(i) + faults
            /\ codes[i].guesses <= MaxAttempts - 1 + Cardinality(Worker) + faults
        BY <4>1 DEF Within
      <4>4. codes[i].guesses <= codes[i].attempts + 1 + Counting(i)' + faults
        BY <3>2, <4>2, <4>3
      <4>5. faults' = faults
        BY <2>1
      <4>6. QED
        BY <4>3, <4>4, <4>5 DEF Within
    <3>4. QED
      BY <2>2, <3>1, <3>3
  <2>4. CASE i # call[w].code
    <3>1. codes'[i].attempts = codes[i].attempts
      BY <1>7, <2>1, <2>4 DEF CountAttempt
    <3>2. Counting(i)' = Counting(i)
      BY <1>e, <2>1, <2>4, <1>f, HoldersStay DEF Counting
    <3>3. QED
      BY <1>b, <2>1, <2>2, <3>1, <3>2
  <2>5. QED
    BY <2>3, <2>4
<1>8. ASSUME NEW w \in Worker, UseCode(w)
      PROVE  Within(codes'[i].guesses, codes'[i].attempts, Counting(i)', faults')
  <2>1. i \in DOMAIN codes /\ call[w].at # "countAttempt"
    BY <1>8 DEF UseCode
  <2>2. codes'[i].guesses = codes[i].guesses /\ codes'[i].attempts = codes[i].attempts
    BY <1>8, <2>1, RowType DEF UseCode, CodeRow
  <2>3. call' = [call EXCEPT ![w] = Idle] /\ UNCHANGED faults
    BY <1>8, Holding DEF UseCode, Resume
  <2>4. QED
    BY <1>d, <1>e, <2>1, <2>2, <2>3
<1>9. CASE Elapse
  <2>1. PICK j \in DOMAIN codes :
            codes' = [codes EXCEPT ![j].age = IF @ = "new" THEN "old" ELSE "expired"]
    BY <1>9 DEF Elapse
  <2>2. /\ i \in DOMAIN codes
        /\ codes'[i].guesses = codes[i].guesses /\ codes'[i].attempts = codes[i].attempts
    BY <2>1, RowType DEF CodeRow
  <2>3. Counting(i)' = Counting(i) /\ UNCHANGED faults
    BY <1>9 DEF Elapse, Counting, Holders
  <2>4. QED
    BY <1>b, <2>2, <2>3
<1>10. ASSUME NEW w \in Worker, AbortCode(w)
       PROVE  Within(codes'[i].guesses, codes'[i].attempts, Counting(i)', faults')
  <2>1. call' = [call EXCEPT ![w] = Idle] /\ faults' = faults + 1 /\ UNCHANGED codes
    BY <1>10 DEF AbortCode, CutOff
  <2>2. Counting(i)' \in Nat /\ Counting(i)' >= Counting(i) - 1
    <3>1. CASE call[w].at = "countAttempt" /\ call[w].code = i
      <4>1. Counting(i)' = Counting(i) - 1 /\ Counting(i)' \in Nat
        BY <1>e, <1>f, <2>1, <3>1, HoldersLeave DEF Counting
      <4>2. QED
        BY <1>a, <4>1
    <3>2. CASE call[w].at # "countAttempt" \/ call[w].code # i
      <4>1. Counting(i)' = Counting(i)
        BY <1>e, <1>f, <2>1, <3>2, HoldersStay DEF Counting
      <4>2. QED
        BY <1>a, <4>1
    <3>3. QED
      BY <3>1, <3>2
  <2>3. Within(codes[i].guesses, codes[i].attempts, Counting(i)', faults')
    <3>1. Within(codes[i].guesses, codes[i].attempts, Counting(i), faults)
      BY <1>b, <2>1
    <3>2. /\ codes[i].guesses \in Nat /\ codes[i].attempts \in Nat
          /\ Counting(i) \in Nat /\ faults \in Nat
      BY <1>a, <2>1
    <3>3. MaxAttempts \in Nat /\ Cardinality(Worker) \in Nat
      BY AttemptsAssumption, HoldersCount
    <3>4. QED
      BY <2>1, <2>2, <3>1, <3>2, <3>3 DEF Within
  <2>4. QED
    BY <2>1, <2>3
<1>11. CASE UNCHANGED codeVars
  <2>1. Counting(i)' = Counting(i) /\ UNCHANGED <<codes, faults>>
    BY <1>11 DEF codeVars, Counting, Holders
  <2>2. QED
    BY <1>b, <2>1
<1>12. QED
  BY <1>1, <1>2, <1>3, <1>4, <1>5, <1>6, <1>7, <1>8, <1>9, <1>10, <1>11 DEF CodesNext, CodeStep

LEMMA InitGuesses == CodesInit => GuessesInv
  BY DEF CodesInit, GuessesInv

LEMMA GuessesInvImpliesBound == GuessesInv => GuessesBounded
  BY DEF GuessesInv, GuessesBounded, Within

\* The guesses at a code (verify) exceed OTP_MAX_ATTEMPTS by the calls that
\* compare at once and those that are cut off, and by no more.
THEOREM GuessesAreBounded == CodesSpec => []GuessesBounded
<1>1. CallsTyped /\ GuessesInv /\ CallsTyped' /\ [CodesNext]_codeVars => GuessesInv'
  BY GuessesStep
<1>2. QED
  BY <1>1, CodesTyped, InitGuesses, GuessesInvImpliesBound, PTL DEF CodesSpec

-----------------------------------------------------------------------------
(* The uses of a code *)

Using(i) == Cardinality(Holders("useCode", i))

\* A code that is not marked has been accepted by nobody yet, and the calls that
\* hold it may still accept it once each.
Spendable(used, accepted, k) ==
    /\ ~used => accepted = 0
    /\ accepted + k <= Cardinality(Worker)

UsesInv == \A i \in DOMAIN codes : Spendable(codes[i].used, codes[i].accepted, Using(i))

LEMMA UsesStep == CallsTyped /\ CallsTyped' /\ UsesInv /\ [CodesNext]_codeVars => UsesInv'
<1> SUFFICES ASSUME CallsTyped, CallsTyped', UsesInv, [CodesNext]_codeVars, NEW i \in DOMAIN codes'
             PROVE  Spendable(codes'[i].used, codes'[i].accepted, Using(i)')
  BY DEF UsesInv
<1> USE DEF callVars, At, Begin, Become, Goto, Return
<1>a. /\ Using(i) \in Nat /\ Cardinality(Worker) \in Nat
      /\ \A j \in DOMAIN codes : j \in Nat /\ codes[j].accepted \in Nat
  <2>1. Using(i) \in Nat /\ Cardinality(Worker) \in Nat
    BY HoldersCount DEF Using
  <2>2. ASSUME NEW j \in DOMAIN codes PROVE j \in Nat /\ codes[j].accepted \in Nat
    BY RowType DEF CodeRow
  <2>3. QED
    BY <2>1, <2>2
<1>b. i \in DOMAIN codes => Spendable(codes[i].used, codes[i].accepted, Using(i))
  BY DEF UsesInv
<1>c. i \in Nat /\ "useCode" \in OnCode
  <2>1. codes' \in Seq(CodeRow)
    BY DEF CallsTyped
  <2>2. DOMAIN codes' = 1 .. Len(codes') /\ Len(codes') \in Nat
    BY <2>1
  <2>3. QED
    BY <2>2 DEF OnCode
<1>d. Idle \in {Idle} \cup CodeCall /\ Idle.at # "useCode"
  BY DEF Idle
<1>e. ASSUME NEW w \in Worker, NEW c \in {Idle} \cup CodeCall, call' = [call EXCEPT ![w] = c],
             call[w].at # "useCode", c.at # "useCode"
      PROVE  Using(i)' = Using(i)
  BY <1>c, <1>e, HoldersStay DEF Using
\* A step of a call that does not hold the code, and takes none, may mark it.
<1>f. ASSUME NEW w \in Worker, NEW c \in {Idle} \cup CodeCall, call' = [call EXCEPT ![w] = c],
             call[w].at # "useCode", c.at # "useCode", i \in DOMAIN codes,
             codes'[i].used = codes[i].used \/ codes'[i].used = TRUE,
             codes'[i].accepted = codes[i].accepted
      PROVE  Spendable(codes'[i].used, codes'[i].accepted, Using(i)')
  <2>1. Using(i)' = Using(i)
    BY <1>e, <1>f
  <2>2. Spendable(codes[i].used, codes[i].accepted, Using(i))
    BY <1>b, <1>f
  <2>3. QED
    BY <1>f, <2>1, <2>2 DEF Spendable
<1>1. ASSUME NEW w \in Worker, UseCodes(w)
      PROVE  Spendable(codes'[i].used, codes'[i].accepted, Using(i)')
  <2>1. PICK e \in Email, p \in Purpose, label \in {"checkCooldown", "findCode"} :
            Begin(w, [NewCall EXCEPT !.at = label, !.email = e, !.purpose = p])
    BY <1>1 DEF UseCodes
  <2>2. /\ [NewCall EXCEPT !.at = label, !.email = e, !.purpose = p] \in CodeCall
        /\ [NewCall EXCEPT !.at = label, !.email = e, !.purpose = p].at # "useCode"
    BY DEF NewCall, CodeCall, Sending
  <2>3. UNCHANGED codes
    BY <1>1 DEF UseCodes
  <2>4. QED
    BY <1>f, <2>1, <2>2, <2>3
<1>2. ASSUME NEW w \in Worker, CheckCooldown(w)
      PROVE  Spendable(codes'[i].used, codes'[i].accepted, Using(i)')
  <2>1. UNCHANGED codes /\ call[w].at # "useCode"
    BY <1>2 DEF CheckCooldown
  <2>2. CASE Return(w)
    BY <1>d, <1>f, <2>1, <2>2
  <2>3. CASE Goto(w, "invalidate")
    <3>1. /\ [call[w] EXCEPT !.at = "invalidate"] \in CodeCall
          /\ [call[w] EXCEPT !.at = "invalidate"].at # "useCode"
      BY <1>2, Holding DEF CheckCooldown, CodeCall, Sending
    <3>2. QED
      BY <1>f, <2>1, <2>3, <3>1
  <2>4. QED
    BY <1>2, <2>2, <2>3 DEF CheckCooldown
<1>3. ASSUME NEW w \in Worker, InvalidateAll(w)
      PROVE  Spendable(codes'[i].used, codes'[i].accepted, Using(i)')
  <2>1. /\ i \in DOMAIN codes
        /\ codes'[i].used = codes[i].used \/ codes'[i].used = TRUE
        /\ codes'[i].accepted = codes[i].accepted
    BY <1>3, RowType DEF InvalidateAll, CodeRow
  <2>2. /\ [call[w] EXCEPT !.at = "insertCode"] \in CodeCall
        /\ [call[w] EXCEPT !.at = "insertCode"].at # "useCode"
    BY <1>3, Holding DEF InvalidateAll, CodeCall, Sending
  <2>3. QED
    BY <1>3, <1>f, <2>1, <2>2 DEF InvalidateAll
<1>4. ASSUME NEW w \in Worker, InsertCode(w)
      PROVE  Spendable(codes'[i].used, codes'[i].accepted, Using(i)')
  <2>1. call[w] \in CodeCall /\ call[w].then = "idle" /\ call[w].at # "useCode"
    BY <1>4, Holding DEF InsertCode
  <2>2. call' = [call EXCEPT ![w] = Idle]
    BY <1>4, <2>1 DEF InsertCode, Resume
  <2> DEFINE row == [email |-> call[w].email, purpose |-> call[w].purpose, used |-> FALSE,
                     age |-> "new", attempts |-> 0, guesses |-> 0, accepted |-> 0]
  <2>3. row \in CodeRow /\ row.accepted = 0
    BY <2>1 DEF CodeCall, CodeRow
  <2>4. codes' = Append(codes, row)
    BY <1>4 DEF InsertCode
  <2> HIDE DEF row
  <2>5. i \in 1 .. Len(codes) + 1
    <3>1. Len(codes') = Len(codes) + 1 /\ codes' \in Seq(CodeRow)
      BY <2>3, <2>4 DEF CallsTyped
    <3>2. QED
      BY <3>1
  <2>6. CASE i \in 1 .. Len(codes)
    <3>1. i \in DOMAIN codes /\ codes'[i] = codes[i]
      BY <2>3, <2>4, <2>6, RowType DEF CallsTyped
    <3>2. QED
      BY <1>d, <1>f, <2>1, <2>2, <3>1
  <2>7. CASE i = Len(codes) + 1
    <3>1. codes'[i] = row
      BY <2>3, <2>4, <2>7 DEF CallsTyped
    <3>2. Using(i)' = Using(i)
      BY <1>d, <1>e, <2>1, <2>2
    <3>3. Using(i) <= Cardinality(Worker)
      BY HoldersCount DEF Using
    <3>4. QED
      BY <1>a, <2>3, <3>1, <3>2, <3>3 DEF Spendable
  <2>8. QED
    BY <2>5, <2>6, <2>7, RowType
<1>5. ASSUME NEW w \in Worker, FindCode(w)
      PROVE  Spendable(codes'[i].used, codes'[i].accepted, Using(i)')
  <2>1. call[w] \in CodeCall /\ call[w].at # "useCode"
    BY <1>5, Holding DEF FindCode
  <2>2. CASE Return(w) /\ UNCHANGED codes
    BY <1>d, <1>f, <2>1, <2>2
  <2>3. ASSUME NEW j \in DOMAIN codes, NEW label \in {"retireCode", "countAttempt"},
               Hold(w, j, label), UNCHANGED codes \/ codes' = [codes EXCEPT ![j].guesses = @ + 1]
        PROVE  Spendable(codes'[i].used, codes'[i].accepted, Using(i)')
    <3> DEFINE c == [call[w] EXCEPT !.at = label, !.code = j]
    <3>1. c \in CodeCall /\ c.at # "useCode"
      BY <2>1, <1>a DEF CodeCall, OnCode
    <3>2. call' = [call EXCEPT ![w] = c]
      BY <2>3 DEF Hold
    <3> HIDE DEF c
    <3>3. i \in DOMAIN codes /\ codes'[i].used = codes[i].used /\ codes'[i].accepted = codes[i].accepted
      <4>1. CASE UNCHANGED codes
        BY <4>1
      <4>2. CASE codes' = [codes EXCEPT ![j].guesses = @ + 1]
        BY <4>2, RowType DEF CodeRow
      <4>3. QED
        BY <2>3, <4>1, <4>2
    <3>4. QED
      BY <1>f, <2>1, <3>1, <3>2, <3>3
  <2>4. ASSUME NEW j \in DOMAIN codes, j \in Valid(call[w].email, call[w].purpose),
               Hold(w, j, "useCode"), UNCHANGED codes
        PROVE  Spendable(codes'[i].used, codes'[i].accepted, Using(i)')
    <3> DEFINE c == [call[w] EXCEPT !.at = "useCode", !.code = j]
    <3>1. c \in CodeCall /\ c.at = "useCode" /\ c.code = j
      BY <2>1, <1>a DEF CodeCall, OnCode
    <3>2. call' = [call EXCEPT ![w] = c]
      BY <2>4 DEF Hold
    <3> HIDE DEF c
    <3>3. Spendable(codes[i].used, codes[i].accepted, Using(i))
      BY <1>b, <2>4
    <3>4. CASE i = j
      <4>1. ~codes[i].used
        BY <2>4, <3>4 DEF Valid
      <4>2. codes[i].accepted = 0
        BY <3>3, <4>1 DEF Spendable
      <4>3. Using(i)' = Using(i) + 1 /\ Using(i)' <= Cardinality(Worker)
        BY <1>c, <2>1, <3>1, <3>2, <3>4, HoldersJoin DEF Using
      <4>4. codes'[i].used = codes[i].used /\ codes'[i].accepted = 0
        BY <2>4, <4>2
      <4>5. 0 + Using(i)' <= Cardinality(Worker)
        BY <1>a, <4>3
      <4>6. QED
        BY <4>4, <4>5 DEF Spendable
    <3>5. CASE i # j
      <4>1. Using(i)' = Using(i)
        BY <1>c, <2>1, <3>1, <3>2, <3>5, HoldersStay DEF Using
      <4>2. QED
        BY <2>4, <3>3, <4>1
    <3>6. QED
      BY <3>4, <3>5
  <2>5. QED
    BY <1>5, <2>2, <2>3, <2>4 DEF FindCode, IsLatest
<1>6. ASSUME NEW w \in Worker, NEW j \in DOMAIN codes, call[w].at \in {"retireCode", "countAttempt"},
             call' = [call EXCEPT ![w] = Idle],
             \/ codes' = [codes EXCEPT ![j].used = TRUE]
             \/ codes' = [codes EXCEPT ![j].attempts = @ + 1]
      PROVE  Spendable(codes'[i].used, codes'[i].accepted, Using(i)')
  <2>1. i \in DOMAIN codes /\ call[w].at # "useCode"
    BY <1>6
  <2>2. /\ codes'[i].used = codes[i].used \/ codes'[i].used = TRUE
        /\ codes'[i].accepted = codes[i].accepted
    <3>1. CASE codes' = [codes EXCEPT ![j].used = TRUE]
      BY <2>1, <3>1, RowType DEF CodeRow
    <3>2. CASE codes' = [codes EXCEPT ![j].attempts = @ + 1]
      BY <2>1, <3>2, RowType DEF CodeRow
    <3>3. QED
      BY <1>6, <3>1, <3>2
  <2>3. QED
    BY <1>6, <1>d, <1>f, <2>1, <2>2
<1>7. ASSUME NEW w \in Worker, RetireCode(w)
      PROVE  Spendable(codes'[i].used, codes'[i].accepted, Using(i)')
  <2>1. call[w].code \in DOMAIN codes
    BY <1>7 DEF RetireCode, CallsTyped, OnCode
  <2>2. QED
    BY <1>6, <1>7, <2>1 DEF RetireCode
<1>8. ASSUME NEW w \in Worker, CountAttempt(w)
      PROVE  Spendable(codes'[i].used, codes'[i].accepted, Using(i)')
  <2>1. call[w].code \in DOMAIN codes
    BY <1>8 DEF CountAttempt, CallsTyped, OnCode
  <2>2. QED
    BY <1>6, <1>8, <2>1 DEF CountAttempt
<1>9. ASSUME NEW w \in Worker, UseCode(w)
      PROVE  Spendable(codes'[i].used, codes'[i].accepted, Using(i)')
  <2>1. call[w].at = "useCode" /\ call' = [call EXCEPT ![w] = Idle]
    BY <1>9, Holding DEF UseCode, Resume
  <2>2. i \in DOMAIN codes /\ call[w].code \in DOMAIN codes
    BY <1>9 DEF UseCode, CallsTyped, OnCode
  <2>3. Spendable(codes[i].used, codes[i].accepted, Using(i))
    BY <1>b, <2>2
  <2>4. codes[i].accepted \in Nat /\ Using(i) \in Nat /\ Cardinality(Worker) \in Nat
    BY <1>a, <2>2
  <2>5. CASE i = call[w].code
    <3>1. codes'[i].used = TRUE /\ codes'[i].accepted = codes[i].accepted + 1
      BY <1>9, <2>2, <2>5, RowType DEF UseCode, CodeRow
    <3>2. Using(i)' = Using(i) - 1
      BY <1>c, <1>d, <2>1, <2>5, HoldersLeave DEF Using
    <3>3. QED
      BY <2>3, <2>4, <3>1, <3>2 DEF Spendable
  <2>6. CASE i # call[w].code
    <3>1. codes'[i] = codes[i]
      BY <1>9, <2>2, <2>6 DEF UseCode
    <3>2. Using(i)' = Using(i)
      BY <1>c, <1>d, <2>1, <2>6, HoldersStay DEF Using
    <3>3. QED
      BY <2>3, <3>1, <3>2
  <2>7. QED
    BY <2>5, <2>6
<1>10. CASE Elapse
  <2>1. PICK j \in DOMAIN codes :
            codes' = [codes EXCEPT ![j].age = IF @ = "new" THEN "old" ELSE "expired"]
    BY <1>10 DEF Elapse
  <2>2. /\ i \in DOMAIN codes
        /\ codes'[i].used = codes[i].used /\ codes'[i].accepted = codes[i].accepted
    BY <2>1, RowType DEF CodeRow
  <2>3. Using(i)' = Using(i)
    BY <1>10 DEF Elapse, Using, Holders
  <2>4. QED
    BY <1>b, <2>2, <2>3
<1>11. ASSUME NEW w \in Worker, AbortCode(w)
       PROVE  Spendable(codes'[i].used, codes'[i].accepted, Using(i)')
  <2>1. call' = [call EXCEPT ![w] = Idle] /\ UNCHANGED codes
    BY <1>11 DEF AbortCode, CutOff
  <2>2. Using(i)' \in Nat /\ Using(i)' <= Using(i)
    <3>1. CASE call[w].at = "useCode" /\ call[w].code = i
      <4>1. Using(i)' = Using(i) - 1 /\ Using(i)' \in Nat
        BY <1>d, <1>c, <2>1, <3>1, HoldersLeave DEF Using
      <4>2. QED
        BY <1>a, <4>1
    <3>2. CASE call[w].at # "useCode" \/ call[w].code # i
      <4>1. Using(i)' = Using(i)
        BY <1>d, <1>c, <2>1, <3>2, HoldersStay DEF Using
      <4>2. QED
        BY <1>a, <4>1
    <3>3. QED
      BY <3>1, <3>2
  <2>3. Spendable(codes[i].used, codes[i].accepted, Using(i)) /\ codes[i].accepted \in Nat
    BY <1>a, <1>b, <2>1
  <2>4. Using(i) \in Nat /\ Cardinality(Worker) \in Nat
    BY <1>a
  <2>5. QED
    BY <2>1, <2>2, <2>3, <2>4 DEF Spendable
<1>12. CASE UNCHANGED codeVars
  <2>1. Using(i)' = Using(i) /\ UNCHANGED codes
    BY <1>12 DEF codeVars, Using, Holders
  <2>2. QED
    BY <1>b, <2>1
<1>13. QED
  BY <1>1, <1>2, <1>3, <1>4, <1>5, <1>7, <1>8, <1>9, <1>10, <1>11, <1>12 DEF CodesNext, CodeStep

LEMMA InitUses == CodesInit => UsesInv
  BY DEF CodesInit, UsesInv

LEMMA UsesInvImpliesNoSecondUse == CallsTyped /\ UsesInv => NoSecondUse
<1> SUFFICES ASSUME CallsTyped, UsesInv, NEW i \in DOMAIN codes
             PROVE  codes[i].accepted <= Cardinality(Worker)
  BY DEF NoSecondUse
<1>1. codes[i].accepted + Using(i) <= Cardinality(Worker)
  BY DEF UsesInv, Spendable
<1>2. codes[i].accepted \in Nat /\ Using(i) \in Nat /\ Cardinality(Worker) \in Nat
  BY RowType, HoldersCount DEF Using, CodeRow
<1>3. QED
  BY <1>1, <1>2

\* A code that has been accepted (verify) is accepted again only by the calls
\* that held it then.
THEOREM NoSecondUseHolds == CodesSpec => []NoSecondUse
<1>1. CallsTyped /\ UsesInv /\ CallsTyped' /\ [CodesNext]_codeVars => UsesInv'
  BY UsesStep
<1>2. QED
  BY <1>1, CodesTyped, InitUses, UsesInvImpliesNoSecondUse, PTL DEF CodesSpec

-----------------------------------------------------------------------------
(* The codes that are valid *)

\* The calls that have invalidated the codes of an address, and are about to
\* insert the new one.
Inserting(e, p) == {w \in Worker :
    call[w].at = "insertCode" /\ call[w].email = e /\ call[w].purpose = p}

\* A valid code is one that such a call inserted, or is still to insert.
Few(valid, inserting) ==
    /\ IsFiniteSet(valid) /\ IsFiniteSet(inserting)
    /\ Cardinality(valid) + Cardinality(inserting) <= Cardinality(Worker)

ReplacedInv == \A e \in Email, p \in Purpose : Few(Valid(e, p), Inserting(e, p))

LEMMA FewLess ==
  ASSUME NEW V, NEW I, Few(V, I), NEW V2, V2 \subseteq V, NEW I2, I2 \subseteq I
  PROVE  Few(V2, I2)
<1>1. IsFiniteSet(V2) /\ Cardinality(V2) <= Cardinality(V)
  BY FS_Subset DEF Few
<1>2. IsFiniteSet(I2) /\ Cardinality(I2) <= Cardinality(I)
  BY FS_Subset DEF Few
<1>3. /\ Cardinality(V) \in Nat /\ Cardinality(I) \in Nat
      /\ Cardinality(V2) \in Nat /\ Cardinality(I2) \in Nat /\ Cardinality(Worker) \in Nat
  BY <1>1, <1>2, FS_CardinalityType, WorkerAssumption DEF Few
<1>4. QED
  BY <1>1, <1>2, <1>3 DEF Few

LEMMA FewInserted ==
  ASSUME NEW V, NEW I, Few(V, I), NEW x, NEW V2, V2 \subseteq V \cup {x},
         NEW w \in I, NEW I2, I2 \subseteq I \ {w}
  PROVE  Few(V2, I2)
<1>1. /\ IsFiniteSet(V \cup {x}) /\ Cardinality(V \cup {x}) <= Cardinality(V) + 1
  <2>1. IsFiniteSet(V) /\ Cardinality(V) \in Nat
    BY FS_CardinalityType DEF Few
  <2>2. /\ IsFiniteSet(V \cup {x})
        /\ Cardinality(V \cup {x}) = IF x \in V THEN Cardinality(V) ELSE Cardinality(V) + 1
    BY <2>1, FS_AddElement, Zenon
  <2>3. PICK n : n = Cardinality(V \cup {x})
    OBVIOUS
  <2>4. n <= Cardinality(V) + 1
    BY <2>1, <2>2, <2>3
  <2>5. QED
    BY <2>2, <2>3, <2>4
<1>2. IsFiniteSet(I \ {w}) /\ Cardinality(I \ {w}) = Cardinality(I) - 1
  BY FS_RemoveElement DEF Few
<1>3. /\ Cardinality(V) \in Nat /\ Cardinality(I) \in Nat /\ Cardinality(Worker) \in Nat
      /\ Cardinality(V \cup {x}) \in Nat /\ Cardinality(I \ {w}) \in Nat
  BY <1>1, <1>2, FS_CardinalityType, WorkerAssumption DEF Few
<1>4. Few(V \cup {x}, I \ {w})
  BY <1>1, <1>2, <1>3 DEF Few
<1>5. QED
  BY <1>4, FewLess

LEMMA FewInvalid ==
  ASSUME NEW I, I \subseteq Worker
  PROVE  Few({}, I)
<1>1. IsFiniteSet(I) /\ Cardinality(I) <= Cardinality(Worker)
  BY FS_Subset, WorkerAssumption
<1>2. Cardinality(I) \in Nat /\ Cardinality(Worker) \in Nat
  BY <1>1, FS_CardinalityType, WorkerAssumption
<1>3. IsFiniteSet({}) /\ Cardinality({}) = 0
  BY FS_EmptySet
<1>4. QED
  BY <1>1, <1>2, <1>3 DEF Few

\* A call that is not about to insert a code of the address any more.
LEMMA InsertingLess ==
  ASSUME CallsTyped, NEW w \in Worker, NEW c, call' = [call EXCEPT ![w] = c], NEW e, NEW p,
         ~(c.at = "insertCode" /\ c.email = e /\ c.purpose = p)
  PROVE  Inserting(e, p)' \subseteq Inserting(e, p) \ {w}
<1>1. \A v \in Worker : call'[v] = IF v = w THEN c ELSE call[v]
  BY DEF CallsTyped
<1>2. \A v : v \in Inserting(e, p)' <=>
          v \in Worker /\ call'[v].at = "insertCode" /\ call'[v].email = e /\ call'[v].purpose = p
  BY DEF Inserting
<1>3. \A v : v \in Inserting(e, p) <=>
          v \in Worker /\ call[v].at = "insertCode" /\ call[v].email = e /\ call[v].purpose = p
  BY DEF Inserting
<1>4. QED
  BY <1>1, <1>2, <1>3

\* A code that is written is of the address it was, and not valid again.
LEMMA ValidLess ==
  ASSUME DOMAIN codes' = DOMAIN codes,
         \A i \in DOMAIN codes :
            /\ codes'[i].email = codes[i].email /\ codes'[i].purpose = codes[i].purpose
            /\ codes[i].used => codes'[i].used
            /\ codes[i].age = "expired" => codes'[i].age = "expired",
         CallsTyped, CallsTyped',
         NEW e, NEW p
  PROVE  Valid(e, p)' \subseteq Valid(e, p)
<1>1. \A i \in DOMAIN codes : codes[i] \in CodeRow /\ codes'[i] \in CodeRow
  <2>1. codes \in Seq(CodeRow) /\ codes' \in Seq(CodeRow)
    BY DEF CallsTyped
  <2>2. QED
    BY <2>1
<1>2. \A i \in DOMAIN codes : codes[i].used \in BOOLEAN /\ codes'[i].used \in BOOLEAN
  BY <1>1 DEF CodeRow
<1>3. QED
  BY <1>2 DEF Valid, Sent

LEMMA ReplacedStep == CallsTyped /\ CallsTyped' /\ ReplacedInv /\ [CodesNext]_codeVars => ReplacedInv'
<1> SUFFICES ASSUME CallsTyped, CallsTyped', ReplacedInv, [CodesNext]_codeVars,
                    NEW e \in Email, NEW p \in Purpose
             PROVE  Few(Valid(e, p)', Inserting(e, p)')
  BY DEF ReplacedInv
<1> USE DEF callVars, At, Begin, Become, Return
<1>a. PICK V, I : V = Valid(e, p) /\ I = Inserting(e, p)
  OBVIOUS
<1>b. Few(V, I)
  BY <1>a DEF ReplacedInv
<1>c. PICK V2, I2 : V2 = Valid(e, p)' /\ I2 = Inserting(e, p)'
  OBVIOUS
<1>d. /\ Idle.at = "idle"
      /\ \A w \in Worker : call[w].at # "idle" => call[w] \in CodeCall /\ call[w].then = "idle"
  BY Holding DEF Idle
<1>e. UNCHANGED codes => V2 = V
  BY <1>a, <1>c DEF Valid, Sent
<1>f. ASSUME NEW w \in Worker, NEW c, call' = [call EXCEPT ![w] = c], c.at # "insertCode"
      PROVE  I2 \subseteq I
  <2>1. Inserting(e, p)' \subseteq Inserting(e, p) \ {w}
    BY <1>f, InsertingLess
  <2>2. QED
    BY <1>a, <1>c, <2>1
<1>g. ASSUME NEW i \in DOMAIN codes, NEW row \in CodeRow, codes' = [codes EXCEPT ![i] = row],
             row.email = codes[i].email, row.purpose = codes[i].purpose,
             codes[i].used => row.used, codes[i].age = "expired" => row.age = "expired"
      PROVE  V2 \subseteq V
  <2>1. DOMAIN codes' = DOMAIN codes /\ \A j \in DOMAIN codes : codes'[j] = IF j = i THEN row ELSE codes[j]
    BY <1>g, RowType
  <2>2. \A j \in DOMAIN codes : codes[j] \in CodeRow
    BY RowType
  <2>3. \A j \in DOMAIN codes : codes[j].used \in BOOLEAN /\ row.used \in BOOLEAN
    BY <2>2 DEF CodeRow
  <2>4. \A j \in DOMAIN codes : codes'[j].used \in BOOLEAN
    BY <2>1, <2>3
  <2>5. QED
    BY <1>a, <1>c, <1>g, <2>1, <2>3, <2>4 DEF Valid, Sent
<1>1. ASSUME NEW w \in Worker, UseCodes(w) \/ CheckCooldown(w) \/ AbortCode(w)
      PROVE  Few(V2, I2)
  <2>1. UNCHANGED codes
    BY <1>1 DEF UseCodes, CheckCooldown, AbortCode
  <2>2. PICK c : call' = [call EXCEPT ![w] = c] /\ c.at # "insertCode"
    <3>1. CASE UseCodes(w)
      <4>1. PICK f \in Email, q \in Purpose, label \in {"checkCooldown", "findCode"} :
                Begin(w, [NewCall EXCEPT !.at = label, !.email = f, !.purpose = q])
        BY <3>1 DEF UseCodes
      <4>2. PICK c : c = [NewCall EXCEPT !.at = label, !.email = f, !.purpose = q]
        OBVIOUS
      <4>3. c.at = label
        BY <4>2 DEF NewCall
      <4>4. QED
        BY <4>1, <4>2, <4>3
    <3>2. CASE Return(w)
      BY <1>d, <3>2
    <3>3. CASE Goto(w, "invalidate") /\ CheckCooldown(w)
      <4>1. call[w] \in CodeCall
        BY <1>d, <3>3 DEF CheckCooldown
      <4>2. PICK c : c = [call[w] EXCEPT !.at = "invalidate"]
        OBVIOUS
      <4>3. c.at = "invalidate"
        BY <4>1, <4>2 DEF CodeCall
      <4>4. QED
        BY <3>3, <4>2, <4>3 DEF Goto
    <3>4. QED
      BY <1>1, <3>1, <3>2, <3>3 DEF CheckCooldown, AbortCode, CutOff
  <2>3. QED
    BY <1>b, <1>e, <1>f, <2>1, <2>2, FewLess
<1>2. ASSUME NEW w \in Worker, InvalidateAll(w)
      PROVE  Few(V2, I2)
  <2>1. call[w] \in CodeCall
    BY <1>d, <1>2 DEF InvalidateAll
  <2>2. PICK c : c = [call[w] EXCEPT !.at = "insertCode"]
    OBVIOUS
  <2>3. c.email = call[w].email /\ c.purpose = call[w].purpose
    BY <2>1, <2>2 DEF CodeCall
  <2>4. call' = [call EXCEPT ![w] = c]
    BY <1>2, <2>2 DEF InvalidateAll, Goto
  <2>5. CASE call[w].email = e /\ call[w].purpose = p
    <3>1. /\ DOMAIN codes' = DOMAIN codes
          /\ \A i \in DOMAIN codes : codes'[i] =
               IF i \in Sent(e, p) THEN [codes[i] EXCEPT !.used = TRUE] ELSE codes[i]
      BY <1>2, <2>5 DEF InvalidateAll
    <3>2. \A i \in DOMAIN codes : codes[i] \in CodeRow
      BY RowType
    <3>3. \A i \in Sent(e, p) : codes'[i].used
      BY <3>1, <3>2 DEF CodeRow, Sent
    <3>4. \A i \in DOMAIN codes : codes'[i].email = e /\ codes'[i].purpose = p => i \in Sent(e, p)
      BY <3>1 DEF Sent
    <3>5. V2 = {}
      BY <1>c, <3>1, <3>3, <3>4 DEF Valid, Sent
    <3>6. I2 \subseteq Worker
      BY <1>c DEF Inserting
    <3>7. QED
      BY <3>5, <3>6, FewInvalid
  <2>6. CASE ~(call[w].email = e /\ call[w].purpose = p)
    <3>1. /\ DOMAIN codes' = DOMAIN codes
          /\ \A i \in DOMAIN codes : codes'[i] = codes[i] \/ codes'[i] = [codes[i] EXCEPT !.used = TRUE]
      BY <1>2 DEF InvalidateAll
    <3>2. \A i \in DOMAIN codes : codes[i] \in CodeRow
      BY RowType
    <3>3. \A i \in DOMAIN codes :
            /\ codes'[i].email = codes[i].email /\ codes'[i].purpose = codes[i].purpose
            /\ codes[i].used => codes'[i].used
            /\ codes'[i].age = codes[i].age
      BY <3>1, <3>2 DEF CodeRow
    <3>4. V2 \subseteq V
      BY <1>a, <1>c, <3>1, <3>2, <3>3, ValidLess
    <3>5. I2 \subseteq I
      <4>1. Inserting(e, p)' \subseteq Inserting(e, p) \ {w}
        BY <2>3, <2>4, <2>6, InsertingLess
      <4>2. QED
        BY <1>a, <1>c, <4>1
    <3>6. QED
      BY <1>b, <3>4, <3>5, FewLess
  <2>7. QED
    BY <2>5, <2>6
<1>3. ASSUME NEW w \in Worker, InsertCode(w)
      PROVE  Few(V2, I2)
  <2>1. call[w] \in CodeCall /\ call[w].then = "idle" /\ call[w].at = "insertCode"
    BY <1>d, <1>3 DEF InsertCode
  <2>2. call' = [call EXCEPT ![w] = Idle]
    BY <1>3, <2>1 DEF InsertCode, Resume
  <2>3. PICK row : row = [email |-> call[w].email, purpose |-> call[w].purpose, used |-> FALSE,
                          age |-> "new", attempts |-> 0, guesses |-> 0, accepted |-> 0]
    OBVIOUS
  <2>4. row.email = call[w].email /\ row.purpose = call[w].purpose
    BY <2>3
  <2>5. codes' = Append(codes, row)
    BY <1>3, <2>3 DEF InsertCode
  <2>6. PICK n : n = Len(codes) + 1
    OBVIOUS
  <2>7. /\ DOMAIN codes' = DOMAIN codes \cup {n} /\ codes'[n] = row
        /\ \A i \in DOMAIN codes : codes'[i] = codes[i]
    <3>1. codes \in Seq(CodeRow)
      BY DEF CallsTyped
    <3>2. Len(codes) \in Nat /\ DOMAIN codes = 1 .. Len(codes) /\ Len(codes') = Len(codes) + 1
      BY <2>5, <3>1
    <3>3. DOMAIN codes' = 1 .. Len(codes) + 1
      BY <3>2 DEF CallsTyped
    <3>4. QED
      BY <2>5, <2>6, <3>1, <3>2, <3>3
  <2>8. I2 \subseteq I \ {w}
    <3>1. Inserting(e, p)' \subseteq Inserting(e, p) \ {w}
      BY <1>d, <2>2, InsertingLess
    <3>2. QED
      BY <1>a, <1>c, <3>1
  <2>9. CASE call[w].email = e /\ call[w].purpose = p
    <3>1. w \in I
      BY <1>a, <2>1, <2>9 DEF Inserting
    <3>2. V2 \subseteq V \cup {n}
      BY <1>a, <1>c, <2>7 DEF Valid, Sent
    <3>3. QED
      BY <1>b, <2>8, <3>1, <3>2, FewInserted
  <2>10. CASE ~(call[w].email = e /\ call[w].purpose = p)
    <3>1. V2 \subseteq V
      BY <1>a, <1>c, <2>4, <2>7, <2>10 DEF Valid, Sent
    <3>2. QED
      <4>1. I2 \subseteq I
        BY <2>8
      <4>2. QED
        BY <1>b, <3>1, <4>1, FewLess
  <2>11. QED
    BY <2>9, <2>10
<1>4. ASSUME NEW w \in Worker, FindCode(w)
      PROVE  Few(V2, I2)
  <2>1. call[w] \in CodeCall
    BY <1>d, <1>4 DEF FindCode
  <2>2. CASE Return(w) /\ UNCHANGED codes
    BY <1>b, <1>d, <1>e, <1>f, <2>2, FewLess
  <2>3. ASSUME NEW i \in DOMAIN codes, NEW label \in OnCode, Hold(w, i, label),
               \/ UNCHANGED codes
               \/ codes' = [codes EXCEPT ![i].guesses = @ + 1]
        PROVE  Few(V2, I2)
    <3>1. PICK c : c = [call[w] EXCEPT !.at = label, !.code = i]
      OBVIOUS
    <3>2. c.at = label
      BY <2>1, <3>1 DEF CodeCall
    <3>3. call' = [call EXCEPT ![w] = c]
      BY <2>3, <3>1 DEF Hold
    <3>4. I2 \subseteq I
      BY <1>f, <3>2, <3>3 DEF OnCode
    <3>5. CASE codes' = [codes EXCEPT ![i].guesses = @ + 1]
      <4>1. PICK row : row = [codes[i] EXCEPT !.guesses = @ + 1]
        OBVIOUS
      <4>2. codes[i] \in CodeRow
        BY RowType
      <4>3. /\ row \in CodeRow /\ row.email = codes[i].email /\ row.purpose = codes[i].purpose
            /\ row.used = codes[i].used /\ row.age = codes[i].age
        BY <4>1, <4>2 DEF CodeRow
      <4>4. V2 \subseteq V
        BY <1>g, <3>5, <4>1, <4>3
      <4>5. QED
        BY <1>b, <3>4, <4>4, FewLess
    <3>6. CASE UNCHANGED codes
      BY <1>b, <1>e, <3>4, <3>6, FewLess
    <3>7. QED
      BY <2>3, <3>5, <3>6
  <2>4. QED
    BY <1>4, <2>2, <2>3 DEF FindCode, OnCode
<1>5. ASSUME NEW w \in Worker, RetireCode(w) \/ CountAttempt(w) \/ UseCode(w)
      PROVE  Few(V2, I2)
  <2>1. call[w].at \in OnCode /\ call[w].at # "idle"
    BY <1>5 DEF RetireCode, CountAttempt, UseCode, OnCode
  <2>2. PICK i \in DOMAIN codes : i = call[w].code
    BY <2>1 DEF CallsTyped
  <2>3. codes[i] \in CodeRow
    BY RowType
  <2>4. call' = [call EXCEPT ![w] = Idle]
    BY <1>5, <1>d, <2>1 DEF RetireCode, CountAttempt, UseCode, Resume
  <2>5. I2 \subseteq I
    BY <1>d, <1>f, <2>4
  <2>6. PICK row : /\ \/ row = [codes[i] EXCEPT !.used = TRUE]
                      \/ row = [codes[i] EXCEPT !.attempts = @ + 1]
                      \/ row = [codes[i] EXCEPT !.used = TRUE, !.accepted = @ + 1]
                   /\ codes' = [codes EXCEPT ![i] = row]
    BY <1>5, <2>2 DEF RetireCode, CountAttempt, UseCode
  <2>7. /\ row.email = codes[i].email /\ row.purpose = codes[i].purpose
        /\ codes[i].used => row.used
        /\ row.age = codes[i].age
    BY <2>3, <2>6 DEF CodeRow
  <2>8. row \in CodeRow
    <3>1. codes' \in Seq(CodeRow) /\ codes'[i] = row /\ i \in DOMAIN codes'
      BY <2>6, RowType DEF CallsTyped
    <3>2. QED
      BY <3>1
  <2>9. V2 \subseteq V
    BY <1>g, <2>6, <2>7, <2>8
  <2>10. QED
    BY <1>b, <2>5, <2>9, FewLess
<1>6. ASSUME Elapse
      PROVE  Few(V2, I2)
  <2>1. PICK i \in DOMAIN codes :
            /\ codes[i].age # "expired"
            /\ codes' = [codes EXCEPT ![i].age = IF @ = "new" THEN "old" ELSE "expired"]
    BY <1>6 DEF Elapse
  <2>2. PICK row : row = [codes[i] EXCEPT !.age = IF @ = "new" THEN "old" ELSE "expired"]
    OBVIOUS
  <2>3. codes[i] \in CodeRow
    BY RowType
  <2>4. /\ row \in CodeRow /\ row.email = codes[i].email /\ row.purpose = codes[i].purpose
        /\ row.used = codes[i].used
    BY <2>2, <2>3 DEF CodeRow
  <2>5. V2 \subseteq V
    BY <1>g, <2>1, <2>2, <2>4
  <2>6. I2 \subseteq I
    BY <1>6, <1>a, <1>c DEF Elapse, Inserting
  <2>7. QED
    BY <1>b, <2>5, <2>6, FewLess
<1>7. ASSUME UNCHANGED codeVars
      PROVE  Few(V2, I2)
  BY <1>7, <1>a, <1>b, <1>c DEF codeVars, Valid, Sent, Inserting
<1>8. Few(V2, I2)
  <2>1. ASSUME NEW w \in Worker, UseCodes(w) \/ CodeStep(w) \/ AbortCode(w)
        PROVE  Few(V2, I2)
    BY <1>1, <1>2, <1>3, <1>4, <1>5, <2>1, Zenon DEF CodeStep
  <2>2. QED
    BY <1>6, <1>7, <2>1 DEF CodesNext
<1>9. QED
  BY <1>8, <1>c

LEMMA InitReplaced == CodesInit => ReplacedInv
<1> SUFFICES ASSUME CodesInit, NEW e \in Email, NEW p \in Purpose
             PROVE  Few(Valid(e, p), Inserting(e, p))
  BY DEF ReplacedInv
<1>1. Valid(e, p) = {}
  BY DEF CodesInit, Valid, Sent
<1>2. Inserting(e, p) \subseteq Worker
  BY DEF Inserting
<1>3. QED
  BY <1>1, <1>2, FewInvalid

\* A new code replaces the older ones (generateAndStore): there are never more
\* valid codes of an address and purpose than calls that can run at once.
THEOREM ReplacedHolds == CodesSpec => []CodesReplaced
<1>1. ReplacedInv => CodesReplaced
  <2> SUFFICES ASSUME ReplacedInv, NEW e \in Email, NEW p \in Purpose
               PROVE  Cardinality(Valid(e, p)) <= Cardinality(Worker)
    BY DEF CodesReplaced
  <2>1. Few(Valid(e, p), Inserting(e, p))
    BY DEF ReplacedInv
  <2>2. /\ Cardinality(Valid(e, p)) \in Nat /\ Cardinality(Inserting(e, p)) \in Nat
        /\ Cardinality(Worker) \in Nat
    BY <2>1, FS_CardinalityType, WorkerAssumption DEF Few
  <2>3. QED
    BY <2>1, <2>2 DEF Few
<1>2. QED
  BY <1>1, CodesTyped, InitReplaced, ReplacedStep, PTL DEF CodesSpec

-----------------------------------------------------------------------------
(***************************************************************************)
(* Devices and pushes                                                      *)
(***************************************************************************)
\* Rows that were inserted, removed since or not.
InTable(r) == device[r] # Nil

\* What a call knows of the rows: those of a push are in the table, and those
\* it is about to delete are of lost devices.
Informed(c) ==
    /\ c.at = "insertDevice" => c.row \in Device /\ ~c.row.deleted
    /\ c.at \in {"send", "cleanUp"} =>
         /\ c.devices \in Seq(DeviceRow) /\ c.offset \in Nat
         /\ \A i \in 1 .. Len(c.devices) : InTable(c.devices[i])
    /\ c.at = "cleanUp" =>
         \A r \in c.invalid : r \in DeviceRow /\ InTable(r) /\ device[r].fid \notin reachable

\* A device that was told whose it is can be reached, and has a row.
RegisteredHasRow == \A f \in Fid : registered[f] # Nil =>
    f \in reachable /\ RowsWith(f) \cap RowsOf(registered[f]) # {}

NoticesInv ==
    /\ device \in [DeviceRow -> Device \cup {Nil}]
    /\ registered \in [Fid -> User \cup {Nil}]
    /\ reachable \subseteq Fid
    /\ call = [w \in Worker |-> call[w]]
    /\ \A w \in Worker : Informed(call[w])
    /\ RegisteredHasRow

LEMMA NoticesInitInv == NoticesInit => NoticesInv
  BY DEF NoticesInit, CallsInit, NoticesInv, Informed, RegisteredHasRow, Idle

LEMMA IdleInformed == Informed(Idle)
  BY DEF Informed, Idle

\* No row leaves the table or changes its device, and no lost device is found.
RowsStay ==
    /\ reachable' \subseteq reachable
    /\ \A r \in DeviceRow : InTable(r) => InTable(r)' /\ device'[r].fid = device[r].fid

LEMMA InformedStays ==
  ASSUME RowsStay, NEW c, Informed(c)
  PROVE  Informed(c)'
<1>1. c.at \in {"send", "cleanUp"} => \A i \in 1 .. Len(c.devices) : InTable(c.devices[i])'
  <2> SUFFICES ASSUME c.at \in {"send", "cleanUp"}, NEW i \in 1 .. Len(c.devices)
               PROVE  InTable(c.devices[i])'
    OBVIOUS
  <2>1. c.devices[i] \in DeviceRow /\ InTable(c.devices[i])
    BY DEF Informed
  <2>2. QED
    BY <2>1 DEF RowsStay
<1>2. c.at = "cleanUp" =>
        \A r \in c.invalid : r \in DeviceRow /\ InTable(r)' /\ device'[r].fid \notin reachable'
  BY DEF Informed, RowsStay
<1>3. QED
  BY <1>1, <1>2 DEF Informed

\* A call that goes on, informed, leaves the others so.
LEMMA OthersInformed ==
  ASSUME NoticesInv, RowsStay, NEW w \in Worker, NEW c, Informed(c)', call' = [call EXCEPT ![w] = c]
  PROVE  (call = [v \in Worker |-> call[v]] /\ \A v \in Worker : Informed(call[v]))'
<1>1. call' = [v \in Worker |-> call'[v]]
  BY DEF NoticesInv
<1>2. ASSUME NEW v \in Worker
      PROVE  Informed(call[v])'
  <2>1. PICK d : d = call'[v]
    OBVIOUS
  <2>2. Informed(d)'
    <3>1. CASE v = w
      BY <3>1, <2>1 DEF NoticesInv
    <3>2. CASE v # w
      <4>1. d = call[v]
        BY <3>2, <2>1 DEF NoticesInv
      <4>2. QED
        BY <4>1, InformedStays DEF NoticesInv
    <3>3. QED
      BY <3>1, <3>2
  <2>3. QED
    BY <2>1, <2>2 DEF Informed, InTable
<1>3. QED
  BY <1>1, <1>2

\* ... and so does a step of nobody's.
LEMMA AllInformed ==
  ASSUME NoticesInv, RowsStay, UNCHANGED call
  PROVE  (call = [v \in Worker |-> call[v]] /\ \A v \in Worker : Informed(call[v]))'
<1>2. ASSUME NEW v \in Worker
      PROVE  Informed(call[v])'
  <2>1. PICK d : d = call[v]
    OBVIOUS
  <2>2. Informed(d)'
    BY <2>1, InformedStays DEF NoticesInv
  <2>3. QED
    BY <2>1, <2>2 DEF Informed, InTable
<1>3. QED
  BY <1>2 DEF NoticesInv

\* Deleting marks rows, and keeps them in the table.
LEMMA DeleteType ==
  ASSUME NoticesInv, NEW rows, Delete(rows), \A r \in rows : r \in DeviceRow => InTable(r)
  PROVE  /\ device' \in [DeviceRow -> Device \cup {Nil}]
         /\ \A r \in DeviceRow : /\ InTable(r) => InTable(r)' /\ device'[r].fid = device[r].fid
                                 /\ r \notin rows => device'[r] = device[r]
<1>1. ASSUME NEW r \in DeviceRow, InTable(r)
      PROVE  /\ [device[r] EXCEPT !.deleted = TRUE] \in Device
             /\ [device[r] EXCEPT !.deleted = TRUE].fid = device[r].fid
  BY <1>1 DEF NoticesInv, InTable, Device
<1>2. QED
  BY <1>1, NilIsNoDevice DEF Delete, NoticesInv, InTable

\* The rows of a batch that Firebase does not know are in the table.
LEMMA MinOfTwo ==
  ASSUME NEW a \in Int, NEW b \in Int
  PROVE  Min({a, b}) \in Int /\ Min({a, b}) <= b /\ Min({a, b}) <= a
<1>1. \E x \in {a, b} : \A y \in {a, b} : x <= y
  <2>1. CASE a <= b
    BY <2>1
  <2>2. CASE b <= a
    BY <2>2
  <2>3. QED
    BY <2>1, <2>2
<1>2. Min({a, b}) \in {a, b} /\ \A y \in {a, b} : Min({a, b}) <= y
  BY <1>1 DEF Min
<1>3. QED
  BY <1>2

LEMMA InvalidAreLost ==
  ASSUME NoticesInv, NEW c, Informed(c), c.at = "send"
  PROVE  \A r \in Invalid(c) : r \in DeviceRow /\ InTable(r) /\ device[r].fid \notin reachable
<1> DEFINE s == c.devices
           m == c.offset + 1
           n == Min({c.offset + BatchSize, Len(c.devices)})
<1>1. s \in Seq(DeviceRow) /\ c.offset \in Nat /\ Len(s) \in Nat
  BY DEF Informed
<1>2. \A i \in 1 .. Len(s) : s[i] \in DeviceRow /\ InTable(s[i])
  BY <1>1 DEF Informed
<1>3. m \in Int /\ n \in Int /\ n <= Len(s) /\ m >= 1
  <2>1. c.offset + BatchSize \in Int /\ Len(c.devices) \in Int
    BY <1>1, NoticeAssumption
  <2>2. n \in Int /\ n <= Len(c.devices)
    BY <2>1, MinOfTwo
  <2>3. QED
    BY <1>1, <2>2
<1> HIDE DEF n, m, s
<1>4. \A i \in m .. n : s[i] \in DeviceRow
  BY <1>1, <1>2, <1>3
<1>5. /\ SubSeq(s, m, n) \in Seq(DeviceRow)
      /\ Len(SubSeq(s, m, n)) = IF m <= n THEN n - m + 1 ELSE 0
      /\ \A i \in 1 .. n - m + 1 : SubSeq(s, m, n)[i] = s[m + i - 1]
  BY <1>3, <1>4, SubSeqProperties
<1>6. \A i \in DOMAIN SubSeq(s, m, n) :
        SubSeq(s, m, n)[i] \in DeviceRow /\ InTable(SubSeq(s, m, n)[i])
  <2> SUFFICES ASSUME NEW i \in DOMAIN SubSeq(s, m, n)
               PROVE  SubSeq(s, m, n)[i] \in DeviceRow /\ InTable(SubSeq(s, m, n)[i])
    OBVIOUS
  <2>1. i \in 1 .. n - m + 1
    BY <1>3, <1>5
  <2>2. m + i - 1 \in 1 .. Len(s)
    BY <1>1, <1>3, <2>1
  <2>3. QED
    BY <1>2, <1>5, <2>1, <2>2
<1>7. Batch(c) = SubSeq(s, m, n)
  BY DEF Batch, s, m, n
<1>8. QED
  BY <1>6, <1>7 DEF Invalid, Unregistered

\* The rows of a user, in any order, are in the table.
LEMMA RowsInTable ==
  ASSUME NoticesInv, NEW u, NEW s \in SetToSeqs(RowsOf(u))
  PROVE  s \in Seq(DeviceRow) /\ \A i \in 1 .. Len(s) : InTable(s[i])
<1>1. RowsOf(u) \subseteq DeviceRow /\ \A r \in RowsOf(u) : InTable(r)
  BY DEF RowsOf, Rows, InTable
<1>2. Cardinality(RowsOf(u)) \in Nat
  BY <1>1, NoticeAssumption, FS_Subset, FS_CardinalityType
<1>3. s \in [1 .. Cardinality(RowsOf(u)) -> RowsOf(u)]
  BY DEF SetToSeqs
<1>4. Len(s) = Cardinality(RowsOf(u)) /\ s \in Seq(DeviceRow)
  BY <1>1, <1>2, <1>3
<1>5. QED
  BY <1>1, <1>3, <1>4

-----------------------------------------------------------------------------
\* Rows of lost devices may be deleted without harm to the others.
LEMMA RegistrationStays ==
  ASSUME NoticesInv, UNCHANGED <<registered, reachable>>,
         \A r \in DeviceRow : InTable(r) /\ device[r].fid \in reachable => device'[r] = device[r]
  PROVE  RegisteredHasRow'
<1> SUFFICES ASSUME NEW f \in Fid, registered[f] # Nil
             PROVE  f \in reachable /\ (RowsWith(f) \cap RowsOf(registered[f]))' # {}
  BY DEF RegisteredHasRow
<1>1. f \in reachable /\ RowsWith(f) \cap RowsOf(registered[f]) # {}
  BY DEF NoticesInv, RegisteredHasRow
<1>2. PICK r \in DeviceRow : InTable(r) /\ ~device[r].deleted /\ device[r].fid = f
                             /\ device[r].user = registered[f]
  BY <1>1 DEF RowsWith, RowsOf, Rows, InTable
<1>3. device'[r] = device[r]
  BY <1>1, <1>2
<1>4. r \in (RowsWith(f) \cap RowsOf(registered[f]))'
  BY <1>2, <1>3 DEF RowsWith, RowsOf, Rows, InTable
<1>5. QED
  BY <1>1, <1>4

\* The steps that leave the rows alone.
LEMMA ReadingStep ==
  ASSUME NoticesInv, UNCHANGED noticeVars, NEW w \in Worker, NEW c, Informed(c),
         call' = [call EXCEPT ![w] = c]
  PROVE  NoticesInv'
<1>1. RowsStay
  BY DEF RowsStay, noticeVars, InTable
<1>2. Informed(c)'
  BY <1>1, InformedStays
<1>3. (call = [v \in Worker |-> call[v]] /\ \A v \in Worker : Informed(call[v]))'
  BY <1>1, <1>2, OthersInformed
<1>4. RegisteredHasRow'
  BY RegistrationStays DEF noticeVars
<1>5. QED
  BY <1>3, <1>4 DEF NoticesInv, noticeVars

LEMMA NoticesStep == NoticesInv /\ [NoticesNext]_noticesVars => NoticesInv'
<1> SUFFICES ASSUME NoticesInv, [NoticesNext]_noticesVars
             PROVE  NoticesInv'
  OBVIOUS
<1> USE DEF callVars, At, Begin, Become, Return
<1>1. CASE Vanish
  <2>1. PICK f \in reachable : /\ reachable' = reachable \ {f}
                               /\ registered' = [registered EXCEPT ![f] = Nil]
    BY <1>1 DEF Vanish
  <2>2. UNCHANGED <<device, call>>
    BY <1>1 DEF Vanish
  <2>3. RowsStay
    BY <2>1, <2>2 DEF RowsStay, InTable
  <2>4. (call = [v \in Worker |-> call[v]] /\ \A v \in Worker : Informed(call[v]))'
    BY <2>2, <2>3, AllInformed
  <2>5. RegisteredHasRow'
    BY <2>1, <2>2 DEF RegisteredHasRow, NoticesInv, RowsWith, RowsOf, Rows
  <2>6. QED
    BY <2>1, <2>2, <2>4, <2>5 DEF NoticesInv
<1>2. ASSUME NEW w \in Worker, RegisterDevice(w)
      PROVE  NoticesInv'
  <2>1. PICK u \in User, f \in reachable :
          \/ /\ RowsWith(f) = {}
             /\ Become(w, [at |-> "insertDevice", row |-> [user |-> u, fid |-> f, deleted |-> FALSE]])
             /\ UNCHANGED registered
          \/ RowsWith(f) \cap RowsOf(u) # {} /\ Tell(u, f) /\ UNCHANGED call
    BY <1>2 DEF RegisterDevice
  <2>2. UNCHANGED <<device, reachable>>
    BY <1>2 DEF RegisterDevice
  <2>3. CASE /\ Become(w, [at |-> "insertDevice", row |-> [user |-> u, fid |-> f, deleted |-> FALSE]])
             /\ UNCHANGED registered
    <3>1. Informed([at |-> "insertDevice", row |-> [user |-> u, fid |-> f, deleted |-> FALSE]])
      BY DEF Informed, Device, NoticesInv
    <3>2. QED
      BY <2>2, <2>3, <3>1, ReadingStep DEF noticeVars
  <2>4. CASE RowsWith(f) \cap RowsOf(u) # {} /\ Tell(u, f) /\ UNCHANGED call
    <3>1. RowsStay
      BY <2>2 DEF RowsStay, InTable
    <3>2. (call = [v \in Worker |-> call[v]] /\ \A v \in Worker : Informed(call[v]))'
      BY <2>4, <3>1, AllInformed
    <3>3. registered' = [registered EXCEPT ![f] = u]
      BY <2>4 DEF Tell
    <3>4. RegisteredHasRow'
      BY <2>2, <2>4, <3>3 DEF RegisteredHasRow, NoticesInv, RowsWith, RowsOf, Rows
    <3>5. QED
      BY <2>2, <3>2, <3>3, <3>4 DEF NoticesInv
  <2>5. QED
    BY <2>1, <2>3, <2>4
<1>3. ASSUME NEW w \in Worker, InsertDevice(w)
      PROVE  NoticesInv'
  <2>0. PICK row : row = call[w].row
    OBVIOUS
  <2>1. row \in Device /\ ~row.deleted /\ UNCHANGED reachable /\ call' = [call EXCEPT ![w] = Idle]
    BY <1>3, <2>0 DEF InsertDevice, NoticesInv, Informed
  <2>2. CASE UNCHANGED <<device, registered>>
    BY <2>1, <2>2, IdleInformed, ReadingStep DEF noticeVars
  <2>3. CASE ~UNCHANGED <<device, registered>>
    <3>1. /\ RowsWith(row.fid) = {}
          /\ \E r \in DeviceRow : device[r] = Nil /\ device' = [device EXCEPT ![r] = row]
          /\ IF row.fid \in reachable THEN Tell(row.user, row.fid) ELSE UNCHANGED registered
      BY <1>3, <2>0, <2>3 DEF InsertDevice
    <3>2. PICK r \in DeviceRow : device[r] = Nil /\ device' = [device EXCEPT ![r] = row]
      BY <3>1
    <3>3. RowsStay
      BY <2>1, <3>2 DEF RowsStay, InTable, NoticesInv
    <3>4. (call = [v \in Worker |-> call[v]] /\ \A v \in Worker : Informed(call[v]))'
      BY <2>1, <3>3, InformedStays, IdleInformed, OthersInformed
    <3>5. device' \in [DeviceRow -> Device \cup {Nil}] /\ registered' \in [Fid -> User \cup {Nil}]
      BY <2>1, <3>1, <3>2 DEF NoticesInv, Tell, Device
    <3>6. ASSUME NEW f \in Fid, registered'[f] # Nil
          PROVE  f \in reachable' /\ (RowsWith(f) \cap RowsOf(registered[f]))' # {}
      <4>1. CASE f = row.fid
        <5>1. row.fid \in reachable /\ registered'[f] = row.user
          BY <2>1, <3>1, <3>6, <4>1 DEF NoticesInv, RegisteredHasRow, Tell
        <5>2. device'[r] = row
          BY <3>2 DEF NoticesInv
        <5>3. row # Nil
          BY <2>1, NilIsNoDevice
        <5>4. ~row.deleted
          BY <2>1
        <5>5. QED
          BY <2>1, <4>1, <5>1, <5>2, <5>3, <5>4 DEF RowsWith, RowsOf, Rows
      <4>2. CASE f # row.fid
        <5>1. registered'[f] = registered[f]
          BY <3>1, <4>2 DEF Tell, NoticesInv
        <5>2. f \in reachable /\ RowsWith(f) \cap RowsOf(registered[f]) # {}
          BY <3>6, <5>1 DEF NoticesInv, RegisteredHasRow
        <5>3. PICK q \in RowsWith(f) \cap RowsOf(registered[f]) : TRUE
          BY <5>2
        <5>4. device'[q] = device[q] /\ q \in DeviceRow
          BY <3>2, <5>3 DEF NoticesInv, RowsWith, Rows
        <5>5. q \in (RowsWith(f) \cap RowsOf(registered[f]))'
          BY <5>1, <5>3, <5>4 DEF RowsWith, RowsOf, Rows
        <5>6. QED
          BY <2>1, <5>2, <5>5
      <4>3. QED
        BY <4>1, <4>2
    <3>7. RegisteredHasRow'
      BY <3>6 DEF RegisteredHasRow
    <3>8. QED
      BY <2>1, <3>4, <3>5, <3>7 DEF NoticesInv
  <2>4. QED
    BY <2>2, <2>3
<1>4. CASE RemoveDevice
  <2>1. PICK u \in User, f \in Fid :
          /\ Delete(RowsOf(u) \cap RowsWith(f))
          /\ registered' = [registered EXCEPT ![f] = Nil]
    BY <1>4 DEF RemoveDevice
  <2>2. UNCHANGED <<reachable, call>>
    BY <1>4 DEF RemoveDevice
  <2>3. /\ device' \in [DeviceRow -> Device \cup {Nil}]
        /\ \A r \in DeviceRow : /\ InTable(r) => InTable(r)' /\ device'[r].fid = device[r].fid
                                /\ r \notin RowsOf(u) \cap RowsWith(f) => device'[r] = device[r]
    <3>1. \A r \in RowsOf(u) \cap RowsWith(f) : r \in DeviceRow => InTable(r)
      BY DEF RowsOf, Rows, InTable
    <3>2. QED
      BY <2>1, <3>1, DeleteType
  <2>4. RowsStay
    BY <2>2, <2>3 DEF RowsStay
  <2>5. (call = [v \in Worker |-> call[v]] /\ \A v \in Worker : Informed(call[v]))'
    BY <2>2, <2>4, AllInformed
  <2>6. ASSUME NEW g \in Fid, registered'[g] # Nil
        PROVE  g \in reachable' /\ (RowsWith(g) \cap RowsOf(registered[g]))' # {}
    <3>1. g # f /\ registered'[g] = registered[g]
      BY <2>1, <2>6 DEF NoticesInv
    <3>2. g \in reachable /\ RowsWith(g) \cap RowsOf(registered[g]) # {}
      BY <2>6, <3>1 DEF NoticesInv, RegisteredHasRow
    <3>3. PICK q \in RowsWith(g) \cap RowsOf(registered[g]) : TRUE
      BY <3>2
    <3>4. device'[q] = device[q] /\ q \in DeviceRow
      BY <2>3, <3>1, <3>3 DEF RowsWith, Rows
    <3>5. q \in (RowsWith(g) \cap RowsOf(registered[g]))'
      BY <3>1, <3>3, <3>4 DEF RowsWith, RowsOf, Rows
    <3>6. QED
      BY <2>2, <3>2, <3>5
  <2>7. RegisteredHasRow'
    BY <2>6 DEF RegisteredHasRow
  <2>8. QED
    BY <2>1, <2>2, <2>3, <2>5, <2>7 DEF NoticesInv
<1>5. ASSUME NEW w \in Worker, CreateForUser(w)
      PROVE  NoticesInv'
  <2>1. PICK u \in User : call' = [call EXCEPT ![w] = [at |-> "findDevices", user |-> u]]
    BY <1>5 DEF CreateForUser
  <2>2. Informed([at |-> "findDevices", user |-> u])
    BY DEF Informed
  <2>3. QED
    BY <1>5, <2>1, <2>2, ReadingStep DEF CreateForUser
<1>6. ASSUME NEW w \in Worker, FindDeviceFids(w)
      PROVE  NoticesInv'
  <2>1. UNCHANGED noticeVars
    BY <1>6 DEF FindDeviceFids
  <2>2. CASE Return(w)
    BY <2>1, <2>2, IdleInformed, ReadingStep
  <2>3. ASSUME NEW s \in SetToSeqs(RowsOf(call[w].user)),
               Become(w, [at |-> "send", devices |-> s, offset |-> 0])
        PROVE  NoticesInv'
    <3>1. Informed([at |-> "send", devices |-> s, offset |-> 0])
      BY RowsInTable DEF Informed
    <3>2. QED
      BY <2>1, <2>3, <3>1, ReadingStep
  <2>4. QED
    BY <1>6, <2>2, <2>3 DEF FindDeviceFids
<1>7. ASSUME NEW w \in Worker, Send(w)
      PROVE  NoticesInv'
  <2>0. PICK c : c = call[w]
    OBVIOUS
  <2>1. UNCHANGED noticeVars /\ Informed(c) /\ c.at = "send"
    BY <1>7, <2>0 DEF Send, NoticesInv
  <2>2. CASE Return(w)
    BY <2>1, <2>2, IdleInformed, ReadingStep
  <2>3. CASE Become(w, [at |-> "cleanUp", devices |-> c.devices, offset |-> c.offset,
                        invalid |-> Invalid(c)])
    <3>1. PICK rows : rows = Invalid(c)
      OBVIOUS
    <3>2. Informed([at |-> "cleanUp", devices |-> c.devices, offset |-> c.offset, invalid |-> rows])
      BY <2>1, <3>1, InvalidAreLost DEF Informed
    <3>3. QED
      BY <2>1, <2>3, <3>1, <3>2, ReadingStep
  <2>4. QED
    BY <1>7, <2>0, <2>2, <2>3 DEF Send
<1>8. ASSUME NEW w \in Worker, RemoveDevicesByIds(w)
      PROVE  NoticesInv'
  <2>0. PICK c : c = call[w]
    OBVIOUS
  <2>1. /\ Informed(c) /\ c.at = "cleanUp" /\ Delete(c.invalid)
        /\ UNCHANGED <<registered, reachable>>
    BY <1>8, <2>0 DEF RemoveDevicesByIds, NoticesInv
  <2>2. \A r \in c.invalid : r \in DeviceRow /\ InTable(r) /\ device[r].fid \notin reachable
    BY <2>1 DEF Informed
  <2>3. /\ device' \in [DeviceRow -> Device \cup {Nil}]
        /\ \A r \in DeviceRow : /\ InTable(r) => InTable(r)' /\ device'[r].fid = device[r].fid
                                /\ r \notin c.invalid => device'[r] = device[r]
    BY <2>1, <2>2, DeleteType
  <2>4. RowsStay
    BY <2>1, <2>3 DEF RowsStay
  <2>5. RegisteredHasRow'
    BY <2>1, <2>2, <2>3, RegistrationStays
  <2>6. \E d : call' = [call EXCEPT ![w] = d] /\ Informed(d)
    <3>1. CASE Return(w)
      BY <3>1, IdleInformed
    <3>2. CASE Become(w, [at |-> "send", devices |-> c.devices, offset |-> c.offset + BatchSize])
      <4>1. Informed([at |-> "send", devices |-> c.devices, offset |-> c.offset + BatchSize])
        BY <2>1, NoticeAssumption DEF Informed
      <4>2. QED
        BY <3>2, <4>1
    <3>3. QED
      BY <1>8, <2>0, <3>1, <3>2 DEF RemoveDevicesByIds
  <2>7. (call = [v \in Worker |-> call[v]] /\ \A v \in Worker : Informed(call[v]))'
    <3>1. PICK d : call' = [call EXCEPT ![w] = d] /\ Informed(d)
      BY <2>6
    <3>2. Informed(d)'
      BY <2>4, <3>1, InformedStays
    <3>3. QED
      BY <2>4, <3>1, <3>2, OthersInformed
  <2>8. QED
    BY <2>1, <2>3, <2>5, <2>7 DEF NoticesInv
<1>9. ASSUME NEW w \in Worker, CutOff(w), UNCHANGED noticeVars
      PROVE  NoticesInv'
  BY <1>9, IdleInformed, ReadingStep DEF CutOff
<1>10. CASE UNCHANGED noticesVars
  <2>1. UNCHANGED <<device, registered, reachable, call>>
    BY <1>10 DEF noticesVars, noticeVars
  <2>2. RowsStay
    BY <2>1 DEF RowsStay, InTable
  <2>3. (call = [v \in Worker |-> call[v]] /\ \A v \in Worker : Informed(call[v]))'
    BY <2>1, <2>2, AllInformed
  <2>4. RegisteredHasRow'
    BY <2>1, RegistrationStays
  <2>5. QED
    BY <2>1, <2>3, <2>4 DEF NoticesInv
<1>11. QED
  BY <1>1, <1>2, <1>3, <1>4, <1>5, <1>6, <1>7, <1>8, <1>9, <1>10 DEF NoticesNext, DeviceRequests

\* A device that was told it is registered for a user stays so until its owner
\* removes it or it is gone (registerDevice), whenever a push cleans up.
THEOREM RegistrationsStay == NoticesSpec => []RegistrationsKept
<1>1. NoticesInv => RegistrationsKept
  BY DEF NoticesInv, RegisteredHasRow, RegistrationsKept
<1>2. QED
  BY <1>1, NoticesInitInv, NoticesStep, PTL DEF NoticesSpec

-----------------------------------------------------------------------------
\* The lists of devices that a push may work on, and how far it may be.
Lists == UNION {[1 .. n -> DeviceRow] : n \in 1 .. Cardinality(DeviceRow)}
Offsets == 0 .. Cardinality(DeviceRow)

LEMMA NoticeCallIs ==
  NoticeCall = [at : {"insertDevice"}, row : Device]
               \cup [at : {"findDevices"}, user : User]
               \cup [at : {"send"}, devices : Lists, offset : Offsets]
               \cup [at : {"cleanUp"}, devices : Lists, offset : Offsets, invalid : SUBSET DeviceRow]
  BY DEF NoticeCall, Lists, Offsets

\* A list of some rows has no more than there are, but one at least.
LEMMA ListsOfRows ==
  ASSUME NEW rows \in SUBSET DeviceRow, rows # {}, NEW s \in SetToSeqs(rows)
  PROVE  s \in Lists
<1>1. IsFiniteSet(rows) /\ Cardinality(rows) \in Nat /\ Cardinality(DeviceRow) \in Nat
      /\ Cardinality(rows) <= Cardinality(DeviceRow)
  BY NoticeAssumption, FS_Subset, FS_CardinalityType
<1>2. Cardinality(rows) # 0
  BY <1>1, FS_EmptySet
<1>3. s \in [1 .. Cardinality(rows) -> DeviceRow]
  BY DEF SetToSeqs
<1>4. Cardinality(rows) \in 1 .. Cardinality(DeviceRow)
  BY <1>1, <1>2
<1>5. QED
  BY <1>3, <1>4 DEF Lists

\* The next batch begins within the list.
LEMMA NextOffset ==
  ASSUME NEW s \in Lists, NEW offset \in Offsets, offset + BatchSize < Len(s)
  PROVE  offset + BatchSize \in Offsets
<1>1. PICK n \in 1 .. Cardinality(DeviceRow) : s \in [1 .. n -> DeviceRow]
  BY DEF Lists
<1>2. Cardinality(DeviceRow) \in Nat
  BY NoticeAssumption, FS_CardinalityType
<1>3. Len(s) = n
  BY <1>1, <1>2
<1>4. QED
  BY <1>1, <1>2, <1>3, NoticeAssumption DEF Offsets

LEMMA NoticesTypeStep == NoticesInv /\ NoticesTypeOK /\ [NoticesNext]_noticesVars => NoticesTypeOK'
<1> SUFFICES ASSUME NoticesInv, NoticesTypeOK, [NoticesNext]_noticesVars
             PROVE  NoticesTypeOK'
  OBVIOUS
<1> USE DEF At, Begin, Become, Return
<1> DEFINE Calls == {Idle} \cup NoticeCall
<1>1. NoticesInv'
  BY NoticesStep
<1>2. SUFFICES call' \in [Worker -> Calls]
  BY <1>1 DEF NoticesInv, NoticesTypeOK
<1>3. call \in [Worker -> Calls]
  BY DEF NoticesTypeOK
<1>4. ASSUME NEW w \in Worker, RegisterDevice(w) \/ InsertDevice(w)
      PROVE  call' \in [Worker -> Calls]
  <2>1. ASSUME NEW u \in User, NEW f \in Fid
        PROVE  [at |-> "insertDevice", row |-> [user |-> u, fid |-> f, deleted |-> FALSE]] \in Calls
    BY NoticeCallIs DEF Device
  <2>2. Idle \in Calls
    OBVIOUS
  <2> HIDE DEF Calls
  <2>3. CASE RegisterDevice(w)
    <3>1. reachable \subseteq Fid
      BY DEF NoticesTypeOK
    <3>2. QED
      BY <1>3, <2>1, <2>3, <3>1 DEF RegisterDevice
  <2>4. CASE InsertDevice(w)
    BY <1>3, <2>2, <2>4 DEF InsertDevice
  <2>5. QED
    BY <1>4, <2>3, <2>4
<1>5. ASSUME NEW w \in Worker, CreateForUser(w)
      PROVE  call' \in [Worker -> Calls]
  <2>1. \A u \in User : [at |-> "findDevices", user |-> u] \in Calls
    BY NoticeCallIs
  <2>2. QED
    BY <1>3, <1>5, <2>1 DEF CreateForUser
<1>6. ASSUME NEW w \in Worker, FindDeviceFids(w)
      PROVE  call' \in [Worker -> Calls]
  <2>1. CASE Return(w)
    BY <1>3, <2>1
  <2>2. CASE ~Return(w)
    <3>1. PICK s : /\ s \in SetToSeqs(RowsOf(call[w].user)) /\ RowsOf(call[w].user) # {}
                   /\ call' = [call EXCEPT ![w] = [at |-> "send", devices |-> s, offset |-> 0]]
      BY <1>6, <2>2 DEF FindDeviceFids
    <3>2. RowsOf(call[w].user) \in SUBSET DeviceRow
      BY DEF RowsOf, Rows
    <3>3. s \in Lists
      BY <3>1, <3>2, ListsOfRows
    <3>4. 0 \in Offsets
      BY NoticeAssumption, FS_CardinalityType DEF Offsets
    <3>5. [at |-> "send", devices |-> s, offset |-> 0] \in Calls
      BY <3>3, <3>4, NoticeCallIs
    <3>6. QED
      BY <1>3, <3>1, <3>5
  <2>3. QED
    BY <2>1, <2>2
<1>7. ASSUME NEW w \in Worker, Send(w)
      PROVE  call' \in [Worker -> Calls]
  <2>1. PICK c : c = call[w]
    OBVIOUS
  <2>2. c.devices \in Lists /\ c.offset \in Offsets
    BY <1>3, <1>7, <2>1, NoticeCallIs DEF Send, Idle
  <2>3. Invalid(c) \subseteq DeviceRow
    BY <1>7, <2>1, InvalidAreLost DEF Send, NoticesInv
  <2>4. [at |-> "cleanUp", devices |-> c.devices, offset |-> c.offset, invalid |-> Invalid(c)] \in Calls
    BY <2>2, <2>3, NoticeCallIs
  <2>5. QED
    BY <1>3, <1>7, <2>1, <2>4 DEF Send
<1>8. ASSUME NEW w \in Worker, RemoveDevicesByIds(w)
      PROVE  call' \in [Worker -> Calls]
  <2>1. PICK c : c = call[w]
    OBVIOUS
  <2>2. c.devices \in Lists /\ c.offset \in Offsets
    BY <1>3, <1>8, <2>1, NoticeCallIs DEF RemoveDevicesByIds, Idle
  <2>3. CASE Return(w)
    BY <1>3, <2>3
  <2>4. CASE c.offset + BatchSize < Len(c.devices)
    <3>1. [at |-> "send", devices |-> c.devices, offset |-> c.offset + BatchSize] \in Calls
      BY <2>2, <2>4, NextOffset, NoticeCallIs
    <3>2. QED
      BY <1>3, <1>8, <2>1, <2>4, <3>1 DEF RemoveDevicesByIds
  <2>5. QED
    BY <1>8, <2>1, <2>3, <2>4 DEF RemoveDevicesByIds
<1>9. CASE Vanish \/ RemoveDevice \/ UNCHANGED noticesVars
  BY <1>3, <1>9 DEF Vanish, RemoveDevice, noticesVars, callVars
<1>10. ASSUME NEW w \in Worker, CutOff(w)
       PROVE  call' \in [Worker -> Calls]
  BY <1>3, <1>10 DEF CutOff
<1>11. QED
  BY <1>4, <1>5, <1>6, <1>7, <1>8, <1>9, <1>10 DEF NoticesNext, DeviceRequests

LEMMA NoticesInitType == NoticesInit => NoticesTypeOK
  BY DEF NoticesInit, CallsInit, NoticesTypeOK

\* The rows of devices and what a push holds stay of their types: it never
\* goes beyond the devices it has read, and marks none but those of rows
\* (NoticesTypeOK).
THEOREM NoticesTypeCorrect == NoticesSpec => []NoticesTypeOK
  BY NoticesInitType, NoticesInitInv, NoticesStep, NoticesTypeStep, PTL DEF NoticesSpec

-----------------------------------------------------------------------------
(***************************************************************************)
(* Delivery addresses                                                      *)
(***************************************************************************)
\* A transaction clears defaults only, and only for an address that is to be
\* one; nobody else writes them until it returns.
Clearing ==
    /\ \A w \in Worker : call[w] # Idle =>
        /\ call[w].cleared \subseteq Defaults
        /\ call[w].at \in {"findDefault", "clear"} => call[w].cleared = {} /\ call[w].default = "yes"
        /\ call[w].cleared # {} => call[w].default = "yes" /\ call[w].at = "set"
        /\ call[w].at = "remove" => call[w].address # Nil
    /\ \A v, w \in Worker : v # w /\ call[v] # Idle /\ call[w] # Idle =>
         call[v].cleared \cap call[w].cleared = {}

OneDefault == \A a, b \in Defaults : a = b

AddressesInv == AddressesTypeOK /\ Clearing /\ OneDefault

LEMMA AddressesInitInv == AddressesInit => AddressesInv
  BY DEF AddressesInit, CallsInit, AddressesInv, AddressesTypeOK, AddressRow, Clearing, OneDefault,
         Defaults, Kept, Idle

LEMMA AddressHolding ==
  ASSUME AddressesTypeOK, NEW w \in Worker, call[w].at # "idle"
  PROVE  call[w] \in AddressCall /\ call[w] # Idle
  BY DEF AddressesTypeOK, Idle

LEMMA NotIdle == \A c \in AddressCall : c # Idle /\ c.at # "idle"
  BY DEF AddressCall, Idle

\* What another transaction has cleared is locked.
LEMMA OthersLock ==
  ASSUME NEW v \in Worker, NEW w \in Worker, v # w, call[v] # Idle
  PROVE  call[v].cleared \subseteq Locked(w)
  BY DEF Locked

\* A call that has cleared nothing goes on; no row is written.
LEMMA NothingWritten ==
  ASSUME AddressesInv, UNCHANGED address, NEW w \in Worker, NEW c \in {Idle} \cup AddressCall,
         call' = [call EXCEPT ![w] = c],
         c # Idle => /\ c.cleared = {}
                     /\ c.at \in {"findDefault", "clear"} => c.default = "yes"
                     /\ c.at = "remove" => c.address # Nil
  PROVE  AddressesInv'
<1>1. AddressesTypeOK'
  BY DEF AddressesInv, AddressesTypeOK
<1>2. Defaults' = Defaults
  BY DEF Defaults, Kept
<1>3. \A v \in Worker : call'[v] = IF v = w THEN c ELSE call[v]
  BY DEF AddressesInv, AddressesTypeOK
<1>4. Clearing'
  BY <1>2, <1>3 DEF AddressesInv, Clearing
<1>5. QED
  BY <1>1, <1>2, <1>4 DEF AddressesInv, OneDefault

\* A transaction that returns has written no row that another one has cleared.
LEMMA Committed ==
  ASSUME AddressesInv, NEW w \in Worker, call' = [call EXCEPT ![w] = Idle],
         address' \in [Address -> AddressRow], OneDefault',
         \A x \in Defaults : x \notin Defaults' => x \notin Locked(w)
  PROVE  AddressesInv'
<1>1. AddressesTypeOK'
  BY DEF AddressesInv, AddressesTypeOK
<1>3. \A v \in Worker : call'[v] = IF v = w THEN Idle ELSE call[v]
  BY DEF AddressesInv, AddressesTypeOK
<1>2. ASSUME NEW v \in Worker, call'[v] # Idle
      PROVE  v # w /\ call[v] # Idle /\ call'[v] = call[v] /\ call[v].cleared \subseteq Defaults'
  <2>1. v # w /\ call'[v] = call[v]
    BY <1>2, <1>3
  <2>2. call[v].cleared \subseteq Defaults /\ call[v].cleared \subseteq Locked(w)
    BY <1>2, <2>1, OthersLock DEF AddressesInv, Clearing
  <2>3. QED
    BY <1>2, <2>1, <2>2
<1>4. Clearing'
  BY <1>2 DEF AddressesInv, Clearing
<1>5. QED
  BY <1>1, <1>4 DEF AddressesInv

-----------------------------------------------------------------------------
\* What setting an address does to the defaults: it becomes the only one, or
\* none is added.
SetTo(w, a) == [is |-> IF call[w].address = Nil THEN "kept" ELSE address[a].is,
                default |-> IF call[w].default = "asItIs" THEN address[a].default
                            ELSE call[w].default = "yes"]

LEMMA SetEffect ==
  ASSUME AddressesInv, NEW w \in Worker, Set(w), ~UNCHANGED address
  PROVE  \E a \in Address :
           /\ IF call[w].address = Nil THEN address[a].is = "none" ELSE a = call[w].address
           /\ a \notin Locked(w)
           /\ address' \in [Address -> AddressRow]
           /\ IF SetTo(w, a).is = "kept" /\ SetTo(w, a).default
              THEN Defaults' = {a} /\ Defaults \subseteq call[w].cleared \cup {a}
              ELSE Defaults' = Defaults \ (call[w].cleared \cup {a})
<1>0. PICK k : k = call[w]
  OBVIOUS
<1>1. k \in AddressCall /\ k # Idle /\ k.at = "set"
  BY <1>0, AddressHolding DEF Set, At, AddressesInv
<1>2. k.address \in Address \cup {Nil} /\ k.default \in {"yes", "no", "asItIs"} /\ k.cleared \subseteq Address
  BY <1>1 DEF AddressCall
<1> DEFINE Row(a) == [is |-> IF k.address = Nil THEN "kept" ELSE address[a].is,
                      default |-> IF k.default = "asItIs" THEN address[a].default ELSE k.default = "yes"]
           Twins(a) == IF Row(a).is = "kept" /\ Row(a).default THEN Defaults \ (k.cleared \cup {a}) ELSE {}
<1>p. PICK a \in IF k.address = Nil THEN {x \in Address : address[x].is = "none"} ELSE {k.address} :
        /\ ({a} \cup Twins(a)) \cap Locked(w) = {}
        /\ \/ Twins(a) # {} /\ UNCHANGED address
           \/ /\ Twins(a) = {}
              /\ address' = [x \in Address |->
                   IF x = a THEN Row(a)
                   ELSE IF x \in k.cleared THEN [address[x] EXCEPT !.default = FALSE]
                   ELSE address[x]]
  BY <1>0, Zenon DEF Set
<1>q. PICK row : row = Row(a)
  OBVIOUS
<1>r. PICK twins : twins = Twins(a)
  OBVIOUS
<1>3. /\ row = [is |-> IF k.address = Nil THEN "kept" ELSE address[a].is,
                default |-> IF k.default = "asItIs" THEN address[a].default ELSE k.default = "yes"]
      /\ twins = IF row.is = "kept" /\ row.default THEN Defaults \ (k.cleared \cup {a}) ELSE {}
      /\ a \in IF k.address = Nil THEN {x \in Address : address[x].is = "none"} ELSE {k.address}
      /\ ({a} \cup twins) \cap Locked(w) = {}
      /\ \/ twins # {} /\ UNCHANGED address
         \/ /\ twins = {}
            /\ address' = [x \in Address |->
                 IF x = a THEN row
                 ELSE IF x \in k.cleared THEN [address[x] EXCEPT !.default = FALSE]
                 ELSE address[x]]
  BY <1>p, <1>q, <1>r
<1> HIDE DEF Row, Twins
<1>4. a \in Address /\ IF k.address = Nil THEN address[a].is = "none" ELSE a = k.address
  BY <1>2, <1>3
<1>5. address[a] \in AddressRow /\ \A x \in Address : address[x] \in AddressRow
  BY <1>4 DEF AddressesInv, AddressesTypeOK
<1>6. row \in AddressRow
  <2>1. address[a].is \in {"none", "kept", "deleted"} /\ address[a].default \in BOOLEAN
    BY <1>5 DEF AddressRow
  <2>2. row.is \in {"none", "kept", "deleted"}
    BY <1>3, <2>1
  <2>3. row.default \in BOOLEAN
    BY <1>3, <2>1
  <2>4. row = [is |-> row.is, default |-> row.default]
    BY <1>3
  <2>5. QED
    BY <2>2, <2>3, <2>4 DEF AddressRow
<1>7. /\ twins = {}
      /\ address' = [x \in Address |->
           IF x = a THEN row
           ELSE IF x \in k.cleared THEN [address[x] EXCEPT !.default = FALSE]
           ELSE address[x]]
  BY <1>3
<1>8. \A x \in Address : [address[x] EXCEPT !.default = FALSE] \in AddressRow
  BY <1>5 DEF AddressRow
<1>9. address' \in [Address -> AddressRow]
  BY <1>5, <1>6, <1>7, <1>8
<1>10. \A x \in Address : x \in Defaults' <=>
          IF x = a THEN row.is = "kept" /\ row.default ELSE x \in Defaults /\ x \notin k.cleared
  <2>1. ASSUME NEW x \in Address
        PROVE  x \in Defaults' <=>
          IF x = a THEN row.is = "kept" /\ row.default ELSE x \in Defaults /\ x \notin k.cleared
    <3>1. CASE x = a
      BY <1>7, <3>1 DEF Defaults, Kept
    <3>2. CASE x # a /\ x \in k.cleared
      <4>1. address'[x] = [address[x] EXCEPT !.default = FALSE]
        BY <1>7, <3>2
      <4>2. ~address'[x].default
        BY <1>5, <4>1 DEF AddressRow
      <4>3. QED
        BY <3>2, <4>2 DEF Defaults
    <3>3. CASE x # a /\ x \notin k.cleared
      <4>1. address'[x] = address[x]
        BY <1>7, <3>3
      <4>2. QED
        BY <3>3, <4>1 DEF Defaults, Kept
    <3>4. QED
      BY <3>1, <3>2, <3>3
  <2>2. QED
    BY <2>1
<1>11. Defaults \subseteq Address /\ Defaults' \subseteq Address
  BY DEF Defaults, Kept
<1>12. CASE row.is = "kept" /\ row.default
  <2>1. Defaults \subseteq k.cleared \cup {a}
    BY <1>3, <1>7, <1>12
  <2>2. Defaults' = {a}
    BY <1>4, <1>10, <1>11, <1>12, <2>1
  <2>3. SetTo(w, a) = row
    BY <1>0, <1>3 DEF SetTo
  <2>4. QED
    BY <1>0, <1>3, <1>4, <1>9, <1>12, <2>1, <2>2, <2>3
<1>13. CASE ~(row.is = "kept" /\ row.default)
  <2>1. Defaults' = Defaults \ (k.cleared \cup {a})
    BY <1>4, <1>10, <1>11, <1>13
  <2>2. SetTo(w, a) = row
    BY <1>0, <1>3 DEF SetTo
  <2>3. QED
    BY <1>0, <1>3, <1>4, <1>9, <1>13, <2>1, <2>2
<1>14. QED
  BY <1>12, <1>13

LEMMA RemoveEffect ==
  ASSUME AddressesInv, NEW w \in Worker, RemoveAddress(w)
  PROVE  /\ call[w].address \in Address /\ call[w].address \notin Locked(w)
         /\ address' \in [Address -> AddressRow]
         /\ Defaults' = Defaults \ {call[w].address}
<1>0. PICK k : k = call[w]
  OBVIOUS
<1>1. k \in AddressCall /\ k # Idle /\ k.at = "remove"
  BY <1>0, AddressHolding DEF RemoveAddress, At, AddressesInv
<1>2. k.address \in Address
  BY <1>0, <1>1 DEF AddressCall, AddressesInv, Clearing
<1>3. address' = [address EXCEPT ![k.address] = [is |-> "deleted", default |-> FALSE]]
  BY <1>0 DEF RemoveAddress
<1>4. address' \in [Address -> AddressRow]
  BY <1>2, <1>3 DEF AddressesInv, AddressesTypeOK, AddressRow
<1>5. \A x \in Address : address'[x] = IF x = k.address THEN [is |-> "deleted", default |-> FALSE]
                                       ELSE address[x]
  BY <1>2, <1>3 DEF AddressesInv, AddressesTypeOK
<1>6. Defaults' = Defaults \ {k.address}
  BY <1>2, <1>5 DEF Defaults, Kept
<1>7. QED
  BY <1>0, <1>2, <1>4, <1>6 DEF RemoveAddress

\* A request that begins a call has cleared nothing.
LEMMA NewAddressType ==
  ASSUME NEW a \in Address \cup {Nil}, NEW d \in {"yes", "no", "asItIs"},
         NEW at \in {"findDefault", "clear", "set", "remove"}
  PROVE  LET c == [at |-> at, address |-> a, default |-> d, found |-> {}, cleared |-> {}]
         IN  c \in AddressCall
  BY DEF AddressCall

LEMMA AddressesStep == AddressesInv /\ [AddressesNext]_addressesVars => AddressesInv'
<1> SUFFICES ASSUME AddressesInv, [AddressesNext]_addressesVars
             PROVE  AddressesInv'
  OBVIOUS
<1> USE DEF callVars, At, Begin, Become, Return
<1>1. ASSUME NEW w \in Worker, CreateAddress(w)
      PROVE  AddressesInv'
  <2>1a. PICK default \in {"yes", "no"} : \E c :
          /\ c = [NewAddressCall EXCEPT !.default = default,
                    !.at = IF default = "yes" THEN "findDefault" ELSE "set"]
          /\ call' = [call EXCEPT ![w] = c]
    BY <1>1 DEF CreateAddress
  <2>1. PICK c :
          /\ c = [NewAddressCall EXCEPT !.default = default,
                    !.at = IF default = "yes" THEN "findDefault" ELSE "set"]
          /\ call' = [call EXCEPT ![w] = c]
    BY <2>1a
  <2>2. c = [at |-> IF default = "yes" THEN "findDefault" ELSE "set", address |-> Nil,
             default |-> default, found |-> {}, cleared |-> {}]
    BY <2>1 DEF NewAddressCall
  <2>3. c \in AddressCall
    BY <2>2, NewAddressType
  <2>4. UNCHANGED address
    BY <1>1 DEF CreateAddress
  <2>5. QED
    BY <2>1, <2>2, <2>3, <2>4, NothingWritten
<1>2. ASSUME NEW w \in Worker, UpdateAddress(w)
      PROVE  AddressesInv'
  <2>1a. PICK a \in Kept, default \in {"yes", "no", "asItIs"} : \E c :
          /\ c = [NewAddressCall EXCEPT !.address = a, !.default = default,
                    !.at = IF default = "yes" THEN "findDefault" ELSE "set"]
          /\ call' = [call EXCEPT ![w] = c]
    BY <1>2 DEF UpdateAddress
  <2>1. PICK c :
          /\ c = [NewAddressCall EXCEPT !.address = a, !.default = default,
                    !.at = IF default = "yes" THEN "findDefault" ELSE "set"]
          /\ call' = [call EXCEPT ![w] = c]
    BY <2>1a
  <2>2. c = [at |-> IF default = "yes" THEN "findDefault" ELSE "set", address |-> a,
             default |-> default, found |-> {}, cleared |-> {}]
    BY <2>1 DEF NewAddressCall
  <2>3. c \in AddressCall
    <3>1. a \in Address
      BY DEF Kept
    <3>2. QED
      BY <2>2, <3>1, NewAddressType
  <2>4. UNCHANGED address
    BY <1>2 DEF UpdateAddress
  <2>5. QED
    BY <2>1, <2>2, <2>3, <2>4, NothingWritten
<1>3. ASSUME NEW w \in Worker, FindDefault(w)
      PROVE  AddressesInv'
  <2>0. PICK k : k = call[w]
    OBVIOUS
  <2>1. k \in AddressCall /\ k # Idle /\ k.at = "findDefault" /\ k.cleared = {} /\ k.default = "yes"
    BY <1>3, <2>0, AddressHolding DEF FindDefault, AddressesInv, Clearing
  <2>2. PICK d, c : d = Defaults /\ c = [k EXCEPT !.at = "clear", !.found = d]
                    /\ call' = [call EXCEPT ![w] = c]
    BY <1>3, <2>0 DEF FindDefault
  <2>3. c \in AddressCall
    BY <2>1, <2>2 DEF AddressCall, Defaults, Kept
  <2>4. c.cleared = {} /\ c.default = "yes" /\ c.at = "clear"
    BY <2>1, <2>2 DEF AddressCall
  <2>5. UNCHANGED address
    BY <1>3 DEF FindDefault
  <2>6. QED
    BY <2>2, <2>3, <2>4, <2>5, NothingWritten
<1>4. ASSUME NEW w \in Worker, Clear(w)
      PROVE  AddressesInv'
  <2>0. PICK k : k = call[w]
    OBVIOUS
  <2>1. k \in AddressCall /\ k # Idle /\ k.at = "clear" /\ k.cleared = {} /\ k.default = "yes"
    BY <1>4, <2>0, AddressHolding DEF Clear, AddressesInv, Clearing
  <2>2. PICK d, c : /\ d = k.found \cap Defaults
                    /\ c = [k EXCEPT !.at = "set", !.found = {}, !.cleared = d]
                    /\ call' = [call EXCEPT ![w] = c]
    BY <1>4, <2>0 DEF Clear
  <2>3. c \in AddressCall
    BY <2>1, <2>2 DEF AddressCall, Defaults, Kept
  <2>4. c.cleared = d /\ c.default = "yes" /\ c.at = "set"
    BY <2>1, <2>2 DEF AddressCall
  <2>5. UNCHANGED address /\ Defaults' = Defaults /\ d \cap Locked(w) = {}
    BY <1>4, <2>0, <2>2 DEF Clear, Defaults, Kept
  <2>6. \A v \in Worker : call'[v] = IF v = w THEN c ELSE call[v]
    BY <2>2 DEF AddressesInv, AddressesTypeOK
  <2>7. AddressesTypeOK'
    BY <2>2, <2>3, <2>5 DEF AddressesInv, AddressesTypeOK
  <2>8. \A v \in Worker : v # w /\ call[v] # Idle => call[v].cleared \cap d = {}
    BY <2>5, OthersLock
  <2>9. Clearing'
    <3>1. ASSUME NEW v \in Worker, call'[v] # Idle
          PROVE  /\ call'[v].cleared \subseteq Defaults'
                 /\ call'[v].at \in {"findDefault", "clear"} => call'[v].cleared = {} /\ call'[v].default = "yes"
                 /\ call'[v].cleared # {} => call'[v].default = "yes" /\ call'[v].at = "set"
                 /\ call'[v].at = "remove" => call'[v].address # Nil
      <4>1. CASE v = w
        BY <2>2, <2>4, <2>5, <2>6, <4>1
      <4>2. CASE v # w
        BY <2>5, <2>6, <3>1, <4>2 DEF AddressesInv, Clearing
      <4>3. QED
        BY <4>1, <4>2
    <3>2. \A v, u \in Worker : v # u /\ call'[v] # Idle /\ call'[u] # Idle =>
            call'[v].cleared \cap call'[u].cleared = {}
      BY <2>4, <2>6, <2>8 DEF AddressesInv, Clearing
    <3>3. QED
      BY <3>1, <3>2 DEF Clearing
  <2>10. QED
    BY <2>5, <2>7, <2>9 DEF AddressesInv, OneDefault
<1>5. ASSUME NEW w \in Worker, Set(w)
      PROVE  AddressesInv'
  <2>0. call' = [call EXCEPT ![w] = Idle] /\ call[w] # Idle
    BY <1>5, AddressHolding DEF Set, AddressesInv
  <2>1. CASE UNCHANGED address
    BY <2>0, <2>1, NothingWritten
  <2>2. CASE ~UNCHANGED address
    <3>1. PICK a \in Address :
           /\ IF call[w].address = Nil THEN address[a].is = "none" ELSE a = call[w].address
           /\ a \notin Locked(w)
           /\ address' \in [Address -> AddressRow]
           /\ IF SetTo(w, a).is = "kept" /\ SetTo(w, a).default
              THEN Defaults' = {a} /\ Defaults \subseteq call[w].cleared \cup {a}
              ELSE Defaults' = Defaults \ (call[w].cleared \cup {a})
      BY <1>5, <2>2, SetEffect
    <3>2. OneDefault'
      BY <3>1 DEF OneDefault, AddressesInv
    <3>3. \A x \in Defaults : x \notin Defaults' => x \in call[w].cleared \cup {a}
      BY <3>1
    <3>4. call[w].cleared \cap Locked(w) = {}
      BY <2>0 DEF Locked, AddressesInv, Clearing
    <3>5. QED
      BY <2>0, <3>1, <3>2, <3>3, <3>4, Committed
  <2>3. QED
    BY <2>1, <2>2
<1>6. ASSUME NEW w \in Worker, BeginRemoveAddress(w)
      PROVE  AddressesInv'
  <2>1a. PICK a \in Kept : \E c : /\ c = [NewAddressCall EXCEPT !.at = "remove", !.address = a]
                             /\ call' = [call EXCEPT ![w] = c]
    BY <1>6 DEF BeginRemoveAddress
  <2>1. PICK c : /\ c = [NewAddressCall EXCEPT !.at = "remove", !.address = a]
                             /\ call' = [call EXCEPT ![w] = c]
    BY <2>1a
  <2>2. c = [at |-> "remove", address |-> a, default |-> "asItIs", found |-> {}, cleared |-> {}]
    BY <2>1 DEF NewAddressCall
  <2>3. c \in AddressCall /\ a # Nil
    <3>1. a \in Address
      BY DEF Kept
    <3>2. QED
      BY <2>2, <3>1, NewAddressType, AddressNilAssumption
  <2>4. UNCHANGED address
    BY <1>6 DEF BeginRemoveAddress
  <2>5. QED
    BY <2>1, <2>2, <2>3, <2>4, NothingWritten
<1>7. ASSUME NEW w \in Worker, RemoveAddress(w)
      PROVE  AddressesInv'
  <2>1. /\ call[w].address \notin Locked(w)
        /\ address' \in [Address -> AddressRow]
        /\ Defaults' = Defaults \ {call[w].address}
    BY <1>7, RemoveEffect
  <2>2. call' = [call EXCEPT ![w] = Idle]
    BY <1>7 DEF RemoveAddress
  <2>3. OneDefault'
    BY <2>1 DEF OneDefault, AddressesInv
  <2>4. \A x \in Defaults : x \notin Defaults' => x \notin Locked(w)
    BY <2>1
  <2>5. QED
    BY <2>1, <2>2, <2>3, <2>4, Committed
<1>8. ASSUME NEW w \in Worker, CutOff(w), UNCHANGED address
      PROVE  AddressesInv'
  BY <1>8, NothingWritten DEF CutOff
<1>9. CASE UNCHANGED addressesVars
  BY <1>9 DEF addressesVars, AddressesInv, AddressesTypeOK, Clearing, OneDefault, Defaults, Kept
<1>10. QED
  BY <1>1, <1>2, <1>3, <1>4, <1>5, <1>6, <1>7, <1>8, <1>9 DEF AddressesNext, AddressStep, AddressRequests

-----------------------------------------------------------------------------
Replacing ==
    /\ Cardinality(Defaults') <= 1
    /\ Defaults # {} /\ Defaults' = {} =>
         \E w \in Worker : /\ call[w] # Idle /\ call'[w] = Idle
                           /\ call[w].address \in Defaults
                           /\ At(w, "remove") \/ call[w].default = "no"

LEMMA AtMostOne ==
  ASSUME OneDefault'
  PROVE  Cardinality(Defaults') <= 1
<1>1. CASE Defaults' = {}
  BY <1>1, FS_EmptySet
<1>2. CASE Defaults' # {}
  <2>1. PICK a \in Defaults' : TRUE
    BY <1>2
  <2>2. Defaults' = {a}
    BY <2>1 DEF OneDefault
  <2>3. QED
    BY <2>2, FS_Singleton
<1>3. QED
  BY <1>1, <1>2

\* An address that is made the default and was not removed becomes one, so
\* that only a removal, or setting the default address itself to no, leaves none.
LEMMA ReplacingStep ==
  ASSUME AddressesInv, AddressesInv', AddressesClean, [AddressesNext]_addressesVars
  PROVE  Replacing
<1> USE DEF callVars, At, Begin, Become, Return
<1>1. Cardinality(Defaults') <= 1
  BY AtMostOne DEF AddressesInv
<1>2. ASSUME NEW w \in Worker, Set(w), Defaults # {}, Defaults' = {}
      PROVE  /\ call[w] # Idle /\ call'[w] = Idle
             /\ call[w].address \in Defaults
             /\ call[w].default = "no"
  <2>0. /\ call[w] \in AddressCall /\ call[w] # Idle /\ call[w].at = "set"
        /\ call'[w] = Idle /\ ~UNCHANGED address
    BY <1>2, AddressHolding DEF Set, AddressesInv, AddressesTypeOK, Defaults, Kept
  <2>1. PICK a \in Address :
           /\ IF call[w].address = Nil THEN address[a].is = "none" ELSE a = call[w].address
           /\ IF SetTo(w, a).is = "kept" /\ SetTo(w, a).default
              THEN Defaults' = {a} /\ Defaults \subseteq call[w].cleared \cup {a}
              ELSE Defaults' = Defaults \ (call[w].cleared \cup {a})
    BY <1>2, <2>0, SetEffect
  <2>2. ~(SetTo(w, a).is = "kept" /\ SetTo(w, a).default)
    BY <1>2, <2>1
  <2>3. PICK d \in Defaults : TRUE
    BY <1>2
  <2>4. d \in call[w].cleared \/ d = a
    BY <1>2, <2>1, <2>2, <2>3
  <2>5. call[w].cleared = {}
    <3> SUFFICES ASSUME call[w].cleared # {}
                 PROVE  FALSE
      OBVIOUS
    <3>1. call[w].default = "yes"
      BY <2>0 DEF AddressesInv, Clearing
    <3>2. call[w].address \in Kept \cup {Nil}
      BY <2>0, <3>1 DEF AddressesClean
    <3>3. SetTo(w, a).is = "kept"
      BY <2>1, <3>2, AddressNilAssumption DEF SetTo, Kept
    <3>4. SetTo(w, a).default
      BY <3>1 DEF SetTo
    <3>5. QED
      BY <2>2, <3>3, <3>4
  <2>6. d = a /\ address[a].is = "kept" /\ address[a].default
    BY <2>4, <2>5 DEF Defaults, Kept
  <2>7. call[w].address = a
    BY <2>1, <2>6
  <2>8. SetTo(w, a).is = "kept"
    BY <2>6 DEF SetTo
  <2>9. ~SetTo(w, a).default
    BY <2>2, <2>8
  <2>10. call[w].default \in {"yes", "no", "asItIs"}
    BY <2>0 DEF AddressCall
  <2>11. call[w].default = "no"
    BY <2>6, <2>9, <2>10 DEF SetTo
  <2>12. QED
    BY <2>0, <2>6, <2>7, <2>11
<1>3. ASSUME NEW w \in Worker, RemoveAddress(w), Defaults # {}, Defaults' = {}
      PROVE  /\ call[w] # Idle /\ call'[w] = Idle
             /\ call[w].address \in Defaults
             /\ At(w, "remove")
  <2>1. Defaults' = Defaults \ {call[w].address}
    BY <1>3, RemoveEffect
  <2>2. call[w] # Idle /\ call'[w] = Idle /\ At(w, "remove")
    BY <1>3, AddressHolding DEF RemoveAddress, AddressesInv, AddressesTypeOK
  <2>3. QED
    BY <1>3, <2>1, <2>2
<1>4. ASSUME UNCHANGED address
      PROVE  Defaults' = Defaults
  BY <1>4 DEF Defaults, Kept
<1>5. \/ UNCHANGED address
      \/ \E w \in Worker : Set(w) \/ RemoveAddress(w)
  BY DEF AddressesNext, AddressStep, AddressRequests, CreateAddress, UpdateAddress, FindDefault, Clear,
         BeginRemoveAddress, addressesVars
<1>6. QED
  BY <1>1, <1>2, <1>3, <1>4, <1>5 DEF Replacing

\* At every moment a buyer has at most one default address, and it is replaced
\* by another one, never lost halfway, unless it is removed or unset.
THEOREM DefaultsAreReplaced == AddressesCleanSpec => DefaultIsReplaced
<1>1. AddressesInit => AddressesClean
  BY DEF AddressesInit, CallsInit, AddressesClean, Idle, At
<1>2. [AddressesNext /\ AddressesClean']_addressesVars => [AddressesNext]_addressesVars
  OBVIOUS
<1>3. AddressesClean /\ [AddressesNext /\ AddressesClean']_addressesVars => AddressesClean'
  BY DEF AddressesClean, addressesVars, callVars, At, Kept
<1>4. AddressesInv /\ AddressesInv' /\ AddressesClean /\ [AddressesNext]_addressesVars =>
        [Replacing]_addressesVars
  BY ReplacingStep
<1>5. [Replacing]_addressesVars <=>
      [ /\ Cardinality(Defaults') <= 1
        /\ Defaults # {} /\ Defaults' = {} =>
             \E w \in Worker : /\ call[w] # Idle /\ call'[w] = Idle
                               /\ call[w].address \in Defaults
                               /\ At(w, "remove") \/ call[w].default = "no" ]_addressesVars
  BY DEF Replacing
<1>6. QED
  BY <1>1, <1>2, <1>3, <1>4, <1>5, AddressesInitInv, AddressesStep,
     PTL DEF AddressesCleanSpec, DefaultIsReplaced

\* Addresses and calls stay within their types, whatever is removed meanwhile.
THEOREM AddressesTypeCorrect == AddressesSpec => []AddressesTypeOK
<1>1. AddressesInv => AddressesTypeOK
  BY DEF AddressesInv
<1>2. QED
  BY <1>1, AddressesInitInv, AddressesStep, PTL DEF AddressesSpec

-----------------------------------------------------------------------------
(***************************************************************************)
(* A seller's onboarding                                                   *)
(***************************************************************************)
Row == {"user", "profile", "storefront"}

\* What a report has read of the steps: those that were done when it began are
\* seen in the rows it has read, and what it has seen is done.
Reading(c) ==
    /\ c.unread \subseteq Row /\ c.seen \subseteq Step /\ c.before \subseteq Step
    /\ c.at = "respond" => c.unread = {}
    /\ c.before \subseteq done /\ c.seen \subseteq done
    /\ \A row \in Row \ c.unread : Told(row) \cap c.before \subseteq c.seen

OnboardingInv ==
    /\ done \subseteq Step
    /\ call = [w \in Worker |-> call[w]]
    /\ \A w \in Worker \ revoked : call[w].at \in {"status", "respond"} => Reading(call[w])

LEMMA OnboardingInitInv == OnboardingInit => OnboardingInv
  BY DEF OnboardingInit, CallsInit, OnboardingInv, Idle

\* A step that is done stays done for the reports under way.
LEMMA ReadingStays ==
  ASSUME NEW c, Reading(c), done \subseteq done'
  PROVE  Reading(c)'
  BY DEF Reading

LEMMA StepsStayDone ==
  ASSUME OnboardingInv, done \subseteq done', done' \subseteq Step, revoked' = revoked, UNCHANGED call
  PROVE  OnboardingInv'
<1>1. ASSUME NEW w \in Worker \ revoked, call[w].at \in {"status", "respond"}
      PROVE  Reading(call[w])'
  <2>1. PICK c : c = call[w]
    OBVIOUS
  <2>2. Reading(c)'
    BY <1>1, <2>1, ReadingStays DEF OnboardingInv
  <2>3. QED
    BY <2>1, <2>2 DEF Reading
<1>2. QED
  BY <1>1 DEF OnboardingInv

\* One call goes on, and the others stay as they are.
LEMMA OneGoesOn ==
  ASSUME OnboardingInv, NEW w \in Worker, NEW c, call' = [call EXCEPT ![w] = c],
         done \subseteq done', done' \subseteq Step, revoked \ {w} \subseteq revoked',
         w \notin revoked' /\ c.at \in {"status", "respond"} => Reading(c)'
  PROVE  OnboardingInv'
<1>1. call' = [v \in Worker |-> call'[v]]
  BY DEF OnboardingInv
<1>2. ASSUME NEW v \in Worker \ revoked', call'[v].at \in {"status", "respond"}
      PROVE  Reading(call[v])'
  <2>1. PICK d : d = call'[v]
    OBVIOUS
  <2>2. CASE v = w
    <3>1. d = c
      BY <2>1, <2>2 DEF OnboardingInv
    <3>2. Reading(c)' /\ c = call'[v]
      BY <1>2, <2>1, <2>2, <3>1
    <3>3. QED
      BY <3>2 DEF Reading
  <2>3. CASE v # w
    <3>1. d = call[v] /\ v \notin revoked
      BY <2>1, <2>3 DEF OnboardingInv
    <3>2. Reading(d)'
      BY <1>2, <2>1, <3>1, ReadingStays DEF OnboardingInv
    <3>3. QED
      BY <2>1, <3>2 DEF Reading
  <2>4. QED
    BY <2>2, <2>3
<1>3. QED
  BY <1>1, <1>2 DEF OnboardingInv

LEMMA OnboardingStep == OnboardingInv /\ [OnboardingNext]_onboardingsVars => OnboardingInv'
<1> SUFFICES ASSUME OnboardingInv, [OnboardingNext]_onboardingsVars
             PROVE  OnboardingInv'
  OBVIOUS
<1> USE DEF callVars, At, Begin, Become, Return
<1>0. done \subseteq Step
  BY DEF OnboardingInv
<1>1. CASE VerifyEmail \/ SetMyBankingDetails \/ OpenStorefront
  <2>1. done \subseteq done' /\ done' \subseteq Step /\ UNCHANGED <<revoked, call>>
    BY <1>0, <1>1 DEF VerifyEmail, SetMyBankingDetails, OpenStorefront, Step
  <2>2. QED
    BY <2>1, StepsStayDone
<1>2. ASSUME NEW w \in Worker, BeginDecideSeller(w)
      PROVE  OnboardingInv'
  <2>1. PICK at \in {"approve", "reject"} : call' = [call EXCEPT ![w] = [at |-> at]]
    BY <1>2 DEF BeginDecideSeller
  <2>2. UNCHANGED <<done, revoked>>
    BY <1>2 DEF BeginDecideSeller, onboardingVars
  <2>3. QED
    BY <1>0, <2>1, <2>2, OneGoesOn
<1>3. ASSUME NEW w \in Worker, ApproveSellerProfile(w)
      PROVE  OnboardingInv'
  <2>1. /\ call' = [call EXCEPT ![w] = Idle] /\ revoked' = revoked
        /\ done \subseteq done' /\ done' \subseteq Step
    BY <1>0, <1>3 DEF ApproveSellerProfile, Step
  <2>2. QED
    BY <2>1, OneGoesOn DEF Idle
<1>4. ASSUME NEW w \in Worker, RejectSellerProfile(w)
      PROVE  OnboardingInv'
  <2>1. call' = [call EXCEPT ![w] = Idle] /\ done' \subseteq Step /\ call[w].at = "reject"
    BY <1>0, <1>4 DEF RejectSellerProfile
  <2>2. CASE "await_approval" \notin done
    <3>1. done' = done /\ revoked' = revoked
      BY <1>4, <2>2 DEF RejectSellerProfile
    <3>2. QED
      BY <1>0, <2>1, <3>1, OneGoesOn DEF Idle
  <2>3. CASE "await_approval" \in done
    <3>1. \A v \in Worker \ revoked' : call[v].at \notin {"status", "respond"}
      BY <1>4, <2>3 DEF RejectSellerProfile
    <3>2. call' = [v \in Worker |-> call'[v]]
      BY <2>1 DEF OnboardingInv
    <3>3. \A v \in Worker \ revoked' : call'[v].at \notin {"status", "respond"}
      BY <2>1, <3>1 DEF OnboardingInv, Idle
    <3>4. QED
      BY <2>1, <3>2, <3>3 DEF OnboardingInv
  <2>4. QED
    BY <2>2, <2>3
<1>5. ASSUME NEW w \in Worker, BeginStatus(w)
      PROVE  OnboardingInv'
  <2>0. PICK d : d = done
    OBVIOUS
  <2> DEFINE c == [at |-> "status", unread |-> Row, seen |-> {}, before |-> d]
  <2>1. call' = [call EXCEPT ![w] = c] /\ revoked' = revoked \ {w} /\ done' = done
    BY <1>5, <2>0 DEF BeginStatus, Row
  <2>2. Reading(c)'
    BY <1>0, <2>0, <2>1 DEF Reading
  <2> HIDE DEF c
  <2>3. QED
    BY <1>0, <2>1, <2>2, OneGoesOn
<1>6. ASSUME NEW w \in Worker, ReadRow(w)
      PROVE  OnboardingInv'
  <2>0. PICK c : c = call[w]
    OBVIOUS
  <2>1a. PICK row \in c.unread : \E d :
          /\ d = [at |-> IF c.unread = {row} THEN "respond" ELSE "status",
                  unread |-> c.unread \ {row},
                  seen |-> c.seen \cup (Told(row) \cap done),
                  before |-> c.before]
          /\ call' = [call EXCEPT ![w] = d]
    BY <1>6, <2>0 DEF ReadRow
  <2>1. PICK d :
          /\ d = [at |-> IF c.unread = {row} THEN "respond" ELSE "status",
                  unread |-> c.unread \ {row},
                  seen |-> c.seen \cup (Told(row) \cap done),
                  before |-> c.before]
          /\ call' = [call EXCEPT ![w] = d]
    BY <2>1a
  <2>2. c.at = "status" /\ UNCHANGED <<done, revoked>>
    BY <1>6, <2>0 DEF ReadRow, onboardingVars
  <2>3. w \notin revoked => Reading(d)'
    <3> SUFFICES ASSUME w \notin revoked
                 PROVE  Reading(d)'
      OBVIOUS
    <3>1. Reading(c)
      BY <2>0, <2>2 DEF OnboardingInv
    <3>2. /\ d.unread = c.unread \ {row} /\ d.seen = c.seen \cup (Told(row) \cap done)
          /\ d.before = c.before
          /\ d.at = "respond" => c.unread = {row}
      BY <2>1
    <3>3. \A r \in Row \ d.unread : Told(r) \cap d.before \subseteq d.seen
      <4> SUFFICES ASSUME NEW r \in Row \ d.unread
                   PROVE  Told(r) \cap d.before \subseteq d.seen
        OBVIOUS
      <4>1. CASE r = row
        BY <3>1, <3>2, <4>1 DEF Reading
      <4>2. CASE r # row
        BY <3>1, <3>2, <4>2 DEF Reading
      <4>3. QED
        BY <4>1, <4>2
    <3>4. d.seen \subseteq done /\ d.seen \subseteq Step
      BY <1>0, <3>1, <3>2 DEF Reading
    <3>5. QED
      BY <2>2, <3>1, <3>2, <3>3, <3>4 DEF Reading
  <2>4. QED
    BY <1>0, <2>1, <2>2, <2>3, OneGoesOn
<1>7. ASSUME NEW w \in Worker, Respond(w) \/ (CutOff(w) /\ UNCHANGED onboardingVars)
      PROVE  OnboardingInv'
  <2>1. call' = [call EXCEPT ![w] = Idle] /\ UNCHANGED <<done, revoked>>
    BY <1>7 DEF Respond, CutOff, onboardingVars
  <2>2. QED
    BY <1>0, <2>1, OneGoesOn DEF Idle
<1>8. CASE UNCHANGED onboardingsVars
  <2>1. UNCHANGED <<done, revoked, call>>
    BY <1>8 DEF onboardingsVars, onboardingVars
  <2>2. QED
    BY <1>0, <2>1, StepsStayDone
<1>9. QED
  BY <1>1, <1>2, <1>3, <1>4, <1>5, <1>6, <1>7, <1>8 DEF OnboardingNext, WizardRequests

-----------------------------------------------------------------------------
\* The next step is the first of them that was not seen.
LEMMA RankOfStep ==
  ASSUME NEW i \in 1 .. 4
  PROVE  /\ Steps[i] \in Step
         /\ (CHOOSE j \in 1 .. 4 : Steps[j] = Steps[i]) = i
<1>1. \A j \in 1 .. 4 : Steps[j] = Steps[i] => j = i
  BY DEF Steps
<1>2. QED
  BY <1>1 DEF Steps, Step

LEMMA NextStepIsFirst ==
  ASSUME NEW seen \in SUBSET Step, seen # Step
  PROVE  \E i \in 1 .. 4 : /\ NextStep(seen) = Steps[i] /\ Steps[i] \notin seen
                           /\ \A j \in 1 .. i - 1 : Steps[j] \in seen
<1> DEFINE First(i) == Steps[i] \notin seen /\ \A j \in 1 .. i - 1 : Steps[j] \in seen
<1>1. \E i \in 1 .. 4 : First(i)
  <2>1. PICK s \in Step : s \notin seen
    OBVIOUS
  <2>2. s = Steps[1] \/ s = Steps[2] \/ s = Steps[3] \/ s = Steps[4]
    BY DEF Step, Steps
  <2>3. CASE Steps[1] \notin seen
    <3>1. First(1)
      BY <2>3
    <3>2. QED
      BY <3>1
  <2>4. CASE Steps[1] \in seen /\ Steps[2] \notin seen
    <3>1. \A j \in 1 .. 2 - 1 : j = 1
      OBVIOUS
    <3>2. First(2)
      BY <2>4, <3>1
    <3>3. QED
      BY <3>2
  <2>5. CASE Steps[1] \in seen /\ Steps[2] \in seen /\ Steps[3] \notin seen
    <3>1. \A j \in 1 .. 3 - 1 : j = 1 \/ j = 2
      OBVIOUS
    <3>2. First(3)
      BY <2>5, <3>1
    <3>3. QED
      BY <3>2
  <2>6. CASE Steps[1] \in seen /\ Steps[2] \in seen /\ Steps[3] \in seen /\ Steps[4] \notin seen
    <3>1. \A j \in 1 .. 4 - 1 : j = 1 \/ j = 2 \/ j = 3
      OBVIOUS
    <3>2. First(4)
      BY <2>6, <3>1
    <3>3. QED
      BY <3>2
  <2>7. QED
    BY <2>1, <2>2, <2>3, <2>4, <2>5, <2>6
<1>2. NextStep(seen) = Steps[CHOOSE i \in 1 .. 4 : First(i)]
  BY DEF NextStep
<1> HIDE DEF First
<1>3. \E i \in 1 .. 4 : i = (CHOOSE k \in 1 .. 4 : First(k)) /\ First(i)
  BY <1>1
<1>4. QED
  BY <1>2, <1>3 DEF First

\* The step a seller is told comes next was still to do when the call began,
\* and all before it are done, unless an approval was revoked meanwhile
\* (getMyOnboardingStatus).
THEOREM StepsAreReported == OnboardingSpec => []StepReported
<1>1. OnboardingInv => StepReported
  <2> SUFFICES ASSUME OnboardingInv, NEW w \in Worker, At(w, "respond"), w \notin revoked
               PROVE  LET step == NextStep(call[w].seen)
                          rank == [s \in Step |-> CHOOSE i \in 1 .. 4 : Steps[i] = s]
                      IN  /\ step \notin call[w].before
                          /\ \A s \in Step : step = "ready" \/ rank[s] < rank[step] => s \in done
    BY DEF StepReported
  <2> DEFINE rank == [s \in Step |-> CHOOSE i \in 1 .. 4 : Steps[i] = s]
             seen == call[w].seen
  <2>1. Reading(call[w]) /\ call[w].unread = {}
    BY DEF OnboardingInv, At, Reading
  <2>2. seen \in SUBSET Step /\ seen \subseteq done /\ call[w].before \subseteq Step
    BY <2>1 DEF Reading
  <2>3. call[w].before \subseteq seen
    <3> SUFFICES ASSUME NEW s \in call[w].before
                 PROVE  s \in seen
      OBVIOUS
    <3>1. \A row \in Row : Told(row) \cap call[w].before \subseteq seen
      BY <2>1 DEF Reading
    <3>2. \E row \in Row : s \in Told(row)
      BY <2>2 DEF Step, Row, Told
    <3>3. QED
      BY <3>1, <3>2
  <2>4. CASE seen = Step
    <3>1. NextStep(seen) = "ready" /\ "ready" \notin Step
      BY <2>4 DEF NextStep, Step
    <3>2. QED
      BY <2>2, <2>4, <3>1
  <2>5. CASE seen # Step
    <3>1. PICK i \in 1 .. 4 : /\ NextStep(seen) = Steps[i] /\ Steps[i] \notin seen
                              /\ \A j \in 1 .. i - 1 : Steps[j] \in seen
      BY <2>2, <2>5, NextStepIsFirst
    <3>2. \A j \in 1 .. 4 : Steps[j] \in Step /\ rank[Steps[j]] = j
      BY RankOfStep
    <3>3. ASSUME NEW s \in Step, Steps[i] = "ready" \/ rank[s] < rank[Steps[i]]
          PROVE  s \in done
      <4>1. PICK j \in 1 .. 4 : s = Steps[j]
        <5>1. \E j \in 1 .. 4 : s = Steps[j]
          BY DEF Step, Steps
        <5>2. QED
          BY <5>1
      <4>2. "ready" \notin Step
        BY DEF Step
      <4> HIDE DEF rank, seen
      <4>3. rank[s] = j /\ rank[Steps[i]] = i
        BY <3>2, <4>1
      <4>4. j \in 1 .. i - 1
        BY <3>2, <3>3, <4>2, <4>3
      <4>5. QED
        BY <2>2, <3>1, <4>1, <4>4
    <3>4. QED
      BY <2>3, <3>1, <3>3
  <2>6. QED
    BY <2>4, <2>5
<1>2. QED
  BY <1>1, OnboardingInitInv, OnboardingStep, PTL DEF OnboardingSpec

-----------------------------------------------------------------------------
LEMMA OnboardingTypeStep == OnboardingTypeOK /\ [OnboardingNext]_onboardingsVars => OnboardingTypeOK'
<1> SUFFICES ASSUME OnboardingTypeOK, [OnboardingNext]_onboardingsVars
             PROVE  OnboardingTypeOK'
  OBVIOUS
<1> USE DEF At, Begin, Become, Return
<1>1. CASE VerifyEmail \/ OpenStorefront \/ SetMyBankingDetails \/ UNCHANGED onboardingsVars
  BY <1>1 DEF VerifyEmail, OpenStorefront, SetMyBankingDetails, onboardingsVars, onboardingVars,
              callVars, OnboardingTypeOK, Step
<1>2. ASSUME NEW w \in Worker, BeginDecideSeller(w)
      PROVE  OnboardingTypeOK'
  <2>1. \A at \in {"approve", "reject"} : [at |-> at] \in {Idle} \cup OnboardingCall
    BY DEF OnboardingCall
  <2>2. QED
    BY <1>2, <2>1 DEF BeginDecideSeller, onboardingVars, OnboardingTypeOK
<1>3. ASSUME NEW w \in Worker, ApproveSellerProfile(w) \/ RejectSellerProfile(w)
      PROVE  OnboardingTypeOK'
  BY <1>3 DEF ApproveSellerProfile, RejectSellerProfile, OnboardingTypeOK, Step
<1>4. ASSUME NEW w \in Worker, BeginStatus(w)
      PROVE  OnboardingTypeOK'
  <2>1. [at |-> "status", unread |-> {"user", "profile", "storefront"}, seen |-> {}, before |-> done]
          \in {Idle} \cup OnboardingCall
    BY DEF OnboardingCall, OnboardingTypeOK
  <2>2. QED
    BY <1>4, <2>1 DEF BeginStatus, OnboardingTypeOK
<1>5. ASSUME NEW w \in Worker, ReadRow(w)
      PROVE  OnboardingTypeOK'
  <2>1. PICK c : c = call[w]
    OBVIOUS
  <2>2. c.unread \subseteq {"user", "profile", "storefront"} /\ c.seen \subseteq Step /\ c.before \subseteq Step
    BY <1>5, <2>1 DEF ReadRow, OnboardingTypeOK, OnboardingCall, Idle
  <2>3. PICK row \in c.unread :
          call' = [call EXCEPT ![w] = [at |-> IF c.unread = {row} THEN "respond" ELSE "status",
                                       unread |-> c.unread \ {row},
                                       seen |-> c.seen \cup (Told(row) \cap done),
                                       before |-> c.before]]
    BY <1>5, <2>1 DEF ReadRow
  <2>4. c.seen \cup (Told(row) \cap done) \subseteq Step
    BY <2>2 DEF OnboardingTypeOK
  <2>5. [at |-> IF c.unread = {row} THEN "respond" ELSE "status", unread |-> c.unread \ {row},
         seen |-> c.seen \cup (Told(row) \cap done), before |-> c.before] \in OnboardingCall
    BY <2>2, <2>4 DEF OnboardingCall
  <2>6. QED
    BY <1>5, <2>3, <2>5 DEF ReadRow, onboardingVars, OnboardingTypeOK
<1>6. ASSUME NEW w \in Worker, Respond(w) \/ (CutOff(w) /\ UNCHANGED onboardingVars)
      PROVE  OnboardingTypeOK'
  BY <1>6 DEF Respond, CutOff, onboardingVars, OnboardingTypeOK
<1>7. QED
  BY <1>1, <1>2, <1>3, <1>4, <1>5, <1>6 DEF OnboardingNext, WizardRequests

LEMMA OnboardingInitType == OnboardingInit => OnboardingTypeOK
  BY DEF OnboardingInit, CallsInit, OnboardingTypeOK

\* The steps of a seller and what the reports have read of them stay of their
\* types (OnboardingTypeOK).
THEOREM OnboardingTypeCorrect == OnboardingSpec => []OnboardingTypeOK
  BY OnboardingInitType, OnboardingTypeStep, PTL DEF OnboardingSpec

-----------------------------------------------------------------------------
(***************************************************************************)
(* Recently viewed products                                                *)
(***************************************************************************)
\* The products viewed after one, and whether it is among the most recent.
Above(p) == {q \in Viewed : lastView[q] > lastView[p]}
Top(p) == lastView[p] > 0 /\ Cardinality(Above(p)) < MaxRecent

\* A call is to delete the row of a product, or to look for such rows.
Doomed(c, row) ==
    \/ c.at = "findStale"
    \/ c.at = "deleteStale" /\ row["id"] \in c.ids

ViewsInv ==
    /\ ViewsTypeOK /\ faults \in Nat
    /\ \A p \in RecentRows : recent[p]["viewedAt"] = lastView[p]
    /\ \A p \in Viewed : Top(p) => p \in RecentRows
    /\ faults = 0 => \A p \in RecentRows : Top(p) \/ \E w \in Worker : Doomed(call[w], recent[p])

LEMMA ViewsInitInv == ViewsInit => ViewsInv
<1> SUFFICES ASSUME ViewsInit
             PROVE  ViewsInv
  OBVIOUS
<1>1. ViewsTypeOK /\ faults \in Nat
  BY ViewAssumption DEF ViewsInit, CallsInit, ViewsTypeOK
<1>2. RecentRows = {}
  BY DEF ViewsInit, RecentRows
<1>3. \A p \in Viewed : ~Top(p)
  BY DEF ViewsInit, Top
<1>4. QED
  BY <1>1, <1>2, <1>3 DEF ViewsInv

\* Among some products one was viewed last.
LEMMA LastViewed ==
  ASSUME NEW T \in SUBSET Viewed, T # {}, lastView \in [Viewed -> 0 .. MaxViews]
  PROVE  \E q \in T : \A r \in T : lastView[r] <= lastView[q]
<1>1. PICK D : D = {MaxViews - lastView[q] : q \in T}
  OBVIOUS
<1>2. D \subseteq Nat /\ D # {}
  BY <1>1, ViewAssumption
<1>3. IsWellFoundedOn(OpToRel(<, Nat), Nat)
  BY NatLessThanWellFounded
<1>4. PICK d \in D : \A e \in D : ~(<<e, d>> \in OpToRel(<, Nat))
  BY <1>2, <1>3, WFMin
<1>5. \A e \in D : ~(e < d)
  BY <1>2, <1>4 DEF OpToRel
<1>6. PICK q \in T : d = MaxViews - lastView[q]
  BY <1>1, <1>4
<1>7. ASSUME NEW r \in T
      PROVE  lastView[r] <= lastView[q]
  <2>1. MaxViews - lastView[r] \in D
    BY <1>1
  <2>2. ~(MaxViews - lastView[r] < MaxViews - lastView[q])
    BY <1>5, <1>6, <2>1
  <2>3. QED
    BY <2>2, ViewAssumption
<1>8. QED
  BY <1>7

\* A row that is not among the most recent is found to be stale: enough
\* products that were viewed after it have a row.
LEMMA OthersAreStale ==
  ASSUME ViewsInv, IsFiniteSet(Viewed), NEW p \in RecentRows, ~Top(p)
  PROVE  p \in Stale
<1>1. p \in Viewed /\ recent[p] \in ViewRow
  BY DEF ViewsInv, ViewsTypeOK, RecentRows
<1>2. recent[p]["viewedAt"] = lastView[p] /\ lastView[p] > 0
  BY <1>1, ViewAssumption DEF ViewsInv, ViewRow
<1>3. IsFiniteSet(Above(p)) /\ Cardinality(Above(p)) \in Nat /\ Above(p) \subseteq Viewed
  BY FS_Subset, FS_CardinalityType DEF Above
<1>4. Cardinality(Above(p)) >= MaxRecent
  BY <1>1, <1>2, <1>3, ViewAssumption DEF Top
<1>5. PICK K : K = {q \in Above(p) : Top(q)}
  OBVIOUS
<1>6. IsFiniteSet(K) /\ Cardinality(K) \in Nat
  BY <1>3, <1>5, FS_Subset, FS_CardinalityType
<1>7. Cardinality(K) >= MaxRecent
  <2> SUFFICES ASSUME Cardinality(K) < MaxRecent
               PROVE  FALSE
    BY <1>6, ViewAssumption
  <2>1. PICK T : T = Above(p) \ K
    OBVIOUS
  <2>2. T # {} /\ T \subseteq Viewed
    BY <1>3, <1>4, <1>5, <1>6, <2>1, ViewAssumption
  <2>3. PICK q \in T : \A r \in T : lastView[r] <= lastView[q]
    BY <2>2, LastViewed DEF ViewsInv, ViewsTypeOK
  <2>4. \A r \in Viewed : lastView[r] \in Int
    BY ViewAssumption DEF ViewsInv, ViewsTypeOK
  <2>5. Above(q) \subseteq K
    <3> SUFFICES ASSUME NEW r \in Viewed, lastView[r] > lastView[q]
                 PROVE  r \in K
      BY DEF Above
    <3>1. q \in Viewed /\ lastView[q] > lastView[p]
      BY <2>1, <2>2, <2>3 DEF Above
    <3>2. r \in Above(p)
      BY <1>1, <2>4, <3>1 DEF Above
    <3>3. r \notin T
      BY <2>3, <2>4, <3>1
    <3>4. QED
      BY <2>1, <3>2, <3>3
  <2>6. Cardinality(Above(q)) <= Cardinality(K) /\ Cardinality(Above(q)) \in Nat
    BY <1>6, <2>5, FS_Subset, FS_CardinalityType
  <2>7. Top(q)
    <3>1. q \in Viewed /\ lastView[q] > lastView[p]
      BY <2>1, <2>2, <2>3 DEF Above
    <3>2. lastView[q] > 0
      BY <1>1, <1>2, <2>4, <3>1
    <3>3. QED
      BY <1>6, <2>6, <3>2, ViewAssumption DEF Top
  <2>8. QED
    BY <1>5, <2>1, <2>3, <2>7
<1>8. PICK L : L = {q \in RecentRows : recent[q]["viewedAt"] > recent[p]["viewedAt"]}
  OBVIOUS
<1>9. K \subseteq L
  <2> SUFFICES ASSUME NEW q \in K
               PROVE  q \in L
    OBVIOUS
  <2>1. q \in Viewed /\ lastView[q] > lastView[p] /\ Top(q)
    BY <1>5 DEF Above
  <2>2. q \in RecentRows /\ recent[q]["viewedAt"] = lastView[q]
    BY <2>1 DEF ViewsInv
  <2>3. QED
    BY <1>2, <1>8, <2>1, <2>2
<1>10. IsFiniteSet(L) /\ Cardinality(L) \in Nat
  <2>1. L \subseteq Viewed
    BY <1>8 DEF RecentRows
  <2>2. QED
    BY <2>1, FS_Subset, FS_CardinalityType
<1>11. Cardinality(L) >= MaxRecent
  <2>1. Cardinality(K) <= Cardinality(L)
    BY <1>9, <1>10, FS_Subset
  <2>2. QED
    BY <1>6, <1>7, <1>10, <2>1, ViewAssumption
<1>12. QED
  BY <1>8, <1>11 DEF Stale

\* ... and one among the most recent is not.
LEMMA TopIsKept ==
  ASSUME ViewsInv, IsFiniteSet(Viewed), NEW p \in Stale
  PROVE  p \in RecentRows /\ ~Top(p)
<1>1. p \in RecentRows /\ p \in Viewed
  BY DEF Stale, RecentRows
<1>2. PICK L : L = {q \in RecentRows : recent[q]["viewedAt"] > recent[p]["viewedAt"]}
  OBVIOUS
<1>3. Cardinality(L) >= MaxRecent
  BY <1>2 DEF Stale
<1>4. L \subseteq Above(p)
  BY <1>1, <1>2 DEF ViewsInv, RecentRows, Above
<1>5. IsFiniteSet(Above(p)) /\ Cardinality(Above(p)) \in Nat
  BY FS_Subset, FS_CardinalityType DEF Above
<1>6. Cardinality(L) <= Cardinality(Above(p)) /\ Cardinality(L) \in Nat
  BY <1>4, <1>5, FS_Subset, FS_CardinalityType
<1>7. ~(Cardinality(Above(p)) < MaxRecent)
  BY <1>3, <1>5, <1>6, ViewAssumption
<1>8. QED
  BY <1>1, <1>7 DEF Top

\* The time of a view.
LEMMA NowType == Now \in Nat \ {0}
<1>1. PICK T : T = {t \in 1 .. MaxViews : Taken(t)}
  OBVIOUS
<1>2. IsFiniteSet(T) /\ Cardinality(T) \in Nat
  <2>1. T \subseteq 1 .. MaxViews /\ IsFiniteSet(1 .. MaxViews)
    BY <1>1, FS_Interval, ViewAssumption
  <2>2. QED
    BY <2>1, FS_Subset, FS_CardinalityType
<1>3. Now = 1 + Cardinality(T)
  BY <1>1 DEF Now
<1>4. QED
  BY <1>2, <1>3

\* A view that is about to be written holds its product and its time.
LEMMA Viewing ==
  ASSUME ViewsTypeOK, NEW w \in Worker, call[w].at = "record"
  PROVE  call[w].product \in Viewed /\ call[w].viewedAt \in 1 .. MaxViews
  BY DEF ViewsTypeOK, ViewCall, Idle

\* What the step of a call does to the others.
LEMMA DoomedStays ==
  ASSUME ViewsTypeOK, NEW w \in Worker, NEW c, call' = [call EXCEPT ![w] = c], NEW row,
         Doomed(call[w], row) => Doomed(c, row), \E v \in Worker : Doomed(call[v], row)
  PROVE  \E v \in Worker : Doomed(call'[v], row)
<1>1. \A v \in Worker : call'[v] = IF v = w THEN c ELSE call[v]
  BY DEF ViewsTypeOK
<1>2. QED
  BY <1>1

LEMMA ViewsStep ==
  ASSUME IsFiniteSet(Viewed), ViewsInv, ViewsClean, [ViewsNext]_viewsVars
  PROVE  ViewsInv'
<1> USE DEF At, Begin, Become, Return
<1>a. ViewsTypeOK /\ faults \in Nat
  BY DEF ViewsInv
<1>b. Idle.at = "idle"
  BY DEF Idle
<1>1. ASSUME NEW w \in Worker, RecordView(w)
      PROVE  ViewsInv'
  <2>1. PICK p \in Viewed, now \in 1 .. MaxViews :
          p = call[w].product /\ now = call[w].viewedAt
    BY <1>a, <1>1, Viewing DEF RecordView
  <2>2. /\ recent' = [recent EXCEPT ![p] =
             [id |-> IF @ = Nil THEN now ELSE @.id, viewedAt |-> now]]
        /\ lastView' = [lastView EXCEPT ![p] = now]
    BY <1>1, <2>1 DEF RecordView
  <2>3. lastView[p] < now
    BY <1>1, <2>1 DEF RecordView, ViewsClean
  <2>4. PICK row : row = [id |-> IF recent[p] = Nil THEN now ELSE recent[p]["id"], viewedAt |-> now]
    OBVIOUS
  <2>5. row \in ViewRow /\ row # Nil /\ row["viewedAt"] = now
    <3>1. recent[p] = Nil \/ recent[p]["id"] \in 1 .. MaxViews
      BY <1>a DEF ViewsTypeOK, ViewRow
    <3>2. row \in ViewRow
      BY <2>1, <2>4, <3>1 DEF ViewRow
    <3>3. QED
      BY <2>4, <3>2, NilIsNoView
  <2>6. recent' = [recent EXCEPT ![p] = row] /\ lastView' = [lastView EXCEPT ![p] = now]
    BY <2>2, <2>4
  <2>7. PICK c : c = [at |-> "findStale"]
    OBVIOUS
  <2>8. call' = [call EXCEPT ![w] = c] /\ UNCHANGED faults
    BY <1>1, <2>7 DEF RecordView
  <2>9. c \in ViewCall /\ c.at = "findStale"
    BY <2>7 DEF ViewCall
  <2>10. ViewsTypeOK'
    BY <1>a, <2>5, <2>6, <2>8, <2>9 DEF ViewsTypeOK
  <2>11. \A q \in RecentRows' : recent'[q]["viewedAt"] = lastView'[q]
    BY <1>a, <2>5, <2>6 DEF ViewsInv, ViewsTypeOK, RecentRows
  <2>12. ASSUME NEW q \in Viewed, Top(q)'
         PROVE  q \in RecentRows'
    <3>1. CASE q = p
      BY <1>a, <2>5, <2>6, <3>1 DEF ViewsTypeOK, RecentRows
    <3>2. CASE q # p
      <4>1. lastView'[q] = lastView[q] /\ recent'[q] = recent[q]
        BY <1>a, <2>6, <3>2 DEF ViewsTypeOK
      <4>2. \A r \in Viewed : lastView[r] > lastView[q] => lastView'[r] > lastView'[q]
        BY <1>a, <2>3, <2>6, <4>1, ViewAssumption DEF ViewsTypeOK
      <4>3. Above(q) \subseteq Above(q)'
        BY <4>2 DEF Above
      <4>4. PICK A : A = Above(q)'
        OBVIOUS
      <4>5. A \subseteq Viewed
        BY <4>4 DEF Above
      <4>6. IsFiniteSet(A) /\ Cardinality(A) \in Nat
        BY <4>5, FS_Subset, FS_CardinalityType
      <4>7. Cardinality(Above(q)) <= Cardinality(A) /\ Cardinality(Above(q)) \in Nat
        BY <4>3, <4>4, <4>6, FS_Subset, FS_CardinalityType
      <4>8. Cardinality(A) < MaxRecent /\ lastView'[q] > 0
        BY <2>12, <4>4 DEF Top
      <4>9. Cardinality(Above(q)) < MaxRecent
        BY <4>6, <4>7, <4>8, ViewAssumption
      <4>10. Top(q)
        BY <4>1, <4>8, <4>9 DEF Top
      <4>11. QED
        BY <4>1, <4>10 DEF ViewsInv, RecentRows
    <3>3. QED
      BY <3>1, <3>2
  <2>13. \A r : \E v \in Worker : Doomed(call'[v], r)
    <3>1. call'[w] = c
      BY <1>a, <2>8 DEF ViewsTypeOK
    <3>2. QED
      BY <2>9, <3>1 DEF Doomed
  <2>14. QED
    BY <1>a, <2>8, <2>10, <2>11, <2>12, <2>13 DEF ViewsInv, Doomed
<1>2. ASSUME UNCHANGED viewVars, NEW w \in Worker, NEW c \in {Idle} \cup ViewCall,
             call' = [call EXCEPT ![w] = c], faults' \in Nat,
             faults' = 0 =>
               /\ faults = 0
               /\ \A p \in RecentRows : Doomed(call[w], recent[p]) => Doomed(c, recent[p]) \/ Top(p)
      PROVE  ViewsInv'
  <2>1. ViewsTypeOK'
    BY <1>a, <1>2 DEF ViewsTypeOK, viewVars
  <2>2. UNCHANGED <<recent, lastView>> /\ RecentRows' = RecentRows
    BY <1>2 DEF viewVars, RecentRows
  <2>3. \A p : Top(p)' <=> Top(p)
    BY <2>2 DEF Top, Above
  <2>4. ASSUME NEW p \in RecentRows, faults' = 0, ~Top(p)
        PROVE  \E v \in Worker : Doomed(call'[v], recent[p])
    <3>1. \E v \in Worker : Doomed(call[v], recent[p])
      BY <1>2, <2>4 DEF ViewsInv
    <3>2. Doomed(call[w], recent[p]) => Doomed(c, recent[p])
      BY <1>2, <2>4
    <3>3. QED
      BY <1>a, <1>2, <3>1, <3>2, DoomedStays
  <2>5. ASSUME NEW p \in RecentRows', faults' = 0
        PROVE  Top(p)' \/ \E v \in Worker : Doomed(call'[v], recent'[p])
    BY <2>2, <2>3, <2>4, <2>5
  <2>6. QED
    BY <1>2, <2>1, <2>2, <2>3, <2>5 DEF ViewsInv, Doomed
<1>0. ASSUME NEW w \in Worker, BeginView(w)
      PROVE  ViewsInv'
  <2>0. PICK n : n = Now
    OBVIOUS
  <2>1a. n \in 1 .. MaxViews
    BY <1>0, <2>0, NowType, ViewAssumption DEF BeginView
  <2>1b. \E p \in Viewed : call' = [call EXCEPT ![w] = [at |-> "record", product |-> p, viewedAt |-> n]]
    BY <1>0, <2>0 DEF BeginView
  <2>1. PICK p \in Viewed, now \in 1 .. MaxViews :
          call' = [call EXCEPT ![w] = [at |-> "record", product |-> p, viewedAt |-> now]]
    BY <2>1a, <2>1b
  <2>2. PICK c : c = [at |-> "record", product |-> p, viewedAt |-> now]
    OBVIOUS
  <2>3. c \in ViewCall /\ call' = [call EXCEPT ![w] = c]
    BY <2>1, <2>2 DEF ViewCall
  <2>4. \A r : ~Doomed(call[w], r)
    BY <1>0 DEF BeginView, Doomed
  <2>5. UNCHANGED viewVars /\ faults' = faults
    BY <1>0 DEF BeginView
  <2>6. c \in {Idle} \cup ViewCall
    BY <2>3
  <2>7. QED
    BY <1>a, <1>2, <2>3, <2>4, <2>5, <2>6
<1>3. ASSUME NEW w \in Worker, FindStale(w)
      PROVE  ViewsInv'
  <2>1. UNCHANGED viewVars /\ faults' = faults
    BY <1>3 DEF FindStale
  <2>2. CASE Stale = {} /\ Return(w)
    <3>1. \A p \in RecentRows : Top(p)
      BY <2>2, OthersAreStale
    <3>2. QED
      BY <1>2, <1>a, <2>1, <2>2, <3>1
  <2>3. CASE Become(w, [at |-> "deleteStale", ids |-> {recent[p]["id"] : p \in Stale}])
    <3>1. PICK c : c = [at |-> "deleteStale", ids |-> {recent[p]["id"] : p \in Stale}]
      OBVIOUS
    <3>2. \A p \in Stale : recent[p]["id"] \in 1 .. MaxViews
      BY <1>a DEF Stale, RecentRows, ViewsTypeOK, ViewRow
    <3>3. c \in ViewCall
      BY <3>1, <3>2 DEF ViewCall
    <3>4. \A p \in RecentRows : Doomed(c, recent[p]) \/ Top(p)
      BY <3>1, OthersAreStale DEF Doomed
    <3>5. QED
      BY <1>2, <1>a, <2>1, <2>3, <3>1, <3>3, <3>4
  <2>4. QED
    BY <1>3, <2>2, <2>3 DEF FindStale
<1>4. ASSUME NEW w \in Worker, DeleteStale(w)
      PROVE  ViewsInv'
  <2>1. PICK ids : ids = call[w].ids
    OBVIOUS
  <2>2. recent' = [p \in Viewed |-> IF p \in RecentRows /\ recent[p]["id"] \in ids THEN Nil ELSE recent[p]]
    BY <1>4, <2>1 DEF DeleteStale
  <2>3. call' = [call EXCEPT ![w] = Idle] /\ call[w].at = "deleteStale" /\ UNCHANGED <<lastView, faults>>
    BY <1>4 DEF DeleteStale
  <2>4. ViewsTypeOK'
    BY <1>a, <2>2, <2>3 DEF ViewsTypeOK
  <2>5. \A p \in Viewed : p \in RecentRows' <=> p \in RecentRows /\ recent[p]["id"] \notin ids
    BY <2>2 DEF RecentRows
  <2>6. \A p \in RecentRows' : p \in RecentRows /\ recent'[p] = recent[p] /\ recent[p]["id"] \notin ids
    BY <2>2, <2>5 DEF RecentRows
  <2>7. \A p : Top(p)' <=> Top(p)
    BY <2>3 DEF Top, Above
  <2>8. \A p \in RecentRows : recent[p]["id"] \in ids => ~Top(p)
    BY <2>1, <2>3, TopIsKept DEF ViewsClean
  <2>9. \A p \in Viewed : Top(p)' => p \in RecentRows'
    BY <2>5, <2>7, <2>8 DEF ViewsInv
  <2>10. ASSUME NEW p \in RecentRows', faults' = 0
         PROVE  Top(p)' \/ \E v \in Worker : Doomed(call'[v], recent'[p])
    <3> SUFFICES ASSUME ~Top(p)'
                 PROVE  \E v \in Worker : Doomed(call'[v], recent'[p])
      OBVIOUS
    <3>1. \E v \in Worker : Doomed(call[v], recent[p])
      BY <2>3, <2>6, <2>7, <2>10 DEF ViewsInv
    <3>2. ~Doomed(call[w], recent[p])
      BY <2>1, <2>3, <2>6 DEF Doomed
    <3>3. \E v \in Worker : Doomed(call'[v], recent[p])
      BY <1>a, <2>3, <3>1, <3>2, DoomedStays
    <3>4. QED
      BY <2>6, <3>3
  <2>11. \A p \in RecentRows' : recent'[p]["viewedAt"] = lastView'[p]
    BY <2>3, <2>6 DEF ViewsInv
  <2>12. QED
    BY <1>a, <2>3, <2>4, <2>9, <2>10, <2>11 DEF ViewsInv, Doomed
<1>5. ASSUME NEW w \in Worker, CutOff(w) /\ UNCHANGED viewVars
      PROVE  ViewsInv'
  <2>1. faults' \in Nat /\ faults' # 0
    BY <1>a, <1>5 DEF CutOff
  <2>2. QED
    BY <1>2, <1>5, <2>1 DEF CutOff
<1>6. CASE UNCHANGED viewsVars
  BY <1>6 DEF viewsVars, viewVars, callVars, ViewsInv, ViewsTypeOK, RecentRows, Top, Above, Doomed
<1>7. QED
  BY <1>0, <1>1, <1>3, <1>4, <1>5, <1>6 DEF ViewsNext

\* When every call has ended and none was cut off, the rows are those of the
\* products viewed most recently, as many as are kept (record): as long as no
\* row is viewed again between being found stale and its deletion, and no view
\* is written after a later one of its product, for any finite set of products
\* and any number of calls and rows.
THEOREM RecentStay == IsFiniteSet(Viewed) => (ViewsCleanSpec => []RecentKept)
<1> SUFFICES ASSUME IsFiniteSet(Viewed) PROVE ViewsCleanSpec => []RecentKept
  OBVIOUS
<1>1. ViewsInit => ViewsInv /\ ViewsClean
  <2>1. ViewsInit => ViewsClean
    BY DEF ViewsInit, CallsInit, Idle, ViewsClean, At
  <2>2. QED
    BY <2>1, ViewsInitInv
<1>2. ViewsInv /\ ViewsClean /\ [ViewsNext /\ ViewsClean']_viewsVars => ViewsInv' /\ ViewsClean'
  <2>1. ViewsClean /\ UNCHANGED viewsVars => ViewsClean'
    BY DEF ViewsClean, viewsVars, viewVars, callVars, At, RecentRows, Stale
  <2>2. QED
    BY <2>1, ViewsStep
<1>3. ViewsInv => RecentKept
  <2> SUFFICES ASSUME ViewsInv, NobodyCalls, faults = 0, NEW p \in Viewed
               PROVE  recent[p] # Nil <=> Top(p)
    BY DEF RecentKept, Top, Above
  <2>1. \A w \in Worker : ~Doomed(call[w], recent[p])
    BY DEF NobodyCalls, Idle, Doomed
  <2>2. QED
    BY <2>1 DEF ViewsInv, RecentRows
<1>4. QED
  BY <1>1, <1>2, <1>3, PTL DEF ViewsCleanSpec

-----------------------------------------------------------------------------
LEMMA ViewsTypeStep == ViewsTypeOK /\ [ViewsNext]_viewsVars => ViewsTypeOK'
<1> SUFFICES ASSUME ViewsTypeOK, [ViewsNext]_viewsVars
             PROVE  ViewsTypeOK'
  OBVIOUS
<1> USE DEF At, Begin, Become, Return
<1>1. ASSUME NEW w \in Worker, RecordView(w)
      PROVE  ViewsTypeOK'
  <2>1. PICK p \in Viewed, now \in 1 .. MaxViews :
          p = call[w].product /\ now = call[w].viewedAt
    BY <1>1, Viewing DEF RecordView
  <2>2. /\ recent' = [recent EXCEPT ![p] =
             [id |-> IF @ = Nil THEN now ELSE @.id, viewedAt |-> now]]
        /\ lastView' = [lastView EXCEPT ![p] = now]
    BY <1>1, <2>1 DEF RecordView
  <2>4. [id |-> IF recent[p] = Nil THEN now ELSE recent[p].id, viewedAt |-> now] \in ViewRow
    <3>1. recent[p] # Nil => recent[p].id \in 1 .. MaxViews
      BY DEF ViewsTypeOK, ViewRow
    <3>2. QED
      BY <2>1, <3>1 DEF ViewRow
  <2>5. recent' \in [Viewed -> ViewRow \cup {Nil}] /\ lastView' \in [Viewed -> 0 .. MaxViews]
    BY <2>1, <2>2, <2>4, ViewAssumption DEF ViewsTypeOK
  <2>6. [at |-> "findStale"] \in {Idle} \cup ViewCall
    BY DEF ViewCall
  <2>7. QED
    BY <1>1, <2>5, <2>6 DEF RecordView, ViewsTypeOK
<1>2. ASSUME NEW w \in Worker, FindStale(w)
      PROVE  ViewsTypeOK'
  <2>1. {recent[p].id : p \in Stale} \subseteq 1 .. MaxViews
    BY DEF Stale, RecentRows, ViewsTypeOK, ViewRow
  <2>2. [at |-> "deleteStale", ids |-> {recent[p].id : p \in Stale}] \in {Idle} \cup ViewCall
    BY <2>1 DEF ViewCall
  <2>3. QED
    BY <1>2, <2>2 DEF FindStale, viewVars, ViewsTypeOK
<1>3. ASSUME NEW w \in Worker, DeleteStale(w)
      PROVE  ViewsTypeOK'
  BY <1>3 DEF DeleteStale, ViewsTypeOK
<1>4. ASSUME NEW w \in Worker, CutOff(w), UNCHANGED viewVars
      PROVE  ViewsTypeOK'
  BY <1>4 DEF CutOff, viewVars, ViewsTypeOK
<1>5. ASSUME NEW w \in Worker, BeginView(w)
      PROVE  ViewsTypeOK'
  <2>0. PICK n : n = Now
    OBVIOUS
  <2>1a. n \in 1 .. MaxViews
    BY <1>5, <2>0, NowType, ViewAssumption DEF BeginView
  <2>1b. \E p \in Viewed : call' = [call EXCEPT ![w] = [at |-> "record", product |-> p, viewedAt |-> n]]
    BY <1>5, <2>0 DEF BeginView
  <2>1. PICK p \in Viewed, now \in 1 .. MaxViews :
          call' = [call EXCEPT ![w] = [at |-> "record", product |-> p, viewedAt |-> now]]
    BY <2>1a, <2>1b
  <2>2. [at |-> "record", product |-> p, viewedAt |-> now] \in {Idle} \cup ViewCall
    BY DEF ViewCall
  <2>3. QED
    BY <1>5, <2>1, <2>2 DEF BeginView, viewVars, ViewsTypeOK
<1>6. CASE UNCHANGED viewsVars
  BY <1>6 DEF viewsVars, viewVars, callVars, ViewsTypeOK
<1>7. QED
  BY <1>1, <1>2, <1>3, <1>4, <1>5, <1>6 DEF ViewsNext

LEMMA ViewsInitType == ViewsInit => ViewsTypeOK
  BY ViewsInitInv DEF ViewsInv

\* The rows of viewed products and the ids a clean-up has looked up stay of
\* their types, in all runs (ViewsTypeOK).
THEOREM ViewsTypeCorrect == ViewsSpec => []ViewsTypeOK
  BY ViewsInitType, ViewsTypeStep, PTL DEF ViewsSpec

=============================================================================
