---------------------------- MODULE ReturnsProofs ----------------------------
(***************************************************************************)
(* Theorems about Returns, for any number of requests and workers, any     *)
(* quantity bought and any number of faults.                               *)
(***************************************************************************)
EXTENDS Returns, SumLemmas, TLAPS

-----------------------------------------------------------------------------
(* Type correctness *)

\* A worker has a request in hand exactly while it handles a call.
Busy == \A w \in Worker : IF pc[w] = "idle" THEN task[w] = Nil ELSE task[w] \in Request

TypeInv == TypeOK /\ Busy

\* Nothing is reserved and nobody is at work in the initial state.
LEMMA InitTypeInv == Init => TypeInv
  BY BoughtAssumption DEF Init, TypeInv, TypeOK, Busy, Status, Review, Label, Empty

\* What a handler releases has the id of a reservation or of a row.
LEMMA IdType == \A r \in Request : ReservationId(r) \in Id /\ RowId(r) \in Id
  BY DEF Id

\* Every handler keeps the types, and its request in hand.
LEMMA TypeStep == TypeInv /\ [Next]_vars => TypeInv'
<1> SUFFICES ASSUME TypeInv, [Next]_vars PROVE TypeInv'
  OBVIOUS
<1> USE BoughtAssumption, NilAssumption
    DEF TypeInv, TypeOK, Busy, Status, Review, Label, Empty, requestVars, locals,
        Begin, Goto, Finish, Release, Decide
<1>1. ASSUME NEW w \in Worker, File(w) PROVE TypeInv'
  BY <1>1 DEF File
<1>2. ASSUME NEW w \in Worker, Reserve(w) PROVE TypeInv'
  <2>1. CASE HasRoom(w)
    <3>1. /\ pc[w] = "reserve" /\ Goto(w, "insert")
          /\ reserved' = [reserved EXCEPT ![task[w]] = asked[w]]
          /\ UNCHANGED <<requestVars, locals, faults>>
      BY <1>2, <2>1 DEF Reserve
    <3>2. QED
      BY <1>2, <2>1, <3>1
  <2>2. CASE ~HasRoom(w)
    <3>1. pc[w] = "reserve" /\ Finish(w) /\ UNCHANGED <<reserved, requestVars, faults>>
      BY <1>2, <2>2 DEF Reserve
    <3>2. QED
      BY <1>2, <2>2, <3>1
  <2>3. QED
    BY <1>2, <2>1, <2>2 DEF Reserve
<1>3. ASSUME NEW w \in Worker, InsertRequest(w) PROVE TypeInv'
  BY <1>3 DEF InsertRequest
<1>4. ASSUME NEW w \in Worker, InsertRequestFails(w) PROVE TypeInv'
  BY <1>4, IdType DEF InsertRequestFails
<1>5. ASSUME NEW w \in Worker, ReleaseFind(w) PROVE TypeInv'
  BY <1>5 DEF ReleaseFind, Remaining
<1>6. ASSUME NEW w \in Worker, ReleaseWrite(w) PROVE TypeInv'
  BY <1>6 DEF ReleaseWrite
<1>7. ASSUME NEW w \in Worker, Withdraw(w) PROVE TypeInv'
  BY <1>7, IdType DEF Withdraw
<1>8. ASSUME NEW w \in Worker, SellerReviews(w) PROVE TypeInv'
  BY <1>8 DEF SellerReviews
<1>9. ASSUME NEW w \in Worker, SellerDecides(w) PROVE TypeInv'
  BY <1>9 DEF SellerDecides
<1>10. ASSUME NEW w \in Worker, AdminFinds(w) PROVE TypeInv'
  BY <1>10 DEF AdminFinds
<1>11. ASSUME NEW w \in Worker, AdminReads(w) PROVE TypeInv'
  <2>1. CASE pc[w] = "approve?" /\ Decidable(task[w])
    <3>1. Goto(w, "approve") /\ UNCHANGED locals /\ UNCHANGED <<reserved, requestVars, faults>>
      BY <1>11, <2>1 DEF AdminReads
    <3>2. QED
      BY <1>11, <2>1, <3>1
  <2>2. CASE pc[w] = "reject?" /\ Decidable(task[w])
    <3>1. Goto(w, "reject") /\ UNCHANGED locals /\ UNCHANGED <<reserved, requestVars, faults>>
      BY <1>11, <2>2 DEF AdminReads
    <3>2. QED
      BY <1>11, <2>2, <3>1
  <2>3. CASE ~Decidable(task[w])
    <3>1. pc[w] \in {"approve?", "reject?"} /\ Finish(w) /\ UNCHANGED <<reserved, requestVars, faults>>
      BY <1>11, <2>3 DEF AdminReads
    <3>2. QED
      BY <1>11, <2>3, <3>1
  <2>4. QED
    BY <1>11, <2>1, <2>2, <2>3 DEF AdminReads
<1>12. ASSUME NEW w \in Worker, AdminDecides(w) PROVE TypeInv'
  <2>1. CASE pc[w] = "approve"
    <3>1. /\ Finish(w)
          /\ Decide(task[w], "approved") /\ overridden' = [overridden EXCEPT ![task[w]] = TRUE]
          /\ UNCHANGED <<reserved, quantity, review, refund, faults>>
      BY <1>12, <2>1 DEF AdminDecides
    <3>2. QED
      BY <1>12, <2>1, <3>1
  <2>2. CASE pc[w] = "reject"
    <3>1. /\ Release(w, RowId(task[w])) /\ UNCHANGED <<task, asked, list>>
          /\ Decide(task[w], "rejected") /\ overridden' = [overridden EXCEPT ![task[w]] = TRUE]
          /\ UNCHANGED <<reserved, quantity, review, refund, faults>>
      BY <1>12, <2>2 DEF AdminDecides
    <3>2. QED
      BY <1>12, <2>2, <3>1, IdType
  <2>3. QED
    BY <1>12, <2>1, <2>2 DEF AdminDecides
<1>13. ASSUME NEW r \in Request, StartRefund(r) PROVE TypeInv'
  BY <1>13 DEF StartRefund
<1>14. ASSUME NEW r \in Request, CompleteRefund(r) PROVE TypeInv'
  BY <1>14 DEF CompleteRefund
<1>15. ASSUME NEW w \in Worker, Abort(w) PROVE TypeInv'
  BY <1>15 DEF Abort
<1>16. CASE UNCHANGED vars
  BY <1>16 DEF vars, requestVars, locals
<1>17. QED
  BY <1>1, <1>2, <1>3, <1>4, <1>5, <1>6, <1>7, <1>8, <1>9,
     <1>10, <1>11, <1>12, <1>13, <1>14, <1>15, <1>16 DEF Next

\* Rows and handlers keep their types.
THEOREM TypeCorrect == Spec => []TypeOK
<1>1. TypeInv => TypeOK
  BY DEF TypeInv
<1>2. QED
  BY InitTypeInv, TypeStep, <1>1, PTL DEF Spec

-----------------------------------------------------------------------------
(* Approval only after the seller's review *)

\* A handler on its way to a decision has seen the review, which is not undone.
SeenReview == \A w \in Worker :
    pc[w] \in {"final", "approve?", "approve"} => review[task[w]] # "pending"

\* A request with a refund was approved.
RefundReviewed == \A r \in Request : refund[r] # "none" =>
    review[r] # "pending" /\ overridden[r]

ReviewFacts == SeenReview /\ RefundReviewed /\ ApprovedWasReviewed

ReviewInv == TypeInv /\ ReviewFacts

\* Nothing is approved in the initial state.
LEMMA InitReviewInv == Init => ReviewInv
  BY InitTypeInv DEF Init, ReviewInv, ReviewFacts, SeenReview, RefundReviewed, ApprovedWasReviewed

\* No handler approves before the review, or over a rejection without an admin.
LEMMA ReviewStep == ReviewInv /\ [Next]_vars => ReviewInv'
<1> SUFFICES ASSUME ReviewInv, [Next]_vars
             PROVE ReviewFacts'
  BY TypeStep DEF ReviewInv
<1> USE NilAssumption
    DEF ReviewInv, ReviewFacts, TypeInv, TypeOK, Busy, Status, Review, Label, SeenReview,
        RefundReviewed, ApprovedWasReviewed, requestVars, locals, Begin, Goto, Finish, Release, Decide
<1>1. ASSUME NEW w \in Worker, File(w) PROVE ReviewFacts'
  BY <1>1 DEF File
<1>2. ASSUME NEW w \in Worker, Reserve(w) PROVE ReviewFacts'
  BY <1>2 DEF Reserve
<1>3. ASSUME NEW w \in Worker, InsertRequest(w) PROVE ReviewFacts'
  BY <1>3 DEF InsertRequest
<1>4. ASSUME NEW w \in Worker, InsertRequestFails(w) PROVE ReviewFacts'
  BY <1>4 DEF InsertRequestFails
<1>5. ASSUME NEW w \in Worker, ReleaseFind(w) PROVE ReviewFacts'
  BY <1>5 DEF ReleaseFind
<1>6. ASSUME NEW w \in Worker, ReleaseWrite(w) PROVE ReviewFacts'
  BY <1>6 DEF ReleaseWrite
<1>7. ASSUME NEW w \in Worker, Withdraw(w) PROVE ReviewFacts'
  BY <1>7 DEF Withdraw
<1>8. ASSUME NEW w \in Worker, SellerReviews(w) PROVE ReviewFacts'
  BY <1>8 DEF SellerReviews
<1>9. ASSUME NEW w \in Worker, SellerDecides(w) PROVE ReviewFacts'
  BY <1>9 DEF SellerDecides
<1>10. ASSUME NEW w \in Worker, AdminFinds(w) PROVE ReviewFacts'
  BY <1>10 DEF AdminFinds
<1>11. ASSUME NEW w \in Worker, AdminReads(w) PROVE ReviewFacts'
  BY <1>11 DEF AdminReads
<1>12. ASSUME NEW w \in Worker, AdminDecides(w) PROVE ReviewFacts'
  <2>1. CASE pc[w] = "approve"
    <3>1. /\ Finish(w)
          /\ Decide(task[w], "approved") /\ overridden' = [overridden EXCEPT ![task[w]] = TRUE]
          /\ UNCHANGED <<review, refund>>
      BY <1>12, <2>1 DEF AdminDecides
    <3>2. QED
      BY <1>12, <2>1, <3>1
  <2>2. CASE pc[w] = "reject"
    <3>1. /\ Release(w, RowId(task[w])) /\ UNCHANGED task
          /\ Decide(task[w], "rejected") /\ overridden' = [overridden EXCEPT ![task[w]] = TRUE]
          /\ UNCHANGED <<review, refund>>
      BY <1>12, <2>2 DEF AdminDecides
    <3>2. QED
      BY <1>12, <2>2, <3>1
  <2>3. QED
    BY <1>12, <2>1, <2>2 DEF AdminDecides
<1>13. ASSUME NEW r \in Request, StartRefund(r) PROVE ReviewFacts'
  BY <1>13 DEF StartRefund
<1>14. ASSUME NEW r \in Request, CompleteRefund(r) PROVE ReviewFacts'
  BY <1>14 DEF CompleteRefund
<1>15. ASSUME NEW w \in Worker, Abort(w) PROVE ReviewFacts'
  BY <1>15 DEF Abort
<1>16. CASE UNCHANGED vars
  BY <1>16 DEF vars, requestVars, locals
<1>17. QED
  BY <1>1, <1>2, <1>3, <1>4, <1>5, <1>6, <1>7, <1>8, <1>9,
     <1>10, <1>11, <1>12, <1>13, <1>14, <1>15, <1>16 DEF Next

\* "Each affected seller must review their item before admin approval"
\* (adminDecision): however the handlers interleave, an approved request has
\* been reviewed, and a rejected one is approved by an admin only.
THEOREM ApprovalFollowsReview == Spec => []ApprovedWasReviewed
<1>1. ReviewInv => ApprovedWasReviewed
  BY DEF ReviewInv, ReviewFacts
<1>2. QED
  BY InitReviewInv, ReviewStep, <1>1, PTL DEF Spec

-----------------------------------------------------------------------------
(* Open requests are reserved for, as long as nothing is written over *)

\* A request being filed, or taken back by the handler that was filing it.
Filing(w) ==
    \/ pc[w] \in {"reserve", "insert"}
    \/ pc[w] \in {"release", "rewrite"} /\ key[w] = ReservationId(task[w])

\* It is not in the table yet, no other handler has it, and what its handler
\* asks for is reserved before it is inserted.
FilingAlone == \A w \in Worker :
    /\ Filing(w) =>
        status[task[w]] = "none" /\ \A v \in Worker : task[v] = task[w] => v = w
    /\ pc[w] = "insert" => reserved[task[w]] = asked[w]

\* A handler releases the quantity of its own request or, by the row's id, none.
ReleasesOwn == \A w \in Worker :
    pc[w] \in {"release", "rewrite"} => key[w] \in {ReservationId(task[w]), RowId(task[w])}

\* A request that is decided, or has a refund, is in the table.
DecidesStored ==
    /\ \A w \in Worker :
        pc[w] \in {"final", "approve?", "reject?", "approve", "reject"} => status[task[w]] # "none"
    /\ \A r \in Request : refund[r] # "none" => status[r] # "none"

\* Of what is in the table all is reserved, also once it is withdrawn or refused.
StoredIsReserved == \A r \in Request : status[r] # "none" => reserved[r] = quantity[r]

ReservedFacts == FilingAlone /\ ReleasesOwn /\ DecidesStored /\ StoredIsReserved

ReservedInv == TypeInv /\ Clean /\ ReservedFacts

\* The id of a reservation is the id of one request, and of no row.
LEMMA RemainingOthers ==
  ASSUME NEW r \in Request
  PROVE /\ Remaining(RowId(r)) = [s \in Request |-> reserved[s]]
        /\ Remaining(ReservationId(r)) = [s \in Request |-> IF s = r THEN 0 ELSE reserved[s]]
        /\ RowId(r) # ReservationId(r)
  BY DEF Remaining, RowId, ReservationId

\* Nothing is open in the initial state.
LEMMA InitReservedInv == Init /\ Clean => ReservedInv
  BY InitTypeInv DEF Init, ReservedInv, ReservedFacts, FilingAlone, Filing, ReleasesOwn,
                     DecidesStored, StoredIsReserved

\* Handlers that do not write over each other keep open requests reserved for.
LEMMA ReservedStep == ReservedInv /\ [Next /\ Clean']_vars => ReservedInv'
<1> SUFFICES ASSUME ReservedInv, Next \/ UNCHANGED vars, Clean'
             PROVE ReservedFacts'
  <2>1. ReservedInv /\ UNCHANGED vars => Clean'
    BY DEF ReservedInv, Clean, Remaining, vars, requestVars, locals
  <2>2. QED
    BY <2>1, TypeStep DEF ReservedInv
<1> USE NilAssumption
    DEF ReservedInv, ReservedFacts, TypeInv, TypeOK, Busy, Status, Review, Label,
        FilingAlone, Filing, ReleasesOwn, DecidesStored, StoredIsReserved, requestVars, locals,
        Begin, Goto, Finish, Release, Decide
<1>1. ASSUME NEW w \in Worker, File(w) PROVE ReservedFacts'
  BY <1>1 DEF File
<1>2. ASSUME NEW w \in Worker, Reserve(w) PROVE ReservedFacts'
  <2>1. CASE HasRoom(w)
    <3>1. /\ pc[w] = "reserve" /\ Goto(w, "insert")
          /\ reserved' = [reserved EXCEPT ![task[w]] = asked[w]]
          /\ UNCHANGED <<requestVars, locals, faults>>
      BY <1>2, <2>1 DEF Reserve
    <3>2. QED
      BY <1>2, <2>1, <3>1
  <2>2. CASE ~HasRoom(w)
    <3>1. pc[w] = "reserve" /\ Finish(w) /\ UNCHANGED <<reserved, requestVars, faults>>
      BY <1>2, <2>2 DEF Reserve
    <3>2. QED
      BY <1>2, <2>2, <3>1
  <2>3. QED
    BY <1>2, <2>1, <2>2 DEF Reserve
<1>3. ASSUME NEW w \in Worker, InsertRequest(w) PROVE ReservedFacts'
  BY <1>3 DEF InsertRequest
<1>4. ASSUME NEW w \in Worker, InsertRequestFails(w) PROVE ReservedFacts'
  BY <1>4, RemainingOthers DEF InsertRequestFails
<1>5. ASSUME NEW w \in Worker, ReleaseFind(w) PROVE ReservedFacts'
  BY <1>5 DEF ReleaseFind
<1>6. ASSUME NEW w \in Worker, ReleaseWrite(w) PROVE ReservedFacts'
  <2>1. list[w] = Remaining(key[w]) /\ task[w] \in Request
    BY <1>6 DEF ReleaseWrite, Clean
  <2>2. CASE key[w] = RowId(task[w])
    <3>1. reserved' = reserved
      BY <1>6, <2>1, <2>2, RemainingOthers DEF ReleaseWrite
    <3>2. QED
      BY <1>6, <3>1 DEF ReleaseWrite
  <2>3. CASE key[w] = ReservationId(task[w])
    <3>1. reserved' = [r \in Request |-> IF r = task[w] THEN 0 ELSE reserved[r]]
      BY <1>6, <2>1, <2>3, RemainingOthers DEF ReleaseWrite
    <3>2. status[task[w]] = "none" /\ \A v \in Worker : task[v] = task[w] => v = w
      BY <1>6, <2>3 DEF ReleaseWrite
    <3>3. QED
      BY <1>6, <3>1, <3>2 DEF ReleaseWrite
  <2>4. QED
    BY <1>6, <2>2, <2>3 DEF ReleaseWrite
<1>7. ASSUME NEW w \in Worker, Withdraw(w) PROVE ReservedFacts'
  BY <1>7, RemainingOthers DEF Withdraw
<1>8. ASSUME NEW w \in Worker, SellerReviews(w) PROVE ReservedFacts'
  BY <1>8 DEF SellerReviews
<1>9. ASSUME NEW w \in Worker, SellerDecides(w) PROVE ReservedFacts'
  BY <1>9 DEF SellerDecides
<1>10. ASSUME NEW w \in Worker, AdminFinds(w) PROVE ReservedFacts'
  BY <1>10 DEF AdminFinds
<1>11. ASSUME NEW w \in Worker, AdminReads(w) PROVE ReservedFacts'
  <2>1. CASE pc[w] = "approve?" /\ Decidable(task[w])
    <3>1. Goto(w, "approve") /\ UNCHANGED locals /\ UNCHANGED <<reserved, requestVars, faults>>
      BY <1>11, <2>1 DEF AdminReads
    <3>2. QED
      BY <1>11, <2>1, <3>1
  <2>2. CASE pc[w] = "reject?" /\ Decidable(task[w])
    <3>1. Goto(w, "reject") /\ UNCHANGED locals /\ UNCHANGED <<reserved, requestVars, faults>>
      BY <1>11, <2>2 DEF AdminReads
    <3>2. QED
      BY <1>11, <2>2, <3>1
  <2>3. CASE ~Decidable(task[w])
    <3>1. pc[w] \in {"approve?", "reject?"} /\ Finish(w) /\ UNCHANGED <<reserved, requestVars, faults>>
      BY <1>11, <2>3 DEF AdminReads
    <3>2. QED
      BY <1>11, <2>3, <3>1
  <2>4. QED
    BY <1>11, <2>1, <2>2, <2>3 DEF AdminReads
<1>12. ASSUME NEW w \in Worker, AdminDecides(w) PROVE ReservedFacts'
  <2>1. CASE pc[w] = "approve"
    <3>1. /\ Finish(w)
          /\ Decide(task[w], "approved") /\ overridden' = [overridden EXCEPT ![task[w]] = TRUE]
          /\ UNCHANGED <<reserved, quantity, review, refund, faults>>
      BY <1>12, <2>1 DEF AdminDecides
    <3>2. QED
      BY <1>12, <2>1, <3>1
  <2>2. CASE pc[w] = "reject"
    <3>1. /\ Release(w, RowId(task[w])) /\ UNCHANGED <<task, asked, list>>
          /\ Decide(task[w], "rejected") /\ overridden' = [overridden EXCEPT ![task[w]] = TRUE]
          /\ UNCHANGED <<reserved, quantity, review, refund, faults>>
      BY <1>12, <2>2 DEF AdminDecides
    <3>2. QED
      BY <1>12, <2>2, <3>1, RemainingOthers
  <2>3. QED
    BY <1>12, <2>1, <2>2 DEF AdminDecides
<1>13. ASSUME NEW r \in Request, StartRefund(r) PROVE ReservedFacts'
  BY <1>13 DEF StartRefund
<1>14. ASSUME NEW r \in Request, CompleteRefund(r) PROVE ReservedFacts'
  BY <1>14 DEF CompleteRefund
<1>15. ASSUME NEW w \in Worker, Abort(w) PROVE ReservedFacts'
  BY <1>15 DEF Abort
<1>16. CASE UNCHANGED vars
  BY <1>16 DEF vars, requestVars, locals
<1>17. QED
  BY <1>1, <1>2, <1>3, <1>4, <1>5, <1>6, <1>7, <1>8, <1>9,
     <1>10, <1>11, <1>12, <1>13, <1>14, <1>15, <1>16 DEF Next

\* Every open request keeps its quantity set aside on the order row, whatever
\* is filed, withdrawn, decided and refunded meanwhile, as long as no handler
\* writes over what another one has written.
THEOREM OpenStaysReserved == CleanSpec => []OpenIsReserved
<1>1. Init => Clean
  BY DEF Init, Clean
<1>2. ReservedInv => OpenIsReserved
  BY DEF ReservedInv, ReservedFacts, StoredIsReserved, OpenIsReserved, Open
<1>3. QED
  BY InitReservedInv, ReservedStep, <1>1, <1>2, PTL DEF CleanSpec

-----------------------------------------------------------------------------
(* The open requests together return no more than was bought *)

RoomKept == SumFunction(reserved) <= Bought

\* A new reservation adds what it is for, in the place of what was reserved.
LEMMA ReservedGrows ==
  ASSUME IsFiniteSet(Request), TypeInv, RoomKept, NEW w \in Worker, Reserve(w), HasRoom(w)
  PROVE  RoomKept'
<1> DEFINE r == task[w]
<1>1. r \in Request /\ asked[w] \in 0 .. Bought /\ Bought \in Nat
  BY BoughtAssumption DEF TypeInv, TypeOK, Busy, Reserve
<1>2. DOMAIN reserved = Request /\ DOMAIN reserved' = Request
  BY DEF TypeInv, TypeOK, Reserve
<1>3. \A q \in Request : reserved[q] \in 0 .. Bought
  BY DEF TypeInv, TypeOK
<1>4. reserved'[r] = asked[w] /\ \A q \in Request \ {r} : reserved'[q] = reserved[q]
  BY <1>1, <1>2 DEF Reserve
<1>5. SumFunctionOnSet(reserved', Request)
        = SumFunctionOnSet(reserved, Request) - reserved[r] + reserved'[r]
  <2>1. (\A q \in Request : reserved[q] \in Int) /\ reserved'[r] \in Int
    BY <1>1, <1>3, <1>4
  <2>2. QED
    BY <1>1, <1>4, <2>1, SumOneChanged
<1>6. SumFunctionOnSet(reserved, Request) \in Nat
  BY <1>3, BoughtAssumption, SumType
<1>7. SumFunctionOnSet(reserved, Request) + asked[w] <= Bought
  BY <1>2 DEF HasRoom, SumFunction
<1>8. SumFunctionOnSet(reserved', Request) <= Bought
  BY <1>1, <1>3, <1>4, <1>5, <1>6, <1>7
<1>9. QED
  BY <1>2, <1>8 DEF RoomKept, SumFunction

\* A release leaves no reservation larger than it was.
LEMMA ReservedShrinks ==
  ASSUME IsFiniteSet(Request), TypeInv, TypeInv', RoomKept,
         NEW id, reserved' = Remaining(id)
  PROVE  RoomKept'
<1>1. DOMAIN reserved = Request /\ DOMAIN reserved' = Request
  BY DEF TypeInv, TypeOK
<1>2. \A q \in Request : reserved[q] \in Nat /\ reserved'[q] \in Nat /\ reserved'[q] <= reserved[q]
  BY BoughtAssumption DEF TypeInv, TypeOK, Remaining
<1>3. SumFunctionOnSet(reserved', Request) <= SumFunctionOnSet(reserved, Request)
  BY <1>2, SumAtMost
<1>4. SumFunctionOnSet(reserved', Request) \in Nat /\ SumFunctionOnSet(reserved, Request) \in Nat
  BY <1>2, SumType
<1>5. QED
  BY <1>1, <1>3, <1>4, BoughtAssumption DEF RoomKept, SumFunction

\* No handler of CleanSpec reserves more than was bought: one that reserves sees
\* all that is reserved, and one that releases writes what it should.
LEMMA RoomStep ==
  ASSUME IsFiniteSet(Request), ReservedInv, RoomKept, [Next /\ Clean']_vars PROVE RoomKept'
<1>1. TypeInv /\ TypeInv'
  BY TypeStep DEF ReservedInv
<1>2. ASSUME NEW w \in Worker, Reserve(w) PROVE RoomKept'
  <2>1. CASE HasRoom(w)
    BY <1>1, <1>2, <2>1, ReservedGrows
  <2>2. CASE ~HasRoom(w)
    BY <1>2, <2>2 DEF Reserve, RoomKept
  <2>3. QED
    BY <2>1, <2>2
<1>3. ASSUME NEW w \in Worker, ReleaseWrite(w) PROVE RoomKept'
  <2>1. reserved' = Remaining(key[w])
    BY <1>3 DEF ReleaseWrite, ReservedInv, Clean
  <2>2. QED
    BY <1>1, <2>1, ReservedShrinks
<1>4. CASE UNCHANGED reserved
  BY <1>4 DEF RoomKept
<1>5. QED
  BY <1>2, <1>3, <1>4
     DEF Next, vars, File, InsertRequest, InsertRequestFails, ReleaseFind, Withdraw, SellerReviews,
         SellerDecides, AdminFinds, AdminReads, AdminDecides, StartRefund, CompleteRefund, Abort

\* What the open requests return is reserved, so it is within what was bought.
LEMMA OpenWithinReserved ==
  ASSUME IsFiniteSet(Request), TypeInv, OpenIsReserved, RoomKept PROVE ReturnsWithinBought
<1> DEFINE Opened == {r \in Request : Open(r)}
<1>1. IsFiniteSet(Opened) /\ Opened \in SUBSET Request
  BY FS_Subset
<1>2. \A r \in Request : reserved[r] \in Nat
  BY BoughtAssumption DEF TypeInv, TypeOK
<1>3. SumFunctionOnSet(quantity, Opened) = SumFunctionOnSet(reserved, Opened)
  <2>1. \A r \in Opened : quantity[r] = reserved[r]
    BY DEF OpenIsReserved
  <2>2. QED
    BY <1>1, <2>1, SumSame
<1>4. SumFunctionOnSet(reserved, Opened) <= SumFunctionOnSet(reserved, Request)
  <2>1. \A r \in Request : reserved[r] \in Nat /\ reserved[r] <= reserved[r]
    BY <1>2
  <2>2. QED
    BY <1>1, <2>1, SumAtMost
<1>5. /\ SumFunctionOnSet(reserved, Opened) \in Nat
      /\ SumFunctionOnSet(reserved, Request) \in Nat
  <2>1. \A r \in Opened : reserved[r] \in Nat
    BY <1>2
  <2>2. QED
    BY <1>1, <1>2, <2>1, SumType
<1>6. SumFunctionOnSet(reserved, Request) <= Bought
  BY DEF RoomKept, SumFunction, TypeInv, TypeOK
<1>7. QED
  BY <1>3, <1>4, <1>5, <1>6, BoughtAssumption DEF ReturnsWithinBought

\* "Requested quantity exceeds the quantity still eligible for return": the open
\* requests together never return more than was bought, in the runs in which no
\* handler writes over what another one has written.
THEOREM NeverMoreThanBought ==
  ASSUME IsFiniteSet(Request) PROVE CleanSpec => []ReturnsWithinBought
<1>1. Init => Clean
  BY DEF Init, Clean
<1>2. Init => RoomKept
  <2> SUFFICES ASSUME Init PROVE RoomKept
    OBVIOUS
  <2>1. DOMAIN reserved = Request /\ \A r \in Request : reserved[r] = 0
    BY DEF Init, Empty
  <2>2. SumFunctionOnSet(reserved, Request) = 0
    BY <2>1, SumOfZeros
  <2>3. QED
    BY <2>1, <2>2, BoughtAssumption DEF RoomKept, SumFunction
<1>3. ReservedInv /\ RoomKept /\ [Next /\ Clean']_vars => RoomKept'
  BY RoomStep
<1>4. ReservedInv /\ RoomKept => ReturnsWithinBought
  BY OpenWithinReserved
     DEF ReservedInv, ReservedFacts, StoredIsReserved, OpenIsReserved, Open
<1>5. QED
  BY InitReservedInv, ReservedStep, <1>1, <1>2, <1>3, <1>4, PTL DEF CleanSpec
=============================================================================
