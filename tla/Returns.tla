------------------------------ MODULE Returns ------------------------------
(***************************************************************************)
(* Item returns of one line of a delivered order (returns.service.ts): the *)
(* quantities set aside for them on the order row (orders.repository.ts),  *)
(* the seller's review, the admin's decision, the buyer's withdrawal.      *)
(*                                                                         *)
(* Workers, awaits, faults and "Slip:" are as in Refunds, which also has   *)
(* what happens to the money once a request is approved.                   *)
(***************************************************************************)
EXTENDS Integers, Functions

CONSTANTS
    Request,        \* return requests that can be filed; bounds the run
    Nil,
    Worker,         \* concurrent handler calls
    Bought,         \* the quantity on the order line
    MaxFaults       \* how many faults a run may contain

ASSUME BoughtAssumption == Bought \in Nat \ {0}
ASSUME NilAssumption == Nil \notin Request

VARIABLES
    reserved,                           \* order.returnQuantityReservations
    status, quantity, review, refund,   \* return request rows
    overridden,                         \* adminOverrideBy is set
    pc, task, asked, key, list,         \* workers: program counter and locals
    faults

requestVars == <<status, quantity, review, refund, overridden>>
locals == <<task, asked, key, list>>
vars == <<reserved, requestVars, pc, locals, faults>>

-----------------------------------------------------------------------------
Status == {"none", "pending", "approved", "rejected", "cancelled", "completed"}
Review == {"pending", "approved", "rejected"}
Label == {"idle", "reserve", "insert", "release", "rewrite", "final",
          "approve?", "reject?", "approve", "reject"}

\* create draws an id and reserves under it; the repository draws another one
\* for the row.
ReservationId(r) == <<"reservation", r>>
RowId(r) == <<"row", r>>

Id == {ReservationId(r) : r \in Request} \cup {RowId(r) : r \in Request}

Empty == [r \in Request |-> 0]

TypeOK ==
    /\ reserved \in [Request -> 0 .. Bought]
    /\ status \in [Request -> Status]
    /\ quantity \in [Request -> 0 .. Bought]
    /\ review \in [Request -> Review]
    /\ refund \in [Request -> {"none", "started", "completed"}]
    /\ overridden \in [Request -> BOOLEAN]
    /\ pc \in [Worker -> Label]
    /\ task \in [Worker -> Request \cup {Nil}]
    /\ asked \in [Worker -> 0 .. Bought]
    /\ key \in [Worker -> Id \cup {Nil}]
    /\ list \in [Worker -> [Request -> 0 .. Bought]]
    /\ faults \in Nat

\* The order is delivered, and nothing has been returned.
Init ==
    /\ reserved = Empty
    /\ status = [r \in Request |-> "none"]
    /\ quantity = Empty
    /\ review = [r \in Request |-> "pending"]
    /\ refund = [r \in Request |-> "none"]
    /\ overridden = [r \in Request |-> FALSE]
    /\ pc = [w \in Worker |-> "idle"]
    /\ task = [w \in Worker |-> Nil]
    /\ asked = [w \in Worker |-> 0]
    /\ key = [w \in Worker |-> Nil]
    /\ list = [w \in Worker |-> Empty]
    /\ faults = 0

-----------------------------------------------------------------------------
Goto(w, label) == pc' = [pc EXCEPT ![w] = label]

Begin(w, label, r) ==
    /\ pc[w] = "idle"
    /\ Goto(w, label)
    /\ task' = [task EXCEPT ![w] = r]

\* The handler returns or throws: its locals are dead.
Finish(w) ==
    /\ Goto(w, "idle")
    /\ task' = [task EXCEPT ![w] = Nil]
    /\ asked' = [asked EXCEPT ![w] = 0]
    /\ key' = [key EXCEPT ![w] = Nil]
    /\ list' = [list EXCEPT ![w] = Empty]

\* Release the reservation made under id.
Release(w, id) ==
    /\ Goto(w, "release")
    /\ key' = [key EXCEPT ![w] = id]

Decide(r, st) == status' = [status EXCEPT ![r] = st]

-----------------------------------------------------------------------------
(***************************************************************************)
(* create, for an item return: the checks ...                              *)
(***************************************************************************)
File(w) ==
    /\ \E r \in Request : \E q \in 1 .. Bought :
        /\ status[r] = "none" /\ reserved[r] = 0
        /\ \A v \in Worker : task[v] # r
        /\ Begin(w, "reserve", r)
        /\ asked' = [asked EXCEPT ![w] = q]
    /\ UNCHANGED <<reserved, requestVars, key, list, faults>>

\* Slip: the quantity is compared with what was bought, and with nothing else.
HasRoomAlone(w) == asked[w] <= Bought

HasRoom(w) == SumFunction(reserved) + asked[w] <= Bought

\* ... reserveReturnQuantity, under the row lock ...
Reserve(w) ==
    /\ pc[w] = "reserve"
    /\ \/ /\ HasRoom(w)
          /\ reserved' = [reserved EXCEPT ![task[w]] = asked[w]]
          /\ Goto(w, "insert")
          /\ UNCHANGED locals
       \/ ~HasRoom(w) /\ Finish(w) /\ UNCHANGED reserved
    /\ UNCHANGED <<requestVars, faults>>

\* ... and the request.
InsertRequest(w) ==
    /\ pc[w] = "insert"
    /\ Decide(task[w], "pending")
    /\ quantity' = [quantity EXCEPT ![task[w]] = asked[w]]
    /\ Finish(w)
    /\ UNCHANGED <<reserved, review, refund, overridden, faults>>

InsertRequestFails(w) ==
    /\ pc[w] = "insert"
    /\ faults < MaxFaults
    /\ faults' = faults + 1
    /\ Release(w, ReservationId(task[w]))
    /\ UNCHANGED <<reserved, requestVars, task, asked, list>>

-----------------------------------------------------------------------------
(***************************************************************************)
(* releaseReturnQuantity: the list is read, filtered and written back.     *)
(***************************************************************************)
\* Slip: the filter keeps what it should drop.
RemainingInverted(id) == [r \in Request |-> IF ReservationId(r) = id THEN reserved[r] ELSE 0]

Remaining(id) == [r \in Request |-> IF ReservationId(r) = id THEN 0 ELSE reserved[r]]

ReleaseFind(w) ==
    /\ pc[w] = "release"
    /\ list' = [list EXCEPT ![w] = Remaining(key[w])]
    /\ Goto(w, "rewrite")
    /\ UNCHANGED <<reserved, requestVars, task, asked, key, faults>>

ReleaseWrite(w) ==
    /\ pc[w] = "rewrite"
    /\ reserved' = list[w]
    /\ Finish(w)
    /\ UNCHANGED <<requestVars, faults>>

-----------------------------------------------------------------------------
(***************************************************************************)
(* cancel, the seller's review and the admin's decision.                   *)
(***************************************************************************)
\* cancelPending is one conditional update.
Withdraw(w) ==
    \E r \in Request :
        /\ status[r] = "pending" /\ refund[r] = "none"
        /\ Begin(w, "release", r)
        /\ key' = [key EXCEPT ![w] = RowId(r)]
        /\ Decide(r, "cancelled")
        /\ UNCHANGED <<reserved, quantity, review, refund, overridden, asked, list, faults>>

\* sellerDecision: decideForSeller, under the row lock ...
SellerReviews(w) ==
    /\ \E r \in Request : \E decision \in {"approved", "rejected"} :
        /\ status[r] = "pending" /\ review[r] = "pending"
        /\ review' = [review EXCEPT ![r] = decision]
        /\ Begin(w, "final", r)
    /\ UNCHANGED <<reserved, status, quantity, refund, overridden, asked, key, list, faults>>

\* ... and the status of the request, which is not looked at again.
SellerDecides(w) ==
    /\ pc[w] = "final"
    /\ Decide(task[w], review[task[w]])
    /\ Finish(w)
    /\ UNCHANGED <<reserved, quantity, review, refund, overridden, faults>>

\* Slip: the review is not waited for.
AdminFindsEarly(w) ==
    /\ \E r \in Request : \E decision \in {"approve?", "reject?"} :
        /\ status[r] # "none" /\ refund[r] = "none"
        /\ decision = "approve?" => ~ (status[r] = "rejected" /\ overridden[r])
        /\ Begin(w, decision, r)
    /\ UNCHANGED <<reserved, requestVars, asked, key, list, faults>>

\* adminDecision checks the row it reads, ...
AdminFinds(w) ==
    /\ \E r \in Request : \E decision \in {"approve?", "reject?"} :
        /\ status[r] # "none" /\ refund[r] = "none"
        /\ decision = "approve?" =>
              review[r] # "pending" /\ ~ (status[r] = "rejected" /\ overridden[r])
        /\ Begin(w, decision, r)
    /\ UNCHANGED <<reserved, requestVars, asked, key, list, faults>>

Decidable(r) == refund[r] = "none" /\ status[r] \in {"pending", "approved", "rejected"}

\* ... decideByAdmin reads it again ...
AdminReads(w) ==
    /\ \/ pc[w] = "approve?" /\ Decidable(task[w]) /\ Goto(w, "approve") /\ UNCHANGED locals
       \/ pc[w] = "reject?" /\ Decidable(task[w]) /\ Goto(w, "reject") /\ UNCHANGED locals
       \/ pc[w] \in {"approve?", "reject?"} /\ ~Decidable(task[w]) /\ Finish(w)
    /\ UNCHANGED <<reserved, requestVars, faults>>

\* ... and writes it.
AdminDecides(w) ==
    /\ pc[w] \in {"approve", "reject"}
    /\ overridden' = [overridden EXCEPT ![task[w]] = TRUE]
    /\ \/ pc[w] = "approve" /\ Decide(task[w], "approved") /\ Finish(w)
       \/ /\ pc[w] = "reject"
          /\ Decide(task[w], "rejected")
          /\ Release(w, RowId(task[w]))
          /\ UNCHANGED <<task, asked, list>>
    /\ UNCHANGED <<reserved, quantity, review, refund, faults>>

\* processRefund, and the end of the refund, each in one step: Refunds has what
\* comes in between.  A failed refund leaves the row as it is here.
StartRefund(r) ==
    /\ status[r] = "approved" /\ refund[r] = "none"
    /\ refund' = [refund EXCEPT ![r] = "started"]
    /\ overridden' = [overridden EXCEPT ![r] = TRUE]
    /\ UNCHANGED <<reserved, status, quantity, review, pc, locals, faults>>

CompleteRefund(r) ==
    /\ refund[r] = "started"
    /\ refund' = [refund EXCEPT ![r] = "completed"]
    /\ Decide(r, "completed")
    /\ UNCHANGED <<reserved, quantity, review, overridden, pc, locals, faults>>

\* A crash, or an error of the database, ends a handler at any await.
Abort(w) ==
    /\ pc[w] # "idle"
    /\ faults < MaxFaults
    /\ faults' = faults + 1
    /\ Finish(w)
    /\ UNCHANGED <<reserved, requestVars>>

-----------------------------------------------------------------------------
Next ==
    \/ \E w \in Worker :
        \/ File(w) \/ Reserve(w) \/ InsertRequest(w) \/ InsertRequestFails(w)
        \/ ReleaseFind(w) \/ ReleaseWrite(w) \/ Withdraw(w)
        \/ SellerReviews(w) \/ SellerDecides(w) \/ AdminFinds(w) \/ AdminReads(w)
        \/ AdminDecides(w) \/ Abort(w)
    \/ \E r \in Request : StartRefund(r) \/ CompleteRefund(r)

Spec == Init /\ [][Next]_vars

(***************************************************************************)
(* CleanSpec has the runs in which no handler is about to write back a     *)
(* list of reservations that another one has changed since it was read.    *)
(***************************************************************************)
Clean == \A w \in Worker : pc[w] = "rewrite" => list[w] = Remaining(key[w])

CleanSpec == Init /\ [][Next /\ Clean']_vars

-----------------------------------------------------------------------------
\* Rejected by the seller only, a request may still be approved by an admin.
Open(r) ==
    \/ status[r] \in {"pending", "approved", "completed"}
    \/ status[r] = "rejected" /\ ~overridden[r]

\* "Requested quantity exceeds the quantity still eligible for return"
\* (create): the open requests together never return more than was bought,
\* however their handlers interleave.
ReturnsWithinBought == SumFunctionOnSet(quantity, {r \in Request : Open(r)}) <= Bought

\* Every open request has its quantity set aside, whatever is released for
\* other requests meanwhile.
OpenIsReserved == \A r \in Request : Open(r) => reserved[r] = quantity[r]

\* "Requested quantity exceeds the quantity still eligible for return" (create):
\* a request that was withdrawn or refused for good no longer takes any of it,
\* once its handler has released it (releaseReturnQuantity).
ReleasedIsFree ==
    (faults = 0 /\ \A w \in Worker : pc[w] = "idle") =>
        \A r \in Request : ~Open(r) => reserved[r] = 0

\* "Each affected seller must review their item before admin approval"
\* (adminDecision): an approved request has been reviewed, and one the seller
\* has rejected was approved by an admin.
ApprovedWasReviewed ==
    \A r \in Request : status[r] \in {"approved", "completed"} =>
        /\ review[r] # "pending"
        /\ review[r] = "rejected" => overridden[r]
=============================================================================
