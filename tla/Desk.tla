------------------------------- MODULE Desk -------------------------------
(***************************************************************************)
(* Support tickets (support.service.ts, support.repository.ts) and courier *)
(* bookings (logistics.service.ts, logistics.repository.ts).  Both have a  *)
(* JSON column that only grows, the messages of a ticket and the proofs of *)
(* delivery of a booking; it is read and written back within a transaction *)
(* that locks the row.  Everything else is written unconditionally, after  *)
(* the row was found.  No row is ever deleted.                             *)
(*                                                                         *)
(* A buyer's own message is never stored: addMessageForUser passes the ids *)
(* of the ticket and of the user in each other's place, and finds nothing. *)
(* Left out are the retry counter, texts, quotes and coverage, and the     *)
(* couriers' webhooks and pickup calls, which only answer.                 *)
(* "Slip:" marks a faulty variant of the operator below it.                *)
(***************************************************************************)
EXTENDS Calls

CONSTANTS
    Ticket, Courier,    \* rows of support_tickets and logistics_bookings that can be inserted
    MaxLength           \* bounds the lists

VARIABLES
    status,     \* of a ticket or a booking; Nil: not inserted yet
    list,       \* the length of its messages or proofs
    stored      \* history: the messages or proofs a call has been told are stored

deskVars == <<status, list, stored>>
desksVars == <<deskVars, callVars>>

-----------------------------------------------------------------------------
DeskRow == Ticket \cup Courier
TicketStatus == {"open", "in_progress", "escalated", "closed"}
CourierStatus == {"pending", "cancelled"}
StatusOf(e) == IF e \in Ticket THEN TicketStatus ELSE CourierStatus

ASSUME DeskAssumption ==
    /\ Ticket \cap Courier = {} /\ MaxLength \in Nat \ {0}
    /\ Nil \notin TicketStatus \cup CourierStatus

DeskCall ==
    [at : {"push"}, row : DeskRow]
    \cup [at : {"append"}, row : DeskRow, list : 0 .. MaxLength - 1]
    \cup [at : {"update"}, row : DeskRow, status : TicketStatus \cup CourierStatus]

DeskTypeOK ==
    /\ status \in [DeskRow -> TicketStatus \cup CourierStatus \cup {Nil}]
    /\ \A e \in DeskRow : status[e] \in StatusOf(e) \cup {Nil}
    /\ list \in [DeskRow -> 0 .. MaxLength]
    /\ stored \in [DeskRow -> 0 .. MaxLength]
    /\ call \in [Worker -> {Idle} \cup DeskCall]

DeskInit ==
    /\ CallsInit
    /\ status = [e \in DeskRow |-> Nil]
    /\ list = [e \in DeskRow |-> 0]
    /\ stored = [e \in DeskRow |-> 0]

-----------------------------------------------------------------------------
Insert(e, as, length) ==
    /\ status[e] = Nil
    /\ status' = [status EXCEPT ![e] = as]
    /\ list' = [list EXCEPT ![e] = length]
    /\ stored' = [stored EXCEPT ![e] = length]

\* A ticket starts with its text as the first message.
CreateTicket ==
    /\ \E t \in Ticket : Insert(t, "open", 1)
    /\ UNCHANGED callVars

BookCourier ==
    /\ \E b \in Courier : Insert(b, "pending", 0)
    /\ UNCHANGED callVars

\* Every call first finds its row.
Find(w, c) == status[c.row] # Nil /\ Begin(w, c) /\ UNCHANGED <<deskVars, faults>>

Assign(w) == \E t \in Ticket : Find(w, [at |-> "update", row |-> t, status |-> "in_progress"])

\* The owner's closeForUser and the admin's close.
Close(w) == \E t \in Ticket : Find(w, [at |-> "update", row |-> t, status |-> "closed"])

\* With a note, the note is pushed first.
Escalate(w) == \E t \in Ticket :
    \/ Find(w, [at |-> "update", row |-> t, status |-> "escalated"])
    \/ Find(w, [at |-> "push", row |-> t])

CancelCourier(w) == \E b \in Courier : Find(w, [at |-> "update", row |-> b, status |-> "cancelled"])
RetryBooking(w) == \E b \in Courier : Find(w, [at |-> "update", row |-> b, status |-> "pending"])
UploadPod(w) == \E b \in Courier : Find(w, [at |-> "push", row |-> b])

Update(w) ==
    /\ At(w, "update")
    /\ status' = [status EXCEPT ![call[w].row] = call[w].status]
    /\ Return(w)
    /\ UNCHANGED <<list, stored, faults>>

-----------------------------------------------------------------------------
Pushing(e) == \E w \in Worker : At(w, "append") /\ call[w].row = e

\* Slip: the row is read without FOR UPDATE.
ReadForPush(w) ==
    /\ At(w, "push")
    /\ list[call[w].row] < MaxLength
    /\ Become(w, [at |-> "append", row |-> call[w].row, list |-> list[call[w].row]])
    /\ UNCHANGED <<deskVars, faults>>

\* pushMessage and appendJson; the lock lasts until the transaction ends.
LockForPush(w) ==
    /\ At(w, "push")
    /\ list[call[w].row] < MaxLength
    /\ ~Pushing(call[w].row)
    /\ Become(w, [at |-> "append", row |-> call[w].row, list |-> list[call[w].row]])
    /\ UNCHANGED <<deskVars, faults>>

AppendEntry(w) ==
    /\ At(w, "append")
    /\ LET e == call[w].row
       IN  /\ list' = [list EXCEPT ![e] = call[w].list + 1]
           /\ stored' = [stored EXCEPT ![e] = @ + 1]
           /\ IF e \in Ticket
              THEN Become(w, [at |-> "update", row |-> e, status |-> "escalated"])
              ELSE Return(w)
    /\ UNCHANGED <<status, faults>>

\* The requests of support.controller.ts, admin-support.controller.ts and
\* logistics.controller.ts.
TicketRequests(w) == CreateTicket \/ Close(w)
AgentRequests(w) == Assign(w) \/ Escalate(w)
CourierRequests(w) == BookCourier \/ CancelCourier(w) \/ RetryBooking(w) \/ UploadPod(w)

DeskNext == \E w \in Worker :
    \/ TicketRequests(w) \/ AgentRequests(w) \/ CourierRequests(w)
    \/ Update(w) \/ LockForPush(w) \/ AppendEntry(w)
    \/ CutOff(w) /\ UNCHANGED deskVars

DeskSpec == DeskInit /\ [][DeskNext]_desksVars

-----------------------------------------------------------------------------
\* Every message and every proof of delivery that a call has been told is
\* stored is in its list, once (pushMessage, appendJson), however the calls
\* that add to it overlap with each other and with changes of the status.
AcknowledgedKept == \A e \in DeskRow : list[e] = stored[e]
=============================================================================
