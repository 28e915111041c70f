------------------------------ MODULE Notices ------------------------------
(***************************************************************************)
(* The devices notifications are pushed to (notifications.service.ts,      *)
(* notifications.repository.ts, firebase-push.service.ts).  A push reads   *)
(* the rows of the user's devices and takes them batch by batch: it sends, *)
(* and deletes the rows whose devices Firebase does not know any more.  It *)
(* goes on when the call that asked for it has stopped waiting, after five *)
(* seconds.  What the notification says, its own row and the mails and     *)
(* text messages sent with it decide nothing here.                         *)
(* "Slip:" marks a faulty variant of the operator below it.                *)
(***************************************************************************)
EXTENDS Calls, SequencesExt

CONSTANTS
    User, Fid,
    DeviceRow,      \* rows of notification_devices that can be inserted
    BatchSize       \* 500 in the code

ASSUME NoticeAssumption == Nil \notin User /\ IsFiniteSet(DeviceRow) /\ BatchSize \in Nat \ {0}

VARIABLES
    device,
    reachable,      \* external: the devices Firebase still knows
    registered      \* history: whose a device is, as it was last told

noticeVars == <<device, reachable, registered>>
noticesVars == <<noticeVars, callVars>>

-----------------------------------------------------------------------------
Device == [user : User, fid : Fid, deleted : BOOLEAN]

ASSUME NilIsNoDevice == Nil \notin Device

NoticeCall ==
    LET Devices == UNION {[1 .. n -> DeviceRow] : n \in 1 .. Cardinality(DeviceRow)}
        Offset == 0 .. Cardinality(DeviceRow)
    IN  [at : {"insertDevice"}, row : Device]
        \cup [at : {"findDevices"}, user : User]
        \cup [at : {"send"}, devices : Devices, offset : Offset]
        \cup [at : {"cleanUp"}, devices : Devices, offset : Offset, invalid : SUBSET DeviceRow]

NoticesTypeOK ==
    /\ device \in [DeviceRow -> Device \cup {Nil}]
    /\ reachable \subseteq Fid
    /\ registered \in [Fid -> User \cup {Nil}]
    /\ call \in [Worker -> {Idle} \cup NoticeCall]

NoticesInit ==
    /\ CallsInit
    /\ device = [r \in DeviceRow |-> Nil]
    /\ reachable = Fid
    /\ registered = [f \in Fid |-> Nil]

-----------------------------------------------------------------------------
\* A device that drops the app comes back, if it does, under another fid.
Vanish ==
    /\ \E f \in reachable :
        /\ reachable' = reachable \ {f}
        /\ registered' = [registered EXCEPT ![f] = Nil]
    /\ UNCHANGED <<device, callVars>>

Rows == {r \in DeviceRow : device[r] # Nil /\ ~device[r].deleted}
RowsOf(u) == {r \in Rows : device[r].user = u}
RowsWith(f) == {r \in Rows : device[r].fid = f}
Tell(u, f) == registered' = [registered EXCEPT ![f] = u]

\* A device of another user is refused, one's own is already there.
RegisterDevice(w) ==
    /\ At(w, "idle")
    /\ \E u \in User, f \in reachable :
        \/ /\ RowsWith(f) = {}
           /\ Become(w, [at |-> "insertDevice", row |-> [user |-> u, fid |-> f, deleted |-> FALSE]])
           /\ UNCHANGED registered
        \/ RowsWith(f) \cap RowsOf(u) # {} /\ Tell(u, f) /\ UNCHANGED call
    /\ UNCHANGED <<device, reachable, faults>>

\* The unique index on fid refuses a second row.
InsertDevice(w) ==
    /\ At(w, "insertDevice")
    /\ LET row == call[w].row
       IN  \/ RowsWith(row.fid) # {} /\ UNCHANGED <<device, registered>>
           \/ /\ RowsWith(row.fid) = {}
              /\ \E r \in DeviceRow : device[r] = Nil /\ device' = [device EXCEPT ![r] = row]
              /\ IF row.fid \in reachable THEN Tell(row.user, row.fid) ELSE UNCHANGED registered
    /\ Return(w)
    /\ UNCHANGED <<reachable, faults>>

Delete(rows) ==
    device' = [r \in DeviceRow |-> IF r \in rows THEN [device[r] EXCEPT !.deleted = TRUE] ELSE device[r]]

RemoveDevice ==
    /\ \E u \in User, f \in Fid :
        /\ RowsOf(u) \cap RowsWith(f) # {}
        /\ Delete(RowsOf(u) \cap RowsWith(f))
        /\ registered' = [registered EXCEPT ![f] = Nil]
    /\ UNCHANGED <<reachable, callVars>>

-----------------------------------------------------------------------------
\* For a user who wants such notifications.
CreateForUser(w) ==
    /\ \E u \in User : Begin(w, [at |-> "findDevices", user |-> u])
    /\ UNCHANGED <<noticeVars, faults>>

\* Rows come in any order.
FindDeviceFids(w) ==
    /\ At(w, "findDevices")
    /\ LET rows == RowsOf(call[w].user)
       IN  \/ rows = {} /\ Return(w)
           \/ /\ rows # {}
              /\ \E s \in SetToSeqs(rows) :
                    Become(w, [at |-> "send", devices |-> s, offset |-> 0])
    /\ UNCHANGED <<noticeVars, faults>>

Batch(c) == SubSeq(c.devices, c.offset + 1, Min({c.offset + BatchSize, Len(c.devices)}))

Unregistered(batch) == {i \in DOMAIN batch : device[batch[i]].fid \notin reachable}

\* Slip: what Firebase says of a batch is looked up among all the devices.
InvalidAmongAll(c) == {c.devices[i] : i \in Unregistered(Batch(c))}

Invalid(c) == {Batch(c)[i] : i \in Unregistered(Batch(c))}

\* sendToUser: Firebase answers for each device of the batch, or the request fails.
Send(w) ==
    /\ At(w, "send")
    /\ \/ Return(w)
       \/ Become(w, [at |-> "cleanUp", devices |-> call[w].devices, offset |-> call[w].offset,
                     invalid |-> Invalid(call[w])])
    /\ UNCHANGED <<noticeVars, faults>>

RemoveDevicesByIds(w) ==
    /\ At(w, "cleanUp")
    /\ Delete(call[w].invalid)
    /\ LET next == call[w].offset + BatchSize
       IN  IF next < Len(call[w].devices)
           THEN Become(w, [at |-> "send", devices |-> call[w].devices, offset |-> next])
           ELSE Return(w)
    /\ UNCHANGED <<reachable, registered, faults>>

\* The requests of notifications.controller.ts about devices.
DeviceRequests(w) == RegisterDevice(w) \/ RemoveDevice

NoticesNext ==
    \/ Vanish
    \/ \E w \in Worker :
        \/ DeviceRequests(w) \/ InsertDevice(w)
        \/ CreateForUser(w) \/ FindDeviceFids(w) \/ Send(w) \/ RemoveDevicesByIds(w)
        \/ CutOff(w) /\ UNCHANGED noticeVars

NoticesSpec == NoticesInit /\ [][NoticesNext]_noticesVars

-----------------------------------------------------------------------------
\* A device that was told it is registered for a user stays so until its owner
\* removes it or it is gone (registerDevice): a clean-up after a push, however
\* late and whatever was registered since, deletes rows of lost devices only.
RegistrationsKept ==
    \A f \in Fid : registered[f] # Nil => RowsWith(f) \cap RowsOf(registered[f]) # {}
=============================================================================
