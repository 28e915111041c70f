------------------------------ MODULE Bookings ------------------------------
(***************************************************************************)
(* Promotion slots (promo-slots.service.ts, promo-slots.repository.ts):    *)
(* types of slots and tiers of duration, which an administrator keeps, the *)
(* slots generated day by day, and the sellers' bookings.  Every change of *)
(* a booking reads it first and then writes columns by id, without a lock. *)
(* Payment is a placeholder: no booking is ever paid or becomes active,    *)
(* and nothing counts the bookings of a slot (incrementSlotBooked has no   *)
(* caller).  A booking whose row is gone cannot occur, rows stay.          *)
(***************************************************************************)
EXTENDS Calls

CONSTANTS
    SlotType, DurationTier, PromoSlot, SlotBooking,     \* rows that can be inserted
    PriceNGN,
    Capacity

ASSUME BookingAssumption ==
    /\ Nil \notin SlotType \cup DurationTier \cup PromoSlot \cup SlotBooking
    /\ IsFiniteSet(PromoSlot) /\ PriceNGN \subseteq Nat /\ Capacity \subseteq Nat \ {0}

VARIABLES slotType, tier, slot, booking

bookingVars == <<slotType, tier, slot, booking>>
bookingsVars == <<bookingVars, callVars>>

-----------------------------------------------------------------------------
SlotTypeRow == [active : BOOLEAN, deleted : BOOLEAN]
TierRow == [type : SlotType, price : PriceNGN, active : BOOLEAN, deleted : BOOLEAN]
SlotRow == [type : SlotType, capacity : Capacity, bookedCount : {0}]

BookingStatus == {"pending_payment", "cancelled", "suspended"}
BookingRow == [slot : PromoSlot, tier : DurationTier, amount : PriceNGN,
               status : BookingStatus, payment : {"unpaid", "refunded"}]

ASSUME RowAssumption == Nil \notin BookingRow

BookingCall ==
    [at : {"createSlot"}, row : SlotRow, days : 1 .. Cardinality(PromoSlot)]
    \cup [at : {"findTier"}, slot : PromoSlot, tier : DurationTier]
    \cup [at : {"createBooking"}, row : BookingRow]
    \cup [at : {"cancel", "suspend", "refund"}, id : SlotBooking]

BookingsTypeOK ==
    /\ slotType \in [SlotType -> SlotTypeRow \cup {Nil}]
    /\ tier \in [DurationTier -> TierRow \cup {Nil}]
    /\ slot \in [PromoSlot -> SlotRow \cup {Nil}]
    /\ booking \in [SlotBooking -> BookingRow \cup {Nil}]
    /\ call \in [Worker -> {Idle} \cup BookingCall]

BookingsInit ==
    /\ CallsInit
    /\ slotType = [t \in SlotType |-> Nil]
    /\ tier = [t \in DurationTier |-> Nil]
    /\ slot = [s \in PromoSlot |-> Nil]
    /\ booking = [b \in SlotBooking |-> Nil]

-----------------------------------------------------------------------------
(***************************************************************************)
(* What an administrator offers.  An update reaches deleted rows too.      *)
(***************************************************************************)
Types == {t \in SlotType : slotType[t] # Nil}
Tiers == {t \in DurationTier : tier[t] # Nil}
Slots == {s \in PromoSlot : slot[s] # Nil}
Booked == {b \in SlotBooking : booking[b] # Nil}

CreateSlotType ==
    /\ \E t \in SlotType \ Types : slotType' = [slotType EXCEPT ![t] = [active |-> TRUE, deleted |-> FALSE]]
    /\ UNCHANGED <<tier, slot, booking, callVars>>

UpdateSlotType ==
    /\ \E t \in Types, active \in BOOLEAN : slotType' = [slotType EXCEPT ![t].active = active]
    /\ UNCHANGED <<tier, slot, booking, callVars>>

DeleteSlotType ==
    /\ \E t \in Types : slotType' = [slotType EXCEPT ![t] = [active |-> FALSE, deleted |-> TRUE]]
    /\ UNCHANGED <<tier, slot, booking, callVars>>

\* The foreign key asks for a row, deleted or not.
CreateTier ==
    /\ \E t \in DurationTier \ Tiers, type \in Types, price \in PriceNGN :
        tier' = [tier EXCEPT ![t] = [type |-> type, price |-> price, active |-> TRUE, deleted |-> FALSE]]
    /\ UNCHANGED <<slotType, slot, booking, callVars>>

UpdateTier ==
    /\ \E t \in Tiers, price \in PriceNGN, active \in BOOLEAN :
        tier' = [tier EXCEPT ![t].price = price, ![t].active = active]
    /\ UNCHANGED <<slotType, slot, booking, callVars>>

DeleteTier ==
    /\ \E t \in Tiers : tier' = [tier EXCEPT ![t].deleted = TRUE, ![t].active = FALSE]
    /\ UNCHANGED <<slotType, slot, booking, callVars>>

GenerateSlots(w) ==
    /\ \E type \in Types, capacity \in Capacity, days \in 1 .. Cardinality(PromoSlot) :
        Begin(w, [at |-> "createSlot", days |-> days,
                  row |-> [type |-> type, capacity |-> capacity, bookedCount |-> 0]])
    /\ UNCHANGED <<bookingVars, faults>>

\* The slot of one day; those before it stay if it fails.
CreateSlot(w) ==
    /\ At(w, "createSlot")
    /\ \E s \in PromoSlot \ Slots : slot' = [slot EXCEPT ![s] = call[w].row]
    /\ IF call[w].days = 1 THEN Return(w) ELSE Become(w, [call[w] EXCEPT !.days = @ - 1])
    /\ UNCHANGED <<slotType, tier, booking, faults>>

-----------------------------------------------------------------------------
(***************************************************************************)
(* Bookings.                                                               *)
(***************************************************************************)
BeginBooking(w) ==
    /\ \E s \in Slots, t \in DurationTier :
        /\ slot[s].bookedCount < slot[s].capacity
        /\ Begin(w, [at |-> "findTier", slot |-> s, tier |-> t])
    /\ UNCHANGED <<bookingVars, faults>>

FindTier(w) ==
    /\ At(w, "findTier")
    /\ LET t == call[w].tier
       IN  \/ (t \in Tiers => tier[t].deleted) /\ Return(w)
           \/ /\ t \in Tiers /\ ~tier[t].deleted
              /\ Become(w, [at |-> "createBooking",
                            row |-> [slot |-> call[w].slot, tier |-> t, amount |-> tier[t].price,
                                     status |-> "pending_payment", payment |-> "unpaid"]])
    /\ UNCHANGED <<bookingVars, faults>>

CreateBooking(w) ==
    /\ At(w, "createBooking")
    /\ \E b \in SlotBooking \ Booked : booking' = [booking EXCEPT ![b] = call[w].row]
    /\ Return(w)
    /\ UNCHANGED <<slotType, tier, slot, faults>>

\* By its seller; "active" would do too.
BeginCancel(w) ==
    /\ \E b \in Booked :
        /\ booking[b].status = "pending_payment"
        /\ Begin(w, [at |-> "cancel", id |-> b])
    /\ UNCHANGED <<bookingVars, faults>>

CancelBooking(w) ==
    /\ At(w, "cancel")
    /\ booking' = [booking EXCEPT ![call[w].id].status = "cancelled"]
    /\ Return(w)
    /\ UNCHANGED <<slotType, tier, slot, faults>>

\* By an administrator, whatever the status is.
BeginDecision(w) ==
    /\ \E b \in Booked, at \in {"suspend", "refund"} : Begin(w, [at |-> at, id |-> b])
    /\ UNCHANGED <<bookingVars, faults>>

SuspendBooking(w) ==
    /\ At(w, "suspend")
    /\ booking' = [booking EXCEPT ![call[w].id].status = "suspended"]
    /\ Return(w)
    /\ UNCHANGED <<slotType, tier, slot, faults>>

AdminRefundBooking(w) ==
    /\ At(w, "refund")
    /\ booking' = [booking EXCEPT ![call[w].id].status = "cancelled", ![call[w].id].payment = "refunded"]
    /\ Return(w)
    /\ UNCHANGED <<slotType, tier, slot, faults>>

\* The requests of admin-promo-slots.controller.ts ...
SlotAdminRequests(w) ==
    \/ CreateSlotType \/ UpdateSlotType \/ DeleteSlotType
    \/ CreateTier \/ UpdateTier \/ DeleteTier
    \/ GenerateSlots(w) \/ BeginDecision(w)

\* ... and of promo-slots.controller.ts: paying for a booking and reserving a
\* slot answer without a write.
SlotSellerRequests(w) == BeginBooking(w) \/ BeginCancel(w)

BookingsNext == \E w \in Worker :
    \/ SlotAdminRequests(w) \/ SlotSellerRequests(w)
    \/ CreateSlot(w) \/ FindTier(w) \/ CreateBooking(w)
    \/ CancelBooking(w) \/ SuspendBooking(w) \/ AdminRefundBooking(w)
    \/ CutOff(w) /\ UNCHANGED bookingVars

BookingsSpec == BookingsInit /\ [][BookingsNext]_bookingsVars

-----------------------------------------------------------------------------
\* Only a booking that is pending, or active, is cancelled by its seller
\* (cancelBooking): one that an administrator has suspended ends with a refund.
\* It fails: the status is read before the row is written by id.
SuspendedStays ==
    [][\A b \in Booked :
        booking[b].status = "suspended" /\ booking'[b].status = "cancelled" =>
            booking'[b].payment = "refunded"]_bookingVars
=============================================================================
