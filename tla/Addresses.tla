----------------------------- MODULE Addresses -----------------------------
(***************************************************************************)
(* A buyer's delivery addresses (addresses.service.ts).  Whoever makes an  *)
(* address the default first clears the old default, in one transaction.   *)
(* It sees what others have committed, a statement as of its start, and    *)
(* locks the rows it has written until it commits.  A unique index lets no *)
(* two defaults stand: the transaction that would add one is rolled back.  *)
(*                                                                         *)
(* "Slip:" marks a faulty variant of the operator below it.                *)
(***************************************************************************)
EXTENDS Calls

CONSTANT Address    \* rows of the buyer's addresses that can be inserted

ASSUME AddressNilAssumption == Nil \notin Address

VARIABLE address

addressesVars == <<address, callVars>>

-----------------------------------------------------------------------------
AddressRow == [is : {"none", "kept", "deleted"}, default : BOOLEAN]

\* No address: one is inserted.  found are the defaults that the transaction
\* has seen, cleared those it has cleared and locked.
AddressCall == [at : {"findDefault", "clear", "set", "remove"}, address : Address \cup {Nil},
                default : {"yes", "no", "asItIs"},
                found : SUBSET Address, cleared : SUBSET Address]

NewAddressCall == [at |-> "set", address |-> Nil, default |-> "asItIs",
                   found |-> {}, cleared |-> {}]

AddressesTypeOK ==
    /\ address \in [Address -> AddressRow]
    /\ call \in [Worker -> {Idle} \cup AddressCall]

AddressesInit == CallsInit /\ address = [a \in Address |-> [is |-> "none", default |-> FALSE]]

-----------------------------------------------------------------------------
Kept == {a \in Address : address[a].is = "kept"}
Defaults == {a \in Kept : address[a].default}
Locked(w) == UNION {call[v].cleared : v \in {v \in Worker \ {w} : call[v] # Idle}}

\* The first address becomes the default whatever is asked for.
CreateAddress(w) ==
    /\ \E default \in IF Kept = {} THEN {"yes"} ELSE {"yes", "no"} :
        Begin(w, [NewAddressCall EXCEPT !.default = default,
                    !.at = IF default = "yes" THEN "findDefault" ELSE "set"])
    /\ UNCHANGED <<address, faults>>

\* update, and setDefault, which asks for "yes"
UpdateAddress(w) ==
    /\ \E a \in Kept, default \in {"yes", "no", "asItIs"} :
        Begin(w, [NewAddressCall EXCEPT !.address = a, !.default = default,
                    !.at = IF default = "yes" THEN "findDefault" ELSE "set"])
    /\ UNCHANGED <<address, faults>>

FindDefault(w) ==
    /\ At(w, "findDefault")
    /\ Become(w, [call[w] EXCEPT !.at = "clear", !.found = Defaults])
    /\ UNCHANGED <<address, faults>>

\* Slip: what is cleared is written at once, without a transaction.
ClearAtOnce(w) ==
    /\ At(w, "clear")
    /\ address' = [a \in Address |-> IF a \in call[w].found
                                     THEN [address[a] EXCEPT !.default = FALSE] ELSE address[a]]
    /\ Become(w, [call[w] EXCEPT !.at = "set", !.found = {}])
    /\ UNCHANGED faults

\* A row that another transaction holds is waited for and looked at again.
Clear(w) ==
    /\ At(w, "clear")
    /\ call[w].found \cap Locked(w) = {}
    /\ Become(w, [call[w] EXCEPT !.at = "set", !.found = {}, !.cleared = call[w].found \cap Defaults])
    /\ UNCHANGED <<address, faults>>

\* The address is written and the transaction commits, or is rolled back.
Set(w) ==
    /\ At(w, "set")
    /\ LET k == call[w]
       IN  \E a \in IF k.address = Nil THEN {x \in Address : address[x].is = "none"} ELSE {k.address} :
            LET row == [is |-> IF k.address = Nil THEN "kept" ELSE address[a].is,
                        default |-> IF k.default = "asItIs" THEN address[a].default
                                    ELSE k.default = "yes"]
                twins == IF row.is = "kept" /\ row.default
                         THEN Defaults \ (k.cleared \cup {a}) ELSE {}
            IN  /\ ({a} \cup twins) \cap Locked(w) = {}
                /\ \/ twins # {} /\ UNCHANGED address
                   \/ /\ twins = {}
                      /\ address' = [x \in Address |->
                           IF x = a THEN row
                           ELSE IF x \in k.cleared THEN [address[x] EXCEPT !.default = FALSE]
                           ELSE address[x]]
    /\ Return(w)
    /\ UNCHANGED faults

BeginRemoveAddress(w) ==
    /\ \E a \in Kept : Begin(w, [NewAddressCall EXCEPT !.at = "remove", !.address = a])
    /\ UNCHANGED <<address, faults>>

RemoveAddress(w) ==
    /\ At(w, "remove")
    /\ call[w].address \notin Locked(w)
    /\ address' = [address EXCEPT ![call[w].address] = [is |-> "deleted", default |-> FALSE]]
    /\ Return(w)
    /\ UNCHANGED faults

\* The requests of addresses.controller.ts.
AddressRequests(w) == CreateAddress(w) \/ UpdateAddress(w) \/ BeginRemoveAddress(w)

AddressStep(w) ==
    AddressRequests(w) \/ FindDefault(w) \/ Clear(w) \/ Set(w) \/ RemoveAddress(w)

AddressesNext == \E w \in Worker : AddressStep(w) \/ (CutOff(w) /\ UNCHANGED address)

AddressesSpec == AddressesInit /\ [][AddressesNext]_addressesVars

\* Runs in which no address is made the default after it was removed.
AddressesClean == \A w \in Worker :
    At(w, "set") /\ call[w].default = "yes" => call[w].address \in Kept \cup {Nil}

AddressesCleanSpec == AddressesInit /\ [][AddressesNext /\ AddressesClean']_addressesVars

-----------------------------------------------------------------------------
\* At every moment a buyer has at most one default address (migration
\* address_single_default), and a default is only replaced by another one,
\* never lost halfway, unless it is removed or unset by the buyer.
DefaultIsReplaced ==
    [][ /\ Cardinality(Defaults') <= 1
        /\ Defaults # {} /\ Defaults' = {} =>
             \E w \in Worker : /\ call[w] # Idle /\ call'[w] = Idle
                               /\ call[w].address \in Defaults
                               /\ At(w, "remove") \/ call[w].default = "no" ]_addressesVars
=============================================================================
