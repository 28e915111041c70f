------------------------------- MODULE Deals -------------------------------
(***************************************************************************)
(* Deal campaigns (deals.service.ts): a seller pays for a campaign through *)
(* Paystack, an admin approves it, and while it is live its products are   *)
(* shown in the section best_deals.                                        *)
(*                                                                         *)
(* A handler reads the campaign, decides on a change of some columns and   *)
(* writes them, and then the sections of the products if need be.  Fees    *)
(* and texts are left out, and dates are what resolvePostPaymentStatus     *)
(* makes of them: a campaign is early, running or over.  phase among the   *)
(* columns means that dates are written, any.  "Slip:" marks a faulty      *)
(* variant of the operator below it, which nothing uses.                   *)
(***************************************************************************)
EXTENDS Products

CONSTANTS Campaign, Reference   \* rows of deal_campaigns, Paystack's transactions

ASSUME DealNilAssumption == Nil \notin Campaign \cup Reference

VARIABLES
    campaign,
    event,      \* of a reference: what Paystack reports, any number of times
    settled     \* history: campaigns whose payment an admin has set by hand

dealVars == <<campaign, event, settled>>
dealsVars == <<dealVars, productVars, callVars>>

-----------------------------------------------------------------------------
Status == {"draft", "pending_payment", "scheduled", "live", "expired", "cancelled"}
Payment == {"unpaid", "pending", "paid", "failed"}
Phase == {"early", "running", "over"}

CampaignRow == [status : Status \cup {"none"}, payment : Payment, phase : Phase,
                reference : Reference \cup {Nil}, selected : SUBSET Product, deleted : BOOLEAN]

NoCampaign == [status |-> "none", payment |-> "unpaid", phase |-> "early",
               reference |-> Nil, selected |-> {}, deleted |-> FALSE]

DealsTypeOK ==
    /\ ProductsTypeOK
    /\ campaign \in [Campaign -> CampaignRow]
    /\ event \in [Reference -> SUBSET {"initialized", "charge.success", "charge.failed"}]
    /\ settled \subseteq Campaign
    /\ \A w \in Worker : At(w, "writeSections") => call[w] \in WritingSections

DealsInit ==
    /\ ProductsInit /\ CallsInit
    /\ campaign = [c \in Campaign |-> NoCampaign]
    /\ event = [r \in Reference |-> {}]
    /\ settled = {}

-----------------------------------------------------------------------------
Open(c) == campaign[c].status # "none" /\ ~campaign[c].deleted
Paid(c) == campaign[c].payment = "paid"
Selections == SUBSET OnSale \ {{}}

StatusAfterPayment(c) ==
    CASE campaign[c].phase = "over"  -> "expired"
      [] campaign[c].phase = "early" -> "scheduled"
      [] OTHER                       -> "live"

\* A call has read the campaign, and will write the given columns of new.
Writing(c, new, columns, sync) ==
    [at |-> "write", campaign |-> c, columns |-> columns,
     new |-> [f \in DOMAIN NoCampaign |-> IF f \in columns THEN new[f] ELSE NoCampaign[f]],
     sync |-> sync, status |-> campaign[c].status, paid |-> Paid(c),
     products |-> campaign[c].selected]

Decide(w, c, new, columns, sync) ==
    /\ Begin(w, Writing(c, new, columns, sync))
    /\ UNCHANGED <<dealVars, productVars, faults>>

\* The products whose section is put right after the write.
ToSync(k, row) ==
    CASE k.sync = "never"   -> {}
      [] k.sync = "removed" -> k.products
      [] k.sync = "ifLive" -> IF k.new.status = "live" THEN row.selected ELSE {}
      [] k.sync = "ifChanged" ->
            IF k.status # row.status \/ "selected" \in k.columns
            THEN k.products \cup row.selected ELSE {}

Write(w) ==
    /\ At(w, "write")
    /\ LET c == call[w].campaign
           row == [f \in DOMAIN NoCampaign |->
                    IF f \in call[w].columns THEN call[w].new[f] ELSE campaign[c][f]]
           touched == ToSync(call[w], row)
       IN  /\ \E phase \in IF "phase" \in call[w].columns THEN Phase ELSE {campaign[c].phase} :
                campaign' = [campaign EXCEPT ![c] = [row EXCEPT !.phase = phase]]
           /\ \/ touched = {} /\ Return(w)
              \/ touched # {} /\ Become(w, [at |-> "sync", products |-> touched])
    /\ settled' = IF call[w].sync = "ifChanged" /\ "payment" \in call[w].columns
                  THEN settled \cup {call[w].campaign} ELSE settled
    /\ UNCHANGED <<event, productVars, faults>>

-----------------------------------------------------------------------------
(***************************************************************************)
(* The seller's handlers.                                                  *)
(***************************************************************************)
CreateMyCampaign ==
    /\ \E c \in Campaign, selected \in Selections, phase \in Phase :
        /\ campaign[c] = NoCampaign
        /\ campaign' = [campaign EXCEPT ![c] =
             [NoCampaign EXCEPT !.status = "draft", !.phase = phase, !.selected = selected]]
    /\ UNCHANGED <<event, settled, productVars, callVars>>

Editable(c) == ~Paid(c) /\ campaign[c].status \notin {"live", "expired", "cancelled"}

UpdateMyCampaign(w) ==
    \E c \in Campaign, selected \in SUBSET Product, more \in SUBSET {"selected"} :
        /\ Open(c) /\ Editable(c)
        /\ selected \in IF more = {} THEN {campaign[c].selected} ELSE Selections
        /\ Decide(w, c, [campaign[c] EXCEPT !.status = "draft", !.payment = "unpaid",
                           !.reference = Nil, !.selected = selected],
                  {"status", "payment", "reference", "phase"} \cup more, "never")

\* removeMyCampaign, removeCampaignByAdmin
RemoveCampaign(w) ==
    \E c \in Campaign :
        /\ Open(c)
        /\ Decide(w, c, [campaign[c] EXCEPT !.status = "cancelled", !.deleted = TRUE],
                  {"status", "deleted"}, "removed")

InitializePayment(w) ==
    /\ \E c \in Campaign :
        /\ Open(c)
        /\ ~Paid(c) /\ campaign[c].status \notin {"cancelled", "expired"}
        /\ Begin(w, [at |-> "askPaystack", campaign |-> c])
    /\ UNCHANGED <<dealVars, productVars, faults>>

\* Paystack opens a transaction, or the call fails.
AskPaystack(w) ==
    /\ At(w, "askPaystack")
    /\ \/ Return(w) /\ UNCHANGED event
       \/ \E r \in Reference :
            /\ event[r] = {}
            /\ event' = [event EXCEPT ![r] = {"initialized"}]
            /\ Become(w, Writing(call[w].campaign,
                 [NoCampaign EXCEPT !.status = "pending_payment", !.payment = "pending",
                                    !.reference = r],
                 {"status", "payment", "reference"}, "never"))
    /\ UNCHANGED <<campaign, settled, productVars, faults>>

(***************************************************************************)
(* The admin's handlers.                                                   *)
(***************************************************************************)
\* Slip: the payment is not looked at.
MayBeLiveUnpaid(status, payment) == TRUE

MayBe(status, payment) == status = "live" => payment = "paid"

UpdateCampaignByAdmin(w) ==
    \E c \in Campaign, columns \in SUBSET {"status", "payment", "selected", "phase"} :
        LET Given(column, values) == IF column \in columns THEN values ELSE {campaign[c][column]}
        IN  /\ Open(c)
            /\ \E status \in Given("status", Status), payment \in Given("payment", Payment),
                  selected \in Given("selected", Selections) :
                /\ "status" \in columns => MayBe(status, payment)
                /\ Decide(w, c, [campaign[c] EXCEPT !.status = status, !.payment = payment,
                                   !.selected = selected], columns, "ifChanged")

ApproveCampaign(w) ==
    \E c \in Campaign :
        /\ Open(c)
        /\ Decide(w, c, [campaign[c] EXCEPT
                    !.status = IF Paid(c) THEN StatusAfterPayment(c) ELSE "pending_payment"],
                  {"status"}, "ifLive")

(***************************************************************************)
(* Paystack: a customer pays or fails to, and handlePaystackEvent takes    *)
(* the reports in any order, and again.                                    *)
(***************************************************************************)
Charge ==
    /\ \E r \in Reference, type \in {"charge.success", "charge.failed"} :
        /\ event[r] # {} /\ "charge.success" \notin event[r]
        /\ event' = [event EXCEPT ![r] = @ \cup {type}]
    /\ UNCHANGED <<campaign, settled, productVars, callVars>>

Reported(c, type) ==
    /\ Open(c) /\ campaign[c].reference # Nil
    /\ type \in event[campaign[c].reference]

ChargeSuccess(w) ==
    \E c \in Campaign :
        /\ Reported(c, "charge.success")
        /\ ~Paid(c)
        /\ Decide(w, c, [campaign[c] EXCEPT !.payment = "paid", !.status = StatusAfterPayment(c)],
                  {"status", "payment"}, "ifLive")

ChargeFailed(w) ==
    \E c \in Campaign :
        /\ Reported(c, "charge.failed")
        /\ Decide(w, c, [campaign[c] EXCEPT !.payment = "failed", !.status = "draft"],
                  {"status", "payment"}, "never")

-----------------------------------------------------------------------------
(***************************************************************************)
(* syncDealsSectionForProducts reads which of the products are in a live   *)
(* campaign, and then puts the sections right, one product after another.  *)
(***************************************************************************)
InLiveCampaign(p) == \E c \in Campaign :
    Open(c) /\ campaign[c].status = "live" /\ Paid(c) /\ p \in campaign[c].selected

\* Slip: products that have left the campaign are not looked at.
PlanToAdd(w) ==
    LET products == {p \in call[w].products : InLiveCampaign(p)}
    IN  [at |-> "nextProduct", add |-> products, remove |-> {}]

Plan(w) ==
    LET add == {p \in call[w].products : InLiveCampaign(p)}
    IN  [at |-> "nextProduct", add |-> add, remove |-> call[w].products \ add]

Sync(w) ==
    /\ At(w, "sync")
    /\ Become(w, Plan(w))
    /\ UNCHANGED <<dealVars, productVars, faults>>

ReadSections(w) ==
    /\ At(w, "nextProduct")
    /\ LET k == call[w]
       IN  \/ k.add \cup k.remove = {} /\ Return(w)
           \/ \E p \in k.add :
                /\ "best_deals" \in product[p].sections
                /\ Become(w, [k EXCEPT !.add = @ \ {p}])
           \/ \E p \in k.add :
                /\ "best_deals" \notin product[p].sections
                /\ Become(w, WriteBack(p, product[p].sections \cup {"best_deals"},
                                       k.add \ {p}, k.remove))
           \/ \E p \in k.remove :
                /\ k.add = {}
                /\ Become(w, WriteBack(p, product[p].sections \ {"best_deals"},
                                       {}, k.remove \ {p}))
    /\ UNCHANGED <<dealVars, productVars, faults>>

-----------------------------------------------------------------------------
\* A date of the schedule passes.
DatePasses ==
    /\ \E c \in Campaign :
        /\ campaign[c].phase # "over"
        /\ campaign' = [campaign EXCEPT ![c].phase = IF @ = "early" THEN "running" ELSE "over"]
    /\ UNCHANGED <<event, settled, productVars, callVars>>

\* The requests of deals.controller.ts and admin-deals.controller.ts.
CampaignRequests(w) ==
    \/ CreateMyCampaign \/ UpdateMyCampaign(w) \/ RemoveCampaign(w) \/ InitializePayment(w)

CampaignDecisions(w) == UpdateCampaignByAdmin(w) \/ ApproveCampaign(w)

Handle(w) ==
    \/ CampaignRequests(w) \/ CampaignDecisions(w)
    \/ AskPaystack(w) \/ ChargeSuccess(w) \/ ChargeFailed(w)
    \/ Write(w) \/ Sync(w) \/ ReadSections(w)
    \/ CutOff(w) /\ UNCHANGED <<dealVars, productVars>>

DealsNext ==
    \/ Charge \/ DatePasses
    \/ ProductsStep /\ UNCHANGED dealVars
    \/ \E w \in Worker :
        \/ Handle(w)
        \/ (FeatureProduct(w) \/ WriteSections(w)) /\ UNCHANGED dealVars

DealsSpec == DealsInit /\ [][DealsNext]_dealsVars

(***************************************************************************)
(* Runs in which no write comes late: the campaign it makes live is paid,  *)
(* it takes back no payment, and the status it replaces is the one that    *)
(* updateCampaignByAdmin has read, and the products those that it or the   *)
(* removal has read; no live campaign is approved again when its dates are *)
(* not now; and a sync writes what it would read now.                      *)
(***************************************************************************)
Writes(w, column) == At(w, "write") /\ column \in call[w].columns

LateLive(w) ==
    /\ Writes(w, "status") /\ ~Writes(w, "payment") /\ call[w].new.status = "live"
    /\ call[w].paid /\ ~Paid(call[w].campaign)

LateUnpaid(w) ==
    Writes(w, "payment") /\ call[w].new.payment # "paid" /\ Paid(call[w].campaign)

LateStatus(w) ==
    /\ Writes(w, "status") /\ call[w].sync = "ifChanged"
    /\ campaign[call[w].campaign].status # call[w].status

LateProducts(w) ==
    /\ \/ Writes(w, "selected") /\ call[w].sync = "ifChanged"
       \/ Writes(w, "deleted")
    /\ campaign[call[w].campaign].selected # call[w].products

Reapproved(w) ==
    /\ Writes(w, "status") /\ call[w].sync = "ifLive" /\ call[w].new.status # "live"
    /\ campaign[call[w].campaign].status = "live"

StalePlan(w) ==
    /\ call[w].at \in {"nextProduct", "writeSections"}
    /\ \/ \E p \in call[w].add : ~InLiveCampaign(p)
       \/ \E p \in call[w].remove : InLiveCampaign(p)

StaleSections(w) ==
    /\ At(w, "writeSections")
    /\ ("best_deals" \in call[w].sections) # InLiveCampaign(call[w].product)

DealsClean == \A w \in Worker :
    /\ ~LateLive(w) /\ ~LateUnpaid(w) /\ ~LateStatus(w) /\ ~LateProducts(w)
    /\ ~Reapproved(w) /\ ~StalePlan(w) /\ ~StaleSections(w)

DealsCleanSpec == DealsInit /\ [][DealsNext /\ DealsClean']_dealsVars

-----------------------------------------------------------------------------
\* "Cannot set campaign to live before payment is completed"
\* (updateCampaignByAdmin): no handler makes a campaign live that is not paid,
\* or takes the payment of a live one back, unless an admin sets it by hand.
LiveIsPaid == \A c \in Campaign \ settled :
    Open(c) /\ campaign[c].status = "live" => Paid(c)

\* When no call is running, and none was cut off, the section best_deals shows
\* the products of live campaigns and no others
\* (syncDealsSectionForProducts), but for what was typed in by hand.
BestDealsAreLive ==
    NobodyCalls /\ faults = 0 /\ settled = {} =>
        \A p \in Product \ byHand :
            "best_deals" \in product[p].sections <=> InLiveCampaign(p)
=============================================================================
