---------------------------- MODULE MCServices ----------------------------
(***************************************************************************)
(* Small instances of the services that share no rows, and of reviews and  *)
(* deals, which share the products.  part says which one is explored.      *)
(***************************************************************************)
EXTENDS Codes, Deals, Wallets, Addresses, Reviews, Stores, Notices, Desk, Views, Catalogue,
        Bookings, Onboarding, TLC

CONSTANTS x1, x2, x3, y1, y2, w1, w2      \* ids; rows of different tables may share them

VARIABLE part

(***************************************************************************)
(* Bounds.  Products are on sale unless nobody calls.  Either there is one *)
(* campaign, and calls overlap, or there are two, both of them running,    *)
(* one live, and calls do not.  An admin whose call overlaps another sets  *)
(* the status to live or cancelled.  Nothing is set by hand.               *)
(***************************************************************************)
Alone == Cardinality({w \in Worker : ~At(w, "idle")}) <= 1
Made == {c \in Campaign : campaign[c] # NoCampaign}
ByAdmin(w) == At(w, "write") /\ call[w].sync = "ifChanged"
NotFeatured == \A p \in Product : "featured" \notin product[p].sections

ByHand ==
    \/ settled # {} \/ byHand # {}
    \/ \E w \in Worker : ByAdmin(w) /\ "payment" \in call[w].columns

OneCampaign ==
    /\ Cardinality(Made) <= 1
    /\ \A r \in Reference : event[r] # {} =>
        \/ \E c \in Made : campaign[c].reference = r
        \/ \E w \in Worker : Writes(w, "reference") /\ call[w].new.reference = r
    /\ \A w \in Worker : ByAdmin(w) =>
        Alone \/ (call[w].columns = {"status"} /\ call[w].new.status \in {"live", "cancelled"})
    /\ Alone \/ NotFeatured

TwoCampaigns ==
    /\ Alone /\ NotFeatured
    /\ \A c \in Made : campaign[c].phase = "running" /\ (campaign[c].deleted => ~NobodyCalls)
    /\ \E c \in Made : campaign[c].status = "live"
    /\ \A r \in Reference : "charge.failed" \notin event[r]

NarrowDeals ==
    /\ ~ByHand /\ faults = 0
    /\ OneCampaign \/ TwoCampaigns
    /\ \A p \in Product :
        \/ p \in OnSale /\ product[p].moderation = "approved"
        \/ NobodyCalls /\ Cardinality(Made) <= 1

\* All but the first code are sent for the same purpose, and the third to nobody
\* who has guessed.
NarrowCodes ==
    LET purposes == {codes[i].purpose : i \in DOMAIN codes}
                    \cup {call[w].purpose : w \in {w \in Worker : call[w] # Idle}}
    IN  /\ Len(codes) > 1 => Cardinality(purposes) = 1
        /\ Len(codes) = MaxCodes => faults = 0 /\ \A i \in DOMAIN codes : codes[i].guesses = 0

NarrowReviews == \A p \in Product :
    product[p] = NoProduct \/ product[p] = [moderation |-> "approved", active |-> TRUE,
                                            deleted |-> FALSE, sections |-> {}]

\* Bounds of the catalogue: rows of products are written when there is at most
\* one category, rows of categories when no product is left but one, and of two
\* products and of three fewer columns vary.
NarrowCatalogue ==
    /\ Shelved # {} => Cardinality(Inserted) <= 1
    /\ Inserted # {} => Cardinality(Shelved) <= 1
    /\ Cardinality(Shelved) > 1 => \A i \in Shelved : shelf[i].onSale
    /\ Cardinality(Shelved) > 2 => \A i \in Shelved : shelf[i].deal

\* Once there is a booking, what is offered no longer changes but for the price.
NarrowBookings ==
    Booked # {} =>
        /\ \A t \in Types : slotType[t] = [active |-> TRUE, deleted |-> FALSE]
        /\ \A t \in Tiers : tier[t].active /\ ~tier[t].deleted
        /\ Cardinality(Slots) = 1
        /\ \A w \in Worker : ~At(w, "createSlot")

\* One seller asks at a time.
NarrowOnboarding == Cardinality({w \in Worker : At(w, "status") \/ At(w, "respond")}) <= 1

-----------------------------------------------------------------------------
Init ==
    /\ part \in {"codes", "deals", "wallets", "addresses", "reviews", "stores",
                "notices", "desk", "views", "catalogue", "bookings", "onboarding"}
    /\ CodesInit /\ DealsInit /\ WalletsInit /\ AddressesInit /\ ReviewsInit /\ StoresInit
    /\ NoticesInit /\ DeskInit /\ ViewsInit /\ CatalogueInit /\ BookingsInit /\ OnboardingInit

shopVars == <<productVars, dealVars, reviewVars, bookingVars>>
userVars == <<codes, walletVars, address, storeVars, onboardingVars>>
otherVars == <<noticeVars, deskVars, viewVars, catalogueVars>>

ShopNext ==
    /\ \/ part = "deals" /\ DealsNext /\ NarrowDeals' /\ UNCHANGED <<reviewVars, bookingVars>>
       \/ part = "reviews" /\ ReviewsNext /\ NarrowReviews' /\ UNCHANGED <<dealVars, bookingVars>>
       \/ /\ part = "bookings" /\ BookingsNext /\ NarrowBookings'
          /\ UNCHANGED <<productVars, dealVars, reviewVars>>
    /\ UNCHANGED <<userVars, otherVars>>

UserNext ==
    /\ \/ /\ part = "codes" /\ CodesNext /\ NarrowCodes'
          /\ UNCHANGED <<walletVars, address, storeVars, onboardingVars>>
       \/ part = "wallets" /\ WalletsNext /\ UNCHANGED <<codes, address, storeVars, onboardingVars>>
       \/ part = "addresses" /\ AddressesNext /\ UNCHANGED <<codes, walletVars, storeVars, onboardingVars>>
       \/ part = "stores" /\ StoresNext /\ UNCHANGED <<codes, walletVars, address, onboardingVars>>
       \/ /\ part = "onboarding" /\ OnboardingNext /\ NarrowOnboarding'
          /\ UNCHANGED <<codes, walletVars, address, storeVars>>
    /\ UNCHANGED <<shopVars, otherVars>>

OtherNext ==
    /\ \/ part = "notices" /\ NoticesNext /\ UNCHANGED <<deskVars, viewVars, catalogueVars>>
       \/ part = "desk" /\ DeskNext /\ UNCHANGED <<noticeVars, viewVars, catalogueVars>>
       \/ part = "views" /\ ViewsNext /\ UNCHANGED <<noticeVars, deskVars, catalogueVars>>
       \/ /\ part = "catalogue" /\ CatalogueNext /\ NarrowCatalogue'
          /\ UNCHANGED <<noticeVars, deskVars, viewVars>>
    /\ UNCHANGED <<shopVars, userVars>>

Next == part' = part /\ (ShopNext \/ UserNext \/ OtherNext)

vars == <<part, shopVars, userVars, otherVars, callVars>>

Spec == Init /\ [][Next]_vars

TypeOK ==
    /\ part = "codes" => CodesTypeOK
    /\ part = "deals" => DealsTypeOK
    /\ part = "wallets" => WalletsTypeOK
    /\ part = "addresses" => AddressesTypeOK
    /\ part = "reviews" => ReviewsTypeOK
    /\ part = "stores" => StoresTypeOK
    /\ part = "notices" => NoticesTypeOK
    /\ part = "desk" => DeskTypeOK
    /\ part = "views" => ViewsTypeOK
    /\ part = "catalogue" => CatalogueTypeOK
    /\ part = "bookings" => BookingsTypeOK
    /\ part = "onboarding" => OnboardingTypeOK

Clean ==
    /\ part = "deals" => DealsClean
    /\ part = "addresses" => AddressesClean
    /\ part = "views" => ViewsClean

Interchangeable ==
    Permutations(Worker) \cup Permutations({x1, x2}) \cup Permutations({y1, y2})
=============================================================================
