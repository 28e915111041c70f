------------------------------ MODULE Products ------------------------------
(***************************************************************************)
(* Products as sellers and admins list, reject and feature them            *)
(* (products.service.ts, products.repository.ts): whether one is on sale,  *)
(* and the sections of the storefront it is shown in.                      *)
(*                                                                         *)
(* Texts, prices and pictures are left out.  A handler that writes what it *)
(* has not read is one step.                                               *)
(***************************************************************************)
EXTENDS Calls

CONSTANT Product    \* rows of products that can be inserted

ASSUME ProductNilAssumption == Nil \notin Product

VARIABLES
    product,
    byHand      \* history: products whose sections were typed in

productVars == <<product, byHand>>

-----------------------------------------------------------------------------
Section == {"best_deals", "featured"}

ProductRow == [moderation : {"none", "approved", "rejected"},   \* none: no row
               active : BOOLEAN, deleted : BOOLEAN, sections : SUBSET Section]

NoProduct == [moderation |-> "none", active |-> FALSE, deleted |-> FALSE, sections |-> {}]

\* Before sections are written; add and remove are what is left of a sync.
WritingSections == [at : {"writeSections"}, product : Product, sections : SUBSET Section,
                    add : SUBSET Product, remove : SUBSET Product]

ProductsTypeOK ==
    /\ product \in [Product -> ProductRow]
    /\ byHand \subseteq Product

ProductsInit ==
    /\ product = [p \in Product |-> NoProduct]
    /\ byHand = {}

-----------------------------------------------------------------------------
Listed(p) == product[p].moderation # "none" /\ ~product[p].deleted
OnSale == {p \in Product : Listed(p) /\ product[p].active}

\* The unlocked write that ends a handler.
Put(p, row) ==
    /\ product' = [product EXCEPT ![p] = row]
    /\ UNCHANGED callVars

\* A seller who is not approved lists nothing.
CreateProduct ==
    /\ \E p \in Product, active \in BOOLEAN, sections \in SUBSET Section :
        /\ product[p] = NoProduct
        /\ Put(p, [moderation |-> "approved", active |-> active, deleted |-> FALSE,
                   sections |-> sections])
        /\ byHand' = IF "best_deals" \in sections THEN byHand \cup {p} ELSE byHand

UpdateProduct ==
    \E p \in Product, active \in BOOLEAN, sections \in SUBSET Section :
        /\ Listed(p)
        /\ Put(p, [product[p] EXCEPT !.active = active, !.sections = sections])
        /\ byHand' = IF sections = product[p].sections THEN byHand ELSE byHand \cup {p}

RemoveProduct ==
    /\ \E p \in Product : Listed(p)
        /\ Put(p, [product[p] EXCEPT !.deleted = TRUE, !.active = FALSE])
    /\ UNCHANGED byHand

\* The admin's toggle looks for no row: it may turn on a product that was removed.
ToggleStatus ==
    /\ \E p \in Product, active \in BOOLEAN : product[p] # NoProduct
        /\ Put(p, [product[p] EXCEPT !.active = active])
    /\ UNCHANGED byHand

ApproveProduct ==
    /\ \E p \in Product : Listed(p)
        /\ Put(p, [product[p] EXCEPT !.active = TRUE, !.moderation = "approved"])
    /\ UNCHANGED byHand

RejectProduct ==
    /\ \E p \in Product : Listed(p)
        /\ Put(p, [product[p] EXCEPT !.active = FALSE, !.moderation = "rejected"])
    /\ UNCHANGED byHand

-----------------------------------------------------------------------------
\* featureProduct reads the sections and writes them all back, as the sync of
\* the deals does.
WriteBack(p, sections, add, remove) ==
    [at |-> "writeSections", product |-> p, sections |-> sections,
     add |-> add, remove |-> remove]

FeatureProduct(w) ==
    /\ \E p \in OnSale :
        \E sections \in {product[p].sections \cup {"featured"},
                         product[p].sections \ {"featured"}} :
            Begin(w, WriteBack(p, sections, {}, {}))
    /\ UNCHANGED <<productVars, faults>>

WriteSections(w) ==
    /\ At(w, "writeSections")
    /\ product' = [product EXCEPT ![call[w].product].sections = call[w].sections]
    /\ \/ call[w].add \cup call[w].remove = {} /\ Return(w)
       \/ /\ call[w].add \cup call[w].remove # {}
          /\ Become(w, [at |-> "nextProduct", add |-> call[w].add, remove |-> call[w].remove])
    /\ UNCHANGED <<byHand, faults>>

\* The requests of products.controller.ts, sellers' and administrators' ...
ProductRequests == CreateProduct \/ UpdateProduct \/ RemoveProduct

\* ... and those only of admin-products.controller.ts.
ModerationRequests == ToggleStatus \/ ApproveProduct \/ RejectProduct

ProductsStep == ProductRequests \/ ModerationRequests
=============================================================================
