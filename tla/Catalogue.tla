----------------------------- MODULE Catalogue -----------------------------
(***************************************************************************)
(* What the shop shows: the tree of categories (categories.service.ts) and *)
(* the pages of a list of products (products.service.ts,                   *)
(* products.repository.ts).  Rows are written one statement at a time; the *)
(* reads are operators.  A product is what a list looks at: whether it is  *)
(* on sale, its price, when it was created, its category and whether it is *)
(* in the section of deals.  Other filters (text, brand, stock, rating)    *)
(* select rows the same way.  Sales are never counted, so that all orders  *)
(* but the two by price are by age.                                        *)
(* "Slip:" marks a faulty variant of the operator below it.                *)
(***************************************************************************)
EXTENDS Calls, SequencesExt

CONSTANTS
    Category,
    Item,           \* ids of products, in their order
    Price,
    Limit           \* products on a page

ASSUME CatalogueAssumption ==
    /\ Item \subseteq Nat /\ IsFiniteSet(Item) /\ IsFiniteSet(Category)
    /\ Price \subseteq Nat /\ Limit \subseteq Nat \ {0}
    /\ Nil \notin Category /\ "deals" \notin Category /\ "unknown" \notin Category

VARIABLES
    category,
    shelf

catalogueVars == <<category, shelf>>

-----------------------------------------------------------------------------
CategoryRow == [parent : Category \cup {Nil}, active : BOOLEAN, deleted : BOOLEAN]

Card == [onSale : BOOLEAN, price : Price, age : 1 .. 2, category : Category \cup {Nil},
         deal : BOOLEAN]

CatalogueTypeOK ==
    /\ category \in [Category -> CategoryRow \cup {Nil}]
    /\ shelf \in [Item -> Card \cup {Nil}]

CatalogueInit ==
    /\ CallsInit
    /\ category = [c \in Category |-> Nil]
    /\ shelf = [i \in Item |-> Nil]

-----------------------------------------------------------------------------
Inserted == {c \in Category : category[c] # Nil}
Found == {c \in Inserted : ~category[c].deleted}

CreateCategory ==
    /\ \E c \in Category \ Inserted, parent \in Inserted \cup {Nil}, active \in BOOLEAN :
        category' = [category EXCEPT ![c] = [parent |-> parent, active |-> active, deleted |-> FALSE]]
    /\ UNCHANGED <<shelf, callVars>>

\* Any category may become the parent of any other, or of itself.
UpdateCategory ==
    /\ \E c \in Inserted, parent \in Inserted \cup {Nil}, active \in BOOLEAN :
        category' = [category EXCEPT ![c].parent = parent, ![c].active = active]
    /\ UNCHANGED <<shelf, callVars>>

\* The categories below it keep their parent.
RemoveCategory ==
    /\ \E c \in Inserted :
        category' = [category EXCEPT ![c].deleted = TRUE, ![c].active = FALSE]
    /\ UNCHANGED <<shelf, callVars>>

AddItem ==
    /\ \E i \in Item, card \in Card :
        /\ shelf[i] = Nil /\ card.onSale
        /\ card.category \in Inserted \cup {Nil}
        /\ shelf' = [shelf EXCEPT ![i] = card]
    /\ UNCHANGED <<category, callVars>>

\* Any column, of a product taken off sale too.
EditItem ==
    /\ \E i \in Item :
        /\ shelf[i] # Nil
        /\ \/ \E p \in Price : shelf' = [shelf EXCEPT ![i].price = p]
           \/ \E c \in Inserted : shelf' = [shelf EXCEPT ![i].category = c]
           \/ \E b \in BOOLEAN : shelf' = [shelf EXCEPT ![i].deal = b]
           \/ \E b \in BOOLEAN : shelf' = [shelf EXCEPT ![i].onSale = b]
    /\ UNCHANGED <<category, callVars>>

\* The requests of admin-categories.controller.ts.
CategoryRequests == CreateCategory \/ UpdateCategory \/ RemoveCategory

CatalogueNext == CategoryRequests \/ AddItem \/ EditItem

CatalogueSpec == CatalogueInit /\ [][CatalogueNext]_<<catalogueVars, callVars>>

-----------------------------------------------------------------------------
(***************************************************************************)
(* The tree: a category under no category that is shown is a root.         *)
(***************************************************************************)
Showing == {c \in Found : category[c].active}

Roots == {c \in Showing : category[c].parent \notin Showing}

ChildrenOf(parents) == {c \in Showing : category[c].parent \in parents}

\* The categories at most n levels below the given ones.
Below(top) ==
    LET level[n \in 0 .. Cardinality(Category)] ==
            IF n = 0 THEN top ELSE level[n - 1] \cup ChildrenOf(level[n - 1])
    IN  level[Cardinality(Category)]

BuildTree == Below(Roots)

\* No category is below itself.
Acyclic == \A c \in Showing : c \notin Below(ChildrenOf({c}))

-----------------------------------------------------------------------------
(***************************************************************************)
(* Lists of products.                                                      *)
(***************************************************************************)
Query == [category : Category \cup {Nil, "deals", "unknown"}, minPrice : Price,
          sort : {"price_asc", "price_desc", "newest"}, limit : Limit]

\* findAll: the category "deals", which is taken to exist, stands for a section,
\* an unknown one for no filter.
InCategory(card, slug) ==
    IF slug = "deals" THEN card.deal
    ELSE slug \in Found => card.category = slug

Shelved == {i \in Item : shelf[i] # Nil}

ProductFilters(q) == {i \in Shelved :
    /\ shelf[i].onSale
    /\ InCategory(shelf[i], q.category)
    /\ shelf[i].price >= q.minPrice}

\* productOrder; ids decide between equal rows.
Before(sort, i, j) ==
    LET p == shelf[i].price r == shelf[j].price
        a == shelf[i].age   b == shelf[j].age
    IN  CASE sort = "price_asc" -> p < r \/ (p = r /\ i < j)
          [] sort = "price_desc" -> p > r \/ (p = r /\ i < j)
          [] sort = "newest" -> a < b \/ (a = b /\ i < j)

\* The rows of a list in their order.
Sorted(q) ==
    CHOOSE s \in [1 .. Cardinality(ProductFilters(q)) -> ProductFilters(q)] :
        \A m, n \in DOMAIN s : m < n => Before(q.sort, s[m], s[n])

\* Slip: pages are counted from zero.
PageFromZero(q, page) ==
    LET s == Sorted(q)
    IN  SubSeq(s, page * q.limit + 1, Min({(page + 1) * q.limit, Len(s)}))

FindProductPage(q, page) ==
    LET s == Sorted(q)
    IN  SubSeq(s, (page - 1) * q.limit + 1, Min({page * q.limit, Len(s)}))

TotalPages(q) == (Cardinality(ProductFilters(q)) + q.limit - 1) \div q.limit

HasNextPage(q, page) == page < TotalPages(q)

-----------------------------------------------------------------------------
\* Every active category is in the tree (buildTree), whatever became of those
\* above it, unless one is below itself; and whoever walks a list of products
\* from its first page on for as long as there is a next one sees every product
\* of the list, once and in its order (findAll, findProductPage), with prices
\* that are equal and products created at once.  The list is that of one state:
\* nothing is said of rows that are written while someone walks it.
AllShownOnce ==
    /\ Acyclic => BuildTree = Showing
    /\ Shelved # {} => \A q \in Query :
        LET walk == 1 .. CHOOSE n \in 1 .. Cardinality(Item) + 1 :
                          ~HasNextPage(q, n) /\ \A m \in 1 .. n - 1 : HasNextPage(q, m)
            seen == FlattenSeq([n \in walk |-> FindProductPage(q, n)])
        IN  /\ Range(seen) = ProductFilters(q)
            /\ \A m, n \in DOMAIN seen : m < n => Before(q.sort, seen[m], seen[n])
=============================================================================
