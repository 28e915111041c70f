------------------------------- MODULE Carts -------------------------------
(***************************************************************************)
(* Carts and their lines (cart.service.ts, cart.repository.ts): the cart   *)
(* of a signed-in buyer, and guests' carts, which are merged into it.      *)
(*                                                                         *)
(* A worker is one running call, pc the await it stands before.  "Slip:"   *)
(* marks a faulty variant of the operator below it, which nothing uses.    *)
(***************************************************************************)
EXTENDS Integers, Functions

CONSTANTS
    Cart, Line,     \* rows of carts and cart_items that can be inserted
    Product,
    Variant,        \* the products whose lines name a variant
    Nil,
    Worker,
    MaxQuantity,    \* bounds what is put into carts, per product
    MaxFaults

ASSUME VariantAssumption == Variant \subseteq Product
ASSUME QuantityAssumption == MaxQuantity \in Nat \ {0}
ASSUME CartNilAssumption == Nil \notin Cart \cup Line \cup Product

VARIABLES
    owner,                          \* of a cart
    cartOf, productOf, quantity,    \* of a line; a deleted one is in no cart
    wanted,                         \* history: put in less taken out, per product
    drift,                          \* history: copied by merges less deleted by them
    insertedBy,                     \* history: the worker that inserted a line
    pc, after, target, product, amount, found,      \* workers
    guest, copied, todo, written, gain,             \* workers that merge a guest's cart
    faults

lineVars == <<cartOf, productOf, quantity>>
cartHistory == <<wanted, drift, insertedBy>>
mergeLocals == <<guest, copied, todo, written, gain>>
cartLocals == <<after, target, product, amount, found, mergeLocals>>
cartVars == <<owner, lineVars, cartHistory, pc, cartLocals, faults>>

-----------------------------------------------------------------------------
Label ==
    {"idle", "insertCart", "find", "increment", "insertLine",
     "merge", "mergeIncrement", "mergeInsert"}

Nothing == [l \in Line |-> 0]

CartsTypeOK ==
    /\ owner \in [Cart -> {"none", "user", "guest", "deleted"}]
    /\ cartOf \in [Line -> Cart \cup {Nil}]
    /\ productOf \in [Line -> Product \cup {Nil}]
    /\ quantity \in [Line -> Nat]
    /\ wanted \in [Product -> Int]
    /\ drift \in [Product -> Int]
    /\ insertedBy \in [Line -> Worker \cup {Nil}]
    /\ pc \in [Worker -> Label]
    /\ after \in [Worker -> {"idle", "find", "merge"}]
    /\ target \in [Worker -> Cart \cup {Nil}]
    /\ product \in [Worker -> Product \cup {Nil}]
    /\ amount \in [Worker -> Nat]
    /\ found \in [Worker -> Line \cup {Nil}]
    /\ guest \in [Worker -> Cart \cup {Nil}]
    /\ copied \in [Worker -> [Line -> Nat]]
    /\ todo \in [Worker -> SUBSET Line]
    /\ written \in [Worker -> SUBSET Line]
    /\ gain \in [Worker -> [Line -> Nat]]
    /\ faults \in Nat

CartsInit ==
    /\ owner = [c \in Cart |-> "none"]
    /\ cartOf = [l \in Line |-> Nil]
    /\ productOf = [l \in Line |-> Nil]
    /\ quantity = Nothing
    /\ wanted = [p \in Product |-> 0]
    /\ drift = [p \in Product |-> 0]
    /\ insertedBy = [l \in Line |-> Nil]
    /\ pc = [w \in Worker |-> "idle"]
    /\ after = [w \in Worker |-> "idle"]
    /\ target = [w \in Worker |-> Nil]
    /\ product = [w \in Worker |-> Nil]
    /\ amount = [w \in Worker |-> 0]
    /\ found = [w \in Worker |-> Nil]
    /\ guest = [w \in Worker |-> Nil]
    /\ copied = [w \in Worker |-> Nothing]
    /\ todo = [w \in Worker |-> {}]
    /\ written = [w \in Worker |-> {}]
    /\ gain = [w \in Worker |-> Nothing]
    /\ faults = 0

-----------------------------------------------------------------------------
Live(c) == owner[c] \in {"user", "guest"}
OwnCarts == {c \in Cart : owner[c] = "user"}
LinesIn(c) == {l \in Line : cartOf[l] = c}
LinesOf(c, p) == {l \in LinesIn(c) : productOf[l] = p}
Unused == {l \in Line : productOf[l] = Nil}

\* What the lines of a cart hold of each product.
Contents(c) == [p \in Product |-> SumFunctionOnSet(quantity, LinesOf(c, p))]

Goto(w, label) == pc' = [pc EXCEPT ![w] = label]

\* The call returns or throws: its locals are dead.
Finish(w) ==
    /\ Goto(w, "idle")
    /\ after' = [after EXCEPT ![w] = "idle"]
    /\ target' = [target EXCEPT ![w] = Nil]
    /\ product' = [product EXCEPT ![w] = Nil]
    /\ amount' = [amount EXCEPT ![w] = 0]
    /\ found' = [found EXCEPT ![w] = Nil]
    /\ guest' = [guest EXCEPT ![w] = Nil]
    /\ copied' = [copied EXCEPT ![w] = Nothing]
    /\ todo' = [todo EXCEPT ![w] = {}]
    /\ written' = [written EXCEPT ![w] = {}]
    /\ gain' = [gain EXCEPT ![w] = Nothing]

\* The bound: calls put no more than MaxQuantity of a product into carts.
Allowed(p, n) ==
    LET asked == {v \in Worker : product[v] = p /\ guest[v] = Nil}
    IN  wanted[p] + SumFunctionOnSet(amount, asked) + n <= MaxQuantity

\* A row that a merge has written is locked until its transaction ends.
Locked(w, l) == \E v \in Worker \ {w} : l \in written[v]

\* The index on cart, product and variant makes an insert wait for that of a
\* transaction, and refuses a second line with a variant.
KeyHeld(w) ==
    /\ product[w] \in Variant
    /\ \E v \in Worker \ {w} : target[v] = target[w]
         /\ \E l \in written[v] : productOf[l] = product[w]
KeyTaken(w) == product[w] \in Variant /\ LinesOf(target[w], product[w]) # {}

-----------------------------------------------------------------------------
(***************************************************************************)
(* findOrCreateForUser finds a cart of the buyer's or inserts one; the     *)
(* rest of the call goes on at next.                                       *)
(***************************************************************************)
TakeOwnCart(w, next) ==
    \/ \E c \in OwnCarts : target' = [target EXCEPT ![w] = c]
       /\ Goto(w, next) /\ UNCHANGED after
    \/ OwnCarts = {} /\ after' = [after EXCEPT ![w] = next]
       /\ Goto(w, "insertCart") /\ UNCHANGED target

CreateOwnCart(w) ==
    /\ pc[w] = "idle" /\ OwnCarts = {}
    /\ TakeOwnCart(w, "idle")
    /\ UNCHANGED <<owner, lineVars, cartHistory, product, amount, found, mergeLocals, faults>>

CreateGuestCart ==
    /\ \E c \in Cart : owner[c] = "none" /\ owner' = [owner EXCEPT ![c] = "guest"]
    /\ UNCHANGED <<lineVars, cartHistory, pc, cartLocals, faults>>

InsertCart(w) ==
    /\ pc[w] = "insertCart"
    /\ \E c \in Cart :
        /\ owner[c] = "none"
        /\ owner' = [owner EXCEPT ![c] = "user"]
        /\ \/ after[w] = "idle" /\ Finish(w)
           \/ /\ after[w] # "idle"
              /\ target' = [target EXCEPT ![w] = c]
              /\ Goto(w, after[w])
              /\ UNCHANGED <<after, product, amount, found, mergeLocals>>
    /\ UNCHANGED <<lineVars, cartHistory, faults>>

-----------------------------------------------------------------------------
(***************************************************************************)
(* Adding an item, to a cart by its id or to the buyer's own ...           *)
(***************************************************************************)
Ask(w) ==
    /\ pc[w] = "idle"
    /\ \E p \in Product : \E n \in 1 .. MaxQuantity :
        /\ Allowed(p, n)
        /\ product' = [product EXCEPT ![w] = p]
        /\ amount' = [amount EXCEPT ![w] = n]
    /\ UNCHANGED <<owner, lineVars, cartHistory, found, mergeLocals, faults>>

Add(w) ==
    /\ Ask(w)
    /\ \E c \in Cart : Live(c) /\ target' = [target EXCEPT ![w] = c]
    /\ Goto(w, "find")
    /\ UNCHANGED after

AddToOwnCart(w) == Ask(w) /\ TakeOwnCart(w, "find")

\* Slip: the line there is is not found.
FindNoLine(w) ==
    /\ pc[w] = "find"
    /\ \/ ~Live(target[w]) /\ Finish(w)
       \/ /\ Live(target[w])
          /\ Goto(w, "insertLine")
          /\ UNCHANGED <<after, target, product, amount, found, mergeLocals>>
    /\ UNCHANGED <<owner, lineVars, cartHistory, faults>>

\* ... addItemByCartId looks for a line of the product ...
FindLine(w) ==
    /\ pc[w] = "find"
    /\ \/ ~Live(target[w]) /\ Finish(w)
       \/ /\ Live(target[w])
          /\ \/ \E l \in LinesOf(target[w], product[w]) :
                    found' = [found EXCEPT ![w] = l] /\ Goto(w, "increment")
             \/ /\ LinesOf(target[w], product[w]) = {}
                /\ Goto(w, "insertLine") /\ UNCHANGED found
          /\ UNCHANGED <<after, target, product, amount, mergeLocals>>
    /\ UNCHANGED <<owner, lineVars, cartHistory, faults>>

PutIn(p, n) == wanted' = [wanted EXCEPT ![p] = @ + n]

\* Slip: the line takes the quantity that is added to it.
IncrementOver(w) ==
    /\ pc[w] = "increment" /\ ~Locked(w, found[w])
    /\ \/ /\ cartOf[found[w]] # Nil
          /\ quantity' = [quantity EXCEPT ![found[w]] = amount[w]]
          /\ PutIn(product[w], amount[w])
       \/ cartOf[found[w]] = Nil /\ UNCHANGED <<quantity, wanted>>
    /\ Finish(w)
    /\ UNCHANGED <<owner, cartOf, productOf, drift, insertedBy, faults>>

\* ... and adds to it, unless it has gone, ...
Increment(w) ==
    /\ pc[w] = "increment" /\ ~Locked(w, found[w])
    /\ \/ /\ cartOf[found[w]] # Nil
          /\ quantity' = [quantity EXCEPT ![found[w]] = @ + amount[w]]
          /\ PutIn(product[w], amount[w])
       \/ cartOf[found[w]] = Nil /\ UNCHANGED <<quantity, wanted>>
    /\ Finish(w)
    /\ UNCHANGED <<owner, cartOf, productOf, drift, insertedBy, faults>>

\* ... or inserts one.  The cart must still exist.
InsertLine(w) ==
    /\ pc[w] = "insertLine" /\ ~KeyHeld(w)
    /\ \/ /\ ~Live(target[w]) \/ KeyTaken(w)
          /\ UNCHANGED <<lineVars, wanted, insertedBy>>
       \/ /\ Live(target[w]) /\ ~KeyTaken(w)
          /\ \E l \in Unused :
                /\ cartOf' = [cartOf EXCEPT ![l] = target[w]]
                /\ productOf' = [productOf EXCEPT ![l] = product[w]]
                /\ quantity' = [quantity EXCEPT ![l] = amount[w]]
                /\ insertedBy' = [insertedBy EXCEPT ![l] = w]
          /\ PutIn(product[w], amount[w])
    /\ Finish(w)
    /\ UNCHANGED <<owner, drift, faults>>

-----------------------------------------------------------------------------
(***************************************************************************)
(* Changes of lines are one conditional statement each.  One that has to   *)
(* wait for a locked row is taken when it goes on.                         *)
(***************************************************************************)
SetQuantity(l, n) ==
    /\ cartOf[l] # Nil /\ \A w \in Worker : l \notin written[w]
    /\ quantity' = [quantity EXCEPT ![l] = n]
    /\ PutIn(productOf[l], n - quantity[l])

ChangeQuantity ==
    /\ \E l \in Line : \E n \in 1 .. MaxQuantity :
        cartOf[l] # Nil /\ Allowed(productOf[l], n - quantity[l]) /\ SetQuantity(l, n)
    /\ UNCHANGED <<owner, cartOf, productOf, drift, insertedBy, pc, cartLocals, faults>>

Drop(lines) ==
    /\ cartOf' = [l \in Line |-> IF l \in lines THEN Nil ELSE cartOf[l]]
    /\ quantity' = [l \in Line |-> IF l \in lines THEN 0 ELSE quantity[l]]

DeleteLine(l) ==
    /\ cartOf[l] # Nil /\ \A w \in Worker : l \notin written[w]
    /\ Drop({l})
    /\ PutIn(productOf[l], -quantity[l])

RemoveLine ==
    /\ \E l \in Line : DeleteLine(l)
    /\ UNCHANGED <<owner, productOf, drift, insertedBy, pc, cartLocals, faults>>

DeleteLinesIn(c) ==
    /\ Live(c) /\ \A w \in Worker : LinesIn(c) \cap written[w] = {}
    /\ Drop(LinesIn(c))
    /\ wanted' = [p \in Product |-> wanted[p] - Contents(c)[p]]

ClearCart ==
    /\ \E c \in Cart : DeleteLinesIn(c)
    /\ UNCHANGED <<owner, productOf, drift, insertedBy, pc, cartLocals, faults>>

-----------------------------------------------------------------------------
(***************************************************************************)
(* claimGuestForUser reads both carts ...                                  *)
(***************************************************************************)
CopyOf(c) == [l \in Line |-> IF cartOf[l] = c THEN quantity[l] ELSE 0]

ReadGuestCart(w) ==
    /\ pc[w] = "idle"
    /\ \E c \in Cart :
        /\ owner[c] = "guest"
        /\ guest' = [guest EXCEPT ![w] = c]
        /\ copied' = [copied EXCEPT ![w] = CopyOf(c)]
        /\ todo' = [todo EXCEPT ![w] = LinesIn(c)]
    /\ TakeOwnCart(w, "merge")
    /\ UNCHANGED <<owner, lineVars, cartHistory, product, amount, found, written, gain, faults>>

(***************************************************************************)
(* ... and in one transaction looks for a line for each it has read: one   *)
(* that is committed, or one of its own ...                                *)
(***************************************************************************)
Seen(w, p) ==
    LinesOf(target[w], p) \cup {l \in written[w] : productOf[l] = p}

MergeFind(w) ==
    /\ pc[w] = "merge"
    /\ \E l \in todo[w] :
        /\ todo' = [todo EXCEPT ![w] = @ \ {l}]
        /\ product' = [product EXCEPT ![w] = productOf[l]]
        /\ amount' = [amount EXCEPT ![w] = copied[w][l]]
        /\ \/ \E m \in Seen(w, productOf[l]) :
                found' = [found EXCEPT ![w] = m] /\ Goto(w, "mergeIncrement")
           \/ Seen(w, productOf[l]) = {} /\ Goto(w, "mergeInsert") /\ UNCHANGED found
    /\ UNCHANGED <<owner, lineVars, cartHistory, after, target, guest, copied, written, gain, faults>>

\* What a transaction adds to a line shows when it commits.
WriteInMerge(w, l) ==
    /\ written' = [written EXCEPT ![w] = @ \cup {l}]
    /\ gain' = [gain EXCEPT ![w][l] = @ + amount[w]]
    /\ found' = [found EXCEPT ![w] = Nil]
    /\ Goto(w, "merge")
    /\ UNCHANGED <<after, target, product, amount, guest, copied, todo>>

\* ... adds to it (if it has gone, all is rolled back), ...
MergeIncrement(w) ==
    /\ pc[w] = "mergeIncrement" /\ ~Locked(w, found[w])
    /\ IF cartOf[found[w]] # Nil \/ found[w] \in written[w]
       THEN WriteInMerge(w, found[w]) ELSE Finish(w)
    /\ UNCHANGED <<owner, lineVars, cartHistory, faults>>

\* ... or inserts one; a row that is rolled back counts as deleted ...
MergeInsert(w) ==
    /\ pc[w] = "mergeInsert" /\ ~KeyHeld(w)
    /\ \/ KeyTaken(w) /\ Finish(w) /\ UNCHANGED <<productOf, insertedBy>>
       \/ /\ ~KeyTaken(w)
          /\ \E l \in Unused :
                /\ productOf' = [productOf EXCEPT ![l] = product[w]]
                /\ insertedBy' = [insertedBy EXCEPT ![l] = w]
                /\ WriteInMerge(w, l)
    /\ UNCHANGED <<owner, cartOf, quantity, wanted, drift, faults>>

CopiedOf(w, p) == SumFunctionOnSet(copied[w], {l \in Line : productOf[l] = p})

\* ... and at last deletes the guest's cart with the lines it has by now.
Commit(w) ==
    /\ pc[w] = "merge" /\ todo[w] = {}
    /\ IF owner[guest[w]] # "guest" THEN UNCHANGED <<owner, cartOf, quantity, drift>>
       ELSE /\ owner' = [owner EXCEPT ![guest[w]] = "deleted"]
            /\ cartOf' = [l \in Line |-> IF l \in written[w] THEN target[w]
                                         ELSE IF cartOf[l] = guest[w] THEN Nil ELSE cartOf[l]]
            /\ quantity' = [l \in Line |-> IF cartOf[l] = guest[w] THEN 0
                                           ELSE quantity[l] + gain[w][l]]
            /\ drift' = [p \in Product |-> drift[p] + CopiedOf(w, p) - Contents(guest[w])[p]]
    /\ Finish(w)
    /\ UNCHANGED <<productOf, wanted, insertedBy, faults>>

\* A crash or a database error, two merges that wait for each other among
\* them, ends a call at any await.
Abort(w) ==
    /\ pc[w] # "idle"
    /\ faults < MaxFaults
    /\ faults' = faults + 1
    /\ Finish(w)
    /\ UNCHANGED <<owner, lineVars, cartHistory>>

-----------------------------------------------------------------------------
\* The requests of cart.controller.ts, for a cart by its id and for the buyer's own.
CartRequests(w) ==
    \/ CreateOwnCart(w) \/ CreateGuestCart \/ Add(w) \/ AddToOwnCart(w)
    \/ ChangeQuantity \/ RemoveLine \/ ClearCart \/ ReadGuestCart(w)

CartsNext == \E w \in Worker :
    \/ CartRequests(w)
    \/ InsertCart(w) \/ FindLine(w) \/ Increment(w) \/ InsertLine(w)
    \/ MergeFind(w) \/ MergeIncrement(w) \/ MergeInsert(w) \/ Commit(w)
    \/ Abort(w)

CartsSpec == CartsInit /\ [][CartsNext]_cartVars

-----------------------------------------------------------------------------
InCarts(p) == SumFunctionOnSet(quantity, {l \in Line : cartOf[l] # Nil /\ productOf[l] = p})

\* The carts hold what was put into them and not taken out, but for what a
\* merge copied and its guest's cart no longer held, or held since, when it was
\* deleted (addItemByCartId, claimGuestForUser): nothing else is lost or
\* doubled, whatever is added, changed, rolled back or merged at the same time.
NothingLost == \A p \in Product : InCarts(p) = wanted[p] + drift[p]

\* "Merge a guest cart into the authenticated user cart" (cart.controller.ts): a
\* merge brings what the guest's cart holds.
MergesWhole == \A p \in Product : drift[p] = 0

\* Two lines of a product in a cart were inserted by two calls at once, and name
\* no variant (addItemByCartId, claimGuestForUser): a call that runs alone finds
\* the line there is, also one that it has inserted itself in a merge.
SecondLineByAnother == \A l, m \in Line :
    l # m /\ cartOf[l] # Nil /\ cartOf[l] = cartOf[m] /\ productOf[l] = productOf[m] =>
        productOf[l] \notin Variant /\ insertedBy[l] # insertedBy[m]

\* "@@unique([cartId, productId, variantId])" (schema.prisma): a cart has at most
\* one line of a product, so that later changes of the quantity concern all of it.
OneLinePerProduct == \A l, m \in Line :
    cartOf[l] # Nil /\ cartOf[l] = cartOf[m] /\ productOf[l] = productOf[m] => l = m
=============================================================================
