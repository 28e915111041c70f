--------------------------- MODULE CheckoutProofs ---------------------------
(***************************************************************************)
(* Theorems about Carts and Checkout, for any number of products, carts,   *)
(* sessions, orders and concurrent calls.  Contents of carts are sums over *)
(* lines, so that lines and products are assumed to be finitely many.      *)
(*                                                                         *)
(* Carts, in every behaviour: CartsInv types the rows and what each call   *)
(* knows, MergeInv keeps apart what merges have written, LineInv says who  *)
(* may insert a line, GatherInv that a merge adds each line it has copied. *)
(* Checkout, in clean ones: CheckoutInv.                                   *)
(***************************************************************************)
EXTENDS Checkout, SumLemmas, TLAPS

-----------------------------------------------------------------------------
(* Carts: the inductive invariant *)

Merging == {"merge", "mergeIncrement", "mergeInsert"}

\* What a call knows at each of its awaits.
Locals(w) ==
    /\ pc[w] \in {"find", "increment", "insertLine"} =>
         target[w] \in Cart /\ product[w] \in Product
    /\ pc[w] \in {"increment", "mergeIncrement"} =>
         found[w] \in Line /\ productOf[found[w]] = product[w]
    /\ pc[w] = "insertCart" =>
         /\ after[w] = "find" => product[w] \in Product
         /\ after[w] = "merge" => guest[w] \in Cart
    /\ pc[w] \in Merging => guest[w] \in Cart /\ target[w] \in OwnCarts
    /\ pc[w] \in {"mergeIncrement", "mergeInsert"} => product[w] \in Product
    /\ \A l \in todo[w] : productOf[l] # Nil
    /\ \A l \in written[w] : productOf[l] # Nil
    /\ \A l \in Line \ written[w] : gain[w][l] = 0

\* A line in a cart is one of a product, and one in no cart holds nothing.
Rows == \A l \in Line :
    /\ cartOf[l] # Nil => productOf[l] # Nil
    /\ cartOf[l] = Nil => quantity[l] = 0

CartsInv == CartsTypeOK /\ Rows /\ \A w \in Worker : Locals(w)

\* Nobody has a cart in the initial state.
LEMMA CartsInitInv == CartsInit => CartsInv
  BY QuantityAssumption
  DEF CartsInit, CartsInv, CartsTypeOK, Rows, Locals, Merging, Label, Nothing

\* Contents of carts and copies of them are numbers.
LEMMA ContentsType ==
  ASSUME CartsTypeOK, IsFiniteSet(Line)
  PROVE  /\ \A c \in Cart : Contents(c) \in [Product -> Nat]
         /\ \A w \in Worker : \A p \in Product : CopiedOf(w, p) \in Nat
<1>1. ASSUME NEW c \in Cart, NEW p \in Product
      PROVE  SumFunctionOnSet(quantity, LinesOf(c, p)) \in Nat
  <2>1. IsFiniteSet(LinesOf(c, p)) /\ \A l \in LinesOf(c, p) : quantity[l] \in Nat
    BY FS_Subset DEF LinesOf, LinesIn, CartsTypeOK
  <2>2. QED
    BY <2>1, SumType
<1>2. ASSUME NEW w \in Worker, NEW p \in Product PROVE CopiedOf(w, p) \in Nat
  <2> DEFINE Lines == {l \in Line : productOf[l] = p}
  <2>1. IsFiniteSet(Lines) /\ \A l \in Lines : copied[w][l] \in Nat
    BY FS_Subset DEF CartsTypeOK
  <2>2. SumFunctionOnSet(copied[w], Lines) \in Nat
    BY <2>1, SumType
  <2>3. QED
    BY <2>2 DEF CopiedOf
<1>3. QED
  BY <1>1, <1>2 DEF Contents

\* The locals of all calls but those of some.
Others(some) == \A v \in Worker \ some :
    /\ pc'[v] = pc[v] /\ after'[v] = after[v] /\ target'[v] = target[v]
    /\ product'[v] = product[v] /\ amount'[v] = amount[v] /\ found'[v] = found[v]
    /\ guest'[v] = guest[v] /\ copied'[v] = copied[v] /\ todo'[v] = todo[v]
    /\ written'[v] = written[v] /\ gain'[v] = gain[v]

\* Carts of the buyer and products of lines stay what they are.
Grows ==
    /\ OwnCarts \subseteq OwnCarts'
    /\ \A l \in Line : productOf[l] # Nil => productOf'[l] = productOf[l]

\* Calls that do not move keep what they know.
LEMMA OthersKeep ==
  ASSUME CartsInv, NEW some, Others(some), Grows PROVE \A v \in Worker \ some : Locals(v)'
<1> SUFFICES ASSUME NEW v \in Worker \ some PROVE Locals(v)'
  OBVIOUS
<1>1. Locals(v) /\ Locals(v)!6 /\ Locals(v)!7
  BY DEF CartsInv, Locals
<1>2. todo[v] \subseteq Line /\ written[v] \subseteq Line
  BY DEF CartsInv, CartsTypeOK
<1>3. pc[v] \in {"increment", "mergeIncrement"} => productOf[found[v]] # Nil
  BY <1>1, CartNilAssumption DEF Locals
<1>4. QED
  BY <1>1, <1>2, <1>3 DEF Locals, Others, Grows

\* The types of rows and histories, and those of calls.
RowTypes ==
    /\ owner \in [Cart -> {"none", "user", "guest", "deleted"}]
    /\ cartOf \in [Line -> Cart \cup {Nil}]
    /\ productOf \in [Line -> Product \cup {Nil}]
    /\ quantity \in [Line -> Nat]
    /\ wanted \in [Product -> Int]
    /\ drift \in [Product -> Int]
    /\ insertedBy \in [Line -> Worker \cup {Nil}]
    /\ faults \in Nat

CallTypes ==
    /\ pc \in [Worker -> Label]
    /\ after \in [Worker -> {"idle", "find", "merge"}]
    /\ target \in [Worker -> Cart \cup {Nil}]
    /\ product \in [Worker -> Product \cup {Nil}]
    /\ amount \in [Worker -> Nat]
    /\ found \in [Worker -> Line \cup {Nil}]
    /\ guest \in [Worker -> Cart \cup {Nil}]
    /\ copied \in [Worker -> [Line -> Nat]]
    /\ todo \in [Worker -> SUBSET Line]
    /\ written \in [Worker -> SUBSET Line]
    /\ gain \in [Worker -> [Line -> Nat]]

LEMMA TypesSplit == CartsTypeOK <=> RowTypes /\ CallTypes
  BY DEF CartsTypeOK, RowTypes, CallTypes

LEMMA TypesSplitNext == CartsTypeOK' <=> RowTypes' /\ CallTypes'
  BY DEF CartsTypeOK, RowTypes, CallTypes

\* A step of one call, or of none.
LEMMA OneMoves ==
  ASSUME CartsInv, NEW w \in Worker, RowTypes', CallTypes', Rows', Others({w}), Grows, Locals(w)'
  PROVE  CartsInv'
<1>1. \A v \in Worker \ {w} : Locals(v)'
  BY OthersKeep
<1>2. QED
  BY <1>1, TypesSplitNext DEF CartsInv

LEMMA NoneMoves ==
  ASSUME CartsInv, RowTypes', UNCHANGED <<pc, cartLocals>>, Rows', Grows
  PROVE  CartsInv'
<1>1. Others({})
  BY DEF Others, cartLocals, mergeLocals
<1>2. \A v \in Worker : Locals(v)'
  BY <1>1, OthersKeep
<1>3. CallTypes'
  BY TypesSplit DEF CartsInv, CallTypes, cartLocals, mergeLocals
<1>4. QED
  BY <1>2, <1>3, TypesSplitNext DEF CartsInv

\* A call that ends.
LEMMA Finished ==
  ASSUME CartsInv, NEW w \in Worker, Finish(w)
  PROVE  CallTypes' /\ Others({w}) /\ Locals(w)'
<1>1. CallTypes
  BY TypesSplit DEF CartsInv
<1>2. CallTypes'
  BY <1>1 DEF CallTypes, Finish, Goto, Nothing, Label
<1>3. Others({w})
  BY <1>1 DEF Others, CallTypes, Finish, Goto
<1>4. /\ pc'[w] = "idle" /\ todo'[w] = {} /\ written'[w] = {} /\ gain'[w] = Nothing
  BY <1>1 DEF CallTypes, Finish, Goto
<1>5. Locals(w)'
  BY <1>4 DEF Locals, Merging, Nothing
<1>6. QED
  BY <1>2, <1>3, <1>5

\* ... and leaves carts and lines alone.
LEMMA FinishStep ==
  ASSUME CartsInv, NEW w \in Worker, Finish(w), UNCHANGED <<owner, lineVars, cartHistory>>,
         faults' \in Nat
  PROVE  CartsInv'
<1>1. RowTypes' /\ Rows' /\ Grows
  BY TypesSplit DEF CartsInv, RowTypes, Rows, Grows, OwnCarts, lineVars, cartHistory
<1>2. QED
  BY <1>1, Finished, OneMoves

\* A call that takes the buyer's own cart, or is about to insert one.
LEMMA OwnCartTaken ==
  ASSUME CartsInv, NEW w \in Worker, NEW next \in {"idle", "find", "merge"}, TakeOwnCart(w, next)
  PROVE  /\ pc' \in [Worker -> Label]
         /\ after' \in [Worker -> {"idle", "find", "merge"}]
         /\ target' \in [Worker -> Cart \cup {Nil}]
         /\ \/ pc'[w] = next /\ target'[w] \in OwnCarts
            \/ pc'[w] = "insertCart" /\ after'[w] = next
         /\ \A v \in Worker \ {w} : pc'[v] = pc[v] /\ after'[v] = after[v] /\ target'[v] = target[v]
<1>1. CASE \E c \in OwnCarts : target' = [target EXCEPT ![w] = c]
                              /\ Goto(w, next) /\ UNCHANGED after
  BY <1>1 DEF CartsInv, CartsTypeOK, Goto, Label, OwnCarts
<1>2. CASE after' = [after EXCEPT ![w] = next] /\ Goto(w, "insertCart") /\ UNCHANGED target
  BY <1>2 DEF CartsInv, CartsTypeOK, Goto, Label
<1>3. QED
  BY <1>1, <1>2 DEF TakeOwnCart

\* Rows that no step changes.
LEMMA RowsUnchanged ==
  ASSUME CartsInv, UNCHANGED <<owner, lineVars, cartHistory, faults>>
  PROVE  RowTypes' /\ Rows' /\ Grows /\ OwnCarts' = OwnCarts
  BY TypesSplit DEF CartsInv, RowTypes, Rows, Grows, OwnCarts, lineVars, cartHistory

\* What is written to a line, in a transaction.
LEMMA WrittenInMerge ==
  ASSUME CartsInv, NEW w \in Worker, NEW l \in Line, WriteInMerge(w, l)
  PROVE  /\ CallTypes' /\ Others({w})
         /\ pc'[w] = "merge" /\ written'[w] = written[w] \cup {l} /\ todo'[w] = todo[w]
         /\ guest'[w] = guest[w] /\ target'[w] = target[w] /\ copied'[w] = copied[w]
         /\ gain'[w] = [gain[w] EXCEPT ![l] = @ + amount[w]]
<1>1. CallTypes
  BY TypesSplit DEF CartsInv
<1>2. gain'[w] = [gain[w] EXCEPT ![l] = @ + amount[w]]
  BY <1>1 DEF CallTypes, WriteInMerge
<1>3. gain' \in [Worker -> [Line -> Nat]]
  BY <1>1, <1>2 DEF CallTypes, WriteInMerge
<1>4. CallTypes'
  BY <1>1, <1>3 DEF CallTypes, WriteInMerge, Goto, Label
<1>5. Others({w})
  BY <1>1 DEF Others, CallTypes, WriteInMerge, Goto
<1>6. QED
  BY <1>1, <1>2, <1>4, <1>5 DEF CallTypes, WriteInMerge, Goto

\* The steps of a call that reads, each keeps the invariant.
LEMMA ReadingSteps ==
  ASSUME CartsInv, NEW w \in Worker,
         CreateOwnCart(w) \/ Add(w) \/ AddToOwnCart(w) \/ FindLine(w) \/ ReadGuestCart(w) \/ MergeFind(w)
  PROVE  CartsInv'
<1>1. CallTypes
  BY TypesSplit DEF CartsInv
<1>2. UNCHANGED <<owner, lineVars, cartHistory, faults>>
  BY DEF CreateOwnCart, Add, AddToOwnCart, Ask, FindLine, ReadGuestCart, MergeFind
<1>3. RowTypes' /\ Rows' /\ Grows /\ OwnCarts' = OwnCarts
  BY <1>2, RowsUnchanged
<1>4. UNCHANGED <<cartOf, productOf, quantity>>
  BY <1>2 DEF lineVars
<1>5. CASE CreateOwnCart(w)
  <2>1. TakeOwnCart(w, "idle") /\ UNCHANGED <<product, amount, found, mergeLocals>>
    BY <1>5 DEF CreateOwnCart
  <2>2. CallTypes' /\ Others({w})
    BY <1>1, <2>1, OwnCartTaken DEF CallTypes, Others, mergeLocals
  <2>3. pc'[w] \in {"idle", "insertCart"} /\ (pc'[w] = "insertCart" => after'[w] = "idle")
    BY <2>1, OwnCartTaken
  <2>4. Locals(w)
    BY DEF CartsInv
  <2>5. Locals(w)'
    BY <1>4, <2>1, <2>3, <2>4 DEF Locals, Merging, mergeLocals
  <2>6. QED
    BY <1>3, <2>2, <2>5, OneMoves
<1>6. CASE Add(w)
  <2>1. PICK p \in Product, n \in 1 .. MaxQuantity, c \in Cart :
          /\ product' = [product EXCEPT ![w] = p] /\ amount' = [amount EXCEPT ![w] = n]
          /\ target' = [target EXCEPT ![w] = c] /\ Goto(w, "find")
          /\ UNCHANGED <<after, found, mergeLocals>>
    BY <1>6 DEF Add, Ask
  <2>2. CallTypes' /\ Others({w})
    BY <1>1, <2>1, QuantityAssumption DEF CallTypes, Others, mergeLocals, Goto, Label
  <2>3. pc'[w] = "find" /\ product'[w] = p /\ target'[w] = c
    BY <1>1, <2>1 DEF CallTypes, Goto
  <2>4. Locals(w)
    BY DEF CartsInv
  <2>5. Locals(w)'
    BY <1>4, <2>1, <2>3, <2>4 DEF Locals, Merging, mergeLocals
  <2>6. QED
    BY <1>3, <2>2, <2>5, OneMoves
<1>7. CASE AddToOwnCart(w)
  <2>1. PICK p \in Product, n \in 1 .. MaxQuantity :
          /\ product' = [product EXCEPT ![w] = p] /\ amount' = [amount EXCEPT ![w] = n]
          /\ TakeOwnCart(w, "find")
          /\ UNCHANGED <<found, mergeLocals>>
    BY <1>7 DEF AddToOwnCart, Ask
  <2>2. CallTypes' /\ Others({w})
    BY <1>1, <2>1, OwnCartTaken, QuantityAssumption DEF CallTypes, Others, mergeLocals
  <2>3. product'[w] = p
    BY <1>1, <2>1 DEF CallTypes
  <2>4. \/ pc'[w] = "find" /\ target'[w] \in OwnCarts
        \/ pc'[w] = "insertCart" /\ after'[w] = "find"
    BY <2>1, OwnCartTaken
  <2>5. Locals(w)
    BY DEF CartsInv
  <2>6. Locals(w)'
    BY <1>4, <2>1, <2>3, <2>4, <2>5 DEF Locals, Merging, mergeLocals, OwnCarts
  <2>7. QED
    BY <1>3, <2>2, <2>6, OneMoves
<1>8. CASE FindLine(w)
  <2>1. CASE Finish(w)
    BY <1>2, <1>3, <2>1, FinishStep DEF RowTypes
  <2>2. ASSUME UNCHANGED <<after, target, product, amount, mergeLocals>>,
               \/ \E l \in LinesOf(target[w], product[w]) :
                      found' = [found EXCEPT ![w] = l] /\ Goto(w, "increment")
               \/ Goto(w, "insertLine") /\ UNCHANGED found
        PROVE  CartsInv'
    <3>1. CallTypes' /\ Others({w})
      <4>1. found' \in [Worker -> Line \cup {Nil}]
        BY <1>1, <2>2 DEF CallTypes, LinesOf, LinesIn
      <4>2. pc' \in [Worker -> Label] /\ \A v \in Worker \ {w} : pc'[v] = pc[v] /\ found'[v] = found[v]
        BY <1>1, <2>2 DEF CallTypes, Goto, Label
      <4>3. QED
        BY <1>1, <2>2, <4>1, <4>2 DEF CallTypes, Others, mergeLocals
    <3>2. /\ pc'[w] \in {"increment", "insertLine"}
          /\ pc'[w] = "increment" => found'[w] \in LinesOf(target[w], product[w])
      BY <1>1, <2>2 DEF CallTypes, Goto
    <3>3. Locals(w) /\ pc[w] = "find"
      BY <1>8 DEF CartsInv, FindLine
    <3>4. Locals(w)'
      BY <1>4, <2>2, <3>2, <3>3 DEF Locals, Merging, mergeLocals, LinesOf, LinesIn
    <3>5. QED
      BY <1>3, <3>1, <3>4, OneMoves
  <2>3. QED
    BY <1>8, <2>1, <2>2 DEF FindLine
<1>9. CASE ReadGuestCart(w)
  <2>1. PICK c \in Cart : /\ guest' = [guest EXCEPT ![w] = c]
                          /\ copied' = [copied EXCEPT ![w] = CopyOf(c)]
                          /\ todo' = [todo EXCEPT ![w] = LinesIn(c)]
                          /\ TakeOwnCart(w, "merge")
                          /\ UNCHANGED <<product, amount, found, written, gain>>
    BY <1>9 DEF ReadGuestCart
  <2>2. CopyOf(c) \in [Line -> Nat] /\ LinesIn(c) \subseteq Line
    BY DEF CopyOf, CartsInv, CartsTypeOK, LinesIn
  <2>3. CallTypes' /\ Others({w})
    BY <1>1, <2>1, <2>2, OwnCartTaken DEF CallTypes, Others
  <2>4. /\ guest'[w] = c /\ todo'[w] = LinesIn(c)
        /\ \/ pc'[w] = "merge" /\ target'[w] \in OwnCarts
           \/ pc'[w] = "insertCart" /\ after'[w] = "merge"
    BY <1>1, <2>1, OwnCartTaken DEF CallTypes
  <2>5. \A l \in LinesIn(c) : productOf[l] # Nil
    BY CartNilAssumption DEF LinesIn, CartsInv, Rows
  <2>6. Locals(w)
    BY DEF CartsInv
  <2>7. Locals(w)'
    BY <1>3, <1>4, <2>1, <2>4, <2>5, <2>6 DEF Locals, Merging
  <2>8. QED
    BY <1>3, <2>3, <2>7, OneMoves
<1>10. CASE MergeFind(w)
  <2>1. PICK l \in todo[w] :
          /\ todo' = [todo EXCEPT ![w] = @ \ {l}]
          /\ product' = [product EXCEPT ![w] = productOf[l]]
          /\ amount' = [amount EXCEPT ![w] = copied[w][l]]
          /\ \/ \E m \in Seen(w, productOf[l]) :
                  found' = [found EXCEPT ![w] = m] /\ Goto(w, "mergeIncrement")
             \/ Goto(w, "mergeInsert") /\ UNCHANGED found
          /\ UNCHANGED <<after, target, guest, copied, written, gain>>
    BY <1>10 DEF MergeFind
  <2>2. /\ l \in Line /\ productOf[l] \in Product /\ copied[w][l] \in Nat
        /\ \A m \in Seen(w, productOf[l]) : m \in Line /\ productOf[m] = productOf[l]
    BY <1>1, <2>1 DEF CallTypes, CartsInv, CartsTypeOK, Locals, Seen, LinesOf, LinesIn
  <2>3. CallTypes' /\ Others({w})
    <3>1. found' \in [Worker -> Line \cup {Nil}]
      BY <1>1, <2>1, <2>2 DEF CallTypes
    <3>2. pc' \in [Worker -> Label] /\ \A v \in Worker \ {w} : pc'[v] = pc[v] /\ found'[v] = found[v]
      BY <1>1, <2>1 DEF CallTypes, Goto, Label
    <3>3. /\ todo' \in [Worker -> SUBSET Line] /\ product' \in [Worker -> Product \cup {Nil}]
          /\ amount' \in [Worker -> Nat]
      BY <1>1, <2>1, <2>2 DEF CallTypes
    <3>4. QED
      BY <1>1, <2>1, <3>1, <3>2, <3>3 DEF CallTypes, Others
  <2>4. /\ todo'[w] \subseteq todo[w] /\ product'[w] = productOf[l]
        /\ pc'[w] \in {"mergeIncrement", "mergeInsert"}
        /\ pc'[w] = "mergeIncrement" => found'[w] \in Seen(w, productOf[l])
    BY <1>1, <2>1 DEF CallTypes, Goto
  <2>5. Locals(w) /\ pc[w] = "merge"
    BY <1>10 DEF CartsInv, MergeFind
  <2>6. Locals(w)'
    BY <1>3, <1>4, <2>1, <2>2, <2>4, <2>5 DEF Locals, Merging
  <2>7. QED
    BY <1>3, <2>3, <2>6, OneMoves
<1>11. QED
  BY <1>5, <1>6, <1>7, <1>8, <1>9, <1>10

\* Every step on carts keeps the invariant.
LEMMA CartsStep ==
  ASSUME CartsInv, [CartsNext]_cartVars, IsFiniteSet(Line) PROVE CartsInv'
<1> USE CartNilAssumption
<1>1. RowTypes /\ CallTypes /\ Rows
  BY TypesSplit DEF CartsInv
<1>2. ASSUME CreateGuestCart PROVE CartsInv'
  <2>1. RowTypes' /\ Rows' /\ Grows
    BY <1>1, <1>2
    DEF RowTypes, Rows, Grows, CreateGuestCart, OwnCarts, lineVars, cartHistory
  <2>2. QED
    BY <1>2, <2>1, NoneMoves DEF CreateGuestCart
<1>3. ASSUME NEW w \in Worker, InsertCart(w) PROVE CartsInv'
  <2>1. PICK c \in Cart : /\ owner[c] = "none" /\ owner' = [owner EXCEPT ![c] = "user"]
                          /\ \/ after[w] = "idle" /\ Finish(w)
                             \/ /\ after[w] # "idle"
                                /\ target' = [target EXCEPT ![w] = c]
                                /\ Goto(w, after[w])
                                /\ UNCHANGED <<after, product, amount, found, mergeLocals>>
    BY <1>3 DEF InsertCart
  <2>2. RowTypes' /\ Rows' /\ Grows /\ c \in OwnCarts'
    BY <1>1, <1>3, <2>1 DEF InsertCart, RowTypes, Rows, Grows, OwnCarts, lineVars, cartHistory
  <2>3. CASE Finish(w)
    BY <2>2, <2>3, Finished, OneMoves
  <2>4. CASE /\ after[w] # "idle" /\ target' = [target EXCEPT ![w] = c] /\ Goto(w, after[w])
             /\ UNCHANGED <<after, product, amount, found, mergeLocals>>
    <3>1. CallTypes' /\ Others({w}) /\ pc'[w] = after[w] /\ target'[w] = c
      BY <1>1, <2>4 DEF CallTypes, Others, Goto, Label, mergeLocals
    <3>2. Locals(w) /\ pc[w] = "insertCart" /\ after[w] \in {"find", "merge"}
      BY <1>1, <1>3, <2>4 DEF CartsInv, CallTypes, InsertCart
    <3>3. UNCHANGED productOf
      BY <1>3 DEF InsertCart, lineVars
    <3>4. Locals(w)'
      BY <2>2, <2>4, <3>1, <3>2, <3>3 DEF Locals, Merging, mergeLocals
    <3>5. QED
      BY <2>2, <3>1, <3>4, OneMoves
  <2>5. QED
    BY <2>1, <2>3, <2>4
<1>4. ASSUME NEW w \in Worker, Increment(w) PROVE CartsInv'
  <2>1. found[w] \in Line /\ product[w] \in Product /\ amount[w] \in Nat
    BY <1>1, <1>4 DEF Increment, CartsInv, Locals, CallTypes
  <2>2. RowTypes' /\ Rows' /\ Grows
    BY <1>1, <1>4, <2>1 DEF Increment, RowTypes, Rows, Grows, OwnCarts, PutIn
  <2>3. QED
    BY <1>4, <2>2, Finished, OneMoves DEF Increment
<1>5. ASSUME NEW w \in Worker, InsertLine(w) PROVE CartsInv'
  <2>1. target[w] \in Cart /\ product[w] \in Product /\ amount[w] \in Nat
    BY <1>1, <1>5 DEF InsertLine, CartsInv, Locals, CallTypes
  <2>2. CASE UNCHANGED <<lineVars, wanted, insertedBy>>
    BY <1>1, <1>5, <2>2, FinishStep DEF InsertLine, cartHistory, RowTypes
  <2>3. ASSUME NEW l \in Unused,
               cartOf' = [cartOf EXCEPT ![l] = target[w]],
               productOf' = [productOf EXCEPT ![l] = product[w]],
               quantity' = [quantity EXCEPT ![l] = amount[w]],
               insertedBy' = [insertedBy EXCEPT ![l] = w],
               PutIn(product[w], amount[w])
        PROVE  CartsInv'
    <3>1. RowTypes' /\ Rows' /\ Grows
      BY <1>1, <1>5, <2>1, <2>3 DEF InsertLine, RowTypes, Rows, Grows, OwnCarts, PutIn, Unused
    <3>2. QED
      BY <1>5, <3>1, Finished, OneMoves DEF InsertLine
  <2>4. QED
    BY <1>5, <2>2, <2>3 DEF InsertLine
<1>6. ASSUME ChangeQuantity PROVE CartsInv'
  <2>1. PICK l \in Line, n \in 1 .. MaxQuantity : cartOf[l] # Nil /\ SetQuantity(l, n)
    BY <1>6 DEF ChangeQuantity
  <2>2. productOf[l] \in Product /\ n \in Nat /\ quantity[l] \in Nat
    BY <1>1, <2>1, QuantityAssumption DEF RowTypes, Rows
  <2>3. RowTypes' /\ Rows' /\ Grows
    BY <1>1, <1>6, <2>1, <2>2
    DEF ChangeQuantity, RowTypes, Rows, Grows, OwnCarts, SetQuantity, PutIn
  <2>4. QED
    BY <1>6, <2>3, NoneMoves DEF ChangeQuantity
<1>7. ASSUME RemoveLine PROVE CartsInv'
  <2>1. PICK l \in Line : DeleteLine(l)
    BY <1>7 DEF RemoveLine
  <2>2. productOf[l] \in Product /\ quantity[l] \in Nat
    BY <1>1, <2>1 DEF DeleteLine, RowTypes, Rows
  <2>3. RowTypes' /\ Rows' /\ Grows
    BY <1>1, <1>7, <2>1, <2>2
    DEF RemoveLine, RowTypes, Rows, Grows, OwnCarts, DeleteLine, Drop, PutIn
  <2>4. QED
    BY <1>7, <2>3, NoneMoves DEF RemoveLine
<1>8. ASSUME ClearCart PROVE CartsInv'
  <2>1. PICK c \in Cart : DeleteLinesIn(c)
    BY <1>8 DEF ClearCart
  <2>2. Contents(c) \in [Product -> Nat]
    BY ContentsType DEF CartsInv
  <2>3. RowTypes' /\ Rows' /\ Grows
    BY <1>1, <1>8, <2>1, <2>2
    DEF ClearCart, RowTypes, Rows, Grows, OwnCarts, DeleteLinesIn, Drop
  <2>4. QED
    BY <1>8, <2>3, NoneMoves DEF ClearCart
<1>9. ASSUME NEW w \in Worker, MergeIncrement(w) PROVE CartsInv'
  <2>1. CASE Finish(w)
    BY <1>1, <1>9, <2>1, FinishStep DEF MergeIncrement, RowTypes
  <2>2. CASE WriteInMerge(w, found[w])
    <3>1. Locals(w) /\ pc[w] = "mergeIncrement" /\ found[w] \in Line /\ productOf[found[w]] # Nil
      BY <1>9 DEF CartsInv, MergeIncrement, Locals
    <3>2. /\ RowTypes' /\ Rows' /\ Grows /\ OwnCarts' = OwnCarts
          /\ UNCHANGED productOf
      BY <1>9, RowsUnchanged DEF MergeIncrement, lineVars
    <3>3. /\ CallTypes' /\ Others({w})
          /\ pc'[w] = "merge" /\ written'[w] = written[w] \cup {found[w]} /\ todo'[w] = todo[w]
          /\ guest'[w] = guest[w] /\ target'[w] = target[w]
          /\ gain'[w] = [gain[w] EXCEPT ![found[w]] = @ + amount[w]]
      BY <2>2, <3>1, WrittenInMerge
    <3>4. \A l \in Line \ written'[w] : gain'[w][l] = 0
      BY <1>1, <3>1, <3>3 DEF Locals, CallTypes
    <3>5. Locals(w)'
      BY <3>1, <3>2, <3>3, <3>4 DEF Locals, Merging
    <3>6. QED
      BY <3>2, <3>3, <3>5, OneMoves
  <2>3. QED
    BY <1>9, <2>1, <2>2 DEF MergeIncrement
<1>10. ASSUME NEW w \in Worker, MergeInsert(w) PROVE CartsInv'
  <2>1. CASE Finish(w) /\ UNCHANGED <<productOf, insertedBy>>
    BY <1>1, <1>10, <2>1, FinishStep DEF MergeInsert, RowTypes, lineVars, cartHistory
  <2>2. ASSUME NEW l \in Unused, productOf' = [productOf EXCEPT ![l] = product[w]],
               insertedBy' = [insertedBy EXCEPT ![l] = w], WriteInMerge(w, l)
        PROVE  CartsInv'
    <3>1. /\ Locals(w) /\ pc[w] = "mergeInsert" /\ l \in Line /\ product[w] \in Product
          /\ product[w] # Nil
      BY <1>10 DEF CartsInv, MergeInsert, Locals, Unused
    <3>2. RowTypes' /\ Rows' /\ Grows /\ OwnCarts' = OwnCarts
      BY <1>1, <1>10, <2>2, <3>1 DEF MergeInsert, RowTypes, Rows, Grows, OwnCarts, Unused
    <3>3. /\ CallTypes' /\ Others({w})
          /\ pc'[w] = "merge" /\ written'[w] = written[w] \cup {l} /\ todo'[w] = todo[w]
          /\ guest'[w] = guest[w] /\ target'[w] = target[w]
          /\ gain'[w] = [gain[w] EXCEPT ![l] = @ + amount[w]]
      BY <2>2, <3>1, WrittenInMerge
    <3>4. \A m \in Line \ written'[w] : gain'[w][m] = 0
      BY <1>1, <3>1, <3>3 DEF Locals, CallTypes
    <3>5. productOf'[l] # Nil /\ \A m \in todo[w] \cup written[w] : productOf'[m] # Nil
      BY <1>1, <2>2, <3>1 DEF Locals, RowTypes, CallTypes
    <3>6. Locals(w)'
      BY <3>1, <3>2, <3>3, <3>4, <3>5 DEF Locals, Merging
    <3>7. QED
      BY <3>2, <3>3, <3>6, OneMoves
  <2>3. QED
    BY <1>10, <2>1, <2>2 DEF MergeInsert
<1>11. ASSUME NEW w \in Worker, Commit(w) PROVE CartsInv'
  <2>1. guest[w] \in Cart /\ target[w] \in Cart /\ target[w] \in OwnCarts /\ Locals(w)
    BY <1>11 DEF Commit, CartsInv, Locals, OwnCarts, Merging
  <2>2. CASE owner[guest[w]] # "guest"
    BY <1>1, <1>11, <2>2, FinishStep DEF Commit, lineVars, cartHistory, RowTypes
  <2>3. CASE owner[guest[w]] = "guest"
    <3>1. /\ owner' = [owner EXCEPT ![guest[w]] = "deleted"]
          /\ cartOf' = [l \in Line |-> IF l \in written[w] THEN target[w]
                                       ELSE IF cartOf[l] = guest[w] THEN Nil ELSE cartOf[l]]
          /\ quantity' = [l \in Line |-> IF cartOf[l] = guest[w] THEN 0
                                         ELSE quantity[l] + gain[w][l]]
          /\ drift' = [p \in Product |-> drift[p] + CopiedOf(w, p) - Contents(guest[w])[p]]
          /\ UNCHANGED <<productOf, wanted, insertedBy, faults>>
      BY <1>11, <2>3 DEF Commit
    <3>2. \A p \in Product : CopiedOf(w, p) \in Nat /\ Contents(guest[w])[p] \in Nat
      BY <2>1, ContentsType DEF CartsInv
    <3>3. drift' \in [Product -> Int]
      BY <1>1, <3>1, <3>2 DEF RowTypes
    <3>4. quantity' \in [Line -> Nat]
      BY <1>1, <3>1 DEF RowTypes, CallTypes
    <3>5. RowTypes' /\ Grows
      BY <1>1, <2>1, <2>3, <3>1, <3>3, <3>4 DEF RowTypes, Grows, OwnCarts
    <3>6. Rows'
      BY <1>1, <2>1, <3>1 DEF Rows, Locals, RowTypes
    <3>7. QED
      BY <1>11, <3>5, <3>6, Finished, OneMoves DEF Commit
  <2>4. QED
    BY <2>2, <2>3
<1>12. ASSUME NEW w \in Worker, Abort(w) PROVE CartsInv'
  BY <1>1, <1>12, FinishStep DEF Abort, RowTypes
<1>13. ASSUME UNCHANGED cartVars PROVE CartsInv'
  <2>1. RowTypes' /\ Rows' /\ Grows
    BY <1>13, RowsUnchanged DEF cartVars
  <2>2. QED
    BY <1>13, <2>1, NoneMoves DEF cartVars
<1>14. QED
  BY <1>2, <1>3, <1>4, <1>5, <1>6, <1>7, <1>8, <1>9, <1>10, <1>11, <1>12, <1>13, ReadingSteps
  DEF CartsNext, CartRequests

-----------------------------------------------------------------------------
(* Carts: the rows a merge has written *)

\* A line that has been deleted or rolled back.
Gone(l) == cartOf[l] = Nil /\ productOf[l] # Nil /\ \A v \in Worker : l \notin written[v]

\* A merge has written to lines of the buyer's cart and to new ones, and to none
\* that another has.
Merges(w) ==
    /\ pc[w] \notin Merging => written[w] = {}
    /\ \A l \in written[w] :
         \/ cartOf[l] = target[w]
         \/ cartOf[l] = Nil /\ insertedBy[l] = w
    /\ pc[w] = "mergeIncrement" =>
         found[w] \in written[w] \/ cartOf[found[w]] = target[w] \/ Gone(found[w])
    /\ \A v \in Worker \ {w} : written[v] \cap written[w] = {}

MergeInv == \A w \in Worker : Merges(w)

\* A step of w leaves alone what others have written, and what it inserts is its
\* own.
Respects(w) ==
    /\ \A v \in Worker \ {w} : \A l \in written[v] : cartOf'[l] = cartOf[l] /\ l \notin written'[w]
    /\ \A l \in Line : cartOf[l] # Nil => cartOf'[l] = cartOf[l] \/ Gone(l)'
    /\ \A l \in Line : Gone(l) => Gone(l)'
    /\ \A l \in Line : productOf[l] # Nil => insertedBy'[l] = insertedBy[l]
    /\ \A l \in Line : cartOf[l] = Nil /\ cartOf'[l] # Nil => insertedBy'[l] = w

\* It inserts and writes nothing.
Calm(w) ==
    /\ UNCHANGED <<productOf, insertedBy>>
    /\ \A l \in Line : \/ cartOf'[l] = cartOf[l]
                       \/ cartOf'[l] = Nil /\ \A v \in Worker : l \notin written[v]
    /\ written'[w] = {} \/ (written'[w] = written[w] /\ target'[w] = target[w])

\* A call that is about to insert a line has found none, or had not before.
Looks(w) ==
    /\ pc'[w] \in {"insertLine", "mergeInsert"} =>
         \/ pc[w] = pc'[w] /\ target'[w] = target[w] /\ product'[w] = product[w]
         \/ LinesOf(target'[w], product'[w]) = {}
    /\ pc'[w] = "mergeInsert" =>
         \/ pc[w] = pc'[w] /\ product'[w] = product[w]
         \/ \A l \in written[w] : productOf[l] # product'[w]

LEMMA MergesKept ==
  ASSUME CartsInv, MergeInv, NEW w \in Worker, Others({w}), Grows, Respects(w)
  PROVE  \A v \in Worker \ {w} : Merges(v)'
<1> SUFFICES ASSUME NEW v \in Worker \ {w} PROVE Merges(v)'
  OBVIOUS
<1>1. Merges(v) /\ Locals(v) /\ written[v] \subseteq Line
  BY DEF MergeInv, CartsInv, CartsTypeOK
<1>2. /\ pc'[v] = pc[v] /\ written'[v] = written[v] /\ target'[v] = target[v]
      /\ found'[v] = found[v]
  BY DEF Others
<1>3. \A u \in Worker \ {v} : written'[u] \cap written'[v] = {}
  BY <1>1, <1>2 DEF Merges, Others, Respects
<1>4. \A l \in written[v] : cartOf'[l] = cartOf[l] /\ insertedBy'[l] = insertedBy[l]
  BY <1>1 DEF Locals, Respects
<1>5. pc[v] = "mergeIncrement" =>
        found[v] \in written[v] \/ cartOf'[found[v]] = target[v] \/ Gone(found[v])'
  <2> SUFFICES ASSUME pc[v] = "mergeIncrement"
               PROVE  found[v] \in written[v] \/ cartOf'[found[v]] = target[v] \/ Gone(found[v])'
    OBVIOUS
  <2>1. found[v] \in Line /\ target[v] # Nil
    BY <1>1, CartNilAssumption DEF Locals, Merging, OwnCarts
  <2>2. QED
    BY <1>1, <1>2, <2>1 DEF Merges, Respects
<1>6. QED
  BY <1>1, <1>2, <1>3, <1>4, <1>5 DEF Merges

\* A call that ends has written nothing.
LEMMA FinishedMerge ==
  ASSUME CartsInv, MergeInv, NEW w \in Worker, Finish(w)
  PROVE  Merges(w)' /\ written'[w] = {}
<1>1. /\ pc'[w] = "idle" /\ written'[w] = {}
  BY DEF CartsInv, CartsTypeOK, Finish, Goto
<1>2. QED
  BY <1>1 DEF Merges, Merging

\* A step that leaves the lines in their carts, or takes some that no merge has
\* written out of them, respects what the merges do.
LEMMA CalmRespects ==
  ASSUME CartsInv, MergeInv, NEW w \in Worker, Others({w}), UNCHANGED <<productOf, insertedBy>>,
         written'[w] = {} \/ (written'[w] = written[w] /\ target'[w] = target[w]),
         \A l \in Line : \/ cartOf'[l] = cartOf[l]
                         \/ cartOf'[l] = Nil /\ \A v \in Worker : l \notin written[v]
  PROVE  Respects(w) /\ Calm(w)
<1>1. \A v \in Worker : written'[v] \subseteq written[v] /\ written[v] \subseteq Line
  BY DEF Others, CartsInv, CartsTypeOK
<1>2. \A v \in Worker \ {w} : written[v] \cap written[w] = {}
  BY DEF MergeInv, Merges
<1>3. \A l \in Line : cartOf[l] # Nil => productOf[l] # Nil
  BY DEF CartsInv, Rows
<1>4. QED
  <2>1. Respects(w)
    BY <1>1, <1>2, <1>3 DEF Respects, Gone
  <2>2. Calm(w)
    BY DEF Calm
  <2>3. QED
    BY <2>1, <2>2

\* What the steps do that insert and write nothing ...
LEMMA CalmSteps ==
  ASSUME CartsInv, MergeInv, NEW w \in Worker,
         \/ CreateOwnCart(w) \/ CreateGuestCart \/ Add(w) \/ AddToOwnCart(w)
         \/ ChangeQuantity \/ RemoveLine \/ ClearCart \/ ReadGuestCart(w)
         \/ InsertCart(w) \/ FindLine(w) \/ Increment(w) \/ MergeFind(w) \/ Abort(w)
  PROVE  Others({w}) /\ Grows /\ Respects(w) /\ Calm(w) /\ Looks(w) /\ Merges(w)'
<1> USE CartNilAssumption
<1>1. CallTypes /\ RowTypes /\ Rows /\ Merges(w) /\ Locals(w)
  BY TypesSplit DEF CartsInv, MergeInv
<1>2. Grows
  <2>1. UNCHANGED productOf
    BY DEF CreateOwnCart, CreateGuestCart, Add, AddToOwnCart, Ask, ChangeQuantity, RemoveLine,
           ClearCart, ReadGuestCart, InsertCart, FindLine, Increment, MergeFind, Abort, lineVars
  <2>2. owner' = owner \/ \E c \in Cart, o \in {"guest", "user"} :
                            owner[c] = "none" /\ owner' = [owner EXCEPT ![c] = o]
    BY DEF CreateOwnCart, CreateGuestCart, Add, AddToOwnCart, Ask, ChangeQuantity, RemoveLine,
           ClearCart, ReadGuestCart, InsertCart, FindLine, Increment, MergeFind, Abort
  <2>3. QED
    BY <1>1, <2>1, <2>2 DEF Grows, OwnCarts, RowTypes
<1>3. ASSUME UNCHANGED <<pc, cartLocals>>, UNCHANGED <<productOf, insertedBy>>,
             \A l \in Line : \/ cartOf'[l] = cartOf[l]
                             \/ cartOf'[l] = Nil /\ \A v \in Worker : l \notin written[v]
      PROVE  Others({w}) /\ Respects(w) /\ Calm(w) /\ Looks(w) /\ Merges(w)'
  <2>1. Others({w}) /\ UNCHANGED <<pc, target, found, written>>
    BY <1>3 DEF Others, cartLocals, mergeLocals
  <2>2. Respects(w) /\ Calm(w)
    BY <1>3, <2>1, CalmRespects
  <2>3. \A l \in written[w] : cartOf'[l] = cartOf[l]
    BY <1>1, <1>3 DEF CallTypes
  <2>4. pc[w] = "mergeIncrement" =>
          found[w] \in written[w] \/ cartOf'[found[w]] = target[w] \/ Gone(found[w])'
    BY <1>1, <2>1, <2>2 DEF Respects, Merges, Locals, Merging, OwnCarts
  <2>5. Merges(w)'
    BY <1>1, <1>3, <2>1, <2>3, <2>4 DEF Merges
  <2>6. Looks(w)
    BY <1>3 DEF Looks, cartLocals
  <2>7. QED
    BY <2>1, <2>2, <2>5, <2>6
<1>4. CASE CreateGuestCart
  BY <1>2, <1>3, <1>4 DEF CreateGuestCart, lineVars, cartHistory
<1>5. CASE ChangeQuantity
  BY <1>2, <1>3, <1>5 DEF ChangeQuantity
<1>6. CASE RemoveLine
  <2>1. PICK l \in Line : DeleteLine(l)
    BY <1>6 DEF RemoveLine
  <2>2. QED
    BY <1>2, <1>3, <1>6, <2>1 DEF RemoveLine, DeleteLine, Drop
<1>7. CASE ClearCart
  <2>1. PICK c \in Cart : DeleteLinesIn(c)
    BY <1>7 DEF ClearCart
  <2>2. QED
    BY <1>2, <1>3, <1>7, <2>1 DEF ClearCart, DeleteLinesIn, Drop
<1>8. ASSUME Others({w}), UNCHANGED <<cartOf, productOf, insertedBy, written>>,
             written[w] = {} \/ target'[w] = target[w]
      PROVE  Respects(w) /\ Calm(w)
  <2>1. written'[w] = {} \/ (written'[w] = written[w] /\ target'[w] = target[w])
    BY <1>8
  <2>2. \A l \in Line : \/ cartOf'[l] = cartOf[l]
                        \/ cartOf'[l] = Nil /\ \A v \in Worker : l \notin written[v]
    BY <1>8
  <2>3. QED
    BY <1>8, <2>1, <2>2, CalmRespects
<1>9. ASSUME Finish(w), UNCHANGED <<cartOf, productOf, insertedBy>>
      PROVE  Others({w}) /\ Respects(w) /\ Calm(w) /\ Looks(w) /\ Merges(w)'
  <2>1. Others({w}) /\ Merges(w)' /\ written'[w] = {} /\ pc'[w] = "idle"
    BY <1>1, <1>9, Finished, FinishedMerge DEF Finish, Goto, CallTypes
  <2>2. \A l \in Line : \/ cartOf'[l] = cartOf[l]
                        \/ cartOf'[l] = Nil /\ \A v \in Worker : l \notin written[v]
    BY <1>9
  <2>3. Respects(w) /\ Calm(w)
    BY <1>9, <2>1, <2>2, CalmRespects
  <2>4. QED
    BY <2>1, <2>3 DEF Looks
<1>10. CASE Increment(w) \/ Abort(w)
  BY <1>2, <1>9, <1>10 DEF Increment, Abort, lineVars, cartHistory
<1>11. CASE CreateOwnCart(w) \/ Add(w) \/ AddToOwnCart(w) \/ ReadGuestCart(w)
  <2>1. /\ UNCHANGED <<cartOf, productOf, insertedBy, written, gain, found>> /\ pc[w] = "idle"
        /\ \A v \in Worker \ {w} : /\ product'[v] = product[v] /\ amount'[v] = amount[v]
                                   /\ guest'[v] = guest[v] /\ copied'[v] = copied[v]
                                   /\ todo'[v] = todo[v]
    BY <1>1, <1>11 DEF CreateOwnCart, Add, AddToOwnCart, Ask, ReadGuestCart, lineVars, cartHistory,
                       mergeLocals, CallTypes
  <2>2. /\ \A v \in Worker \ {w} : pc'[v] = pc[v] /\ after'[v] = after[v] /\ target'[v] = target[v]
        /\ pc'[w] \notin {"mergeIncrement", "mergeInsert", "insertLine"}
    <3>1. CASE Add(w)
      BY <1>1, <3>1 DEF Add, Goto, CallTypes
    <3>2. CASE \E next \in {"idle", "find", "merge"} : TakeOwnCart(w, next)
      BY <3>2, OwnCartTaken
    <3>3. QED
      BY <1>11, <3>1, <3>2 DEF CreateOwnCart, AddToOwnCart, ReadGuestCart
  <2>3. Others({w})
    BY <2>1, <2>2 DEF Others
  <2>4. Merges(w)'
    BY <1>1, <2>1, <2>2 DEF Merges, Merging
  <2>5. QED
    <3>1. Looks(w) /\ written[w] = {}
      BY <1>1, <2>1, <2>2 DEF Merges, Merging, Looks
    <3>2. QED
      BY <1>2, <1>8, <2>1, <2>3, <2>4, <3>1
<1>12. CASE InsertCart(w)
  <2>1. UNCHANGED <<cartOf, productOf, insertedBy>> /\ pc[w] = "insertCart"
    BY <1>12 DEF InsertCart, lineVars, cartHistory
  <2>2. CASE Finish(w)
    BY <1>2, <1>9, <2>1, <2>2
  <2>3. ASSUME NEW c \in Cart, target' = [target EXCEPT ![w] = c], Goto(w, after[w]),
               UNCHANGED <<after, product, amount, found, mergeLocals>>
        PROVE  Others({w}) /\ Respects(w) /\ Calm(w) /\ Looks(w) /\ Merges(w)'
    <3>1. Others({w}) /\ UNCHANGED written /\ pc'[w] \in {"idle", "find", "merge"}
      BY <1>1, <2>3 DEF Others, CallTypes, Goto, mergeLocals
    <3>2. Merges(w)'
      BY <1>1, <2>1, <3>1 DEF Merges, Merging
    <3>3. QED
      BY <1>1, <1>8, <2>1, <3>1, <3>2 DEF Merges, Merging, Looks
  <2>4. QED
    BY <1>2, <1>12, <2>2, <2>3 DEF InsertCart
<1>13. CASE FindLine(w)
  <2>1. UNCHANGED <<cartOf, productOf, insertedBy>> /\ pc[w] = "find"
    BY <1>13 DEF FindLine, lineVars, cartHistory
  <2>2. CASE Finish(w)
    BY <1>2, <1>9, <2>1, <2>2
  <2>3. ASSUME \/ \E l \in LinesOf(target[w], product[w]) :
                    found' = [found EXCEPT ![w] = l] /\ Goto(w, "increment")
               \/ LinesOf(target[w], product[w]) = {} /\ Goto(w, "insertLine") /\ UNCHANGED found,
               UNCHANGED <<after, target, product, amount, mergeLocals>>
        PROVE  Others({w}) /\ Respects(w) /\ Calm(w) /\ Looks(w) /\ Merges(w)'
    <3>1. Others({w}) /\ UNCHANGED written /\ pc'[w] \notin {"mergeIncrement", "mergeInsert"}
      BY <1>1, <2>3 DEF Others, CallTypes, Goto, mergeLocals
    <3>2. Merges(w)'
      BY <1>1, <2>1, <3>1 DEF Merges, Merging
    <3>3. Looks(w)
      BY <1>1, <1>13, <2>3, <3>1 DEF Looks, FindLine, Goto, CallTypes
    <3>4. QED
      BY <1>1, <1>8, <2>1, <3>1, <3>2, <3>3 DEF Merges, Merging
  <2>4. QED
    BY <1>2, <1>13, <2>2, <2>3 DEF FindLine
<1>14. CASE MergeFind(w)
  <2>1. PICK l \in todo[w] :
          /\ todo' = [todo EXCEPT ![w] = @ \ {l}]
          /\ product' = [product EXCEPT ![w] = productOf[l]]
          /\ amount' = [amount EXCEPT ![w] = copied[w][l]]
          /\ \/ \E m \in Seen(w, productOf[l]) :
                  found' = [found EXCEPT ![w] = m] /\ Goto(w, "mergeIncrement")
             \/ Seen(w, productOf[l]) = {} /\ Goto(w, "mergeInsert") /\ UNCHANGED found
    BY <1>14 DEF MergeFind
  <2>2. UNCHANGED <<cartOf, productOf, insertedBy, after, target, guest, copied, written, gain>>
    BY <1>14 DEF MergeFind, lineVars, cartHistory
  <2>3. Others({w})
    BY <1>1, <2>1, <2>2 DEF Others, CallTypes, Goto
  <2>4. /\ pc[w] = "merge" /\ pc'[w] \in Merging
        /\ pc'[w] = "mergeIncrement" => found'[w] \in Seen(w, productOf[l])
    BY <1>1, <1>14, <2>1 DEF CallTypes, Goto, Merging, MergeFind
  <2>5. Merges(w)'
    BY <1>1, <2>2, <2>3, <2>4 DEF Merges, Seen, LinesOf, LinesIn
  <2>6. Looks(w)
    BY <1>1, <2>1, <2>2, <2>4 DEF Looks, Seen, Goto, CallTypes
  <2>7. QED
    BY <1>2, <1>8, <2>2, <2>3, <2>5, <2>6
<1>15. QED
  BY <1>2, <1>4, <1>5, <1>6, <1>7, <1>10, <1>11, <1>12, <1>13, <1>14

\* ... and those that do.
LEMMA WritingSteps ==
  ASSUME CartsInv, MergeInv, NEW w \in Worker,
         InsertLine(w) \/ MergeIncrement(w) \/ MergeInsert(w) \/ Commit(w)
  PROVE  Others({w}) /\ Grows /\ Respects(w) /\ Merges(w)'
<1> USE CartNilAssumption
<1>1. CallTypes /\ RowTypes /\ Rows /\ Merges(w) /\ Locals(w)
  BY TypesSplit DEF CartsInv, MergeInv
<1>2. \A v \in Worker \ {w} : written[v] \cap written[w] = {}
  BY DEF MergeInv, Merges
<1>3. \A v \in Worker : \A l \in written[v] : productOf[l] # Nil /\ l \in Line
  BY <1>1 DEF CallTypes, CartsInv, Locals
<1>4. ASSUME Finish(w), UNCHANGED <<owner, cartOf, productOf, insertedBy>>
      PROVE  Others({w}) /\ Grows /\ Respects(w) /\ Merges(w)'
  <2>1. Others({w}) /\ Merges(w)' /\ written'[w] = {}
    BY <1>4, Finished, FinishedMerge
  <2>2. \A l \in Line : \/ cartOf'[l] = cartOf[l]
                        \/ cartOf'[l] = Nil /\ \A v \in Worker : l \notin written[v]
    BY <1>4
  <2>3. Respects(w)
    BY <1>4, <2>1, <2>2, CalmRespects
  <2>4. QED
    BY <1>4, <2>1, <2>3 DEF Grows, OwnCarts
<1>5. CASE InsertLine(w)
  <2>1. CASE UNCHANGED <<lineVars, wanted, insertedBy>>
    BY <1>4, <1>5, <2>1 DEF InsertLine, lineVars
  <2>2. ASSUME NEW l \in Unused,
               cartOf' = [cartOf EXCEPT ![l] = target[w]],
               productOf' = [productOf EXCEPT ![l] = product[w]],
               insertedBy' = [insertedBy EXCEPT ![l] = w]
        PROVE  Others({w}) /\ Grows /\ Respects(w) /\ Merges(w)'
    <3>1. Others({w}) /\ Merges(w)' /\ written'[w] = {}
      BY <1>5, Finished, FinishedMerge DEF InsertLine
    <3>2. Grows
      BY <1>1, <1>5, <2>2 DEF Grows, InsertLine, OwnCarts, RowTypes, Unused
    <3>3. Respects(w)
      BY <1>1, <1>3, <2>2, <3>1 DEF Respects, Gone, Others, Unused, RowTypes, Rows
    <3>4. QED
      BY <3>1, <3>2, <3>3
  <2>3. QED
    BY <1>5, <2>1, <2>2 DEF InsertLine
<1>6. CASE MergeIncrement(w)
  <2>1. UNCHANGED <<owner, cartOf, productOf, insertedBy>>
    BY <1>6 DEF MergeIncrement, lineVars, cartHistory
  <2>2. ASSUME WriteInMerge(w, found[w]), cartOf[found[w]] # Nil \/ found[w] \in written[w]
        PROVE  Others({w}) /\ Grows /\ Respects(w) /\ Merges(w)'
    <3>1. /\ pc[w] = "mergeIncrement" /\ found[w] \in Line /\ productOf[found[w]] # Nil
          /\ target[w] # Nil
      BY <1>1, <1>6 DEF MergeIncrement, Locals, Merging, OwnCarts
    <3>2. /\ Others({w}) /\ pc'[w] = "merge" /\ written'[w] = written[w] \cup {found[w]}
          /\ target'[w] = target[w]
      BY <2>2, <3>1, WrittenInMerge
    <3>3. \A v \in Worker \ {w} : found[w] \notin written[v]
      BY <1>6 DEF MergeIncrement, Locked
    <3>4. Grows
      BY <2>1 DEF Grows, OwnCarts
    <3>5. found[w] \in written[w] \/ cartOf[found[w]] = target[w]
      BY <1>1, <2>2, <3>1 DEF Merges, Gone
    <3>6. Respects(w)
      BY <1>2, <1>3, <2>1, <3>1, <3>2, <3>3, <3>5 DEF Respects, Gone, Others
    <3>7. Merges(w)'
      <4>1. \A v \in Worker \ {w} : written'[v] \cap written'[w] = {}
        BY <1>2, <3>2, <3>3 DEF Others
      <4>2. QED
        BY <1>1, <2>1, <3>2, <3>5, <4>1 DEF Merges, Merging
    <3>8. QED
      BY <3>2, <3>4, <3>6, <3>7
  <2>3. QED
    BY <1>4, <1>6, <2>1, <2>2 DEF MergeIncrement
<1>7. CASE MergeInsert(w)
  <2>1. UNCHANGED <<owner, cartOf>>
    BY <1>7 DEF MergeInsert
  <2>2. ASSUME NEW l \in Unused, productOf' = [productOf EXCEPT ![l] = product[w]],
               insertedBy' = [insertedBy EXCEPT ![l] = w], WriteInMerge(w, l)
        PROVE  Others({w}) /\ Grows /\ Respects(w) /\ Merges(w)'
    <3>1. /\ pc[w] = "mergeInsert" /\ l \in Line /\ productOf[l] = Nil /\ cartOf[l] = Nil
      BY <1>1, <1>7 DEF MergeInsert, Unused, Rows
    <3>2. /\ Others({w}) /\ pc'[w] = "merge" /\ written'[w] = written[w] \cup {l}
          /\ target'[w] = target[w]
      BY <2>2, <3>1, WrittenInMerge
    <3>3. \A v \in Worker : l \notin written[v]
      BY <1>3, <3>1
    <3>4. Grows
      BY <1>1, <2>1, <2>2, <3>1 DEF Grows, OwnCarts, RowTypes
    <3>5. /\ \A m \in Line \ {l} : productOf'[m] = productOf[m] /\ insertedBy'[m] = insertedBy[m]
          /\ insertedBy'[l] = w
      BY <1>1, <2>2, <3>1 DEF RowTypes
    <3>6. Respects(w)
      BY <1>2, <1>3, <2>1, <3>1, <3>2, <3>3, <3>5 DEF Respects, Gone, Others
    <3>7. Merges(w)'
      <4>1. \A v \in Worker \ {w} : written'[v] \cap written'[w] = {}
        BY <1>2, <3>2, <3>3 DEF Others
      <4>2. \A m \in written[w] : m \in Line \ {l}
        BY <1>3, <3>3
      <4>3. QED
        BY <1>1, <2>1, <3>1, <3>2, <3>5, <4>1, <4>2 DEF Merges, Merging
    <3>8. QED
      BY <3>2, <3>4, <3>6, <3>7
  <2>3. QED
    BY <1>4, <1>7, <2>1, <2>2 DEF MergeInsert
<1>8. CASE Commit(w)
  <2>1. CASE owner[guest[w]] # "guest"
    BY <1>4, <1>8, <2>1 DEF Commit
  <2>2. CASE owner[guest[w]] = "guest"
    <3>1. /\ owner' = [owner EXCEPT ![guest[w]] = "deleted"]
          /\ cartOf' = [l \in Line |-> IF l \in written[w] THEN target[w]
                                       ELSE IF cartOf[l] = guest[w] THEN Nil ELSE cartOf[l]]
          /\ UNCHANGED <<productOf, insertedBy>>
      BY <1>8, <2>2 DEF Commit
    <3>2. Others({w}) /\ Merges(w)' /\ written'[w] = {}
      BY <1>8, Finished, FinishedMerge DEF Commit
    <3>3. /\ guest[w] \in Cart /\ target[w] \in OwnCarts /\ guest[w] # target[w]
          /\ pc[w] \in Merging
      BY <1>1, <1>8, <2>2 DEF Commit, Locals, Merging, OwnCarts
    <3>4. Grows
      BY <1>1, <2>2, <3>1, <3>3 DEF Grows, OwnCarts, RowTypes
    <3>5. \A v \in Worker \ {w} : \A l \in written[v] : cartOf'[l] = cartOf[l]
      <4> SUFFICES ASSUME NEW v \in Worker \ {w}, NEW l \in written[v] PROVE cartOf'[l] = cartOf[l]
        OBVIOUS
      <4>1. pc[v] \in Merging /\ cartOf[l] \in {Nil, target[v]}
        BY DEF MergeInv, Merges
      <4>2. target[v] # guest[w] /\ guest[w] # Nil
        BY <2>2, <3>3, <4>1 DEF CartsInv, Locals, OwnCarts
      <4>3. l \in Line /\ l \notin written[w]
        BY <1>2, <1>3
      <4>4. QED
        BY <3>1, <4>1, <4>2, <4>3
    <3>6. \A l \in Line : cartOf[l] # Nil => cartOf'[l] = cartOf[l] \/ Gone(l)'
      <4> SUFFICES ASSUME NEW l \in Line, cartOf[l] # Nil, cartOf'[l] # cartOf[l] PROVE Gone(l)'
        OBVIOUS
      <4>1. l \notin written[w]
        BY <1>1, <3>1 DEF Merges
      <4>2. cartOf'[l] = Nil
        BY <3>1, <4>1
      <4>3. \A v \in Worker : l \notin written'[v]
        BY <3>2, <3>5 DEF Others
      <4>4. QED
        BY <1>1, <3>1, <4>2, <4>3 DEF Gone, Rows
    <3>7. \A l \in Line : Gone(l) => Gone(l)'
      BY <3>1, <3>2 DEF Gone, Others
    <3>8. \A l \in Line : cartOf[l] = Nil /\ cartOf'[l] # Nil => insertedBy'[l] = w
      BY <1>1, <3>1, <3>3 DEF Merges, OwnCarts
    <3>9. Respects(w)
      BY <3>1, <3>2, <3>5, <3>6, <3>7, <3>8 DEF Respects
    <3>10. QED
      BY <3>2, <3>4, <3>9
  <2>3. QED
    BY <2>1, <2>2
<1>9. QED
  BY <1>5, <1>6, <1>7, <1>8

\* Every step on carts keeps apart what the merges write.
LEMMA MergeStep ==
  ASSUME CartsInv, MergeInv, [CartsNext]_cartVars PROVE MergeInv'
<1>1. ASSUME NEW w \in Worker, Others({w}), Grows, Respects(w), Merges(w)' PROVE MergeInv'
  BY <1>1, MergesKept DEF MergeInv
<1>2. CASE UNCHANGED cartVars
  BY <1>2 DEF MergeInv, Merges, Gone, cartVars, lineVars, cartHistory, cartLocals, mergeLocals
<1>3. QED
  BY <1>1, <1>2, CalmSteps, WritingSteps DEF CartsNext, CartRequests

-----------------------------------------------------------------------------
(* Carts: the lines that calls insert *)

\* A call that inserts a line has inserted none of the product before; of a
\* product with a variant there is none, nor will another call insert one.
Inserts(w) ==
    /\ pc[w] \in {"insertLine", "mergeInsert"} =>
         \A m \in LinesOf(target[w], product[w]) : insertedBy[m] # w
    /\ pc[w] = "mergeInsert" => \A l \in written[w] : productOf[l] # product[w]
    /\ \A l \in written[w] : cartOf[l] = Nil =>
         /\ \A m \in LinesOf(target[w], productOf[l]) : insertedBy[m] # w
         /\ \A m \in written[w] \ {l} : cartOf[m] = Nil => productOf[m] # productOf[l]
         /\ productOf[l] \in Variant =>
              /\ LinesOf(target[w], productOf[l]) = {}
              /\ \A v \in Worker \ {w} : target[v] = target[w] =>
                   \A k \in written[v] : productOf[k] # productOf[l]

LineInv == SecondLineByAnother /\ \A w \in Worker : Inserts(w)

\* The lines that a step of w brings into carts ...
Brings(w) == \A l \in Line : cartOf[l] = Nil /\ cartOf'[l] # Nil =>
    /\ \A m \in LinesOf(cartOf'[l], productOf'[l]) : insertedBy[m] # w
    /\ \A m \in Line \ {l} :
         cartOf[m] = Nil /\ cartOf'[m] = cartOf'[l] => productOf'[m] # productOf'[l]
    /\ productOf'[l] \in Variant =>
         /\ LinesOf(cartOf'[l], productOf'[l]) = {}
         /\ \A v \in Worker \ {w} : target[v] = cartOf'[l] =>
              \A k \in written[v] : productOf[k] # productOf'[l]

\* ... and those that it writes, where others have inserted lines.
Writes(w) == \A v \in Worker \ {w} : \A l \in written[v] : \A m \in written'[w] :
    /\ cartOf[l] = Nil /\ productOf[l] \in Variant
    /\ target[v] = target'[w] /\ productOf'[m] = productOf[l]
    => m \in written[w] /\ target'[w] = target[w]

LEMMA LinesKept ==
  ASSUME CartsInv, MergeInv, LineInv, NEW w \in Worker, Others({w}), Grows, Respects(w),
         Brings(w), Writes(w), Inserts(w)'
  PROVE  LineInv'
<1> USE CartNilAssumption
<1>1. \A l \in Line : cartOf[l] # Nil =>
        productOf[l] # Nil /\ productOf'[l] = productOf[l] /\ insertedBy'[l] = insertedBy[l]
  BY DEF CartsInv, Rows, Grows, Respects
<1>2. \A l \in Line : cartOf'[l] # Nil =>
        \/ cartOf[l] # Nil /\ cartOf'[l] = cartOf[l]
        \/ cartOf[l] = Nil /\ insertedBy'[l] = w
  BY DEF Respects, Gone
<1>3. SecondLineByAnother'
  <2> SUFFICES ASSUME NEW l \in Line, NEW m \in Line, l # m, cartOf'[l] # Nil,
                      cartOf'[l] = cartOf'[m], productOf'[l] = productOf'[m]
               PROVE  productOf'[l] \notin Variant /\ insertedBy'[l] # insertedBy'[m]
    BY DEF SecondLineByAnother
  <2>1. CASE cartOf[l] # Nil /\ cartOf[m] # Nil
    BY <1>1, <1>2, <2>1 DEF LineInv, SecondLineByAnother
  <2>2. CASE cartOf[l] = Nil /\ cartOf[m] = Nil
    BY <2>2 DEF Brings
  <2>3. ASSUME NEW k \in Line, NEW n \in Line, cartOf[k] = Nil, cartOf[n] # Nil, cartOf'[k] # Nil,
               cartOf'[k] = cartOf'[n], productOf'[k] = productOf'[n]
        PROVE  productOf'[k] \notin Variant /\ insertedBy'[k] # insertedBy'[n]
    <3>1. n \in LinesOf(cartOf'[k], productOf'[k]) /\ insertedBy'[k] = w
      BY <1>1, <1>2, <2>3 DEF LinesOf, LinesIn
    <3>2. QED
      BY <1>1, <2>3, <3>1 DEF Brings
  <2>4. QED
    BY <2>1, <2>2, <2>3
<1>4. ASSUME NEW v \in Worker \ {w} PROVE Inserts(v)'
  <2>1. Inserts(v) /\ Locals(v) /\ written[v] \subseteq Line
    BY DEF LineInv, CartsInv, CartsTypeOK
  <2>2. /\ pc'[v] = pc[v] /\ written'[v] = written[v] /\ target'[v] = target[v]
        /\ product'[v] = product[v]
    BY DEF Others
  <2>3. \A l \in written[v] : cartOf'[l] = cartOf[l] /\ productOf'[l] = productOf[l]
    BY <2>1 DEF Locals, Respects, Grows
  <2>4. ASSUME NEW c \in Cart, NEW p, \A m \in LinesOf(c, p) : insertedBy[m] # v
        PROVE  \A m \in Line : cartOf'[m] = c /\ productOf'[m] = p => insertedBy'[m] # v
    BY <1>1, <1>2, <2>4 DEF LinesOf, LinesIn
  <2>5. /\ pc[v] = "insertLine" => target[v] \in Cart
        /\ pc[v] = "mergeInsert" => target[v] \in Cart
    BY <2>1 DEF Locals, Merging, OwnCarts
  <2>6. pc[v] \in {"insertLine", "mergeInsert"} =>
          \A m \in Line : cartOf'[m] = target[v] /\ productOf'[m] = product[v] => insertedBy'[m] # v
    BY <2>1, <2>2, <2>4, <2>5 DEF Inserts
  <2>7. ASSUME NEW l \in written[v], cartOf[l] = Nil
        PROVE  /\ \A m \in Line : cartOf'[m] = target[v] /\ productOf'[m] = productOf[l] =>
                    insertedBy'[m] # v
               /\ productOf[l] \in Variant =>
                    /\ \A m \in Line : ~(cartOf'[m] = target[v] /\ productOf'[m] = productOf[l])
                    /\ \A u \in Worker \ {v} : target'[u] = target[v] =>
                         \A k \in written'[u] : productOf'[k] # productOf[l]
    <3>1. target[v] \in Cart /\ l \in Line
      BY <2>1, <2>7 DEF MergeInv, Merges, Locals, OwnCarts
    <3>2. \A m \in Line : cartOf'[m] = target[v] /\ productOf'[m] = productOf[l] =>
            insertedBy'[m] # v
      BY <2>1, <2>4, <2>7, <3>1 DEF Inserts
    <3>3. ASSUME productOf[l] \in Variant
          PROVE  /\ \A m \in Line : ~(cartOf'[m] = target[v] /\ productOf'[m] = productOf[l])
                 /\ \A u \in Worker \ {v} : target'[u] = target[v] =>
                      \A k \in written'[u] : productOf'[k] # productOf[l]
      <4>1. /\ LinesOf(target[v], productOf[l]) = {}
            /\ \A u \in Worker \ {v} : target[u] = target[v] =>
                 \A k \in written[u] : productOf[k] # productOf[l]
        BY <2>1, <2>7, <3>3 DEF Inserts
      <4>2. ASSUME NEW m \in Line, cartOf'[m] = target[v], productOf'[m] = productOf[l]
            PROVE  FALSE
        <5>1. CASE cartOf[m] = Nil
          BY <2>7, <3>1, <3>3, <4>2, <5>1 DEF Brings
        <5>2. CASE cartOf[m] # Nil
          BY <1>1, <1>2, <3>1, <4>1, <4>2, <5>2 DEF LinesOf, LinesIn
        <5>3. QED
          BY <5>1, <5>2
      <4>3. ASSUME NEW u \in Worker \ {v}, target'[u] = target[v], NEW k \in written'[u],
                   productOf'[k] = productOf[l]
            PROVE  FALSE
        <5>1. u # w => target[u] = target[v] /\ k \in written[u]
          BY <4>3 DEF Others
        <5>2. u = w => target[u] = target[v] /\ k \in written[u]
          BY <2>7, <3>3, <4>3 DEF Writes
        <5>3. productOf'[k] = productOf[k]
          BY <5>1, <5>2 DEF CartsInv, CartsTypeOK, Locals, Grows
        <5>4. QED
          BY <4>1, <4>3, <5>1, <5>2, <5>3
      <4>4. QED
        BY <4>2, <4>3
    <3>4. QED
      BY <3>2, <3>3
  <2>8. QED
    BY <2>1, <2>2, <2>3, <2>6, <2>7 DEF Inserts, LinesOf, LinesIn
<1>5. QED
  BY <1>3, <1>4 DEF LineInv

\* A call that ends inserts nothing more.
LEMMA FinishedInserts ==
  ASSUME CartsInv, NEW w \in Worker, Finish(w) PROVE Inserts(w)'
<1>1. pc'[w] = "idle" /\ written'[w] = {}
  BY DEF CartsInv, CartsTypeOK, Finish, Goto
<1>2. QED
  BY <1>1 DEF Inserts

\* Steps that insert and write nothing.
LEMMA CalmLines ==
  ASSUME CartsInv, MergeInv, LineInv, CartsInv', NEW w \in Worker, Others({w}), Grows,
         Respects(w), Calm(w), Looks(w)
  PROVE  LineInv'
<1> USE CartNilAssumption
<1>1. /\ UNCHANGED <<productOf, insertedBy>>
      /\ \A l \in Line : cartOf'[l] = cartOf[l] \/ cartOf'[l] = Nil
      /\ written'[w] = {} \/ (written'[w] = written[w] /\ target'[w] = target[w])
      /\ \A v \in Worker : \A l \in written[v] : l \in Line /\ cartOf'[l] = cartOf[l]
  BY DEF Calm, CartsInv, CartsTypeOK
<1>2. Brings(w)
  BY <1>1 DEF Brings
<1>3. Writes(w)
  BY <1>1 DEF Writes
<1>4. Inserts(w) /\ Locals(w) /\ Merges(w)
  BY DEF LineInv, CartsInv, MergeInv
<1>5. \A v \in Worker \ {w} : written'[v] = written[v] /\ target'[v] = target[v]
  BY DEF Others
<1>6. pc'[w] \in {"insertLine", "mergeInsert"} => target'[w] # Nil
  BY DEF CartsInv, Locals, Merging, OwnCarts
<1>7. pc'[w] \in {"insertLine", "mergeInsert"} =>
        \A m \in Line : cartOf'[m] = target'[w] /\ productOf'[m] = product'[w] =>
          insertedBy'[m] # w
  BY <1>1, <1>4, <1>6 DEF Looks, Inserts, LinesOf, LinesIn
<1>8. pc'[w] = "mergeInsert" => \A l \in written'[w] : productOf'[l] # product'[w]
  BY <1>1, <1>4 DEF Looks, Inserts
<1>9. ASSUME NEW l \in written'[w], cartOf'[l] = Nil
      PROVE  /\ \A m \in Line : cartOf'[m] = target'[w] /\ productOf'[m] = productOf[l] =>
                  insertedBy'[m] # w
             /\ \A m \in written'[w] \ {l} : cartOf'[m] = Nil => productOf[m] # productOf[l]
             /\ productOf[l] \in Variant =>
                  /\ \A m \in Line : ~(cartOf'[m] = target'[w] /\ productOf'[m] = productOf[l])
                  /\ \A v \in Worker \ {w} : target'[v] = target'[w] =>
                       \A k \in written'[v] : productOf'[k] # productOf[l]
  <2>1. /\ written'[w] = written[w] /\ target'[w] = target[w] /\ l \in written[w]
        /\ cartOf[l] = Nil
    BY <1>1, <1>9
  <2>2. target[w] # Nil
    BY <1>4, <2>1 DEF Merges, Locals, OwnCarts
  <2>3. /\ \A m \in LinesOf(target[w], productOf[l]) : insertedBy[m] # w
        /\ \A m \in written[w] \ {l} : cartOf[m] = Nil => productOf[m] # productOf[l]
        /\ productOf[l] \in Variant =>
             /\ LinesOf(target[w], productOf[l]) = {}
             /\ \A v \in Worker \ {w} : target[v] = target[w] =>
                  \A k \in written[v] : productOf[k] # productOf[l]
    BY <1>4, <2>1 DEF Inserts
  <2>4. \A m \in Line : cartOf'[m] = target[w] => cartOf[m] = target[w]
    BY <1>1, <2>2
  <2>5. QED
    BY <1>1, <1>5, <2>1, <2>3, <2>4 DEF LinesOf, LinesIn
<1>10. Inserts(w)'
  BY <1>1, <1>7, <1>8, <1>9 DEF Inserts, LinesOf, LinesIn
<1>11. QED
  BY <1>2, <1>3, <1>10, LinesKept

\* Steps that insert lines, or write them in a merge.
LEMMA WritingLines ==
  ASSUME CartsInv, MergeInv, LineInv, NEW w \in Worker,
         InsertLine(w) \/ MergeIncrement(w) \/ MergeInsert(w) \/ Commit(w)
  PROVE  LineInv'
<1> USE CartNilAssumption
<1>1. CallTypes /\ RowTypes /\ Rows /\ Merges(w) /\ Locals(w) /\ Inserts(w)
  BY TypesSplit DEF CartsInv, MergeInv, LineInv
<1>2. Others({w}) /\ Grows /\ Respects(w)
  BY WritingSteps
<1>3. \A v \in Worker : \A l \in written[v] : productOf[l] # Nil /\ l \in Line
  BY <1>1 DEF CallTypes, CartsInv, Locals
<1>4. SUFFICES Brings(w) /\ Writes(w) /\ Inserts(w)'
  BY <1>2, LinesKept
<1>5. ASSUME Finish(w) PROVE Writes(w) /\ Inserts(w)'
  <2>1. written'[w] = {}
    BY <1>1, <1>5 DEF Finish, CallTypes
  <2>2. QED
    BY <1>5, <2>1, FinishedInserts DEF Writes
<1>6. ASSUME Finish(w), UNCHANGED cartOf PROVE Brings(w) /\ Writes(w) /\ Inserts(w)'
  BY <1>5, <1>6 DEF Brings
<1>7. CASE InsertLine(w)
  <2>1. CASE UNCHANGED <<lineVars, wanted, insertedBy>>
    BY <1>6, <1>7, <2>1 DEF InsertLine, lineVars
  <2>2. ASSUME NEW l \in Unused, ~KeyTaken(w),
               cartOf' = [cartOf EXCEPT ![l] = target[w]],
               productOf' = [productOf EXCEPT ![l] = product[w]]
        PROVE  Brings(w) /\ Writes(w) /\ Inserts(w)'
    <3>1. pc[w] = "insertLine" /\ ~KeyHeld(w)
      BY <1>7 DEF InsertLine
    <3>2. /\ \A m \in Line : cartOf[m] = Nil /\ cartOf'[m] # Nil => m = l
          /\ cartOf'[l] = target[w] /\ productOf'[l] = product[w]
      BY <1>1, <2>2 DEF RowTypes, Unused
    <3>3. \A m \in LinesOf(target[w], product[w]) : insertedBy[m] # w
      BY <1>1, <3>1 DEF Inserts
    <3>4. product[w] \in Variant =>
            /\ LinesOf(target[w], product[w]) = {}
            /\ \A v \in Worker \ {w} : target[v] = target[w] =>
                 \A k \in written[v] : productOf[k] # product[w]
      BY <2>2, <3>1 DEF KeyTaken, KeyHeld
    <3>5. Brings(w)
      BY <3>2, <3>3, <3>4 DEF Brings
    <3>6. QED
      BY <1>5, <1>7, <3>5 DEF InsertLine
  <2>3. QED
    BY <1>7, <2>1, <2>2 DEF InsertLine
<1>8. CASE MergeIncrement(w)
  <2>1. UNCHANGED <<cartOf, productOf, insertedBy>>
    BY <1>8 DEF MergeIncrement, lineVars, cartHistory
  <2>2. ASSUME WriteInMerge(w, found[w]), cartOf[found[w]] # Nil \/ found[w] \in written[w]
        PROVE  Writes(w) /\ Inserts(w)'
    <3>1. pc[w] = "mergeIncrement" /\ found[w] \in Line /\ productOf[found[w]] = product[w]
      BY <1>1, <1>8 DEF MergeIncrement, Locals
    <3>2. /\ pc'[w] = "merge" /\ written'[w] = written[w] \cup {found[w]} /\ target'[w] = target[w]
      BY <2>2, <3>1, WrittenInMerge
    <3>3. found[w] \in written[w] \/ cartOf[found[w]] = target[w]
      BY <1>1, <2>2, <3>1 DEF Merges, Gone
    <3>4. target[w] # Nil
      BY <1>1, <3>1 DEF Locals, Merging, OwnCarts
    <3>5. Writes(w)
      <4> SUFFICES ASSUME NEW v \in Worker \ {w}, NEW l \in written[v], NEW m \in written'[w],
                          cartOf[l] = Nil, productOf[l] \in Variant, target[v] = target[w],
                          productOf[m] = productOf[l]
                   PROVE  m \in written[w]
        BY <2>1, <3>2 DEF Writes
      <4>1. LinesOf(target[v], productOf[l]) = {}
        BY DEF LineInv, Inserts
      <4>2. m # found[w] \/ m \in written[w]
        BY <3>1, <3>3, <4>1 DEF LinesOf, LinesIn
      <4>3. QED
        BY <3>2, <4>2
    <3>6. \A l \in written'[w] : cartOf[l] = Nil => l \in written[w]
      BY <3>2, <3>3, <3>4
    <3>7. \A v \in Worker \ {w} : target'[v] = target[v] /\ written'[v] = written[v]
      BY <1>2 DEF Others
    <3>8. Inserts(w)'
      BY <1>1, <2>1, <3>2, <3>6, <3>7 DEF Inserts, LinesOf, LinesIn
    <3>9. QED
      BY <3>5, <3>8
  <2>3. Brings(w)
    BY <2>1 DEF Brings
  <2>4. QED
    BY <1>6, <1>8, <2>1, <2>2, <2>3 DEF MergeIncrement
<1>9. CASE MergeInsert(w)
  <2>1. UNCHANGED cartOf
    BY <1>9 DEF MergeInsert
  <2>2. Brings(w)
    BY <2>1 DEF Brings
  <2>3. ASSUME NEW l \in Unused, ~KeyTaken(w), productOf' = [productOf EXCEPT ![l] = product[w]],
               insertedBy' = [insertedBy EXCEPT ![l] = w], WriteInMerge(w, l)
        PROVE  Writes(w) /\ Inserts(w)'
    <3>1. /\ pc[w] = "mergeInsert" /\ ~KeyHeld(w) /\ l \in Line /\ productOf[l] = Nil
          /\ cartOf[l] = Nil
      BY <1>1, <1>9 DEF MergeInsert, Unused, Rows
    <3>2. /\ pc'[w] = "merge" /\ written'[w] = written[w] \cup {l} /\ target'[w] = target[w]
      BY <2>3, <3>1, WrittenInMerge
    <3>3. \A v \in Worker : l \notin written[v]
      BY <1>3, <3>1
    <3>4. /\ \A m \in Line \ {l} : productOf'[m] = productOf[m] /\ insertedBy'[m] = insertedBy[m]
          /\ productOf'[l] = product[w]
      BY <1>1, <2>3, <3>1 DEF RowTypes
    <3>5. /\ \A m \in LinesOf(target[w], product[w]) : insertedBy[m] # w
          /\ \A m \in written[w] : productOf[m] # product[w]
      BY <1>1, <3>1 DEF Inserts
    <3>6. product[w] \in Variant =>
            /\ LinesOf(target[w], product[w]) = {}
            /\ \A v \in Worker \ {w} : target[v] = target[w] =>
                 \A k \in written[v] : productOf[k] # product[w]
      BY <2>3, <3>1 DEF KeyTaken, KeyHeld
    <3>7. Writes(w)
      BY <1>3, <3>2, <3>3, <3>4, <3>6 DEF Writes
    <3>8. \A v \in Worker \ {w} : target'[v] = target[v] /\ written'[v] = written[v]
      BY <1>2 DEF Others
    <3>9. target[w] # Nil
      BY <1>1, <3>1 DEF Locals, Merging, OwnCarts
    <3>10. \A m \in Line : cartOf[m] = target[w] => m # l
      BY <3>1, <3>9
    <3>11. ASSUME NEW k \in written'[w], cartOf[k] = Nil
           PROVE  /\ \A m \in Line : cartOf[m] = target[w] /\ productOf'[m] = productOf'[k] =>
                       insertedBy'[m] # w
                  /\ \A m \in written'[w] \ {k} : cartOf[m] = Nil => productOf'[m] # productOf'[k]
                  /\ productOf'[k] \in Variant =>
                       /\ \A m \in Line : ~(cartOf[m] = target[w] /\ productOf'[m] = productOf'[k])
                       /\ \A v \in Worker \ {w} : target[v] = target[w] =>
                            \A n \in written[v] : productOf'[n] # productOf'[k]
      <4>1. CASE k = l
        BY <1>3, <3>2, <3>3, <3>4, <3>5, <3>6, <3>10, <4>1 DEF LinesOf, LinesIn
      <4>2. CASE k # l
        <5>1. k \in written[w] /\ k \in Line /\ productOf'[k] = productOf[k]
          BY <1>3, <3>2, <3>4, <4>2
        <5>2. /\ \A m \in LinesOf(target[w], productOf[k]) : insertedBy[m] # w
              /\ \A m \in written[w] \ {k} : cartOf[m] = Nil => productOf[m] # productOf[k]
              /\ productOf[k] \in Variant =>
                   /\ LinesOf(target[w], productOf[k]) = {}
                   /\ \A v \in Worker \ {w} : target[v] = target[w] =>
                        \A n \in written[v] : productOf[n] # productOf[k]
          BY <1>1, <3>11, <5>1 DEF Inserts
        <5>3. \A v \in Worker : \A n \in written[v] : productOf'[n] = productOf[n]
          BY <1>3, <3>3, <3>4
        <5>4. QED
          BY <1>3, <3>2, <3>4, <3>5, <3>10, <5>1, <5>2, <5>3 DEF LinesOf, LinesIn
      <4>3. QED
        BY <4>1, <4>2
    <3>12. Inserts(w)'
      BY <2>1, <3>2, <3>8, <3>11 DEF Inserts, LinesOf, LinesIn
    <3>13. QED
      BY <3>7, <3>12
  <2>4. QED
    BY <1>6, <1>9, <2>1, <2>2, <2>3 DEF MergeInsert
<1>10. CASE Commit(w)
  <2>1. CASE owner[guest[w]] # "guest"
    BY <1>6, <1>10, <2>1 DEF Commit
  <2>2. CASE owner[guest[w]] = "guest"
    <3>1. /\ cartOf' = [l \in Line |-> IF l \in written[w] THEN target[w]
                                       ELSE IF cartOf[l] = guest[w] THEN Nil ELSE cartOf[l]]
          /\ UNCHANGED productOf /\ Finish(w)
      BY <1>10, <2>2 DEF Commit
    <3>2. \A l \in Line : cartOf[l] = Nil /\ cartOf'[l] # Nil =>
            l \in written[w] /\ cartOf'[l] = target[w]
      BY <3>1
    <3>3. target[w] # Nil
      BY <1>1, <1>10 DEF Commit, Locals, Merging, OwnCarts
    <3>4. Brings(w)
      BY <1>1, <3>1, <3>2, <3>3 DEF Brings, Inserts
    <3>5. QED
      BY <1>5, <3>1, <3>4
  <2>3. QED
    BY <2>1, <2>2
<1>11. QED
  BY <1>7, <1>8, <1>9, <1>10

\* Every step on carts: no call inserts a line of a product that it could have found.
LEMMA LineStep ==
  ASSUME CartsInv, MergeInv, LineInv, CartsInv', [CartsNext]_cartVars PROVE LineInv'
<1>1. CASE UNCHANGED cartVars
  BY <1>1
  DEF LineInv, SecondLineByAnother, Inserts, LinesOf, LinesIn, cartVars, lineVars, cartHistory,
      cartLocals, mergeLocals
<1>2. QED
  BY <1>1, CalmSteps, CalmLines, WritingLines DEF CartsNext, CartRequests
-----------------------------------------------------------------------------
(* Carts: nothing is lost *)

\* What each line holds of a product, given carts, products and quantities.
Holds(carts, products, quantities, p) ==
    [l \in Line |-> IF carts[l] # Nil /\ products[l] = p THEN quantities[l] ELSE 0]

\* What is in all carts of a product is the sum of that over all lines.
LEMMA HeldSum ==
  ASSUME IsFiniteSet(Line), NEW carts, NEW products, NEW quantities \in [Line -> Nat], NEW p
  PROVE  SumFunctionOnSet(quantities, {l \in Line : carts[l] # Nil /\ products[l] = p})
           = SumFunctionOnSet(Holds(carts, products, quantities, p), Line)
<1> DEFINE Kept == {l \in Line : carts[l] # Nil /\ products[l] = p}
           h == Holds(carts, products, quantities, p)
<1>1. \A l \in Kept : quantities[l] \in Int /\ h[l] = quantities[l]
  BY DEF Holds
<1>2. \A l \in Line \ Kept : h[l] = 0
  BY DEF Holds
<1>3. Kept \in SUBSET Line
  OBVIOUS
<1> HIDE DEF Kept, h
<1>4. SumFunctionOnSet(quantities, Kept) = SumFunctionOnSet(h, Line)
  BY <1>1, <1>2, <1>3, SumOfSome
<1>5. QED
  BY <1>4 DEF Kept, h

\* NothingLost, with that sum.
LEMMA HeldIsWanted ==
  ASSUME CartsTypeOK, IsFiniteSet(Line)
  PROVE  NothingLost <=>
           \A p \in Product :
             SumFunctionOnSet(Holds(cartOf, productOf, quantity, p), Line) = wanted[p] + drift[p]
<1>1. quantity \in [Line -> Nat]
  BY DEF CartsTypeOK
<1>2. \A p \in Product :
        SumFunctionOnSet(quantity, {l \in Line : cartOf[l] # Nil /\ productOf[l] = p})
          = SumFunctionOnSet(Holds(cartOf, productOf, quantity, p), Line)
  BY <1>1, HeldSum
<1>3. QED
  BY <1>2 DEF NothingLost, InCarts

\* The same in the next state.
LEMMA HeldIsWantedNext ==
  ASSUME CartsTypeOK', IsFiniteSet(Line)
  PROVE  NothingLost' <=>
           \A p \in Product :
             SumFunctionOnSet(Holds(cartOf', productOf', quantity', p), Line) = wanted'[p] + drift'[p]
<1>1. quantity' \in [Line -> Nat]
  BY DEF CartsTypeOK
<1>2. \A p \in Product :
        SumFunctionOnSet(quantity', {l \in Line : cartOf'[l] # Nil /\ productOf'[l] = p})
          = SumFunctionOnSet(Holds(cartOf', productOf', quantity', p), Line)
  BY <1>1, HeldSum
<1>3. QED
  BY <1>2 DEF NothingLost, InCarts

\* One line changes, and what is wanted of its product changes by as much.
LEMMA OneLineChanged ==
  ASSUME CartsInv, CartsInv', NothingLost, IsFiniteSet(Line), NEW l \in Line, NEW q \in Product,
         \A m \in Line \ {l} : /\ cartOf'[m] = cartOf[m] /\ productOf'[m] = productOf[m]
                               /\ quantity'[m] = quantity[m],
         productOf'[l] = q, productOf[l] = q \/ cartOf[l] = Nil,
         PutIn(q, quantity'[l] - quantity[l]), UNCHANGED drift
  PROVE  NothingLost'
<1> SUFFICES ASSUME NEW p \in Product
             PROVE  SumFunctionOnSet(Holds(cartOf', productOf', quantity', p), Line)
                      = wanted'[p] + drift'[p]
  BY HeldIsWantedNext DEF CartsInv
<1> DEFINE f == Holds(cartOf, productOf, quantity, p)
           h == Holds(cartOf', productOf', quantity', p)
<1>1. SumFunctionOnSet(f, Line) = wanted[p] + drift[p] /\ wanted[p] \in Int /\ drift[p] \in Int
  BY HeldIsWanted DEF CartsInv, CartsTypeOK
<1>2. \A m \in Line : f[m] \in Int /\ h[m] \in Int
  BY DEF Holds, CartsInv, CartsTypeOK
<1>3. \A m \in Line \ {l} : h[m] = f[m]
  BY DEF Holds
<1>4. /\ p = q => f[l] = quantity[l] /\ h[l] = quantity'[l]
      /\ p # q => f[l] = 0 /\ h[l] = 0
  BY DEF Holds, CartsInv, Rows
<1>5. wanted'[p] = IF p = q THEN wanted[p] + (quantity'[l] - quantity[l]) ELSE wanted[p]
  BY DEF PutIn, CartsInv, CartsTypeOK
<1> HIDE DEF f, h
<1>6. SumFunctionOnSet(h, Line) = SumFunctionOnSet(f, Line) - f[l] + h[l]
  BY <1>2, <1>3, SumOneChanged
<1>7. quantity[l] \in Int /\ quantity'[l] \in Int
  BY DEF CartsInv, CartsTypeOK
<1>8. SumFunctionOnSet(h, Line) = wanted'[p] + drift'[p]
  BY <1>1, <1>4, <1>5, <1>6, <1>7
<1>9. QED
  BY <1>8 DEF h

\* Removing all lines of a cart takes out what they hold.
LEMMA LinesDropped ==
  ASSUME CartsInv, CartsInv', NothingLost, IsFiniteSet(Line),
         NEW c \in Cart, DeleteLinesIn(c), UNCHANGED <<productOf, drift>>
  PROVE  NothingLost'
<1> SUFFICES ASSUME NEW p \in Product
             PROVE  SumFunctionOnSet(Holds(cartOf', productOf', quantity', p), Line)
                      = wanted'[p] + drift'[p]
  BY HeldIsWantedNext DEF CartsInv
<1> DEFINE f == Holds(cartOf, productOf, quantity, p)
           h == Holds(cartOf', productOf', quantity', p)
           g == [l \in Line |-> IF l \in LinesOf(c, p) THEN quantity[l] ELSE 0]
<1>1. SumFunctionOnSet(f, Line) = wanted[p] + drift[p] /\ wanted[p] \in Int /\ drift[p] \in Int
  BY HeldIsWanted DEF CartsInv, CartsTypeOK
<1>2. \A l \in Line : h[l] \in Int /\ g[l] \in Int /\ f[l] = h[l] + g[l]
  BY CartNilAssumption DEF Holds, CartsInv, CartsTypeOK, DeleteLinesIn, Drop, LinesOf, LinesIn
<1>3. LinesOf(c, p) \in SUBSET Line
  BY DEF LinesOf, LinesIn
<1>4. \A l \in LinesOf(c, p) : quantity[l] \in Int /\ g[l] = quantity[l]
  BY <1>3 DEF CartsInv, CartsTypeOK
<1>5. \A l \in Line \ LinesOf(c, p) : g[l] = 0
  OBVIOUS
<1>6. wanted'[p] = wanted[p] - Contents(c)[p]
  BY DEF DeleteLinesIn
<1>7. Contents(c)[p] = SumFunctionOnSet(quantity, LinesOf(c, p))
  BY DEF Contents
<1> HIDE DEF f, g, h
<1>8. SumFunctionOnSet(f, Line) = SumFunctionOnSet(h, Line) + SumFunctionOnSet(g, Line)
  BY <1>2, SumOfSums
<1>9. SumFunctionOnSet(quantity, LinesOf(c, p)) = SumFunctionOnSet(g, Line)
  BY <1>3, <1>4, <1>5, SumOfSome
<1>10. SumFunctionOnSet(g, Line) \in Int /\ SumFunctionOnSet(h, Line) \in Int
  BY <1>2, SumType
<1>11. SumFunctionOnSet(h, Line) = wanted'[p] + drift'[p]
  BY <1>1, <1>6, <1>7, <1>8, <1>9, <1>10
<1>12. QED
  BY <1>11 DEF h

\* Steps that change no line in a cart.
LEMMA LinesStay ==
  ASSUME CartsInv, CartsInv', NothingLost, IsFiniteSet(Line), Grows,
         UNCHANGED <<cartOf, quantity, wanted, drift>>
  PROVE  NothingLost'
<1> SUFFICES ASSUME NEW p \in Product
             PROVE  SumFunctionOnSet(Holds(cartOf', productOf', quantity', p), Line)
                      = wanted'[p] + drift'[p]
  BY HeldIsWantedNext DEF CartsInv
<1> DEFINE f == Holds(cartOf, productOf, quantity, p)
           h == Holds(cartOf', productOf', quantity', p)
<1>1. SumFunctionOnSet(f, Line) = wanted[p] + drift[p]
  BY HeldIsWanted DEF CartsInv
<1>2. \A l \in Line : f[l] = h[l]
  BY DEF Holds, CartsInv, Rows, Grows
<1> HIDE DEF f, h
<1>3. SumFunctionOnSet(f, Line) = SumFunctionOnSet(h, Line)
  BY <1>2, SumSame
<1>4. QED
  BY <1>1, <1>3 DEF h

-----------------------------------------------------------------------------
(* Carts: what a merge has gathered *)

\* What a merge has copied of a product, per line, what it has added to lines,
\* what it has yet to add, and what it is about to add.
CopiedAs(w, p) == [l \in Line |-> IF productOf[l] = p THEN copied[w][l] ELSE 0]
GainedAs(w, p) == [l \in Line |-> IF productOf[l] = p THEN gain[w][l] ELSE 0]
LeftAs(w, p) == [l \in Line |-> IF l \in todo[w] /\ productOf[l] = p THEN copied[w][l] ELSE 0]
InHand(w, p) ==
    IF pc[w] \in {"mergeIncrement", "mergeInsert"} /\ product[w] = p THEN amount[w] ELSE 0

\* It adds what it has copied, each line once.
Gathered(w) ==
    /\ \A l \in Line : productOf[l] = Nil => copied[w][l] = 0
    /\ \A p \in Product : SumFunctionOnSet(CopiedAs(w, p), Line)
         = SumFunctionOnSet(GainedAs(w, p), Line) + SumFunctionOnSet(LeftAs(w, p), Line) + InHand(w, p)

GatherInv == \A w \in Worker : Gathered(w)

\* The sums are numbers.
LEMMA GatherType ==
  ASSUME CartsTypeOK, IsFiniteSet(Line), NEW w \in Worker, NEW p
  PROVE  /\ SumFunctionOnSet(CopiedAs(w, p), Line) \in Int
         /\ SumFunctionOnSet(GainedAs(w, p), Line) \in Int
         /\ SumFunctionOnSet(LeftAs(w, p), Line) \in Int
         /\ InHand(w, p) \in Int
<1>1. \A l \in Line : CopiedAs(w, p)[l] \in Int /\ GainedAs(w, p)[l] \in Int /\ LeftAs(w, p)[l] \in Int
  BY DEF CartsTypeOK, CopiedAs, GainedAs, LeftAs
<1>2. InHand(w, p) \in Int
  BY DEF CartsTypeOK, InHand
<1>3. QED
  BY <1>1, <1>2, SumType

\* A call that goes on with what it has gathered.
LEMMA GatherKept ==
  ASSUME CartsInv, Grows, IsFiniteSet(Line), NEW v \in Worker, Gathered(v),
         copied'[v] = copied[v], gain'[v] = gain[v], todo'[v] = todo[v],
         \A p \in Product : InHand(v, p)' = InHand(v, p)
  PROVE  Gathered(v)'
<1>1. Locals(v) /\ todo[v] \subseteq Line /\ written[v] \subseteq Line
  BY DEF CartsInv, CartsTypeOK
<1>2. \A l \in Line : productOf'[l] = productOf[l] \/ productOf[l] = Nil
  BY DEF Grows
<1>3. \A l \in Line : productOf[l] = Nil => copied[v][l] = 0 /\ gain[v][l] = 0 /\ l \notin todo[v]
  BY <1>1 DEF Locals, Gathered
<1>4. ASSUME NEW p \in Product
      PROVE  /\ CopiedAs(v, p)' = CopiedAs(v, p) /\ GainedAs(v, p)' = GainedAs(v, p)
             /\ LeftAs(v, p)' = LeftAs(v, p)
  <2>1. p # Nil
    BY CartNilAssumption
  <2>2. \A l \in Line : /\ CopiedAs(v, p)'[l] = CopiedAs(v, p)[l]
                        /\ GainedAs(v, p)'[l] = GainedAs(v, p)[l]
                        /\ LeftAs(v, p)'[l] = LeftAs(v, p)[l]
    BY <1>2, <1>3, <2>1 DEF CopiedAs, GainedAs, LeftAs
  <2>3. QED
    BY <2>2 DEF CopiedAs, GainedAs, LeftAs
<1>5. \A l \in Line : productOf'[l] = Nil => copied'[v][l] = 0
  BY <1>2, <1>3
<1>6. QED
  BY <1>4, <1>5 DEF Gathered

\* A call that ends has gathered nothing.
LEMMA GatherFinished ==
  ASSUME CartsInv, IsFiniteSet(Line), NEW w \in Worker, Finish(w) PROVE Gathered(w)'
<1>1. pc'[w] = "idle" /\ copied'[w] = Nothing /\ todo'[w] = {} /\ gain'[w] = Nothing
  BY DEF CartsInv, CartsTypeOK, Finish, Goto
<1>2. ASSUME NEW p \in Product
      PROVE  /\ SumFunctionOnSet(CopiedAs(w, p)', Line) = 0
             /\ SumFunctionOnSet(GainedAs(w, p)', Line) = 0
             /\ SumFunctionOnSet(LeftAs(w, p)', Line) = 0
             /\ InHand(w, p)' = 0
  <2>1. \A l \in Line :
          CopiedAs(w, p)'[l] = 0 /\ GainedAs(w, p)'[l] = 0 /\ LeftAs(w, p)'[l] = 0
    BY <1>1 DEF CopiedAs, GainedAs, LeftAs, Nothing
  <2>2. InHand(w, p)' = 0
    BY <1>1 DEF InHand
  <2>3. QED
    BY <2>1, <2>2, SumOfZeros
<1>3. \A p \in Product : SumFunctionOnSet(CopiedAs(w, p), Line)'
        = SumFunctionOnSet(GainedAs(w, p), Line)' + SumFunctionOnSet(LeftAs(w, p), Line)'
          + InHand(w, p)'
  BY <1>2
<1>4. \A l \in Line : copied'[w][l] = 0
  BY <1>1 DEF Nothing
<1>5. QED
  BY <1>3, <1>4 DEF Gathered

\* A merge that begins has all it has copied left to add.
LEMMA GatherBegins ==
  ASSUME CartsInv, MergeInv, IsFiniteSet(Line), NEW w \in Worker, ReadGuestCart(w)
  PROVE  Gathered(w)'
<1>1. PICK c \in Cart : /\ guest' = [guest EXCEPT ![w] = c]
                        /\ copied' = [copied EXCEPT ![w] = CopyOf(c)]
                        /\ todo' = [todo EXCEPT ![w] = LinesIn(c)]
                        /\ TakeOwnCart(w, "merge")
                        /\ UNCHANGED <<productOf, gain>>
  BY DEF ReadGuestCart, lineVars
<1>2. /\ copied'[w] = CopyOf(c) /\ todo'[w] = LinesIn(c)
      /\ pc'[w] \notin {"mergeIncrement", "mergeInsert"}
  BY <1>1, OwnCartTaken DEF CartsInv, CartsTypeOK
<1>3. \A l \in Line : gain[w][l] = 0
  BY DEF ReadGuestCart, Merging, CartsInv, Locals, MergeInv, Merges
<1>4. \A l \in Line : productOf[l] = Nil => copied'[w][l] = 0
  BY <1>2, CartNilAssumption DEF CopyOf, CartsInv, Rows
<1>5. ASSUME NEW p \in Product
      PROVE  SumFunctionOnSet(CopiedAs(w, p)', Line)
               = SumFunctionOnSet(GainedAs(w, p)', Line) + SumFunctionOnSet(LeftAs(w, p)', Line)
                 + InHand(w, p)'
  <2>1. \A l \in Line : CopiedAs(w, p)'[l] = LeftAs(w, p)'[l] /\ LeftAs(w, p)'[l] \in Int
    BY <1>2 DEF CopiedAs, LeftAs, CopyOf, LinesIn, CartsInv, CartsTypeOK
  <2>2. \A l \in Line : GainedAs(w, p)'[l] = 0
    BY <1>1, <1>3 DEF GainedAs
  <2>3. InHand(w, p)' = 0
    BY <1>2 DEF InHand
  <2>4. SumFunctionOnSet(CopiedAs(w, p)', Line) = SumFunctionOnSet(LeftAs(w, p)', Line)
    BY <2>1, SumSame
  <2>5. SumFunctionOnSet(GainedAs(w, p)', Line) = 0
    BY <2>2, SumOfZeros
  <2>6. SumFunctionOnSet(LeftAs(w, p)', Line) \in Int
    BY <2>1, SumType
  <2>7. QED
    BY <2>3, <2>4, <2>5, <2>6
<1>6. QED
  BY <1>1, <1>4, <1>5 DEF Gathered

\* It takes one of the lines in hand ...
LEMMA GatherTakes ==
  ASSUME CartsInv, IsFiniteSet(Line), NEW w \in Worker, Gathered(w), MergeFind(w)
  PROVE  Gathered(w)'
<1>1. PICK l \in todo[w] :
        /\ todo' = [todo EXCEPT ![w] = @ \ {l}]
        /\ product' = [product EXCEPT ![w] = productOf[l]]
        /\ amount' = [amount EXCEPT ![w] = copied[w][l]]
        /\ pc' \in {[pc EXCEPT ![w] = "mergeIncrement"], [pc EXCEPT ![w] = "mergeInsert"]}
  BY DEF MergeFind, Goto
<1>2. UNCHANGED <<productOf, copied, gain>> /\ pc[w] = "merge"
  BY DEF MergeFind, lineVars
<1>3. /\ todo'[w] = todo[w] \ {l} /\ product'[w] = productOf[l] /\ amount'[w] = copied[w][l]
      /\ pc'[w] \in {"mergeIncrement", "mergeInsert"} /\ l \in Line
  BY <1>1 DEF CartsInv, CartsTypeOK
<1>4. ASSUME NEW p \in Product
      PROVE  SumFunctionOnSet(CopiedAs(w, p)', Line)
               = SumFunctionOnSet(GainedAs(w, p)', Line) + SumFunctionOnSet(LeftAs(w, p)', Line)
                 + InHand(w, p)'
  <2> DEFINE f == LeftAs(w, p)
             h == LeftAs(w, p)'
  <2>1. CopiedAs(w, p)' = CopiedAs(w, p) /\ GainedAs(w, p)' = GainedAs(w, p)
    BY <1>2 DEF CopiedAs, GainedAs
  <2>2. (\A m \in Line : f[m] \in Int) /\ h[l] = 0 /\ \A m \in Line \ {l} : h[m] = f[m]
    BY <1>2, <1>3 DEF LeftAs, CartsInv, CartsTypeOK
  <2>3. f[l] = InHand(w, p)' /\ InHand(w, p) = 0
    BY <1>1, <1>2, <1>3 DEF LeftAs, InHand
  <2> HIDE DEF f, h
  <2>4. SumFunctionOnSet(h, Line) = SumFunctionOnSet(f, Line) - f[l] + h[l]
    BY <1>3, <2>2, SumOneChanged
  <2>5. SumFunctionOnSet(CopiedAs(w, p), Line)
          = SumFunctionOnSet(GainedAs(w, p), Line) + SumFunctionOnSet(f, Line) + InHand(w, p)
    BY DEF Gathered, f
  <2>6. /\ SumFunctionOnSet(GainedAs(w, p), Line) \in Int /\ SumFunctionOnSet(f, Line) \in Int
        /\ f[l] \in Int
    BY <1>3, <2>2, GatherType DEF CartsInv, f
  <2>7. SumFunctionOnSet(CopiedAs(w, p), Line)
          = SumFunctionOnSet(GainedAs(w, p), Line) + SumFunctionOnSet(h, Line) + f[l]
    BY <2>2, <2>3, <2>4, <2>5, <2>6
  <2>8. QED
    BY <2>1, <2>3, <2>7 DEF h
<1>5. QED
  BY <1>2, <1>4 DEF Gathered

\* ... and adds it to a line of the product.
LEMMA GatherWrites ==
  ASSUME CartsInv, Grows, IsFiniteSet(Line), NEW w \in Worker, NEW l \in Line, Gathered(w),
         WriteInMerge(w, l), pc[w] \in {"mergeIncrement", "mergeInsert"},
         productOf'[l] = product[w], product[w] \in Product
  PROVE  Gathered(w)'
<1>1. /\ pc'[w] = "merge" /\ todo'[w] = todo[w] /\ copied'[w] = copied[w]
      /\ gain'[w] = [gain[w] EXCEPT ![l] = @ + amount[w]]
  BY WrittenInMerge
<1>2. Locals(w) /\ todo[w] \subseteq Line /\ gain[w] \in [Line -> Nat] /\ amount[w] \in Nat
  BY DEF CartsInv, CartsTypeOK
<1>3. \A m \in Line : productOf'[m] = productOf[m] \/ productOf[m] = Nil
  BY DEF Grows
<1>4. /\ \A m \in Line : productOf[m] = Nil =>
           copied[w][m] = 0 /\ m \notin todo[w] /\ (m \in written[w] \/ gain[w][m] = 0)
      /\ \A m \in written[w] : productOf[m] # Nil
  BY <1>2 DEF Locals, Gathered
<1>5. ASSUME NEW p \in Product
      PROVE  SumFunctionOnSet(CopiedAs(w, p)', Line)
               = SumFunctionOnSet(GainedAs(w, p)', Line) + SumFunctionOnSet(LeftAs(w, p)', Line)
                 + InHand(w, p)'
  <2> DEFINE f == GainedAs(w, p)
             h == GainedAs(w, p)'
  <2>1. p # Nil
    BY CartNilAssumption
  <2>2. CopiedAs(w, p)' = CopiedAs(w, p) /\ LeftAs(w, p)' = LeftAs(w, p)
    <3>1. \A m \in Line : /\ CopiedAs(w, p)'[m] = CopiedAs(w, p)[m]
                          /\ LeftAs(w, p)'[m] = LeftAs(w, p)[m]
      BY <1>1, <1>3, <1>4, <2>1 DEF CopiedAs, LeftAs
    <3>2. QED
      BY <3>1 DEF CopiedAs, LeftAs
  <2>3. \A m \in Line : f[m] \in Int
    BY <1>2 DEF GainedAs
  <2>4. \A m \in Line \ {l} : h[m] = f[m]
    BY <1>1, <1>2, <1>3, <1>4, <2>1 DEF GainedAs
  <2>5. h[l] = f[l] + InHand(w, p)
    BY <1>1, <1>2, <1>3, <1>4, <2>1 DEF GainedAs, InHand
  <2>6. InHand(w, p)' = 0 /\ InHand(w, p) \in Int /\ h[l] \in Int
    BY <1>1, <1>2, <2>3, <2>5 DEF InHand
  <2> HIDE DEF f, h
  <2>7. SumFunctionOnSet(h, Line) = SumFunctionOnSet(f, Line) - f[l] + h[l]
    BY <2>3, <2>4, <2>6, SumOneChanged
  <2>8. SumFunctionOnSet(CopiedAs(w, p), Line)
          = SumFunctionOnSet(f, Line) + SumFunctionOnSet(LeftAs(w, p), Line) + InHand(w, p)
    BY DEF Gathered, f
  <2>9. /\ SumFunctionOnSet(LeftAs(w, p), Line) \in Int /\ SumFunctionOnSet(f, Line) \in Int
        /\ f[l] \in Int
    BY <2>3, GatherType DEF CartsInv, f
  <2>10. SumFunctionOnSet(CopiedAs(w, p), Line)
           = SumFunctionOnSet(h, Line) + SumFunctionOnSet(LeftAs(w, p), Line)
    BY <2>5, <2>6, <2>7, <2>8, <2>9
  <2>11. SumFunctionOnSet(h, Line) \in Int
    BY <2>6, <2>7, <2>9
  <2>12. QED
    BY <2>2, <2>6, <2>9, <2>10, <2>11 DEF h
<1>6. \A m \in Line : productOf'[m] = Nil => copied'[w][m] = 0
  BY <1>1, <1>3, <1>4
<1>7. QED
  BY <1>5, <1>6 DEF Gathered

\* Every step on carts: merges add what they have copied.
LEMMA GatherStep ==
  ASSUME CartsInv, MergeInv, GatherInv, [CartsNext]_cartVars, IsFiniteSet(Line)
  PROVE  GatherInv'
<1>1. ASSUME NEW w \in Worker, Others({w}), Grows, Gathered(w)' PROVE GatherInv'
  <2> SUFFICES ASSUME NEW v \in Worker \ {w} PROVE Gathered(v)'
    BY <1>1 DEF GatherInv
  <2>1. /\ copied'[v] = copied[v] /\ gain'[v] = gain[v] /\ todo'[v] = todo[v]
        /\ \A p \in Product : InHand(v, p)' = InHand(v, p)
    BY <1>1 DEF Others, InHand
  <2>2. QED
    BY <1>1, <2>1, GatherKept DEF GatherInv
<1>2. ASSUME NEW w \in Worker, Grows, copied'[w] = copied[w], gain'[w] = gain[w],
             todo'[w] = todo[w], pc'[w] = pc[w], product'[w] = product[w], amount'[w] = amount[w]
      PROVE  Gathered(w)'
  <2>1. \A p \in Product : InHand(w, p)' = InHand(w, p)
    BY <1>2 DEF InHand
  <2>2. QED
    BY <1>2, <2>1, GatherKept DEF GatherInv
<1>3. ASSUME NEW w \in Worker, Grows, UNCHANGED <<copied, gain, todo>>,
             pc[w] \notin {"mergeIncrement", "mergeInsert"},
             pc'[w] \notin {"mergeIncrement", "mergeInsert"}
      PROVE  Gathered(w)'
  <2>1. \A p \in Product : InHand(w, p)' = InHand(w, p)
    BY <1>3 DEF InHand
  <2>2. QED
    BY <1>3, <2>1, GatherKept DEF GatherInv
<1>4. CASE UNCHANGED cartVars
  <2>1. Grows /\ \A w \in Worker : Gathered(w)'
    BY <1>2, <1>4 DEF Grows, OwnCarts, cartVars, lineVars, cartLocals, mergeLocals
  <2>2. QED
    BY <2>1 DEF GatherInv
<1>5. ASSUME NEW w \in Worker,
             \/ CreateOwnCart(w) \/ CreateGuestCart \/ Add(w) \/ AddToOwnCart(w)
             \/ ChangeQuantity \/ RemoveLine \/ ClearCart \/ ReadGuestCart(w)
             \/ InsertCart(w) \/ FindLine(w) \/ Increment(w) \/ MergeFind(w) \/ Abort(w)
      PROVE  Gathered(w)'
  <2>1. Grows
    BY <1>5, CalmSteps
  <2>2. CASE CreateGuestCart \/ ChangeQuantity \/ RemoveLine \/ ClearCart
    BY <1>2, <2>1, <2>2
    DEF CreateGuestCart, ChangeQuantity, RemoveLine, ClearCart, cartLocals, mergeLocals
  <2>3. CASE CreateOwnCart(w) \/ AddToOwnCart(w)
    <3>1. /\ pc[w] = "idle" /\ UNCHANGED <<copied, gain, todo>>
          /\ \E next \in {"idle", "find"} : TakeOwnCart(w, next)
      BY <2>3 DEF CreateOwnCart, AddToOwnCart, Ask, mergeLocals
    <3>2. pc'[w] \notin {"mergeIncrement", "mergeInsert"}
      BY <3>1, OwnCartTaken
    <3>3. QED
      BY <1>3, <2>1, <3>1, <3>2
  <2>4. CASE Add(w)
    <3>1. /\ pc[w] = "idle" /\ UNCHANGED <<copied, gain, todo>> /\ pc'[w] = "find"
      BY <2>4 DEF Add, Ask, mergeLocals, Goto, CartsInv, CartsTypeOK
    <3>2. QED
      BY <1>3, <2>1, <3>1
  <2>5. CASE ReadGuestCart(w)
    BY <2>5, GatherBegins
  <2>6. CASE Finish(w)
    BY <2>6, GatherFinished
  <2>7. CASE InsertCart(w) /\ ~Finish(w)
    <3>1. /\ pc[w] = "insertCart" /\ UNCHANGED <<copied, gain, todo>>
          /\ pc'[w] \in {"idle", "find", "merge"}
      BY <2>7 DEF InsertCart, mergeLocals, Goto, CartsInv, CartsTypeOK
    <3>2. QED
      BY <1>3, <2>1, <3>1
  <2>8. CASE FindLine(w) /\ ~Finish(w)
    <3>1. /\ pc[w] = "find" /\ UNCHANGED <<copied, gain, todo>>
          /\ pc'[w] \in {"increment", "insertLine"}
      BY <2>8 DEF FindLine, mergeLocals, Goto, CartsInv, CartsTypeOK
    <3>2. QED
      BY <1>3, <2>1, <3>1
  <2>9. CASE MergeFind(w)
    BY <2>9, GatherTakes DEF GatherInv
  <2>10. QED
    BY <1>5, <2>2, <2>3, <2>4, <2>5, <2>6, <2>7, <2>8, <2>9 DEF Increment, Abort
<1>6. ASSUME NEW w \in Worker,
             InsertLine(w) \/ MergeIncrement(w) \/ MergeInsert(w) \/ Commit(w)
      PROVE  Gathered(w)'
  <2>1. Grows /\ Locals(w) /\ Gathered(w)
    BY <1>6, WritingSteps DEF CartsInv, GatherInv
  <2>2. CASE Finish(w)
    BY <2>2, GatherFinished
  <2>3. CASE MergeIncrement(w) /\ ~Finish(w)
    <3>1. /\ pc[w] = "mergeIncrement" /\ WriteInMerge(w, found[w]) /\ UNCHANGED productOf
      BY <2>3 DEF MergeIncrement, lineVars
    <3>2. found[w] \in Line /\ productOf'[found[w]] = product[w] /\ product[w] \in Product
      BY <2>1, <3>1 DEF Locals
    <3>3. QED
      BY <2>1, <3>1, <3>2, GatherWrites
  <2>4. CASE MergeInsert(w) /\ ~Finish(w)
    <3>1. PICK l \in Unused : /\ pc[w] = "mergeInsert" /\ WriteInMerge(w, l)
                              /\ productOf' = [productOf EXCEPT ![l] = product[w]]
      BY <2>4 DEF MergeInsert
    <3>2. l \in Line /\ productOf'[l] = product[w] /\ product[w] \in Product
      BY <2>1, <3>1 DEF Locals, Unused, CartsInv, CartsTypeOK
    <3>3. QED
      BY <2>1, <3>1, <3>2, GatherWrites
  <2>5. QED
    BY <1>6, <2>2, <2>3, <2>4 DEF InsertLine, Commit
<1>7. QED
  BY <1>1, <1>4, <1>5, <1>6, CalmSteps, WritingSteps DEF CartsNext, CartRequests

-----------------------------------------------------------------------------
(* Carts: nothing is lost *)

\* What a merge adds to the buyer's cart is what it has copied; what the guest's
\* cart held goes.
LEMMA LinesMerged ==
  ASSUME CartsInv, CartsInv', MergeInv, GatherInv, NothingLost, IsFiniteSet(Line),
         NEW w \in Worker, Commit(w)
  PROVE  NothingLost'
<1>1. CASE owner[guest[w]] # "guest"
  BY <1>1, LinesStay DEF Commit, Grows, OwnCarts
<1>2. CASE owner[guest[w]] = "guest"
  <2>1. /\ cartOf' = [l \in Line |-> IF l \in written[w] THEN target[w]
                                     ELSE IF cartOf[l] = guest[w] THEN Nil ELSE cartOf[l]]
        /\ quantity' = [l \in Line |-> IF cartOf[l] = guest[w] THEN 0
                                       ELSE quantity[l] + gain[w][l]]
        /\ drift' = [p \in Product |-> drift[p] + CopiedOf(w, p) - Contents(guest[w])[p]]
        /\ UNCHANGED <<productOf, wanted>> /\ pc[w] = "merge" /\ todo[w] = {}
    BY <1>2 DEF Commit
  <2>2. /\ guest[w] \in Cart /\ target[w] \in OwnCarts /\ target[w] # guest[w]
        /\ target[w] # Nil /\ guest[w] # Nil
    BY <1>2, <2>1, CartNilAssumption DEF CartsInv, Locals, Merging, OwnCarts
  <2>3. Locals(w) /\ Merges(w) /\ Gathered(w)
    BY DEF CartsInv, MergeInv, GatherInv
  <2> SUFFICES ASSUME NEW p \in Product
               PROVE  SumFunctionOnSet(Holds(cartOf', productOf', quantity', p), Line)
                        = wanted'[p] + drift'[p]
    BY HeldIsWantedNext DEF CartsInv
  <2> DEFINE f == Holds(cartOf, productOf, quantity, p)
             h == Holds(cartOf', productOf', quantity', p)
             g == [l \in Line |-> IF l \in LinesOf(guest[w], p) THEN quantity[l] ELSE 0]
             k == [l \in Line |-> f[l] + GainedAs(w, p)[l]]
  <2>4. SumFunctionOnSet(f, Line) = wanted[p] + drift[p] /\ wanted[p] \in Int /\ drift[p] \in Int
    BY HeldIsWanted DEF CartsInv, CartsTypeOK
  <2>5. \A l \in Line : /\ f[l] \in Int /\ h[l] \in Int /\ g[l] \in Int
                        /\ GainedAs(w, p)[l] \in Int /\ k[l] = f[l] + GainedAs(w, p)[l]
    BY DEF Holds, GainedAs, CartsInv, CartsTypeOK
  <2>6. ASSUME NEW l \in Line PROVE k[l] = h[l] + g[l]
    <3>1. quantity[l] \in Nat /\ gain[w][l] \in Nat
      BY DEF CartsInv, CartsTypeOK
    <3>2. CASE l \in written[w]
      <4>1. cartOf[l] = target[w] \/ (cartOf[l] = Nil /\ quantity[l] = 0)
        BY <2>3, <3>2 DEF Merges, CartsInv, Rows
      <4>2. g[l] = 0
        BY <2>2, <4>1 DEF LinesOf, LinesIn
      <4>3. cartOf'[l] = target[w] /\ quantity'[l] = quantity[l] + gain[w][l]
        BY <2>1, <2>2, <3>2, <4>1
      <4>4. QED
        BY <2>1, <2>2, <3>1, <4>1, <4>2, <4>3 DEF Holds, GainedAs
    <3>3. CASE l \notin written[w]
      <4>1. gain[w][l] = 0
        BY <2>3, <3>3 DEF Locals
      <4>2. QED
        BY <2>1, <2>2, <3>1, <3>3, <4>1 DEF Holds, GainedAs, LinesOf, LinesIn
    <3>4. QED
      BY <3>2, <3>3
  <2>7. CopiedOf(w, p) = SumFunctionOnSet(CopiedAs(w, p), Line)
    <3> DEFINE Lines == {l \in Line : productOf[l] = p}
    <3>1. /\ Lines \in SUBSET Line /\ \A l \in Line \ Lines : CopiedAs(w, p)[l] = 0
          /\ \A l \in Lines : copied[w][l] \in Int /\ CopiedAs(w, p)[l] = copied[w][l]
      BY DEF CopiedAs, CartsInv, CartsTypeOK
    <3> HIDE DEF Lines
    <3>2. SumFunctionOnSet(copied[w], Lines) = SumFunctionOnSet(CopiedAs(w, p), Line)
      BY <3>1, SumOfSome
    <3>3. QED
      BY <3>2 DEF Lines, CopiedOf
  <2>8. SumFunctionOnSet(CopiedAs(w, p), Line) = SumFunctionOnSet(GainedAs(w, p), Line)
    <3>1. \A l \in Line : LeftAs(w, p)[l] = 0
      BY <2>1 DEF LeftAs
    <3>2. SumFunctionOnSet(LeftAs(w, p), Line) = 0
      BY <3>1, SumOfZeros
    <3>3. InHand(w, p) = 0
      BY <2>1 DEF InHand
    <3>4. SumFunctionOnSet(GainedAs(w, p), Line) \in Int
      BY GatherType DEF CartsInv
    <3>5. QED
      BY <2>3, <3>2, <3>3, <3>4 DEF Gathered
  <2>9. Contents(guest[w])[p] = SumFunctionOnSet(g, Line)
    <3>1. /\ LinesOf(guest[w], p) \in SUBSET Line
          /\ \A l \in LinesOf(guest[w], p) : quantity[l] \in Int /\ g[l] = quantity[l]
          /\ \A l \in Line \ LinesOf(guest[w], p) : g[l] = 0
      BY DEF LinesOf, LinesIn, CartsInv, CartsTypeOK
    <3> HIDE DEF g
    <3>2. SumFunctionOnSet(quantity, LinesOf(guest[w], p)) = SumFunctionOnSet(g, Line)
      BY <3>1, SumOfSome
    <3>3. QED
      BY <3>2 DEF Contents
  <2> HIDE DEF f, g, h, k
  <2>10. SumFunctionOnSet(k, Line)
           = SumFunctionOnSet(f, Line) + SumFunctionOnSet(GainedAs(w, p), Line)
    BY <2>5, SumOfSums
  <2>11. SumFunctionOnSet(k, Line) = SumFunctionOnSet(h, Line) + SumFunctionOnSet(g, Line)
    BY <2>5, <2>6, SumOfSums
  <2>12. /\ SumFunctionOnSet(h, Line) \in Int /\ SumFunctionOnSet(g, Line) \in Int
         /\ SumFunctionOnSet(GainedAs(w, p), Line) \in Int
    BY <2>5, SumType
  <2>13. wanted'[p] = wanted[p] /\ drift'[p] = drift[p] + CopiedOf(w, p) - Contents(guest[w])[p]
    BY <2>1
  <2>14. SumFunctionOnSet(h, Line) = wanted'[p] + drift'[p]
    BY <2>4, <2>7, <2>8, <2>9, <2>10, <2>11, <2>12, <2>13
  <2>15. QED
    BY <2>14 DEF h
<1>3. QED
  BY <1>1, <1>2

\* Every step on carts loses nothing.
LEMMA NothingLostStep ==
  ASSUME CartsInv, MergeInv, GatherInv, NothingLost, [CartsNext]_cartVars, IsFiniteSet(Line)
  PROVE  NothingLost'
<1>1. CartsInv'
  BY CartsStep
<1>2. CASE UNCHANGED <<lineVars, wanted, drift>>
  BY <1>2 DEF NothingLost, InCarts, lineVars
<1>3. ASSUME NEW w \in Worker, Increment(w) PROVE NothingLost'
  <2>1. /\ found[w] \in Line /\ productOf[found[w]] = product[w] /\ product[w] \in Product
        /\ amount[w] \in Int /\ quantity[found[w]] \in Int
    BY <1>3 DEF Increment, CartsInv, Locals, CartsTypeOK
  <2>2. CASE /\ cartOf[found[w]] # Nil
             /\ quantity' = [quantity EXCEPT ![found[w]] = @ + amount[w]]
             /\ PutIn(product[w], amount[w])
    <3>1. quantity'[found[w]] - quantity[found[w]] = amount[w]
      BY <2>1, <2>2 DEF CartsInv, CartsTypeOK
    <3>2. \A m \in Line \ {found[w]} : /\ cartOf'[m] = cartOf[m] /\ productOf'[m] = productOf[m]
                                       /\ quantity'[m] = quantity[m]
      BY <1>3, <2>2 DEF Increment, CartsInv, CartsTypeOK
    <3>3. productOf'[found[w]] = product[w]
      BY <1>3, <2>1 DEF Increment
    <3>4. PutIn(product[w], quantity'[found[w]] - quantity[found[w]]) /\ UNCHANGED drift
      BY <1>3, <2>2, <3>1 DEF Increment
    <3>5. QED
      BY <1>1, <2>1, <3>2, <3>3, <3>4, OneLineChanged
  <2>3. QED
    BY <1>2, <1>3, <2>2 DEF Increment, lineVars, cartHistory
<1>4. ASSUME NEW w \in Worker, InsertLine(w) PROVE NothingLost'
  <2>1. product[w] \in Product /\ amount[w] \in Int
    BY <1>4 DEF InsertLine, CartsInv, Locals, CartsTypeOK
  <2>2. ASSUME NEW l \in Unused,
               cartOf' = [cartOf EXCEPT ![l] = target[w]],
               productOf' = [productOf EXCEPT ![l] = product[w]],
               quantity' = [quantity EXCEPT ![l] = amount[w]],
               PutIn(product[w], amount[w])
        PROVE  NothingLost'
    <3>1. l \in Line /\ cartOf[l] = Nil /\ quantity[l] = 0
      BY DEF Unused, CartsInv, Rows
    <3>2. quantity'[l] - quantity[l] = amount[w] /\ productOf'[l] = product[w]
      BY <2>1, <2>2, <3>1 DEF CartsInv, CartsTypeOK
    <3>3. \A m \in Line \ {l} : /\ cartOf'[m] = cartOf[m] /\ productOf'[m] = productOf[m]
                                /\ quantity'[m] = quantity[m]
      BY <2>2 DEF CartsInv, CartsTypeOK
    <3>4. PutIn(product[w], quantity'[l] - quantity[l]) /\ UNCHANGED drift
      BY <1>4, <2>2, <3>2 DEF InsertLine
    <3>5. QED
      BY <1>1, <2>1, <3>1, <3>2, <3>3, <3>4, OneLineChanged
  <2>3. QED
    BY <1>2, <1>4, <2>2 DEF InsertLine
<1>5. ASSUME ChangeQuantity PROVE NothingLost'
  <2>1. PICK l \in Line, n \in 1 .. MaxQuantity : cartOf[l] # Nil /\ SetQuantity(l, n)
    BY <1>5 DEF ChangeQuantity
  <2>2. productOf[l] \in Product
    BY <2>1 DEF CartsInv, CartsTypeOK, Rows
  <2>3. /\ quantity'[l] = n /\ productOf'[l] = productOf[l]
        /\ \A m \in Line \ {l} : /\ cartOf'[m] = cartOf[m] /\ productOf'[m] = productOf[m]
                                 /\ quantity'[m] = quantity[m]
    BY <1>5, <2>1 DEF ChangeQuantity, SetQuantity, CartsInv, CartsTypeOK
  <2>4. PutIn(productOf[l], quantity'[l] - quantity[l]) /\ UNCHANGED drift
    BY <1>5, <2>1, <2>3 DEF ChangeQuantity, SetQuantity
  <2>5. QED
    BY <1>1, <2>2, <2>3, <2>4, OneLineChanged
<1>6. ASSUME RemoveLine PROVE NothingLost'
  <2>1. PICK l \in Line : DeleteLine(l)
    BY <1>6 DEF RemoveLine
  <2>2. productOf[l] \in Product /\ quantity[l] \in Int
    BY <2>1 DEF DeleteLine, CartsInv, CartsTypeOK, Rows
  <2>3. /\ quantity'[l] = 0 /\ productOf'[l] = productOf[l]
        /\ \A m \in Line \ {l} : /\ cartOf'[m] = cartOf[m] /\ productOf'[m] = productOf[m]
                                 /\ quantity'[m] = quantity[m]
    BY <1>6, <2>1 DEF RemoveLine, DeleteLine, Drop
  <2>4. quantity'[l] - quantity[l] = -quantity[l]
    BY <2>2, <2>3
  <2>5. PutIn(productOf[l], quantity'[l] - quantity[l]) /\ UNCHANGED drift
    BY <1>6, <2>1, <2>4 DEF RemoveLine, DeleteLine
  <2>6. QED
    BY <1>1, <2>2, <2>3, <2>5, OneLineChanged
<1>7. ASSUME ClearCart PROVE NothingLost'
  BY <1>1, <1>7, LinesDropped DEF ClearCart
<1>8. ASSUME NEW w \in Worker, Commit(w) PROVE NothingLost'
  BY <1>1, <1>8, LinesMerged
<1>9. ASSUME NEW w \in Worker,
             \/ CreateOwnCart(w) \/ CreateGuestCart \/ Add(w) \/ AddToOwnCart(w)
             \/ ReadGuestCart(w) \/ InsertCart(w) \/ FindLine(w) \/ Abort(w)
             \/ MergeFind(w) \/ MergeIncrement(w)
      PROVE  NothingLost'
  BY <1>2, <1>9 DEF CreateOwnCart, CreateGuestCart, Add, AddToOwnCart, Ask, ReadGuestCart,
                    InsertCart, FindLine, Abort, MergeFind, MergeIncrement, cartHistory
<1>10. ASSUME NEW w \in Worker, MergeInsert(w) PROVE NothingLost'
  BY <1>1, <1>10, WritingSteps, LinesStay DEF MergeInsert
<1>11. CASE UNCHANGED cartVars
  BY <1>2, <1>11 DEF cartVars, cartHistory
<1>12. QED
  BY <1>3, <1>4, <1>5, <1>6, <1>7, <1>8, <1>9, <1>10, <1>11 DEF CartsNext, CartRequests

-----------------------------------------------------------------------------
(* Carts: what holds in every state *)

CartsSafe == CartsInv /\ MergeInv /\ LineInv /\ GatherInv /\ NothingLost

LEMMA CartsInitSafe == ASSUME CartsInit, IsFiniteSet(Line) PROVE CartsSafe
<1> USE CartNilAssumption
<1>1. CartsInv
  BY CartsInitInv
<1>2. MergeInv
  BY DEF CartsInit, MergeInv, Merges
<1>3. LineInv
  BY DEF CartsInit, LineInv, SecondLineByAnother, Inserts
<1>4. NothingLost
  <2> SUFFICES ASSUME NEW p \in Product PROVE InCarts(p) = wanted[p] + drift[p]
    BY DEF NothingLost
  <2>1. {l \in Line : cartOf[l] # Nil /\ productOf[l] = p} = {}
    BY DEF CartsInit
  <2>2. SumFunctionOnSet(quantity, {}) = 0
    BY FS_EmptySet, SumOfZeros
  <2>3. wanted[p] = 0 /\ drift[p] = 0
    BY DEF CartsInit
  <2>4. QED
    BY <2>1, <2>2, <2>3 DEF InCarts
<1>5. ASSUME NEW w \in Worker PROVE Gathered(w)
  <2>1. /\ \A l \in Line : copied[w][l] = 0 /\ gain[w][l] = 0
        /\ todo[w] = {} /\ pc[w] = "idle"
    BY DEF CartsInit, Nothing
  <2>2. ASSUME NEW p \in Product
        PROVE  /\ SumFunctionOnSet(CopiedAs(w, p), Line) = 0
               /\ SumFunctionOnSet(GainedAs(w, p), Line) = 0
               /\ SumFunctionOnSet(LeftAs(w, p), Line) = 0
               /\ InHand(w, p) = 0
    <3>1. \A l \in Line :
            CopiedAs(w, p)[l] = 0 /\ GainedAs(w, p)[l] = 0 /\ LeftAs(w, p)[l] = 0
      BY <2>1 DEF CopiedAs, GainedAs, LeftAs
    <3>2. QED
      BY <2>1, <3>1, SumOfZeros DEF InHand
  <2>3. QED
    BY <2>1, <2>2 DEF Gathered
<1>6. QED
  BY <1>1, <1>2, <1>3, <1>4, <1>5 DEF CartsSafe, GatherInv

\* Every step on carts keeps it.
LEMMA CartsSafeStep ==
  ASSUME CartsSafe, [CartsNext]_cartVars, IsFiniteSet(Line) PROVE CartsSafe'
  BY CartsStep, MergeStep, LineStep, GatherStep, NothingLostStep DEF CartsSafe

-----------------------------------------------------------------------------
(* Checkout: the inductive invariant *)

\* A call has a session in hand that is active, and what it holds agrees with
\* what the session says now.
Caught(k) ==
    /\ stage[k] = "idle" <=> session[k] = Nil
    /\ stage[k] # "idle" => Active(session[k])
    /\ stage[k] = "summary" =>
         mode[session[k]] # Nil /\ held[k].pricing = Pricing(held[k].contents, mode[session[k]])
    /\ stage[k] = "confirm" =>
         /\ status[session[k]] = "summary_ready"
         /\ held[k].delivery = mode[session[k]]
         /\ held[k].pricing = snapshot[session[k]]
         /\ held[k].pricing = Pricing(shown[session[k]], held[k].delivery)
    /\ stage[k] = "close" =>
         /\ placedBy[held[k]] = session[k]
         /\ delivery[held[k]] = mode[session[k]]
         /\ pricing[held[k]] = snapshot[session[k]]

\* A session that can be confirmed is priced for what its summary showed and for
\* its mode of delivery, and one that is confirmed shows its order.
Shown(s) ==
    /\ status[s] # "none" => cart[s] # Nil
    /\ status[s] = "summary_ready" =>
         /\ snapshot[s] \in Prices /\ mode[s] # Nil
         /\ snapshot[s] = Pricing(shown[s], mode[s])
    /\ status[s] = "confirmed" <=> orderId[s] # Nil
    /\ orderId[s] # Nil =>
         /\ placedBy[orderId[s]] = s
         /\ delivery[orderId[s]] = mode[s]
         /\ pricing[orderId[s]] = snapshot[s]

\* An order is its session's, or a call is about to make it that.
Known(o) == placedBy[o] # Nil =>
    /\ pricing[o] = Pricing(shown[placedBy[o]], delivery[o])
    /\ \/ orderId[placedBy[o]] = o
       \/ \E k \in Caller : stage[k] = "close" /\ session[k] = placedBy[o] /\ held[k] = o

CheckoutInv ==
    /\ \A k \in Caller : Caught(k)
    /\ \A s \in Session : Shown(s)
    /\ \A o \in Order : Known(o)

\* What is stored of every session, order and call.
Tables ==
    /\ snapshot = [s \in Session |-> snapshot[s]]
    /\ pricing = [o \in Order |-> pricing[o]]
    /\ held = [k \in Caller |-> held[k]]

TypeInv == TypeOK /\ Tables /\ CartsInv

\* Nobody has a session in the initial state.
LEMMA CheckoutInit == Init => TypeInv /\ CheckoutInv
<1> SUFFICES ASSUME Init PROVE TypeInv /\ CheckoutInv
  OBVIOUS
<1>1. CartsInv
  BY CartsInitInv DEF Init
<1>2. TypeOK /\ Tables
  BY <1>1 DEF Init, TypeOK, Tables, CartsInv, Status, Stage
<1>3. CheckoutInv
  BY ModeAssumption DEF Init, CheckoutInv, Caught, Shown, Known
<1>4. QED
  BY <1>1, <1>2, <1>3 DEF TypeInv

\* Prices are numbers.
LEMMA PricingType ==
  ASSUME CartsTypeOK, IsFiniteSet(Line), IsFiniteSet(Product), NEW c \in Cart, NEW m \in Mode
  PROVE  Pricing(Contents(c), m) \in Prices
<1> DEFINE owed == [p \in Product |-> Price[p] * Contents(c)[p]]
<1>1. Contents(c) \in [Product -> Nat]
  BY ContentsType
<1>2. \A p \in Product : owed[p] \in Nat
  BY <1>1, PriceAssumption
<1>3. DOMAIN owed = Product
  OBVIOUS
<1> HIDE DEF owed
<1>4. SumFunctionOnSet(owed, Product) \in Nat
  BY <1>2, SumType
<1>5. Subtotal(Contents(c)) \in Nat
  BY <1>3, <1>4 DEF Subtotal, SumFunction, owed
<1>6. QED
  BY <1>5, PriceAssumption DEF Pricing, Prices

\* The carts' invariant stays, as long as the carts do.
LEMMA CartsStay ==
  ASSUME CartsInv, UNCHANGED <<owner, lineVars, cartHistory, pc, cartLocals>>, faults' \in Nat
  PROVE  CartsInv'
<1>1. RowTypes' /\ Rows' /\ Grows
  BY TypesSplit DEF CartsInv, RowTypes, Rows, Grows, OwnCarts, lineVars, cartHistory
<1>2. QED
  BY <1>1, NoneMoves

LEMMA CartsStays == ASSUME CartsInv, UNCHANGED cartVars PROVE CartsInv'
  BY CartsStay DEF CartsInv, CartsTypeOK, cartVars

\* What a call may hold.
Holding(k) ==
    /\ stage[k] = "delivery" => held[k] \in Mode
    /\ stage[k] = "summary" => held[k] \in [contents : [Product -> Nat], pricing : Prices]
    /\ stage[k] = "confirm" =>
         held[k] \in [items : [Product -> Nat], delivery : Mode, pricing : Prices]
    /\ stage[k] = "close" => held[k] \in Order

\* A call that has read its session, has gone on or has ended is typed, if what
\* it holds is.
LEMMA CallTyped ==
  ASSUME TypeInv, CartsInv', NEW k \in Caller, NEW next \in Stage,
         stage' = [stage EXCEPT ![k] = next],
         NEW s \in Session \cup {Nil}, session' = [session EXCEPT ![k] = s],
         NEW value, held' = [held EXCEPT ![k] = value],
         /\ next = "delivery" => value \in Mode
         /\ next = "summary" => value \in [contents : [Product -> Nat], pricing : Prices]
         /\ next = "confirm" =>
              value \in [items : [Product -> Nat], delivery : Mode, pricing : Prices]
         /\ next = "close" => value \in Order,
         status' \in [Session -> Status],
         cart' \in [Session -> Cart \cup {Nil}],
         addressed' \in [Session -> BOOLEAN],
         validated' \in [Session -> BOOLEAN],
         mode' \in [Session -> Mode \cup {Nil}],
         collected' \in [Session -> BOOLEAN],
         snapshot' = [t \in Session |-> snapshot'[t]],
         \A t \in Session : snapshot'[t] = Nil \/ snapshot'[t] \in Prices,
         orderId' \in [Session -> Order \cup {Nil}],
         items' \in [Order -> [Product -> Nat]],
         delivery' \in [Order -> Mode \cup {Nil}],
         pricing' = [o \in Order |-> pricing'[o]],
         \A o \in Order : pricing'[o] = Nil \/ pricing'[o] \in Prices,
         placedBy' \in [Order -> Session \cup {Nil}],
         shown' \in [Session -> [Product -> Nat]]
  PROVE  TypeInv'
<1>1. CartsTypeOK'
  BY DEF CartsInv
<1>2. stage' \in [Caller -> Stage] /\ session' \in [Caller -> Session \cup {Nil}]
  BY DEF TypeInv, TypeOK
<1>3. Tables'
  BY DEF TypeInv, Tables
<1>4. ASSUME NEW j \in Caller PROVE Holding(j)'
  <2>1. stage'[j] = IF j = k THEN next ELSE stage[j]
    BY DEF TypeInv, TypeOK
  <2>2. held'[j] = IF j = k THEN value ELSE held[j]
    BY DEF TypeInv, Tables
  <2>3. Holding(j)
    BY DEF TypeInv, TypeOK, Holding
  <2>4. QED
    BY <2>1, <2>2, <2>3 DEF Holding
<1>5. TypeOK'
  BY <1>1, <1>2, <1>4 DEF TypeOK, Holding
<1>6. QED
  BY <1>1, <1>3, <1>5 DEF TypeInv

\* Every step keeps the types.
LEMMA CheckoutTypeStep ==
  ASSUME TypeInv, [Next]_vars, IsFiniteSet(Line), IsFiniteSet(Product),
         \A k \in Caller : Caught(k), \A s \in Session : Shown(s)
  PROVE  TypeInv'
<1> USE ModeAssumption
<1>1. /\ status \in [Session -> Status] /\ cart \in [Session -> Cart \cup {Nil}]
      /\ addressed \in [Session -> BOOLEAN] /\ validated \in [Session -> BOOLEAN]
      /\ mode \in [Session -> Mode \cup {Nil}] /\ collected \in [Session -> BOOLEAN]
      /\ snapshot = [t \in Session |-> snapshot[t]]
      /\ \A t \in Session : snapshot[t] = Nil \/ snapshot[t] \in Prices
      /\ orderId \in [Session -> Order \cup {Nil}]
      /\ items \in [Order -> [Product -> Nat]] /\ delivery \in [Order -> Mode \cup {Nil}]
      /\ pricing = [o \in Order |-> pricing[o]]
      /\ \A o \in Order : pricing[o] = Nil \/ pricing[o] \in Prices
      /\ placedBy \in [Order -> Session \cup {Nil}]
      /\ shown \in [Session -> [Product -> Nat]]
  BY DEF TypeInv, TypeOK, Tables
<1>2. \A k \in Caller : stage[k] # "idle" => session[k] \in Session
  BY DEF TypeInv, TypeOK, Caught
<1>3. \A k \in Caller : Holding(k)
  BY DEF TypeInv, TypeOK, Holding
<1>4. ASSUME NEW k \in Caller, NEW next \in Stage, NEW s \in Session, NEW value,
             Begin(k, next, s, value),
             /\ next = "delivery" => value \in Mode
             /\ next = "summary" => value \in [contents : [Product -> Nat], pricing : Prices]
             /\ next = "confirm" =>
                  value \in [items : [Product -> Nat], delivery : Mode, pricing : Prices]
             /\ next # "close"
      PROVE  TypeInv'
  <2>1. /\ stage' = [stage EXCEPT ![k] = next] /\ session' = [session EXCEPT ![k] = s]
        /\ held' = [held EXCEPT ![k] = value]
        /\ UNCHANGED <<sessionVars, orderVars, shown, cartVars>>
    BY <1>4 DEF Begin
  <2>2. UNCHANGED <<status, cart, addressed, validated, mode, collected, snapshot, orderId,
                    items, delivery, pricing, placedBy, shown>> /\ UNCHANGED cartVars
    BY <2>1 DEF sessionVars, orderVars
  <2>3. QED
    BY <1>1, <1>4, <2>1, <2>2, CallTyped, CartsStays DEF TypeInv
<1>5. ASSUME CreateSession PROVE TypeInv'
  <2>1. /\ status' \in [Session -> Status] /\ cart' \in [Session -> Cart \cup {Nil}]
        /\ UNCHANGED <<addressed, validated, mode, collected, snapshot, orderId, orderVars,
                       shown, callVars, cartVars>>
    BY <1>1, <1>5 DEF CreateSession, Status
  <2>2. CartsInv'
    BY <2>1, CartsStays DEF TypeInv
  <2>3. QED
    BY <2>1, <2>2 DEF TypeInv, TypeOK, Tables, orderVars, callVars, CartsInv
<1>6. ASSUME NEW k \in Caller, ReadForAddress(k) PROVE TypeInv'
  BY <1>4, <1>6 DEF ReadForAddress, Stage
<1>7. ASSUME NEW k \in Caller, ReadForValidation(k) PROVE TypeInv'
  BY <1>4, <1>7 DEF ReadForValidation, Stage
<1>8. ASSUME NEW k \in Caller, ReadForDelivery(k) PROVE TypeInv'
  BY <1>4, <1>8 DEF ReadForDelivery, Stage
<1>9. ASSUME NEW k \in Caller, ReadForPickup(k) PROVE TypeInv'
  BY <1>4, <1>9 DEF ReadForPickup, Stage
<1>10. ASSUME NEW k \in Caller, ReadForSummary(k) PROVE TypeInv'
  <2>1. PICK s \in Session : /\ mode[s] # Nil /\ Live(cart[s])
                             /\ Begin(k, "summary", s,
                                  [contents |-> Contents(cart[s]),
                                   pricing |-> Pricing(Contents(cart[s]), mode[s])])
    BY <1>10 DEF ReadForSummary
  <2>2. mode[s] \in Mode
    BY <1>1, <2>1
  <2>3. cart[s] \in Cart
    <3>1. status[s] # "none" /\ Shown(s)
      BY <2>1 DEF Begin, Active
    <3>2. cart[s] # Nil
      BY <3>1 DEF Shown
    <3>3. QED
      BY <1>1, <3>2
  <2>4. [contents |-> Contents(cart[s]), pricing |-> Pricing(Contents(cart[s]), mode[s])]
          \in [contents : [Product -> Nat], pricing : Prices]
    BY <2>2, <2>3, PricingType, ContentsType DEF TypeInv, CartsInv
  <2>5. QED
    BY <1>4, <2>1, <2>4 DEF Stage
<1>11. ASSUME NEW k \in Caller, ReadForConfirmation(k) PROVE TypeInv'
  <2>1. PICK s \in Session :
          /\ status[s] = "summary_ready" /\ Live(cart[s])
          /\ Begin(k, "confirm", s,
               [items |-> Contents(cart[s]), delivery |-> mode[s], pricing |-> snapshot[s]])
    BY <1>11 DEF ReadForConfirmation
  <2>2. snapshot[s] \in Prices /\ mode[s] \in Mode /\ cart[s] \in Cart
    <3>1. status[s] # "none" /\ Shown(s)
      BY <2>1
    <3>2. cart[s] # Nil /\ snapshot[s] \in Prices /\ mode[s] # Nil
      BY <2>1, <3>1 DEF Shown
    <3>3. QED
      BY <1>1, <3>2
  <2>3. Contents(cart[s]) \in [Product -> Nat]
    BY <2>2, ContentsType DEF TypeInv, CartsInv
  <2>4. [items |-> Contents(cart[s]), delivery |-> mode[s], pricing |-> snapshot[s]]
          \in [items : [Product -> Nat], delivery : Mode, pricing : Prices]
    BY <2>2, <2>3
  <2>5. QED
    BY <1>4, <2>1, <2>4 DEF Stage
<1>12. ASSUME NEW k \in Caller, Return(k), CartsInv',
              status' \in [Session -> Status], cart' \in [Session -> Cart \cup {Nil}],
              addressed' \in [Session -> BOOLEAN], validated' \in [Session -> BOOLEAN],
              mode' \in [Session -> Mode \cup {Nil}], collected' \in [Session -> BOOLEAN],
              snapshot' = [t \in Session |-> snapshot'[t]],
              \A t \in Session : snapshot'[t] = Nil \/ snapshot'[t] \in Prices,
              orderId' \in [Session -> Order \cup {Nil}],
              shown' \in [Session -> [Product -> Nat]],
              UNCHANGED <<items, delivery, pricing, placedBy>>
       PROVE  TypeInv'
  <2>1. /\ stage' = [stage EXCEPT ![k] = "idle"] /\ session' = [session EXCEPT ![k] = Nil]
        /\ held' = [held EXCEPT ![k] = Nil]
    BY <1>12 DEF Return
  <2>2. "idle" \in Stage /\ Nil \in Session \cup {Nil}
    BY DEF Stage
  <2>3. /\ items' \in [Order -> [Product -> Nat]] /\ delivery' \in [Order -> Mode \cup {Nil}]
        /\ pricing' = [o \in Order |-> pricing'[o]]
        /\ \A o \in Order : pricing'[o] = Nil \/ pricing'[o] \in Prices
        /\ placedBy' \in [Order -> Session \cup {Nil}]
    BY <1>1, <1>12
  <2>4. QED
    BY <1>12, <2>1, <2>2, <2>3, CallTyped
<1>13. ASSUME NEW k \in Caller, NEW st \in Status, Mark(k, st) PROVE status' \in [Session -> Status]
  BY <1>1, <1>13 DEF Mark
<1>14. ASSUME NEW k \in Caller, SetAddress(k) PROVE TypeInv'
  <2>1. status' \in [Session -> Status]
    BY <1>13, <1>14 DEF SetAddress, Status
  <2>2. addressed' \in [Session -> BOOLEAN] /\ validated' \in [Session -> BOOLEAN]
    BY <1>1, <1>14 DEF SetAddress
  <2>3. QED
    BY <1>1, <1>12, <1>14, <2>1, <2>2, CartsStays DEF SetAddress, orderVars, TypeInv
<1>15. ASSUME NEW k \in Caller, ValidateAddress(k) PROVE TypeInv'
  <2>1. validated' \in [Session -> BOOLEAN]
    BY <1>1, <1>15 DEF ValidateAddress
  <2>2. QED
    BY <1>1, <1>12, <1>15, <2>1, CartsStays DEF ValidateAddress, orderVars, TypeInv
<1>16. ASSUME NEW k \in Caller, SelectDelivery(k) PROVE TypeInv'
  <2>1. status' \in [Session -> Status]
    BY <1>13, <1>16 DEF SelectDelivery, Status
  <2>2. mode' \in [Session -> Mode \cup {Nil}]
    BY <1>1, <1>3, <1>16 DEF SelectDelivery, Holding
  <2>3. QED
    BY <1>1, <1>12, <1>16, <2>1, <2>2, CartsStays DEF SelectDelivery, orderVars, TypeInv
<1>17. ASSUME NEW k \in Caller, SetPickupDetails(k) PROVE TypeInv'
  <2>1. collected' \in [Session -> BOOLEAN]
    BY <1>1, <1>17 DEF SetPickupDetails
  <2>2. QED
    BY <1>1, <1>12, <1>17, <2>1, CartsStays DEF SetPickupDetails, orderVars, TypeInv
<1>18. ASSUME NEW k \in Caller, GetSummary(k) PROVE TypeInv'
  <2>1. status' \in [Session -> Status]
    BY <1>13, <1>18 DEF GetSummary, Status
  <2>2. /\ held[k].pricing \in Prices /\ held[k].contents \in [Product -> Nat]
        /\ session[k] \in Session
    BY <1>2, <1>3, <1>18 DEF GetSummary, Holding
  <2>3. /\ snapshot' = [t \in Session |-> snapshot'[t]]
        /\ \A t \in Session : snapshot'[t] = Nil \/ snapshot'[t] \in Prices
        /\ shown' \in [Session -> [Product -> Nat]]
    BY <1>1, <1>18, <2>2 DEF GetSummary
  <2>4. QED
    BY <1>1, <1>12, <1>18, <2>1, <2>3, CartsStays DEF GetSummary, orderVars, TypeInv
<1>19. ASSUME NEW k \in Caller, PlaceOrder(k) PROVE TypeInv'
  <2>1. PICK o \in Order :
          /\ placedBy' = [placedBy EXCEPT ![o] = session[k]]
          /\ items' = [items EXCEPT ![o] = held[k].items]
          /\ delivery' = [delivery EXCEPT ![o] = held[k].delivery]
          /\ pricing' = [pricing EXCEPT ![o] = held[k].pricing]
          /\ held' = [held EXCEPT ![k] = o]
    BY <1>19 DEF PlaceOrder
  <2>2. /\ stage' = [stage EXCEPT ![k] = "close"] /\ UNCHANGED session /\ UNCHANGED cartVars
        /\ UNCHANGED <<status, cart, addressed, validated, mode, collected, snapshot, orderId, shown>>
    BY <1>19 DEF PlaceOrder, sessionVars
  <2>3. /\ session[k] \in Session /\ held[k].items \in [Product -> Nat]
        /\ held[k].delivery \in Mode /\ held[k].pricing \in Prices
    BY <1>2, <1>3, <1>19 DEF PlaceOrder, Holding
  <2>4. /\ items' \in [Order -> [Product -> Nat]] /\ delivery' \in [Order -> Mode \cup {Nil}]
        /\ placedBy' \in [Order -> Session \cup {Nil}]
    BY <1>1, <2>1, <2>3
  <2>5. /\ pricing' = [p \in Order |-> pricing'[p]]
        /\ \A p \in Order : pricing'[p] = Nil \/ pricing'[p] \in Prices
    BY <1>1, <2>1, <2>3
  <2>6. session' = [session EXCEPT ![k] = session[k]] /\ session[k] \in Session \cup {Nil}
    BY <2>2, <2>3 DEF TypeInv, TypeOK
  <2>7. "close" \in Stage
    BY DEF Stage
  <2>8. CartsInv'
    BY <2>2, CartsStays DEF TypeInv
  <2>9. /\ status' \in [Session -> Status] /\ cart' \in [Session -> Cart \cup {Nil}]
        /\ addressed' \in [Session -> BOOLEAN] /\ validated' \in [Session -> BOOLEAN]
        /\ mode' \in [Session -> Mode \cup {Nil}] /\ collected' \in [Session -> BOOLEAN]
        /\ snapshot' = [t \in Session |-> snapshot'[t]]
        /\ \A t \in Session : snapshot'[t] = Nil \/ snapshot'[t] \in Prices
        /\ orderId' \in [Session -> Order \cup {Nil}]
        /\ shown' \in [Session -> [Product -> Nat]]
    BY <1>1, <2>2
  <2>10. stage' = [stage EXCEPT ![k] = "close"] /\ held' = [held EXCEPT ![k] = o]
    BY <2>1, <2>2
  <2>11. QED
    BY <2>4, <2>5, <2>6, <2>7, <2>8, <2>9, <2>10, CallTyped
<1>20. ASSUME NEW k \in Caller, CloseSession(k) PROVE TypeInv'
  <2>1. status' \in [Session -> Status]
    BY <1>13, <1>20 DEF CloseSession, Status
  <2>2. orderId' \in [Session -> Order \cup {Nil}]
    BY <1>1, <1>3, <1>20 DEF CloseSession, Holding
  <2>3. QED
    BY <1>1, <1>12, <1>20, <2>1, <2>2, CartsStays DEF CloseSession, orderVars, TypeInv
<1>21. ASSUME NEW k \in Caller, Fail(k) PROVE TypeInv'
  <2>1. UNCHANGED <<owner, lineVars, cartHistory, pc, cartLocals>> /\ faults' \in Nat
    BY <1>21 DEF Fail, TypeInv, CartsInv, CartsTypeOK
  <2>2. CartsInv'
    BY <2>1, CartsStay DEF TypeInv
  <2>3. QED
    BY <1>1, <1>12, <1>21, <2>2 DEF Fail, sessionVars, orderVars
<1>22. ASSUME [CartsNext]_cartVars, UNCHANGED checkoutVars PROVE TypeInv'
  <2>1. CartsInv'
    BY <1>22, CartsStep DEF TypeInv
  <2>2. QED
    BY <1>22, <2>1 DEF TypeInv, TypeOK, Tables, CartsInv, checkoutVars, sessionVars, orderVars,
                       callVars
<1>23. QED
  BY <1>5, <1>6, <1>7, <1>8, <1>9, <1>10, <1>11, <1>14, <1>15, <1>16, <1>17, <1>18, <1>19, <1>20,
     <1>21, <1>22 DEF Next, CheckoutRequests, Continue, vars

-----------------------------------------------------------------------------
(* Checkout: every step keeps the invariant *)

\* A session some call works on, and does not close, has placed no order.
LEMMA NothingPlaced ==
  ASSUME TypeInv, CheckoutInv, ~Overlap, NEW k \in Caller, stage[k] \notin {"idle", "close"}
  PROVE  \A o \in Order : placedBy[o] # session[k]
<1> SUFFICES ASSUME NEW o \in Order, placedBy[o] = session[k] PROVE FALSE
  OBVIOUS
<1>1. session[k] \in Session /\ status[session[k]] # "confirmed"
  BY DEF CheckoutInv, Caught, Active, TypeInv, TypeOK
<1>2. orderId[session[k]] = Nil
  BY <1>1 DEF CheckoutInv, Shown
<1>3. placedBy[o] # Nil /\ orderId[placedBy[o]] # o
  BY <1>1, <1>2, ModeAssumption
<1>4. PICK j \in Caller : stage[j] = "close" /\ session[j] = placedBy[o]
  BY <1>3 DEF CheckoutInv, Known
<1>5. QED
  BY <1>1, <1>4, ModeAssumption DEF Overlap

\* A call that reads its session changes nothing for others.
LEMMA CallBegun ==
  ASSUME TypeInv, CheckoutInv, NEW k \in Caller, NEW next \in Stage, NEW s \in Session, NEW value,
         Begin(k, next, s, value), next \notin {"idle", "close"},
         next = "summary" => mode[s] # Nil /\ value.pricing = Pricing(value.contents, mode[s]),
         next = "confirm" => /\ status[s] = "summary_ready"
                             /\ value.delivery = mode[s] /\ value.pricing = snapshot[s]
                             /\ value.pricing = Pricing(shown[s], value.delivery)
  PROVE  CheckoutInv'
<1>1. UNCHANGED <<status, cart, mode, snapshot, orderId, items, delivery, pricing, placedBy, shown>>
  BY DEF Begin, sessionVars, orderVars
<1>2. /\ stage'[k] = next /\ session'[k] = s /\ held'[k] = value
      /\ \A j \in Caller \ {k} : /\ stage'[j] = stage[j] /\ session'[j] = session[j]
                                 /\ held'[j] = held[j]
  BY DEF Begin, TypeInv, TypeOK, Tables
<1>3. stage[k] = "idle" /\ Active(s) /\ s # Nil
  BY ModeAssumption DEF Begin
<1>4. ASSUME NEW j \in Caller PROVE Caught(j)'
  <2>1. CASE j = k
    BY <1>1, <1>2, <1>3, <2>1 DEF Caught, Active
  <2>2. CASE j # k
    <3>1. Caught(j)
      BY DEF CheckoutInv
    <3>2. QED
      BY <1>1, <1>2, <2>2, <3>1 DEF Caught, Active
  <2>3. QED
    BY <2>1, <2>2
<1>5. ASSUME NEW t \in Session PROVE Shown(t)'
  BY <1>1 DEF CheckoutInv, Shown
<1>6. ASSUME NEW o \in Order PROVE Known(o)'
  <2>1. Known(o)
    BY DEF CheckoutInv
  <2>2. \A j \in Caller : stage[j] = "close" => j # k
    BY <1>3
  <2>3. QED
    BY <1>1, <1>2, <2>1, <2>2 DEF Known
<1>7. QED
  BY <1>4, <1>5, <1>6 DEF CheckoutInv

\* A call that writes its session and ends changes nothing for others.
LEMMA SessionWritten ==
  ASSUME TypeInv, CheckoutInv, ~Overlap, NEW k \in Caller, stage[k] # "idle", Return(k),
         NEW s \in Session, session[k] = s,
         UNCHANGED <<items, delivery, pricing, placedBy>>,
         \A t \in Session \ {s} :
           /\ status'[t] = status[t] /\ cart'[t] = cart[t] /\ mode'[t] = mode[t]
           /\ snapshot'[t] = snapshot[t] /\ orderId'[t] = orderId[t] /\ shown'[t] = shown[t],
         Shown(s)',
         \A o \in Order : placedBy[o] = s => orderId'[s] = o /\ shown'[s] = shown[s]
  PROVE  CheckoutInv'
<1>1. /\ stage'[k] = "idle" /\ session'[k] = Nil
      /\ \A j \in Caller \ {k} : /\ stage'[j] = stage[j] /\ session'[j] = session[j]
                                 /\ held'[j] = held[j]
  BY DEF Return, TypeInv, TypeOK, Tables
<1>2. \A j \in Caller : stage[j] # "idle" => session[j] \in Session
  BY DEF CheckoutInv, Caught, TypeInv, TypeOK
<1>3. \A j \in Caller \ {k} : stage[j] # "idle" => session[j] # s
  BY <1>2, ModeAssumption DEF Overlap
<1>4. ASSUME NEW j \in Caller PROVE Caught(j)'
  <2>1. CASE j = k
    BY <1>1, <2>1 DEF Caught
  <2>2. CASE j # k /\ stage[j] = "idle"
    BY <1>1, <2>2 DEF CheckoutInv, Caught
  <2>3. CASE j # k /\ stage[j] # "idle"
    <3>1. Caught(j) /\ session[j] \in Session \ {s}
      BY <1>2, <1>3, <2>3 DEF CheckoutInv
    <3>2. QED
      BY <1>1, <2>3, <3>1 DEF Caught, Active
  <2>4. QED
    BY <2>1, <2>2, <2>3
<1>5. ASSUME NEW t \in Session, t # s PROVE Shown(t)'
  BY <1>5 DEF CheckoutInv, Shown
<1>6. ASSUME NEW o \in Order PROVE Known(o)'
  <2>1. Known(o) /\ (placedBy[o] # Nil => placedBy[o] \in Session)
    BY DEF CheckoutInv, TypeInv, TypeOK
  <2>2. CASE placedBy[o] = s
    BY <2>1, <2>2 DEF Known
  <2>3. CASE placedBy[o] # s
    BY <1>1, <2>1, <2>3 DEF Known
  <2>4. QED
    BY <2>2, <2>3
<1>7. QED
  BY <1>4, <1>5, <1>6 DEF CheckoutInv

\* Every step of a clean run keeps the invariant.
LEMMA CheckoutStep ==
  ASSUME TypeInv, CheckoutInv, Clean, Clean', [Next]_vars PROVE CheckoutInv'
<1> USE ModeAssumption
<1>1. ~Overlap
  BY DEF Clean
<1>2. \A k \in Caller : Caught(k) /\ (stage[k] # "idle" => session[k] \in Session)
  BY DEF CheckoutInv, Caught, TypeInv, TypeOK
<1>3. \A s \in Session : Shown(s)
  BY DEF CheckoutInv
<1>4. ASSUME CreateSession PROVE CheckoutInv'
  <2>1. PICK s \in Session, c \in Cart :
          /\ status[s] = "none"
          /\ status' = [status EXCEPT ![s] = "initiated"] /\ cart' = [cart EXCEPT ![s] = c]
    BY <1>4 DEF CreateSession
  <2>2. UNCHANGED <<mode, snapshot, orderId, items, delivery, pricing, placedBy, shown, stage,
                    session, held>>
    BY <1>4 DEF CreateSession, orderVars, callVars
  <2>3. /\ status'[s] = "initiated" /\ cart'[s] = c
        /\ \A t \in Session \ {s} : status'[t] = status[t] /\ cart'[t] = cart[t]
    BY <2>1 DEF TypeInv, TypeOK
  <2>4. ASSUME NEW k \in Caller PROVE Caught(k)'
    BY <1>2, <2>1, <2>2, <2>3 DEF Caught, Active
  <2>5. ASSUME NEW t \in Session PROVE Shown(t)'
    <3>1. CASE t = s
      BY <1>3, <2>1, <2>2, <2>3, <3>1, CartNilAssumption DEF Shown
    <3>2. CASE t # s
      BY <1>3, <2>2, <2>3, <3>2 DEF Shown
    <3>3. QED
      BY <3>1, <3>2
  <2>6. ASSUME NEW o \in Order PROVE Known(o)'
    BY <2>2 DEF CheckoutInv, Known
  <2>7. QED
    BY <2>4, <2>5, <2>6 DEF CheckoutInv
<1>5. ASSUME NEW k \in Caller, ReadForAddress(k) PROVE CheckoutInv'
  BY <1>5, CallBegun DEF ReadForAddress, Stage
<1>6. ASSUME NEW k \in Caller, ReadForValidation(k) PROVE CheckoutInv'
  BY <1>6, CallBegun DEF ReadForValidation, Stage
<1>7. ASSUME NEW k \in Caller, ReadForDelivery(k) PROVE CheckoutInv'
  BY <1>7, CallBegun DEF ReadForDelivery, Stage
<1>8. ASSUME NEW k \in Caller, ReadForPickup(k) PROVE CheckoutInv'
  BY <1>8, CallBegun DEF ReadForPickup, Stage
<1>9. ASSUME NEW k \in Caller, ReadForSummary(k) PROVE CheckoutInv'
  <2>1. PICK s \in Session :
          /\ mode[s] # Nil
          /\ Begin(k, "summary", s, [contents |-> Contents(cart[s]),
                                     pricing |-> Pricing(Contents(cart[s]), mode[s])])
    BY <1>9 DEF ReadForSummary
  <2>2. QED
    BY <2>1, CallBegun DEF Stage
<1>10. ASSUME NEW k \in Caller, ReadForConfirmation(k) PROVE CheckoutInv'
  <2>1. PICK s \in Session :
          /\ status[s] = "summary_ready" /\ Live(cart[s])
          /\ Begin(k, "confirm", s,
               [items |-> Contents(cart[s]), delivery |-> mode[s], pricing |-> snapshot[s]])
    BY <1>10 DEF ReadForConfirmation
  <2>2. snapshot[s] = Pricing(shown[s], mode[s])
    BY <1>3, <2>1 DEF Shown
  <2>3. QED
    BY <2>1, <2>2, CallBegun DEF Stage
<1>11. ASSUME NEW k \in Caller, stage[k] \notin {"idle", "close"}, Return(k),
              UNCHANGED <<items, delivery, pricing, placedBy, cart, orderId>>,
              \A t \in Session \ {session[k]} :
                /\ status'[t] = status[t] /\ mode'[t] = mode[t] /\ snapshot'[t] = snapshot[t]
                /\ shown'[t] = shown[t],
              status'[session[k]] \notin {"none", "confirmed"},
              status'[session[k]] = "summary_ready" =>
                /\ snapshot'[session[k]] \in Prices /\ mode'[session[k]] # Nil
                /\ snapshot'[session[k]] = Pricing(shown'[session[k]], mode'[session[k]])
       PROVE  CheckoutInv'
  <2>1. PICK s \in Session : session[k] = s /\ status[s] \notin {"none", "confirmed"}
    BY <1>2, <1>11 DEF Caught, Active
  <2>2. cart[s] # Nil /\ orderId[s] = Nil
    BY <1>3, <2>1 DEF Shown
  <2>3. Shown(s)'
    BY <1>11, <2>1, <2>2 DEF Shown
  <2>4. \A o \in Order : placedBy[o] # s
    BY <1>1, <1>11, <2>1, NothingPlaced
  <2>5. QED
    BY <1>1, <1>11, <2>1, <2>3, <2>4, SessionWritten
<1>12. ASSUME NEW k \in Caller, NEW st, session[k] \in Session, Mark(k, st)
       PROVE  status'[session[k]] = st /\ \A t \in Session \ {session[k]} : status'[t] = status[t]
  BY <1>12 DEF Mark, TypeInv, TypeOK
<1>13. ASSUME NEW k \in Caller, SetAddress(k) PROVE CheckoutInv'
  BY <1>2, <1>11, <1>12, <1>13 DEF SetAddress, orderVars
<1>14. ASSUME NEW k \in Caller, ValidateAddress(k) PROVE CheckoutInv'
  <2>1. session[k] \in Session /\ Active(session[k]) /\ Shown(session[k])
    BY <1>2, <1>3, <1>14 DEF Caught, ValidateAddress
  <2>2. QED
    BY <1>11, <1>14, <2>1 DEF ValidateAddress, orderVars, Active, Shown
<1>15. ASSUME NEW k \in Caller, SelectDelivery(k) PROVE CheckoutInv'
  <2>1. session[k] \in Session
    BY <1>2, <1>15 DEF SelectDelivery
  <2>2. \A t \in Session \ {session[k]} : mode'[t] = mode[t]
    BY <1>15 DEF SelectDelivery, TypeInv, TypeOK
  <2>3. QED
    BY <1>11, <1>12, <1>15, <2>1, <2>2 DEF SelectDelivery, orderVars
<1>16. ASSUME NEW k \in Caller, SetPickupDetails(k) PROVE CheckoutInv'
  <2>1. session[k] \in Session /\ Active(session[k]) /\ Shown(session[k])
    BY <1>2, <1>3, <1>16 DEF Caught, SetPickupDetails
  <2>2. QED
    BY <1>11, <1>16, <2>1 DEF SetPickupDetails, orderVars, Active, Shown
<1>17. ASSUME NEW k \in Caller, GetSummary(k) PROVE CheckoutInv'
  <2>1. session[k] \in Session
    BY <1>2, <1>17 DEF GetSummary
  <2>2. /\ held[k].pricing \in Prices /\ mode[session[k]] # Nil
        /\ held[k].pricing = Pricing(held[k].contents, mode[session[k]])
    BY <1>2, <1>17 DEF GetSummary, Caught, TypeInv, TypeOK
  <2>3. /\ snapshot'[session[k]] = held[k].pricing /\ shown'[session[k]] = held[k].contents
        /\ \A t \in Session \ {session[k]} : snapshot'[t] = snapshot[t] /\ shown'[t] = shown[t]
    BY <1>17, <2>1 DEF GetSummary, TypeInv, TypeOK, Tables
  <2>4. QED
    BY <1>11, <1>12, <1>17, <2>1, <2>2, <2>3 DEF GetSummary, orderVars
<1>18. ASSUME NEW k \in Caller, PlaceOrder(k) PROVE CheckoutInv'
  <2> DEFINE s == session[k]
  <2>1. PICK o \in Order :
          /\ placedBy[o] = Nil
          /\ placedBy' = [placedBy EXCEPT ![o] = s]
          /\ items' = [items EXCEPT ![o] = held[k].items]
          /\ delivery' = [delivery EXCEPT ![o] = held[k].delivery]
          /\ pricing' = [pricing EXCEPT ![o] = held[k].pricing]
          /\ held' = [held EXCEPT ![k] = o]
    BY <1>18 DEF PlaceOrder
  <2>2. /\ stage[k] = "confirm" /\ stage' = [stage EXCEPT ![k] = "close"] /\ UNCHANGED session
        /\ UNCHANGED <<status, cart, mode, snapshot, orderId, shown>>
    BY <1>18 DEF PlaceOrder, sessionVars
  <2>3. /\ s \in Session /\ s # Nil /\ Active(s) /\ held[k].delivery = mode[s]
        /\ held[k].pricing = snapshot[s] /\ held[k].pricing = Pricing(shown[s], held[k].delivery)
    BY <1>2, <2>2 DEF Caught
  <2>4. /\ placedBy'[o] = s /\ items'[o] = held[k].items /\ delivery'[o] = held[k].delivery
        /\ pricing'[o] = held[k].pricing
        /\ \A n \in Order \ {o} : /\ placedBy'[n] = placedBy[n] /\ items'[n] = items[n]
                                  /\ delivery'[n] = delivery[n] /\ pricing'[n] = pricing[n]
    BY <2>1 DEF TypeInv, TypeOK, Tables
  <2>5. /\ stage'[k] = "close" /\ held'[k] = o
        /\ \A j \in Caller \ {k} : stage'[j] = stage[j] /\ held'[j] = held[j]
    BY <2>1, <2>2 DEF TypeInv, TypeOK, Tables
  <2>6. ASSUME NEW j \in Caller PROVE Caught(j)'
    <3>1. CASE j = k
      BY <2>2, <2>3, <2>4, <2>5, <3>1 DEF Caught, Active
    <3>2. CASE j # k /\ stage[j] # "close"
      BY <1>2, <2>2, <2>5, <3>2 DEF Caught, Active
    <3>3. CASE j # k /\ stage[j] = "close"
      <4>1. Caught(j) /\ session[j] \in Session /\ held[j] \in Order
        BY <1>2, <3>3 DEF TypeInv, TypeOK
      <4>2. held[j] # o
        BY <2>1, <3>3, <4>1 DEF Caught
      <4>3. QED
        BY <2>2, <2>4, <2>5, <3>3, <4>1, <4>2 DEF Caught, Active
    <3>4. QED
      BY <3>1, <3>2, <3>3
  <2>7. ASSUME NEW t \in Session PROVE Shown(t)'
    <3>1. Shown(t) /\ orderId[t] \in Order \cup {Nil}
      BY <1>3 DEF TypeInv, TypeOK
    <3>2. orderId[t] # Nil => orderId[t] # o
      BY <2>1, <3>1 DEF Shown
    <3>3. QED
      BY <2>2, <2>4, <3>1, <3>2 DEF Shown
  <2>8. ASSUME NEW n \in Order PROVE Known(n)'
    <3>1. CASE n = o
      BY <2>2, <2>3, <2>4, <2>5, <3>1 DEF Known
    <3>2. CASE n # o
      <4>1. Known(n) /\ (\A j \in Caller : stage[j] = "close" => j # k)
        BY <2>2 DEF CheckoutInv
      <4>2. QED
        BY <2>2, <2>4, <2>5, <3>2, <4>1 DEF Known
    <3>3. QED
      BY <3>1, <3>2
  <2>9. QED
    BY <2>6, <2>7, <2>8 DEF CheckoutInv
<1>19. ASSUME NEW k \in Caller, CloseSession(k) PROVE CheckoutInv'
  <2>1. PICK s \in Session : /\ session[k] = s /\ stage[k] = "close" /\ held[k] \in Order
                             /\ Caught(k) /\ Shown(s)
    BY <1>2, <1>3, <1>19 DEF CloseSession, TypeInv, TypeOK
  <2>2. /\ orderId'[s] = held[k]
        /\ \A t \in Session \ {s} : orderId'[t] = orderId[t]
    BY <1>19, <2>1 DEF CloseSession, TypeInv, TypeOK
  <2>3. UNCHANGED <<cart, mode, snapshot, items, delivery, pricing, placedBy, shown>>
    BY <1>19 DEF CloseSession, orderVars
  <2>4. status'[s] = "confirmed" /\ \A t \in Session \ {s} : status'[t] = status[t]
    BY <1>12, <1>19, <2>1 DEF CloseSession
  <2>5. held[k] # Nil /\ status[s] \notin {"none", "confirmed"}
    BY <2>1 DEF Caught, Active
  <2>6. Shown(s)'
    BY <2>1, <2>2, <2>3, <2>4, <2>5 DEF Shown, Caught
  <2>7. ASSUME NEW o \in Order, placedBy[o] = s PROVE orderId'[s] = o
    <3>1. orderId[s] # o
      BY <2>1, <2>5 DEF Shown
    <3>2. PICK j \in Caller : stage[j] = "close" /\ session[j] = s /\ held[j] = o
      BY <2>1, <2>7, <3>1 DEF CheckoutInv, Known
    <3>3. j = k
      BY <1>1, <2>1, <3>2 DEF Overlap
    <3>4. QED
      BY <2>2, <3>2, <3>3
  <2>8. QED
    BY <1>1, <1>19, <2>1, <2>2, <2>3, <2>4, <2>6, <2>7, SessionWritten DEF CloseSession
<1>20. ASSUME NEW k \in Caller, Fail(k) PROVE CheckoutInv'
  <2>1. /\ stage[k] # "idle" /\ Return(k)
        /\ UNCHANGED <<status, cart, mode, snapshot, orderId, items, delivery, pricing, placedBy,
                       shown>>
    BY <1>20 DEF Fail, sessionVars, orderVars
  <2>2. PICK s \in Session : session[k] = s /\ Shown(s) /\ Active(s)
    BY <1>2, <1>3, <2>1 DEF Caught
  <2>3. orderId[s] = Nil
    BY <2>2 DEF Shown, Active
  <2>4. \A j \in Caller : session'[j] # s
    BY <1>1, <2>1, <2>2 DEF Overlap, Return, TypeInv, TypeOK
  <2>5. \A o \in Order : placedBy[o] # s
    BY <2>1, <2>2, <2>3, <2>4 DEF Clean, CutOff, Placed
  <2>6. Shown(s)'
    BY <2>1, <2>2 DEF Shown
  <2>7. QED
    BY <1>1, <2>1, <2>2, <2>5, <2>6, SessionWritten
<1>21. CASE UNCHANGED checkoutVars
  <2>1. UNCHANGED <<status, cart, mode, snapshot, orderId, items, delivery, pricing, placedBy,
                    shown, stage, session, held>>
    BY <1>21 DEF checkoutVars, sessionVars, orderVars, callVars
  <2>2. QED
    BY <2>1 DEF CheckoutInv, Caught, Active, Shown, Known
<1>22. QED
  BY <1>4, <1>5, <1>6, <1>7, <1>8, <1>9, <1>10, <1>13, <1>14, <1>15, <1>16, <1>17, <1>18, <1>19,
     <1>20, <1>21 DEF Next, CheckoutRequests, Continue, vars

-----------------------------------------------------------------------------
(* The theorems *)

\* Nobody overlaps and nothing is cut off in the initial state.
LEMMA InitClean == Init => Clean
  BY ModeAssumption DEF Init, Clean, Overlap, CutOff, Placed

\* A step of CleanSpec ends clean, and one that changes nothing stays clean.
LEMMA CleanStep == Clean /\ [Next /\ Clean']_vars => Clean' /\ [Next]_vars
<1> SUFFICES ASSUME Clean, UNCHANGED vars PROVE Clean'
  OBVIOUS
<1>1. UNCHANGED <<orderId, placedBy, session>>
  BY DEF vars, checkoutVars, sessionVars, orderVars, callVars
<1>2. QED
  BY <1>1 DEF Clean, Overlap, CutOff, Placed

\* What holds of carts does so whatever happens in checkouts.
LEMMA CartsAlways == ASSUME IsFiniteSet(Line) PROVE Spec => []CartsSafe
<1>1. Init => CartsSafe
  BY CartsInitSafe DEF Init
<1>2. CartsSafe /\ [Next]_vars => CartsSafe'
  <2> SUFFICES ASSUME CartsSafe, [Next]_vars PROVE CartsSafe'
    OBVIOUS
  <2>1. CASE [CartsNext]_cartVars
    BY <2>1, CartsSafeStep
  <2>2. ASSUME NEW k \in Caller, Fail(k) PROVE CartsSafe'
    <3>1. UNCHANGED <<owner, lineVars, cartHistory, pc, cartLocals>> /\ faults' \in Nat
      BY <2>2 DEF Fail, CartsSafe, CartsInv, CartsTypeOK
    <3>2. CartsInv'
      BY <3>1, CartsStay DEF CartsSafe
    <3>3. UNCHANGED <<owner, cartOf, productOf, quantity, wanted, drift, insertedBy, pc, after,
                      target, product, amount, found, guest, copied, todo, written, gain>>
      BY <3>1 DEF lineVars, cartHistory, cartLocals, mergeLocals
    <3>4. MergeInv' /\ LineInv'
      BY <3>3 DEF CartsSafe, MergeInv, Merges, Gone, LineInv, SecondLineByAnother, Inserts,
                  LinesOf, LinesIn
    <3>5. GatherInv' /\ NothingLost'
      BY <3>3 DEF CartsSafe, GatherInv, Gathered, CopiedAs, GainedAs, LeftAs, InHand, NothingLost,
                  InCarts
    <3>6. QED
      BY <3>2, <3>4, <3>5 DEF CartsSafe
  <2>3. QED
    BY <2>1, <2>2
    DEF Next, CheckoutRequests, Continue, CreateSession, Begin, ReadForAddress,
        ReadForValidation, ReadForDelivery, ReadForPickup, ReadForSummary, ReadForConfirmation,
        SetAddress, ValidateAddress, SelectDelivery, SetPickupDetails, GetSummary, PlaceOrder,
        CloseSession, vars
<1>3. QED
  BY <1>1, <1>2, PTL DEF Spec

\* The invariants of all parts, in a run of CleanSpec.
LEMMA CheckoutInvariant ==
  ASSUME IsFiniteSet(Line), IsFiniteSet(Product)
  PROVE  CleanSpec => [](TypeInv /\ Clean /\ CheckoutInv)
<1>1. TypeInv /\ CheckoutInv /\ [Next]_vars => TypeInv'
  BY CheckoutTypeStep DEF CheckoutInv
<1>2. TypeInv /\ CheckoutInv /\ Clean /\ Clean' /\ [Next]_vars => CheckoutInv'
  BY CheckoutStep
<1>3. QED
  BY CheckoutInit, InitClean, CleanStep, <1>1, <1>2, PTL DEF CleanSpec

\* A checkout session places one order at most, in the runs of CleanSpec
\* (confirmSession).
THEOREM OneOrder ==
  ASSUME IsFiniteSet(Line), IsFiniteSet(Product) PROVE CleanSpec => []OneOrderPerSession
<1>1. TypeInv /\ Clean /\ CheckoutInv => OneOrderPerSession
  <2> SUFFICES ASSUME TypeInv, Clean, CheckoutInv, NEW o \in Order, NEW n \in Order,
                      placedBy[o] # Nil, placedBy[o] = placedBy[n]
               PROVE  o = n
    BY DEF OneOrderPerSession
  <2> DEFINE s == placedBy[o]
  <2>1. s \in Session /\ Shown(s) /\ o # Nil /\ n # Nil
    BY ModeAssumption DEF TypeInv, TypeOK, CheckoutInv
  <2>2. ASSUME NEW p \in Order, placedBy[p] = s, orderId[s] # p
        PROVE  /\ orderId[s] = Nil
               /\ \E k \in Caller : stage[k] = "close" /\ session[k] = s /\ held[k] = p
    <3>1. PICK k \in Caller : stage[k] = "close" /\ session[k] = s /\ held[k] = p
      BY <2>2 DEF CheckoutInv, Known
    <3>2. status[s] # "confirmed"
      BY <3>1 DEF CheckoutInv, Caught, Active
    <3>3. QED
      BY <2>1, <3>1, <3>2 DEF Shown
  <2>3. CASE orderId[s] # Nil
    BY <2>2, <2>3
  <2>4. CASE orderId[s] = Nil
    BY <2>1, <2>2, <2>4, ModeAssumption DEF Clean, Overlap
  <2>5. QED
    BY <2>3, <2>4
<1>2. QED
  BY CheckoutInvariant, <1>1, PTL

\* An order costs what the buyer was shown, whatever became of the cart, in the
\* runs of CleanSpec (getSummary, confirmSession).
THEOREM OrdersArePriced ==
  ASSUME IsFiniteSet(Line), IsFiniteSet(Product) PROVE CleanSpec => []PricedAsShown
<1>1. CheckoutInv => PricedAsShown
  BY DEF CheckoutInv, Known, PricedAsShown
<1>2. QED
  BY CheckoutInvariant, <1>1, PTL

\* A confirmed session shows the price and the delivery of its order, in the
\* runs of CleanSpec (getSession).
THEOREM OrderIsShown ==
  ASSUME IsFiniteSet(Line), IsFiniteSet(Product) PROVE CleanSpec => []ConfirmedShowsOrder
<1>1. TypeInv /\ CheckoutInv => ConfirmedShowsOrder
  BY DEF TypeInv, TypeOK, CheckoutInv, Shown, ConfirmedShowsOrder, Placed
<1>2. QED
  BY CheckoutInvariant, <1>1, PTL

\* The carts hold what was put into them and not taken out, but for what merges
\* copied and the guests' carts did not hold when they were deleted
\* (addItemByCartId, claimGuestForUser).
THEOREM CartsKeepItems == ASSUME IsFiniteSet(Line) PROVE Spec => []NothingLost
<1>1. CartsSafe => NothingLost
  BY DEF CartsSafe
<1>2. QED
  BY CartsAlways, <1>1, PTL

\* Two lines of a product in a cart were inserted by two calls at once, and name
\* no variant (addItemByCartId, claimGuestForUser).
THEOREM OneLine == ASSUME IsFiniteSet(Line) PROVE Spec => []SecondLineByAnother
<1>1. CartsSafe => SecondLineByAnother
  BY DEF CartsSafe, LineInv
<1>2. QED
  BY CartsAlways, <1>1, PTL

\* Checkout and the carts keep their types, in the runs of CleanSpec.
THEOREM CheckoutTypes ==
  ASSUME IsFiniteSet(Line), IsFiniteSet(Product) PROVE CleanSpec => []TypeOK
<1>1. TypeInv => TypeOK
  BY DEF TypeInv
<1>2. QED
  BY CheckoutInvariant, <1>1, PTL
=============================================================================
