------------------------------- MODULE Views -------------------------------
(***************************************************************************)
(* The products a user has recently viewed (recently-viewed.service.ts,    *)
(* recently-viewed.repository.ts).  A view is recorded, then the rows      *)
(* beyond the most recent ones are looked up, then they are deleted by id, *)
(* without a lock.  A product that is not on sale is refused, which is     *)
(* left out, as are the rows of other users.                               *)
(* "Slip:" marks a faulty variant of the operator below it.                *)
(***************************************************************************)
EXTENDS Calls

CONSTANTS
    Viewed,         \* products
    MaxRecent,      \* MAX_RECENT_PRODUCTS
    MaxViews        \* bounds the views, which count the time: each has its own

ASSUME ViewAssumption == Nil \notin Viewed /\ MaxRecent \in Nat /\ MaxViews \in Nat

VARIABLES
    recent,     \* the row of a product, Nil if there is none; its id is that of the view it is of
    lastView    \* history: when a product was last viewed, as last written, 0 if it was not

viewVars == <<recent, lastView>>
viewsVars == <<viewVars, callVars>>

-----------------------------------------------------------------------------
ViewRow == [id : 1 .. MaxViews, viewedAt : 1 .. MaxViews]

ASSUME NilIsNoView == Nil \notin ViewRow

ViewCall ==
    [at : {"record"}, product : Viewed, viewedAt : 1 .. MaxViews]
    \cup [at : {"findStale"}]
    \cup [at : {"deleteStale"}, ids : SUBSET (1 .. MaxViews)]

ViewsTypeOK ==
    /\ recent \in [Viewed -> ViewRow \cup {Nil}]
    /\ lastView \in [Viewed -> 0 .. MaxViews]
    /\ call \in [Worker -> {Idle} \cup ViewCall]

ViewsInit ==
    /\ CallsInit
    /\ recent = [p \in Viewed |-> Nil]
    /\ lastView = [p \in Viewed |-> 0]

-----------------------------------------------------------------------------
Taken(t) ==
    \/ \E p \in Viewed : lastView[p] >= t
    \/ \E w \in Worker : At(w, "record") /\ call[w].viewedAt >= t

Now == 1 + Cardinality({t \in 1 .. MaxViews : Taken(t)})

RecentRows == {p \in Viewed : recent[p] # Nil}

\* Slip: the most recent rows are those first inserted.
StaleById == {p \in RecentRows :
    Cardinality({q \in RecentRows : recent[q].id > recent[p].id}) >= MaxRecent}

\* What is left of the rows, the last viewed first, after skipping the first ones.
Stale == {p \in RecentRows :
    Cardinality({q \in RecentRows : recent[q].viewedAt > recent[p].viewedAt}) >= MaxRecent}

\* The time is taken before the row is written.
BeginView(w) ==
    /\ Now <= MaxViews
    /\ \E p \in Viewed : Begin(w, [at |-> "record", product |-> p, viewedAt |-> Now])
    /\ UNCHANGED <<viewVars, faults>>

\* The upsert keeps the id of a row that exists.
RecordView(w) ==
    LET p == call[w].product
        now == call[w].viewedAt
    IN  /\ At(w, "record")
        /\ recent' = [recent EXCEPT ![p] =
             [id |-> IF @ = Nil THEN now ELSE @.id, viewedAt |-> now]]
        /\ lastView' = [lastView EXCEPT ![p] = now]
        /\ Become(w, [at |-> "findStale"])
        /\ UNCHANGED faults

FindStale(w) ==
    /\ At(w, "findStale")
    /\ IF Stale = {} THEN Return(w)
       ELSE Become(w, [at |-> "deleteStale", ids |-> {recent[p].id : p \in Stale}])
    /\ UNCHANGED <<viewVars, faults>>

DeleteStale(w) ==
    /\ At(w, "deleteStale")
    /\ recent' = [p \in Viewed |->
         IF p \in RecentRows /\ recent[p].id \in call[w].ids THEN Nil ELSE recent[p]]
    /\ Return(w)
    /\ UNCHANGED <<lastView, faults>>

ViewsNext ==
    \E w \in Worker :
        \/ BeginView(w) \/ RecordView(w) \/ FindStale(w) \/ DeleteStale(w)
        \/ CutOff(w) /\ UNCHANGED viewVars

ViewsSpec == ViewsInit /\ [][ViewsNext]_viewsVars

\* Runs in which no row is viewed again between the moment it is found to be
\* stale and its deletion, and no view is written after a later one of the same
\* product.
ViewsClean == \A w \in Worker :
    /\ At(w, "deleteStale") => \A p \in RecentRows : recent[p].id \in call[w].ids => p \in Stale
    /\ At(w, "record") => lastView[call[w].product] < call[w].viewedAt

ViewsCleanSpec == ViewsInit /\ [][ViewsNext /\ ViewsClean']_viewsVars

-----------------------------------------------------------------------------
\* When no call is running, and none was cut off, the rows are those of the
\* products viewed most recently, as many as are kept, whichever views are
\* written and cleaned up after at the same time (record); but for the two
\* overlaps ViewsClean names.
RecentKept ==
    NobodyCalls /\ faults = 0 =>
        \A p \in Viewed :
            recent[p] # Nil <=>
                /\ lastView[p] > 0
                /\ Cardinality({q \in Viewed : lastView[q] > lastView[p]}) < MaxRecent
=============================================================================
