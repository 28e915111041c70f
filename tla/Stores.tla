------------------------------- MODULE Stores -------------------------------
(***************************************************************************)
(* The storefronts of sellers and who follows them (sellers.service.ts,    *)
(* sellers.repository.ts).  A follower is a row of its own, and the store  *)
(* keeps their number.  A transaction writes the row, which it locks until *)
(* it commits, and then counts it.  "Slip:" marks a faulty variant of the  *)
(* operator below it.                                                      *)
(***************************************************************************)
EXTENDS Calls

CONSTANTS Seller, Follower      \* the owners of stores, and other users

ASSUME StoreNilAssumption == Nil \notin Seller \X Follower

VARIABLES
    store,          \* sellers who have opened one
    follows,        \* seller_followers
    followerCount

storeVars == <<store, follows, followerCount>>
storesVars == <<storeVars, callVars>>

-----------------------------------------------------------------------------
\* row is locked; by is what it changes the count by.
StoreCall ==
    [at : {"open"}, seller : Seller]
    \cup [at : {"insertFollower", "deleteFollower"}, row : Seller \X Follower]
    \cup [at : {"count"}, row : Seller \X Follower, by : {-1, 1}]

StoresTypeOK ==
    /\ store \subseteq Seller
    /\ follows \subseteq store \X Follower
    /\ followerCount \in [Seller -> Int]
    /\ call \in [Worker -> {Idle} \cup StoreCall]

StoresInit ==
    /\ CallsInit
    /\ store = {} /\ follows = {}
    /\ followerCount = [s \in Seller |-> 0]

-----------------------------------------------------------------------------
BeginCreateSeller(w) ==
    /\ \E s \in Seller \ store : Begin(w, [at |-> "open", seller |-> s])
    /\ UNCHANGED <<storeVars, faults>>

\* The unique ownerId refuses a second store of one owner.
CreateSeller(w) ==
    /\ At(w, "open")
    /\ store' = store \cup {call[w].seller}
    /\ Return(w)
    /\ UNCHANGED <<follows, followerCount, faults>>

\* Slip: the store is not looked for.
BeginFollowAny(w) ==
    /\ \E s \in Seller, f \in Follower, at \in {"insertFollower", "deleteFollower"} :
        Begin(w, [at |-> at, row |-> <<s, f>>])
    /\ UNCHANGED <<storeVars, faults>>

\* followSeller, unfollowSeller
BeginFollow(w) ==
    /\ \E s \in store, f \in Follower, at \in {"insertFollower", "deleteFollower"} :
        Begin(w, [at |-> at, row |-> <<s, f>>])
    /\ UNCHANGED <<storeVars, faults>>

LockedRow(row) == \E v \in Worker : At(v, "count") /\ call[v].row = row

\* The unique index waits for whoever holds the row, and refuses a second one.
InsertFollower(w) ==
    /\ At(w, "insertFollower")
    /\ ~LockedRow(call[w].row)
    /\ \/ call[w].row \in follows /\ Return(w)
       \/ call[w].row \notin follows /\ Become(w, [at |-> "count", row |-> call[w].row, by |-> 1])
    /\ UNCHANGED <<storeVars, faults>>

\* Slip: the store counts down whether or not there was a follower.
DeleteAnyFollower(w) ==
    /\ At(w, "deleteFollower")
    /\ call[w].row \in follows => ~LockedRow(call[w].row)
    /\ Become(w, [at |-> "count", row |-> call[w].row, by |-> -1])
    /\ UNCHANGED <<storeVars, faults>>

\* Only a row that is committed is found, and then waited for.
DeleteFollower(w) ==
    /\ At(w, "deleteFollower")
    /\ \/ call[w].row \notin follows /\ Return(w)
       \/ /\ call[w].row \in follows /\ ~LockedRow(call[w].row)
          /\ Become(w, [at |-> "count", row |-> call[w].row, by |-> -1])
    /\ UNCHANGED <<storeVars, faults>>

\* The store counts, and the transaction commits.
Count(w) ==
    /\ At(w, "count")
    /\ follows' = IF call[w].by = 1 THEN follows \cup {call[w].row} ELSE follows \ {call[w].row}
    /\ followerCount' = [followerCount EXCEPT ![call[w].row[1]] = @ + call[w].by]
    /\ Return(w)
    /\ UNCHANGED <<store, faults>>

StoresNext == \E w \in Worker :
    \/ BeginCreateSeller(w) \/ CreateSeller(w) \/ BeginFollow(w)
    \/ InsertFollower(w) \/ DeleteFollower(w) \/ Count(w)
    \/ CutOff(w) /\ UNCHANGED storeVars

StoresSpec == StoresInit /\ [][StoresNext]_storesVars

-----------------------------------------------------------------------------
\* However follows and unfollows of the same store overlap or are cut off, its
\* followerCount is the number of its followers (follow, unfollow).
FollowersCounted == \A s \in Seller :
    followerCount[s] = Cardinality({f \in Follower : <<s, f>> \in follows})
=============================================================================
