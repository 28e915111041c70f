--------------------------- MODULE ServicesProofs ----------------------------
(***************************************************************************)
(* Theorems about the services that share no rows: wallets, the followers  *)
(* of a store, the support desk, the bookings of promotion slots, the      *)
(* reviews of products, the deal campaigns and the catalogue, each by its  *)
(* own specification, for any number of calls and of rows; and about the   *)
(* whole that is explored, these and those of UsersProofs.                 *)
(***************************************************************************)
EXTENDS MCServices, UsersProofs, SumLemmas, FiniteSetTheorems, SequenceTheorems, TLAPS

-----------------------------------------------------------------------------
(***************************************************************************)
(* Wallets                                                                 *)
(***************************************************************************)
LEMMA WalletsInitType == WalletsInit => WalletsTypeOK
  BY DEF WalletsInit, WalletsTypeOK, CallsInit

\* An entry is appended to the wallet's entries, and they stay of their type.
LEMMA PostType ==
  ASSUME WalletsTypeOK, NEW w \in Worker, call[w] \in WalletCall, NEW new \in Int, Post(w, new)
  PROVE  /\ balance' \in [Holder -> Int]
         /\ entries' \in [Holder -> Seq(Entry)]
<1> USE DEF WalletsTypeOK, WalletCall, Post
<1> DEFINE entry == [type |-> call[w].at, amount |-> call[w].amount, running |-> new]
<1>1. call[w].holder \in Holder /\ call[w].at \in {"credit", "debit"} /\ call[w].amount \in Amount
  OBVIOUS
<1>2. entry \in Entry
  BY <1>1 DEF Entry
<1>3. Append(entries[call[w].holder], entry) \in Seq(Entry)
  BY <1>1, <1>2
<1>4. QED
  BY <1>1, <1>3

\* A worker that stands at a label holds a call, of that label.
LEMMA WalletsHolding ==
  ASSUME WalletsTypeOK, NEW w \in Worker, call[w].at \in {"credit", "debit"}
  PROVE  /\ call[w] \in WalletCall /\ call[w].holder \in Holder
         /\ call[w].amount \in Int /\ balance[call[w].holder] \in Int
<1>1. call[w] \in WalletCall
  BY DEF WalletsTypeOK, WalletCall, Idle
<1>2. QED
  BY <1>1, WalletAssumption DEF WalletsTypeOK, WalletCall, Amount

\* Every step keeps the types.
LEMMA WalletsTypeStep == WalletsTypeOK /\ [WalletsNext]_walletsVars => WalletsTypeOK'
<1> SUFFICES ASSUME WalletsTypeOK, [WalletsNext]_walletsVars PROVE WalletsTypeOK'
  OBVIOUS
<1> USE WalletAssumption DEF walletVars, callVars, At, Begin, Become, Return
<1>1. ASSUME NEW w \in Worker, BeginWalletCall(w) PROVE WalletsTypeOK'
  BY <1>1 DEF BeginWalletCall, WalletsTypeOK, WalletCall
<1>2. ASSUME NEW w \in Worker, Credit(w) PROVE WalletsTypeOK'
  <2>1. call[w] \in WalletCall /\ balance[call[w].holder] + call[w].amount \in Int
    BY <1>2, WalletsHolding DEF Credit
  <2>2. QED
    BY <1>2, <2>1, PostType DEF Credit, WalletsTypeOK
<1>3. ASSUME NEW w \in Worker, Debit(w) PROVE WalletsTypeOK'
  <2>1. call[w] \in WalletCall /\ balance[call[w].holder] - call[w].amount \in Int
    BY <1>3, WalletsHolding DEF Debit
  <2>2. CASE UNCHANGED walletVars
    BY <1>3, <2>2 DEF Debit, WalletsTypeOK
  <2>3. CASE Post(w, balance[call[w].holder] - call[w].amount)
    <3>1. balance' \in [Holder -> Int] /\ entries' \in [Holder -> Seq(Entry)]
      BY <2>1, <2>3, PostType
    <3>2. QED
      BY <1>3, <3>1 DEF Debit, WalletsTypeOK
  <2>4. QED
    BY <1>3, <2>2, <2>3 DEF Debit
<1>4. ASSUME NEW w \in Worker, CutOff(w), UNCHANGED walletVars PROVE WalletsTypeOK'
  BY <1>4 DEF CutOff, WalletsTypeOK
<1>5. CASE UNCHANGED walletsVars
  BY <1>5 DEF walletsVars, WalletsTypeOK
<1>6. QED
  BY <1>1, <1>2, <1>3, <1>4, <1>5 DEF WalletsNext

\* The types hold in every reachable state.
THEOREM WalletsTypeCorrect == WalletsSpec => []WalletsTypeOK
  BY WalletsInitType, WalletsTypeStep, PTL DEF WalletsSpec

-----------------------------------------------------------------------------
\* WalletBalances for one wallet with the given balance and entries.
Balanced(b, es) ==
    /\ \A i \in DOMAIN es :
        /\ es[i].type = "debit" => es[i].running >= 0
        /\ es[i].running = (IF i = 1 THEN 0 ELSE es[i - 1].running) + Change(es[i])
    /\ b = IF es = <<>> THEN 0 ELSE es[Len(es)].running

LEMMA Unfolded == WalletBalances <=> \A h \in Holder : Balanced(balance[h], entries[h])
  BY DEF WalletBalances, Balanced

\* An entry that names the new balance leaves the wallet balanced.
LEMMA AppendBalanced ==
  ASSUME NEW b \in Int, NEW es \in Seq(Entry), NEW e, Balanced(b, es),
         e.running = b + Change(e), Change(e) \in Int, e.type = "debit" => e.running >= 0
  PROVE  Balanced(e.running, Append(es, e))
<1> DEFINE new == Append(es, e)
<1>1. /\ Len(es) \in Nat /\ Len(new) = Len(es) + 1
      /\ DOMAIN es = 1 .. Len(es) /\ DOMAIN new = 1 .. (Len(es) + 1)
      /\ new[Len(es) + 1] = e
      /\ \A i \in 1 .. Len(es) : new[i] = es[i]
  OBVIOUS
<1>2. new # <<>> /\ new[Len(new)].running = e.running
  BY <1>1
<1>3. Len(es) > 0 => b = es[Len(es)].running
  BY DEF Balanced
<1>4. Len(es) = 0 => b = 0
  BY DEF Balanced
<1>5. ASSUME NEW i \in DOMAIN new
      PROVE /\ new[i].type = "debit" => new[i].running >= 0
            /\ new[i].running = (IF i = 1 THEN 0 ELSE new[i - 1].running) + Change(new[i])
  <2>1. CASE i = Len(es) + 1
    <3>1. CASE i = 1
      <4>1. b = 0 /\ new[i] = e
        BY <1>1, <1>4, <2>1, <3>1
      <4>2. QED
        BY <3>1, <4>1
    <3>2. CASE i # 1
      <4>1. i - 1 = Len(es) /\ i - 1 \in 1 .. Len(es) /\ new[i] = e
        BY <1>1, <2>1, <3>2
      <4>2. new[i - 1].running = b
        BY <1>1, <1>3, <4>1
      <4>3. QED
        BY <3>2, <4>1, <4>2
    <3>3. QED
      BY <3>1, <3>2
  <2>2. CASE i \in 1 .. Len(es)
    <3>1. /\ es[i].type = "debit" => es[i].running >= 0
          /\ es[i].running = (IF i = 1 THEN 0 ELSE es[i - 1].running) + Change(es[i])
      BY <1>1, <2>2 DEF Balanced
    <3>2. new[i] = es[i] /\ (i # 1 => new[i - 1] = es[i - 1])
      BY <1>1, <2>2
    <3>3. QED
      BY <3>1, <3>2
  <2>3. QED
    BY <1>1, <2>1, <2>2
<1>6. QED
  BY <1>2, <1>5 DEF Balanced

\* Every step keeps the wallets balanced.
LEMMA BalanceStep ==
  WalletsTypeOK /\ WalletBalances /\ [WalletsNext]_walletsVars => WalletBalances'
<1> SUFFICES ASSUME WalletsTypeOK, WalletBalances, [WalletsNext]_walletsVars,
                    NEW h \in Holder
             PROVE  Balanced(balance'[h], entries'[h])
  BY DEF WalletBalances, Balanced
<1>1. Balanced(balance[h], entries[h])
  BY Unfolded
<1>2. balance[h] \in Int /\ entries[h] \in Seq(Entry)
  BY DEF WalletsTypeOK
<1>3. ASSUME NEW w \in Worker, call[w] \in WalletCall, NEW new \in Int, Post(w, new),
             call[w].amount \in Int,
             call[w].at = "credit" => new = balance[call[w].holder] + call[w].amount,
             call[w].at = "debit" =>
               new >= 0 /\ new = balance[call[w].holder] - call[w].amount
      PROVE  Balanced(balance'[h], entries'[h])
  <2> DEFINE e == [type |-> call[w].at, amount |-> call[w].amount, running |-> new]
  <2>1. CASE h = call[w].holder
    <3>1. balance'[h] = e.running /\ entries'[h] = Append(entries[h], e)
      BY <1>3, <2>1 DEF Post, WalletsTypeOK
    <3>2. call[w].at \in {"credit", "debit"}
      BY <1>3 DEF WalletCall
    <3>3. /\ Change(e) \in Int /\ e.running = balance[h] + Change(e)
          /\ e.type = "debit" => e.running >= 0
      BY <1>2, <1>3, <2>1, <3>2 DEF Change
    <3>4. QED
      BY <1>1, <1>2, <3>1, <3>3, AppendBalanced
  <2>2. CASE h # call[w].holder
    BY <1>1, <1>3, <2>2 DEF Post, WalletsTypeOK
  <2>3. QED
    BY <2>1, <2>2
<1>4. ASSUME NEW w \in Worker, Credit(w) PROVE Balanced(balance'[h], entries'[h])
  BY <1>3, <1>4, WalletsHolding DEF Credit, At
<1>5. ASSUME NEW w \in Worker, Debit(w) PROVE Balanced(balance'[h], entries'[h])
  <2>1. call[w] \in WalletCall /\ call[w].amount \in Int /\ balance[call[w].holder] \in Int
    BY <1>5, WalletsHolding DEF Debit, At
  <2>2. CASE UNCHANGED walletVars
    BY <1>1, <2>2 DEF walletVars
  <2>3. CASE /\ balance[call[w].holder] >= call[w].amount
             /\ Post(w, balance[call[w].holder] - call[w].amount)
    BY <1>3, <1>5, <2>1, <2>3 DEF Debit, At
  <2>4. QED
    BY <1>5, <2>2, <2>3 DEF Debit
<1>6. CASE UNCHANGED walletVars
  BY <1>1, <1>6 DEF walletVars
<1>7. QED
  BY <1>4, <1>5, <1>6 DEF WalletsNext, BeginWalletCall, walletsVars

\* No debit overdraws a wallet, and its entries account for its balance,
\* whatever the amounts and whichever debits and credits overlap.
THEOREM BalancesHold == WalletsSpec => []WalletBalances
<1>1. WalletsInit => WalletBalances
  BY DEF WalletsInit, WalletBalances
<1>2. QED
  BY <1>1, WalletsTypeCorrect, BalanceStep, PTL DEF WalletsSpec

-----------------------------------------------------------------------------
(***************************************************************************)
(* Stores                                                                  *)
(***************************************************************************)
StoreRows == store \X Follower
Followers(s) == {f \in Follower : <<s, f>> \in follows}

\* The call of a transaction holds a row of a store that is there.
Transactions == \A w \in Worker :
    /\ At(w, "open") => call[w].seller \in Seller
    /\ call[w].at \in {"insertFollower", "deleteFollower", "count"} => call[w].row \in StoreRows
    /\ At(w, "count") => call[w].by \in {-1, 1}

\* A transaction that is to count has locked its row for itself, and knows
\* whether the row is there.
Locks == \A w \in Worker : At(w, "count") =>
    /\ \A v \in Worker : At(v, "count") /\ call[v].row = call[w].row => v = w
    /\ call[w].by = 1 <=> call[w].row \notin follows

Counted ==
    /\ store \subseteq Seller /\ follows \subseteq StoreRows
    /\ followerCount \in [Seller -> Int]
    /\ \A s \in Seller : IsFiniteSet(Followers(s)) /\ followerCount[s] = Cardinality(Followers(s))

StoresInv ==
    /\ \E C : call \in [Worker -> C]
    /\ Transactions
    /\ Locks
    /\ Counted

LEMMA StoresInitInv == StoresInit => StoresInv
<1> SUFFICES ASSUME StoresInit PROVE StoresInv
  OBVIOUS
<1>1. call \in [Worker -> {Idle}] /\ \A w \in Worker : call[w].at = "idle"
  BY DEF StoresInit, CallsInit, Idle
<1>2. Transactions /\ Locks
  BY <1>1 DEF Transactions, Locks, At
<1>3. ASSUME NEW s \in Seller PROVE Followers(s) = {} /\ followerCount[s] = 0
  BY DEF StoresInit, Followers
<1>4. Counted
  BY <1>3, FS_EmptySet DEF Counted, StoresInit
<1>5. QED
  BY <1>1, <1>2, <1>4 DEF StoresInv

\* What a step of one call, which leaves the stores alone, must keep.
LEMMA CallStep ==
  ASSUME StoresInv, NEW w \in Worker, NEW c, call' = [call EXCEPT ![w] = c],
         UNCHANGED <<follows, followerCount>>, store \subseteq store', store' \subseteq Seller,
         c.at = "open" => c.seller \in Seller,
         c.at \in {"insertFollower", "deleteFollower", "count"} => c.row \in StoreRows,
         c.at = "count" => /\ c.by \in {-1, 1}
                           /\ c.by = 1 <=> c.row \notin follows
                           /\ ~LockedRow(c.row)
  PROVE  StoresInv'
<1> USE DEF At
<1>1. \A v \in Worker : call'[v] = IF v = w THEN c ELSE call[v]
  BY DEF StoresInv
<1>2. \E C : call' \in [Worker -> C]
  <2>1. PICK C : call \in [Worker -> C]
    BY DEF StoresInv
  <2>2. call' \in [Worker -> C \cup {c}]
    BY <2>1
  <2>3. QED
    BY <2>2
<1>3. StoreRows \subseteq StoreRows'
  BY DEF StoreRows
<1>4. Transactions'
  BY <1>1, <1>3 DEF StoresInv, Transactions
<1>5. Locks'
  <2> SUFFICES ASSUME NEW u \in Worker, call'[u].at = "count"
               PROVE  /\ \A v \in Worker : call'[v].at = "count" /\ call'[v].row = call'[u].row => v = u
                      /\ call'[u].by = 1 <=> call'[u].row \notin follows'
    BY DEF Locks
  <2>1. CASE u = w
    <3>1. call'[u] = c /\ ~LockedRow(c.row) /\ (c.by = 1 <=> c.row \notin follows)
      BY <1>1, <2>1
    <3>2. ASSUME NEW v \in Worker, v # w, call'[v].at = "count" PROVE call'[v].row # c.row
      BY <1>1, <3>1, <3>2 DEF LockedRow
    <3>3. call'[u].by = 1 <=> call'[u].row \notin follows'
      <4>1. follows' = follows
        OBVIOUS
      <4>2. call'[u].by = c.by /\ call'[u].row = c.row
        BY <3>1
      <4>3. c.by = 1 <=> c.row \notin follows
        BY <3>1
      <4>4. QED
        BY <4>1, <4>2, <4>3
    <3>4. QED
      BY <2>1, <3>1, <3>2, <3>3
  <2>2. CASE u # w
    BY <1>1, <2>2 DEF LockedRow, StoresInv, Locks
  <2>3. QED
    BY <2>1, <2>2
<1>6. Counted'
  <2>1. \A s \in Seller : Followers(s)' = Followers(s)
    BY DEF Followers
  <2>2. QED
    BY <1>3, <2>1 DEF StoresInv, Counted
<1>7. QED
  BY <1>2, <1>4, <1>5, <1>6 DEF StoresInv

\* The transaction counts the row it holds.
LEMMA CountStep == ASSUME StoresInv, NEW w \in Worker, Count(w) PROVE StoresInv'
<1> USE DEF At
<1> DEFINE row == call[w].row
           by == call[w].by
<1>1. /\ call[w].at = "count" /\ row \in StoreRows /\ by \in {-1, 1}
      /\ by = 1 <=> row \notin follows
  BY DEF Count, StoresInv, Transactions, Locks
<1>2. /\ call' = [call EXCEPT ![w] = Idle] /\ UNCHANGED store
      /\ follows' = IF by = 1 THEN follows \cup {row} ELSE follows \ {row}
      /\ followerCount' = [followerCount EXCEPT ![row[1]] = @ + by]
  BY DEF Count, Return, Become
<1>3. \A v \in Worker : call'[v] = IF v = w THEN Idle ELSE call[v]
  BY <1>2 DEF StoresInv
<1>4. Idle.at = "idle"
  BY DEF Idle
<1>5. \E C : call' \in [Worker -> C]
  <2>1. PICK C : call \in [Worker -> C]
    BY DEF StoresInv
  <2>2. call' \in [Worker -> C \cup {Idle}]
    BY <1>2, <2>1
  <2>3. QED
    BY <2>2
<1>6. Transactions'
  BY <1>2, <1>3, <1>4 DEF StoresInv, Transactions, StoreRows
<1>7. Locks'
  <2> SUFFICES ASSUME NEW u \in Worker, call'[u].at = "count"
               PROVE  /\ \A v \in Worker : call'[v].at = "count" /\ call'[v].row = call'[u].row => v = u
                      /\ call'[u].by = 1 <=> call'[u].row \notin follows'
    BY DEF Locks
  <2>1. u # w /\ call'[u] = call[u]
    BY <1>3, <1>4
  <2>2. call[u].row # row
    BY <1>1, <2>1 DEF StoresInv, Locks
  <2>3. call[u].row \in follows' <=> call[u].row \in follows
    BY <1>2, <2>2
  <2>4. QED
    BY <1>3, <1>4, <2>1, <2>3 DEF StoresInv, Locks
<1>8. Counted'
  <2>1. PICK s \in store, f \in Follower : row = <<s, f>>
    BY <1>1 DEF StoreRows
  <2>2. s \in Seller /\ row[1] = s /\ IsFiniteSet(Followers(s))
        /\ followerCount[s] = Cardinality(Followers(s)) /\ Cardinality(Followers(s)) \in Int
    BY <2>1, FS_CardinalityType DEF StoresInv, Counted
  <2>3. ASSUME NEW t \in Seller, t # s
        PROVE  Followers(t)' = Followers(t) /\ followerCount'[t] = followerCount[t]
    BY <1>2, <2>1, <2>2, <2>3 DEF Followers, StoresInv, Counted
  <2>4. followerCount'[s] = followerCount[s] + by /\ followerCount' \in [Seller -> Int]
    BY <1>1, <1>2, <2>2 DEF StoresInv, Counted
  <2>5. IsFiniteSet(Followers(s)') /\ followerCount'[s] = Cardinality(Followers(s)')
    <3>1. CASE by = 1
      <4>1. Followers(s)' = Followers(s) \cup {f} /\ f \notin Followers(s)
        BY <1>1, <1>2, <2>1, <3>1 DEF Followers
      <4>2. IsFiniteSet(Followers(s) \cup {f})
            /\ Cardinality(Followers(s) \cup {f}) = Cardinality(Followers(s)) + 1
        BY <2>2, <4>1, FS_AddElement
      <4>3. QED
        BY <2>2, <2>4, <3>1, <4>1, <4>2
    <3>2. CASE by = -1
      <4>1. Followers(s)' = Followers(s) \ {f} /\ f \in Followers(s)
        BY <1>1, <1>2, <2>1, <3>2 DEF Followers
      <4>2. IsFiniteSet(Followers(s) \ {f})
            /\ Cardinality(Followers(s) \ {f}) = Cardinality(Followers(s)) - 1
        BY <2>2, <4>1, FS_RemoveElement
      <4>3. QED
        BY <2>2, <2>4, <3>2, <4>1, <4>2
    <3>3. QED
      BY <1>1, <3>1, <3>2
  <2>6. store' \subseteq Seller /\ follows' \subseteq StoreRows'
    BY <1>1, <1>2 DEF StoresInv, Counted, StoreRows
  <2>7. \A t \in Seller : IsFiniteSet(Followers(t)') /\ followerCount'[t] = Cardinality(Followers(t)')
    BY <2>3, <2>5 DEF StoresInv, Counted
  <2>8. QED
    BY <2>4, <2>6, <2>7 DEF Counted
<1>9. QED
  BY <1>5, <1>6, <1>7, <1>8 DEF StoresInv

LEMMA StoresStep == StoresInv /\ [StoresNext]_storesVars => StoresInv'
<1> SUFFICES ASSUME StoresInv, [StoresNext]_storesVars PROVE StoresInv'
  OBVIOUS
<1> USE DEF storeVars, callVars, At, Begin, Become, Return
<1>a. Idle.at = "idle" /\ store \subseteq Seller
  BY DEF Idle, StoresInv, Counted
<1>1. ASSUME NEW w \in Worker, BeginCreateSeller(w) PROVE StoresInv'
  <2>1. PICK s \in Seller \ store : Begin(w, [at |-> "open", seller |-> s])
    BY <1>1 DEF BeginCreateSeller
  <2>2. QED
    BY <1>1, <1>a, <2>1, CallStep DEF BeginCreateSeller
<1>2. ASSUME NEW w \in Worker, CreateSeller(w) PROVE StoresInv'
  <2>1. call[w].seller \in Seller
    BY <1>2 DEF CreateSeller, StoresInv, Transactions
  <2>2. QED
    BY <1>2, <1>a, <2>1, CallStep DEF CreateSeller
<1>3. ASSUME NEW w \in Worker, BeginFollow(w) PROVE StoresInv'
  <2>1. PICK s \in store, f \in Follower, at \in {"insertFollower", "deleteFollower"} :
            Begin(w, [at |-> at, row |-> <<s, f>>])
    BY <1>3 DEF BeginFollow
  <2>2. <<s, f>> \in StoreRows
    BY DEF StoreRows
  <2>3. QED
    BY <1>3, <1>a, <2>1, <2>2, CallStep DEF BeginFollow
<1>4. ASSUME NEW w \in Worker, call[w].at \in {"insertFollower", "deleteFollower"},
             NEW by \in {-1, 1}, by = 1 <=> call[w].row \notin follows, ~LockedRow(call[w].row),
             Become(w, [at |-> "count", row |-> call[w].row, by |-> by]), UNCHANGED <<storeVars, faults>>
      PROVE  StoresInv'
  <2>1. call[w].row \in StoreRows
    BY <1>4 DEF StoresInv, Transactions
  <2>2. QED
    BY <1>4, <1>a, <2>1, CallStep
<1>5. ASSUME NEW w \in Worker, Return(w), UNCHANGED storeVars PROVE StoresInv'
  BY <1>5, <1>a, CallStep
<1>6. ASSUME NEW w \in Worker, InsertFollower(w) PROVE StoresInv'
  BY <1>4, <1>5, <1>6 DEF InsertFollower
<1>7. ASSUME NEW w \in Worker, DeleteFollower(w) PROVE StoresInv'
  <2>1. CASE call[w].row \notin follows /\ Return(w)
    BY <1>5, <1>7, <2>1 DEF DeleteFollower
  <2>2. CASE /\ call[w].row \in follows /\ ~LockedRow(call[w].row)
             /\ Become(w, [at |-> "count", row |-> call[w].row, by |-> -1])
    <3>1. call[w].at = "deleteFollower" /\ UNCHANGED <<storeVars, faults>>
      BY <1>7 DEF DeleteFollower
    <3>2. -1 \in {-1, 1} /\ (-1 = 1 <=> call[w].row \notin follows)
      BY <2>2
    <3>3. QED
      BY <1>4, <2>2, <3>1, <3>2
  <2>3. QED
    BY <1>7, <2>1, <2>2 DEF DeleteFollower
<1>8. ASSUME NEW w \in Worker, CutOff(w), UNCHANGED storeVars PROVE StoresInv'
  BY <1>5, <1>8 DEF CutOff
<1>9. CASE UNCHANGED storesVars
  BY <1>9 DEF storesVars, StoresInv, Transactions, Locks, Counted, StoreRows, Followers
<1>10. QED
  BY <1>1, <1>2, <1>3, <1>6, <1>7, <1>8, <1>9, CountStep DEF StoresNext

\* The number that a store keeps is that of its followers (follow, unfollow),
\* however the transactions overlap.
THEOREM FollowersAreCounted == StoresSpec => []FollowersCounted
<1>1. StoresInv => FollowersCounted
  BY DEF StoresInv, Counted, Followers, FollowersCounted
<1>2. QED
  BY <1>1, StoresInitInv, StoresStep, PTL DEF StoresSpec

-----------------------------------------------------------------------------
\* A call holds what its step needs, a row of a store that is there, and what
\* it writes is of its type.
LEMMA StoresTypeStep == StoresInv /\ StoresTypeOK /\ [StoresNext]_storesVars => StoresTypeOK'
<1> SUFFICES ASSUME StoresInv, StoresTypeOK, [StoresNext]_storesVars
             PROVE  StoresTypeOK'
  OBVIOUS
<1> USE DEF At, Begin, Become, Return
<1>1. \A row \in Seller \X Follower, by \in {-1, 1} :
        [at |-> "count", row |-> row, by |-> by] \in {Idle} \cup StoreCall
  BY DEF StoreCall
<1>2. ASSUME NEW w \in Worker, call[w].at \in {"insertFollower", "deleteFollower", "count"}
      PROVE  /\ call[w].row \in Seller \X Follower
             /\ call[w].at = "count" => call[w].by \in {-1, 1}
  BY <1>2 DEF StoresTypeOK, StoreCall, Idle
<1>3. ASSUME NEW w \in Worker, BeginCreateSeller(w) PROVE StoresTypeOK'
  <2>1. \A s \in Seller : [at |-> "open", seller |-> s] \in {Idle} \cup StoreCall
    BY DEF StoreCall
  <2>2. QED
    BY <1>3, <2>1 DEF BeginCreateSeller, StoresTypeOK, storeVars
<1>4. ASSUME NEW w \in Worker, CreateSeller(w) PROVE StoresTypeOK'
  <2>1. call[w].seller \in Seller
    BY <1>4 DEF CreateSeller, StoresTypeOK, StoreCall, Idle
  <2>2. QED
    BY <1>4, <2>1 DEF CreateSeller, StoresTypeOK
<1>5. ASSUME NEW w \in Worker, BeginFollow(w) PROVE StoresTypeOK'
  <2>1. \A row \in Seller \X Follower, at \in {"insertFollower", "deleteFollower"} :
          [at |-> at, row |-> row] \in {Idle} \cup StoreCall
    BY DEF StoreCall
  <2>2. PICK s \in store, f \in Follower, at \in {"insertFollower", "deleteFollower"} :
          call' = [call EXCEPT ![w] = [at |-> at, row |-> <<s, f>>]]
    BY <1>5 DEF BeginFollow
  <2>3. <<s, f>> \in Seller \X Follower
    BY DEF StoresTypeOK
  <2>4. QED
    BY <1>5, <2>1, <2>2, <2>3 DEF BeginFollow, StoresTypeOK, storeVars
<1>6. ASSUME NEW w \in Worker, InsertFollower(w) \/ DeleteFollower(w) PROVE StoresTypeOK'
  BY <1>1, <1>2, <1>6 DEF InsertFollower, DeleteFollower, StoresTypeOK, storeVars
<1>7. ASSUME NEW w \in Worker, Count(w) PROVE StoresTypeOK'
  <2>1. /\ call[w].row \in Seller \X Follower /\ call[w].by \in {-1, 1}
        /\ call[w].row[1] \in Seller
    BY <1>2, <1>7 DEF Count
  <2>2. follows' \subseteq store' \X Follower
    <3>1. call[w].row \in store \X Follower
      BY <1>7 DEF Count, StoresInv, Transactions, StoreRows
    <3>2. QED
      BY <1>7, <3>1 DEF Count, StoresTypeOK
  <2>3. followerCount' \in [Seller -> Int]
    BY <1>7, <2>1 DEF Count, StoresTypeOK
  <2>4. QED
    BY <1>7, <2>2, <2>3 DEF Count, StoresTypeOK
<1>8. ASSUME NEW w \in Worker, CutOff(w), UNCHANGED storeVars PROVE StoresTypeOK'
  BY <1>8 DEF CutOff, storeVars, StoresTypeOK
<1>9. CASE UNCHANGED storesVars
  BY <1>9 DEF storesVars, storeVars, callVars, StoresTypeOK
<1>10. QED
  BY <1>3, <1>4, <1>5, <1>6, <1>7, <1>8, <1>9 DEF StoresNext

LEMMA StoresInitType == StoresInit => StoresTypeOK
  BY DEF StoresInit, CallsInit, StoresTypeOK

\* A store, its followers, their number and the calls about them stay of their
\* types, and only stores that are there have followers (StoresTypeOK).
THEOREM StoresTypeCorrect == StoresSpec => []StoresTypeOK
  BY StoresInitType, StoresInitInv, StoresStep, StoresTypeStep, PTL DEF StoresSpec

-----------------------------------------------------------------------------
(***************************************************************************)
(* Desk                                                                    *)
(***************************************************************************)
\* A call's row is there, and what it writes to it is a status of its table.
Fitting == \A w \in Worker :
    /\ call[w].at \in {"push", "append", "update"} => status[call[w].row] # Nil
    /\ At(w, "update") => call[w].status \in StatusOf(call[w].row)

\* The call that is about to append holds the list as it is, and is the only
\* one that is about to append to this row.
Locking == \A w \in Worker : At(w, "append") =>
    /\ call[w].list = list[call[w].row]
    /\ \A v \in Worker : At(v, "append") /\ call[v].row = call[w].row => v = w

DeskInv == DeskTypeOK /\ Fitting /\ Locking /\ AcknowledgedKept

LEMMA DeskInitInv == DeskInit => DeskInv
  BY DeskAssumption DEF DeskInit, CallsInit, DeskInv, DeskTypeOK, Fitting, Locking,
     AcknowledgedKept, At, Idle

\* A worker that stands at a label holds a call of that label.
LEMMA DeskHolding ==
  ASSUME DeskTypeOK, NEW w \in Worker
  PROVE  /\ At(w, "push") => call[w] \in [at : {"push"}, row : DeskRow]
         /\ At(w, "append") =>
              call[w] \in [at : {"append"}, row : DeskRow, list : 0 .. MaxLength - 1]
         /\ At(w, "update") =>
              call[w] \in [at : {"update"}, row : DeskRow, status : TicketStatus \cup CourierStatus]
<1>1. call[w] = Idle \/ call[w] \in DeskCall
  BY DEF DeskTypeOK
<1>2. QED
  BY <1>1 DEF DeskCall, Idle, At

-----------------------------------------------------------------------------
\* Inserting a row disturbs no call: none has found it.
LEMMA InsertStep ==
  ASSUME DeskInv, NEW e \in DeskRow, NEW as \in StatusOf(e), NEW length \in {0, 1},
         Insert(e, as, length), UNCHANGED callVars
  PROVE  DeskInv'
<1> USE DEF DeskInv
<1>1. status[e] = Nil /\ as # Nil /\ as \in TicketStatus \cup CourierStatus
  BY DeskAssumption DEF Insert, StatusOf
<1>2. DeskTypeOK'
  <2>1. status' \in [DeskRow -> TicketStatus \cup CourierStatus \cup {Nil}]
    BY <1>1 DEF DeskTypeOK, Insert
  <2>2. ASSUME NEW f \in DeskRow PROVE status'[f] \in StatusOf(f) \cup {Nil}
    BY DEF DeskTypeOK, Insert
  <2>3. length \in 0 .. MaxLength
    BY DeskAssumption
  <2>4. list' \in [DeskRow -> 0 .. MaxLength] /\ stored' \in [DeskRow -> 0 .. MaxLength]
    BY <2>3 DEF DeskTypeOK, Insert
  <2>5. QED
    BY <2>1, <2>2, <2>4 DEF DeskTypeOK, callVars
<1>3. \A w \in Worker : call[w].at \in {"push", "append", "update"} =>
        call[w].row \in DeskRow /\ call[w].row # e
  BY <1>1, DeskHolding DEF Fitting, At
<1>4. Fitting'
  BY <1>3 DEF Fitting, Insert, callVars, At, DeskTypeOK
<1>5. Locking'
  BY <1>3 DEF Locking, Insert, callVars, At, DeskTypeOK
<1>6. AcknowledgedKept'
  BY DEF AcknowledgedKept, Insert, DeskTypeOK
<1>7. QED
  BY <1>2, <1>4, <1>5, <1>6

\* A call begins with a row it has found.
LEMMA FindStep ==
  ASSUME DeskInv, NEW w \in Worker, NEW e \in DeskRow, NEW c,
         \/ c = [at |-> "push", row |-> e]
         \/ \E s \in StatusOf(e) : c = [at |-> "update", row |-> e, status |-> s],
         Find(w, c)
  PROVE  DeskInv'
<1> USE DEF DeskInv, Find, Begin, Become, deskVars
<1>1. c \in DeskCall /\ c.row = e /\ c.at # "append"
  BY DEF DeskCall, StatusOf
<1>2. call' = [call EXCEPT ![w] = c] /\ status[e] # Nil
  BY <1>1
<1>3. DeskTypeOK'
  BY <1>1, <1>2 DEF DeskTypeOK
<1>4. Fitting'
  BY <1>1, <1>2 DEF Fitting, At, DeskTypeOK
<1>5. Locking'
  BY <1>1, <1>2 DEF Locking, At, DeskTypeOK
<1>6. AcknowledgedKept'
  BY DEF AcknowledgedKept
<1>7. QED
  BY <1>3, <1>4, <1>5, <1>6

LEMMA UpdateStep ==
  ASSUME DeskInv, NEW w \in Worker, Update(w)
  PROVE  DeskInv'
<1> USE DEF DeskInv, Update, Return, Become
<1> DEFINE e == call[w].row
<1>1. e \in DeskRow /\ call[w].status \in StatusOf(e) /\ call[w].status \in TicketStatus \cup CourierStatus
  BY DeskHolding DEF Fitting
<1>2. call[w].status # Nil
  BY <1>1, DeskAssumption
<1>3. DeskTypeOK'
  BY <1>1 DEF DeskTypeOK
<1>4. Fitting'
  BY <1>1, <1>2 DEF Fitting, At, Idle, DeskTypeOK
<1>5. Locking'
  BY DEF Locking, At, Idle, DeskTypeOK
<1>6. AcknowledgedKept'
  BY DEF AcknowledgedKept
<1>7. QED
  BY <1>3, <1>4, <1>5, <1>6

LEMMA LockStep ==
  ASSUME DeskInv, NEW w \in Worker, LockForPush(w)
  PROVE  DeskInv'
<1> USE DEF DeskInv, LockForPush, Become, deskVars
<1> DEFINE e == call[w].row
           c == [at |-> "append", row |-> e, list |-> list[e]]
<1>1. e \in DeskRow /\ status[e] # Nil /\ list[e] \in 0 .. MaxLength - 1
  BY DeskHolding, DeskAssumption DEF Fitting, At, DeskTypeOK
<1>2. c \in DeskCall /\ call' = [call EXCEPT ![w] = c]
  BY <1>1 DEF DeskCall
<1>3. \A v \in Worker : At(v, "append") => call[v].row # e
  BY DEF Pushing
<1>4. DeskTypeOK'
  BY <1>2 DEF DeskTypeOK
<1>5. Fitting'
  BY <1>1, <1>2 DEF Fitting, At, DeskTypeOK
<1>6. Locking'
  BY <1>2, <1>3 DEF Locking, At, DeskTypeOK
<1>7. AcknowledgedKept'
  BY DEF AcknowledgedKept
<1>8. QED
  BY <1>4, <1>5, <1>6, <1>7

\* The list is written back as it is now, with one entry more.
LEMMA AppendStep ==
  ASSUME DeskInv, NEW w \in Worker, AppendEntry(w)
  PROVE  DeskInv'
<1> USE DEF DeskInv, AppendEntry, Become, Return
<1> DEFINE e == call[w].row
           c == IF e \in Ticket THEN [at |-> "update", row |-> e, status |-> "escalated"] ELSE Idle
<1>1. /\ e \in DeskRow /\ status[e] # Nil
      /\ call[w].list \in 0 .. MaxLength - 1
      /\ call[w].list = list[e] /\ list[e] = stored[e]
  BY DeskHolding DEF Fitting, Locking, AcknowledgedKept, At
<1>2. call' = [call EXCEPT ![w] = c]
  OBVIOUS
<1>3. c \in {Idle} \cup DeskCall /\ c.at \notin {"push", "append"}
      /\ (c.at = "update" => c.row = e /\ c.status \in StatusOf(e))
  BY <1>1 DEF DeskCall, TicketStatus, StatusOf, Idle
<1>4. /\ list' = [list EXCEPT ![e] = list[e] + 1]
      /\ stored' = [stored EXCEPT ![e] = stored[e] + 1]
      /\ list[e] + 1 \in 0 .. MaxLength
  BY <1>1, DeskAssumption
<1>5. DeskTypeOK'
  BY <1>1, <1>2, <1>3, <1>4 DEF DeskTypeOK
<1>6. Fitting'
  BY <1>1, <1>2, <1>3 DEF Fitting, At, DeskTypeOK
<1>7. \A v \in Worker : v # w /\ At(v, "append") => call[v].row \in DeskRow /\ call[v].row # e
  BY DeskHolding DEF Locking
<1>8. Locking'
  BY <1>2, <1>3, <1>4, <1>7 DEF Locking, At, DeskTypeOK
<1>9. AcknowledgedKept'
  BY <1>1, <1>4 DEF AcknowledgedKept, DeskTypeOK
<1>10. QED
  BY <1>5, <1>6, <1>8, <1>9

LEMMA CutStep ==
  ASSUME DeskInv, NEW w \in Worker, CutOff(w), UNCHANGED deskVars
  PROVE  DeskInv'
<1> USE DEF DeskInv, CutOff, Return, Become, deskVars
<1>1. DeskTypeOK'
  BY DEF DeskTypeOK
<1>2. Fitting'
  BY DEF Fitting, At, Idle, DeskTypeOK
<1>3. Locking'
  BY DEF Locking, At, Idle, DeskTypeOK
<1>4. AcknowledgedKept'
  BY DEF AcknowledgedKept
<1>5. QED
  BY <1>1, <1>2, <1>3, <1>4

-----------------------------------------------------------------------------
LEMMA DeskStep == DeskInv /\ [DeskNext]_desksVars => DeskInv'
<1> SUFFICES ASSUME DeskInv, [DeskNext]_desksVars PROVE DeskInv'
  OBVIOUS
<1> USE DEF DeskRow, StatusOf, TicketStatus, CourierStatus
<1>1. ASSUME CreateTicket PROVE DeskInv'
  BY <1>1, InsertStep DEF CreateTicket
<1>2. ASSUME BookCourier PROVE DeskInv'
  <2>1. PICK b \in Courier : Insert(b, "pending", 0)
    BY <1>2 DEF BookCourier
  <2>2. "pending" \in StatusOf(b)
    BY DeskAssumption
  <2>3. QED
    BY <1>2, <2>1, <2>2, InsertStep DEF BookCourier
<1>3. ASSUME NEW w \in Worker, Assign(w) \/ Close(w) \/ Escalate(w) PROVE DeskInv'
  BY <1>3, FindStep DEF Assign, Close, Escalate
<1>4. ASSUME NEW w \in Worker, CancelCourier(w) \/ RetryBooking(w) \/ UploadPod(w) PROVE DeskInv'
  <2>1. \A b \in Courier : StatusOf(b) = CourierStatus
    BY DeskAssumption
  <2>2. QED
    BY <1>4, <2>1, FindStep DEF CancelCourier, RetryBooking, UploadPod
<1>5. CASE UNCHANGED desksVars
  BY <1>5 DEF desksVars, deskVars, callVars, DeskInv, DeskTypeOK, Fitting, Locking,
     AcknowledgedKept, At
<1>6. QED
  BY <1>1, <1>2, <1>3, <1>4, <1>5, UpdateStep, LockStep, AppendStep, CutStep
     DEF DeskNext, TicketRequests, AgentRequests, CourierRequests

LEMMA DeskInvariant == DeskSpec => []DeskInv
  BY DeskInitInv, DeskStep, PTL DEF DeskSpec

\* Every call keeps tickets, bookings and its locals within their types.
THEOREM DeskTypeCorrect == DeskSpec => []DeskTypeOK
<1>1. DeskInv => DeskTypeOK
  BY DEF DeskInv
<1>2. QED
  BY <1>1, DeskInvariant, PTL

\* What a call was told is stored is in its list, once, however the calls
\* overlap or are cut off.
THEOREM NothingAcknowledgedIsLost == DeskSpec => []AcknowledgedKept
<1>1. DeskInv => AcknowledgedKept
  BY DEF DeskInv
<1>2. QED
  BY <1>1, DeskInvariant, PTL

-----------------------------------------------------------------------------
(***************************************************************************)
(* Bookings                                                                *)
(***************************************************************************)
LEMMA BookingsInitType == BookingsInit => BookingsTypeOK
  BY DEF BookingsInit, CallsInit, BookingsTypeOK

\* A worker that stands at a label holds a call of that label.
LEMMA BookingsHolding ==
  ASSUME BookingsTypeOK, NEW w \in Worker
  PROVE  /\ At(w, "createSlot") => call[w] \in
              [at : {"createSlot"}, row : SlotRow, days : 1 .. Cardinality(PromoSlot)]
         /\ At(w, "findTier") => call[w] \in
              [at : {"findTier"}, slot : PromoSlot, tier : DurationTier]
         /\ At(w, "createBooking") => call[w] \in [at : {"createBooking"}, row : BookingRow]
         /\ call[w].at \in {"cancel", "suspend", "refund"} => call[w] \in
              [at : {"cancel", "suspend", "refund"}, id : SlotBooking]
<1>1. call[w] = Idle \/ call[w] \in BookingCall
  BY DEF BookingsTypeOK
<1>2. call[w] = Idle => call[w].at = "idle"
  BY DEF Idle
<1>3. QED
  BY <1>1, <1>2 DEF BookingCall, At

\* A call that is set to one of the types keeps call typed.
LEMMA BecomeType ==
  ASSUME BookingsTypeOK, NEW w \in Worker, NEW c \in {Idle} \cup BookingCall, Become(w, c)
  PROVE  call' \in [Worker -> {Idle} \cup BookingCall]
  BY DEF BookingsTypeOK, Become

\* What an administrator offers stays of its type.
LEMMA OfferType ==
  ASSUME BookingsTypeOK,
         \/ CreateSlotType \/ UpdateSlotType \/ DeleteSlotType
         \/ CreateTier \/ UpdateTier \/ DeleteTier
  PROVE  BookingsTypeOK'
<1> USE DEF BookingsTypeOK, callVars, SlotTypeRow, TierRow, Types, Tiers
<1>1. CASE CreateSlotType
  BY <1>1 DEF CreateSlotType
<1>2. CASE UpdateSlotType
  BY <1>2 DEF UpdateSlotType
<1>3. CASE DeleteSlotType
  BY <1>3 DEF DeleteSlotType
<1>4. CASE CreateTier
  BY <1>4 DEF CreateTier
<1>5. CASE UpdateTier
  BY <1>5 DEF UpdateTier
<1>6. CASE DeleteTier
  <2>1. PICK t \in Tiers : tier' = [tier EXCEPT ![t].deleted = TRUE, ![t].active = FALSE]
    BY <1>6 DEF DeleteTier
  <2>2. t \in DurationTier /\ tier[t] \in TierRow
    OBVIOUS
  <2>3. tier' = [tier EXCEPT ![t] = [[tier[t] EXCEPT !.deleted = TRUE] EXCEPT !.active = FALSE]]
    BY <2>1, <2>2
  <2>4. [[tier[t] EXCEPT !.deleted = TRUE] EXCEPT !.active = FALSE] \in TierRow
    BY <2>2
  <2>5. tier' \in [DurationTier -> TierRow \cup {Nil}]
    BY <2>2, <2>3, <2>4
  <2>6. QED
    BY <1>6, <2>5 DEF DeleteTier
<1>7. QED
  BY <1>1, <1>2, <1>3, <1>4, <1>5, <1>6

\* Slots are generated day by day.
LEMMA GenerateType ==
  ASSUME BookingsTypeOK, NEW w \in Worker, GenerateSlots(w) \/ CreateSlot(w)
  PROVE  BookingsTypeOK'
<1>1. CASE GenerateSlots(w)
  <2>1. PICK type \in Types, capacity \in Capacity, days \in 1 .. Cardinality(PromoSlot) :
          Become(w, [at |-> "createSlot", days |-> days,
                     row |-> [type |-> type, capacity |-> capacity, bookedCount |-> 0]])
    BY <1>1 DEF GenerateSlots, Begin
  <2>2. [at |-> "createSlot", days |-> days,
         row |-> [type |-> type, capacity |-> capacity, bookedCount |-> 0]] \in BookingCall
    BY DEF BookingCall, SlotRow, Types
  <2>3. call' \in [Worker -> {Idle} \cup BookingCall]
    BY <2>1, <2>2, BecomeType
  <2>4. QED
    BY <1>1, <2>3 DEF GenerateSlots, bookingVars, BookingsTypeOK
<1>2. CASE CreateSlot(w)
  <2>1. call[w] \in [at : {"createSlot"}, row : SlotRow, days : 1 .. Cardinality(PromoSlot)]
    BY <1>2, BookingsHolding DEF CreateSlot
  <2>2. call[w].days # 1 => [call[w] EXCEPT !.days = @ - 1] \in BookingCall
    <3>1. SUFFICES ASSUME call[w].days # 1
                   PROVE  [call[w] EXCEPT !.days = @ - 1] \in
                            [at : {"createSlot"}, row : SlotRow, days : 1 .. Cardinality(PromoSlot)]
      BY DEF BookingCall
    <3>2. call[w].days - 1 \in 1 .. Cardinality(PromoSlot)
      <4>1. Cardinality(PromoSlot) \in Nat
        BY BookingAssumption, FS_CardinalityType
      <4>2. call[w].days \in 1 .. Cardinality(PromoSlot)
        BY <2>1
      <4>3. QED
        BY <3>1, <4>1, <4>2
    <3>3. QED
      BY <2>1, <3>2
  <2>3. call' \in [Worker -> {Idle} \cup BookingCall]
    BY <1>2, <2>2, BecomeType DEF CreateSlot, Return
  <2>4. slot' \in [PromoSlot -> SlotRow \cup {Nil}]
    BY <1>2, <2>1 DEF CreateSlot, BookingsTypeOK
  <2>5. QED
    BY <1>2, <2>3, <2>4 DEF CreateSlot, BookingsTypeOK
<1>3. QED
  BY <1>1, <1>2

\* A booking is made in three steps.
LEMMA BookType ==
  ASSUME BookingsTypeOK, NEW w \in Worker, BeginBooking(w) \/ FindTier(w) \/ CreateBooking(w)
  PROVE  BookingsTypeOK'
<1>1. CASE BeginBooking(w)
  <2>1. PICK s \in Slots, t \in DurationTier :
          Become(w, [at |-> "findTier", slot |-> s, tier |-> t])
    BY <1>1 DEF BeginBooking, Begin
  <2>2. [at |-> "findTier", slot |-> s, tier |-> t] \in BookingCall
    BY DEF BookingCall, Slots
  <2>3. call' \in [Worker -> {Idle} \cup BookingCall]
    BY <2>1, <2>2, BecomeType
  <2>4. QED
    BY <1>1, <2>3 DEF BeginBooking, bookingVars, BookingsTypeOK
<1>2. CASE FindTier(w)
  <2> DEFINE t == call[w].tier
             row == [slot |-> call[w].slot, tier |-> t, amount |-> tier[t].price,
                     status |-> "pending_payment", payment |-> "unpaid"]
  <2>1. call[w] \in [at : {"findTier"}, slot : PromoSlot, tier : DurationTier]
    BY <1>2, BookingsHolding DEF FindTier
  <2>2. t \in Tiers => tier[t].price \in PriceNGN
    BY <2>1 DEF Tiers, BookingsTypeOK, TierRow
  <2>3. t \in Tiers => [at |-> "createBooking", row |-> row] \in BookingCall
    BY <2>1, <2>2 DEF BookingCall, BookingRow, BookingStatus
  <2>4. \/ Become(w, Idle)
        \/ t \in Tiers /\ Become(w, [at |-> "createBooking", row |-> row])
    BY <1>2 DEF FindTier, Return
  <2>5. call' \in [Worker -> {Idle} \cup BookingCall]
    BY <2>3, <2>4, BecomeType
  <2>6. QED
    BY <1>2, <2>5 DEF FindTier, bookingVars, BookingsTypeOK
<1>3. CASE CreateBooking(w)
  <2>1. call[w].row \in BookingRow
    BY <1>3, BookingsHolding DEF CreateBooking
  <2>2. call' \in [Worker -> {Idle} \cup BookingCall]
    BY <1>3, BecomeType DEF CreateBooking, Return
  <2>3. booking' \in [SlotBooking -> BookingRow \cup {Nil}]
    BY <1>3, <2>1 DEF CreateBooking, BookingsTypeOK
  <2>4. QED
    BY <1>3, <2>2, <2>3 DEF CreateBooking, BookingsTypeOK
<1>4. QED
  BY <1>1, <1>2, <1>3

-----------------------------------------------------------------------------
\* The row of a booking that a call has found is there.
FoundIt == \A w \in Worker :
    call[w].at \in {"cancel", "suspend", "refund"} => call[w].id \in Booked

BookingsInv == BookingsTypeOK /\ FoundIt

\* FoundIt holds on while the booked rows stay, if the call that changes finds none.
LEMMA FoundStays ==
  ASSUME BookingsInv, NEW w \in Worker, NEW c, c.at \notin {"cancel", "suspend", "refund"},
         call' = [call EXCEPT ![w] = c] \/ call' = call, Booked \subseteq Booked'
  PROVE  FoundIt'
  BY DEF BookingsInv, BookingsTypeOK, FoundIt, At

\* The handlers that begin with a booking they have found.
LEMMA BeginStep ==
  ASSUME BookingsInv, NEW w \in Worker, BeginCancel(w) \/ BeginDecision(w)
  PROVE  BookingsInv'
<1> USE DEF BookingsInv
<1> DEFINE Cancelling(b) == [at |-> "cancel", id |-> b]
           Deciding(b, at) == [at |-> at, id |-> b]
<1>1. PICK b \in Booked :
        \E c \in {Cancelling(b), Deciding(b, "suspend"), Deciding(b, "refund")} : Become(w, c)
  BY DEF BeginCancel, BeginDecision, Begin
<1>2. PICK c \in {Cancelling(b), Deciding(b, "suspend"), Deciding(b, "refund")} : Become(w, c)
  BY <1>1
<1>3. UNCHANGED bookingVars
  BY DEF BeginCancel, BeginDecision
<1>4. c \in BookingCall /\ c.id = b
  <2>1. b \in SlotBooking
    BY DEF Booked
  <2>2. CASE c = Cancelling(b)
    BY <2>1, <2>2 DEF BookingCall
  <2>3. CASE c = Deciding(b, "suspend")
    BY <2>1, <2>3 DEF BookingCall
  <2>4. CASE c = Deciding(b, "refund")
    BY <2>1, <2>4 DEF BookingCall
  <2>5. QED
    BY <2>2, <2>3, <2>4
<1>5. BookingsTypeOK'
  <2>1. call' \in [Worker -> {Idle} \cup BookingCall]
    BY <1>2, <1>4, BecomeType
  <2>2. QED
    BY <1>3, <2>1 DEF bookingVars, BookingsTypeOK
<1>6. FoundIt'
  <2>1. call' = [call EXCEPT ![w] = c] /\ Booked' = Booked
    BY <1>2, <1>3 DEF Become, Booked, bookingVars
  <2>2. QED
    BY <1>4, <2>1 DEF FoundIt, At, BookingsTypeOK
<1>7. QED
  BY <1>5, <1>6

\* The handlers that write columns of a booking put another row in its place.
LEMMA WriteBooked ==
  ASSUME BookingsInv, NEW w \in Worker,
         CancelBooking(w) \/ SuspendBooking(w) \/ AdminRefundBooking(w)
  PROVE  /\ call[w].id \in Booked /\ booking[call[w].id] \in BookingRow
         /\ \E row \in BookingRow : booking' = [booking EXCEPT ![call[w].id] = row]
<1> USE DEF BookingsInv
<1> DEFINE b == call[w].id
<1>1. b \in Booked
  BY DEF CancelBooking, SuspendBooking, AdminRefundBooking, FoundIt, At
<1>2. booking[b] \in BookingRow
  BY <1>1 DEF Booked, BookingsTypeOK
<1>3. CASE CancelBooking(w)
  <2>1. booking' = [booking EXCEPT ![b] = [booking[b] EXCEPT !.status = "cancelled"]]
    BY <1>3 DEF CancelBooking
  <2>2. [booking[b] EXCEPT !.status = "cancelled"] \in BookingRow
    BY <1>2 DEF BookingRow, BookingStatus
  <2>3. QED
    BY <1>1, <1>2, <2>1, <2>2
<1>4. CASE SuspendBooking(w)
  <2>1. booking' = [booking EXCEPT ![b] = [booking[b] EXCEPT !.status = "suspended"]]
    BY <1>4 DEF SuspendBooking
  <2>2. [booking[b] EXCEPT !.status = "suspended"] \in BookingRow
    BY <1>2 DEF BookingRow, BookingStatus
  <2>3. QED
    BY <1>1, <1>2, <2>1, <2>2
<1>5. CASE AdminRefundBooking(w)
  <2> DEFINE row == [booking[b] EXCEPT !.status = "cancelled", !.payment = "refunded"]
  <2>1. booking' = [booking EXCEPT ![b] = row]
    BY <1>1, <1>2, <1>5 DEF AdminRefundBooking, BookingsTypeOK, Booked
  <2>2. row \in BookingRow
    BY <1>2 DEF BookingRow, BookingStatus
  <2>3. QED
    BY <1>1, <1>2, <2>1, <2>2
<1>6. QED
  BY <1>3, <1>4, <1>5

LEMMA WriteStep ==
  ASSUME BookingsInv, NEW w \in Worker,
         CancelBooking(w) \/ SuspendBooking(w) \/ AdminRefundBooking(w)
  PROVE  BookingsInv'
<1>1. call[w].id \in Booked
  BY WriteBooked
<1>2. PICK row \in BookingRow : booking' = [booking EXCEPT ![call[w].id] = row]
  BY WriteBooked
<1>3. Become(w, Idle) /\ UNCHANGED <<slotType, tier, slot>>
  BY DEF CancelBooking, SuspendBooking, AdminRefundBooking, Return
<1>4. call' \in [Worker -> {Idle} \cup BookingCall]
  BY <1>3, BecomeType DEF BookingsInv
<1>5. BookingsTypeOK'
  BY <1>1, <1>2, <1>3, <1>4 DEF BookingsInv, BookingsTypeOK, Booked
<1>6. Booked \subseteq Booked'
  BY <1>1, <1>2, RowAssumption DEF BookingsInv, BookingsTypeOK, Booked
<1>7. FoundIt'
  BY <1>3, <1>6, FoundStays DEF Become, Idle
<1>8. QED
  BY <1>5, <1>7 DEF BookingsInv

-----------------------------------------------------------------------------
LEMMA BookingsInitInv == BookingsInit => BookingsInv
  BY BookingsInitType DEF BookingsInit, CallsInit, BookingsInv, FoundIt, At, Idle

\* The steps that leave the bookings there are as they are, and find none.
LEMMA OtherStep ==
  ASSUME BookingsInv, NEW w \in Worker,
         \/ CreateSlotType \/ UpdateSlotType \/ DeleteSlotType
         \/ CreateTier \/ UpdateTier \/ DeleteTier
         \/ GenerateSlots(w) \/ CreateSlot(w)
         \/ BeginBooking(w) \/ FindTier(w) \/ CreateBooking(w)
         \/ CutOff(w) /\ UNCHANGED bookingVars
  PROVE  BookingsInv'
<1> USE DEF BookingsInv
<1>1. BookingsTypeOK'
  <2>1. CASE CutOff(w) /\ UNCHANGED bookingVars
    BY <2>1 DEF CutOff, Return, Become, bookingVars, BookingsTypeOK
  <2>2. QED
    BY <2>1, OfferType, GenerateType, BookType
<1>2. booking' = booking \/ CreateBooking(w)
  BY DEF CreateSlotType, UpdateSlotType, DeleteSlotType, CreateTier, UpdateTier, DeleteTier,
         GenerateSlots, CreateSlot, BeginBooking, FindTier, bookingVars
<1>3. Booked \subseteq Booked'
  <2>1. CASE booking' = booking
    BY <2>1 DEF Booked
  <2>2. CASE CreateBooking(w)
    BY <2>2 DEF CreateBooking, Booked, BookingsTypeOK
  <2>3. QED
    BY <1>2, <2>1, <2>2
<1>4. \/ call' = call
      \/ \E c : c.at \notin {"cancel", "suspend", "refund"} /\ call' = [call EXCEPT ![w] = c]
  <2>1. CASE \/ CreateSlotType \/ UpdateSlotType \/ DeleteSlotType
             \/ CreateTier \/ UpdateTier \/ DeleteTier
    BY <2>1 DEF CreateSlotType, UpdateSlotType, DeleteSlotType, CreateTier, UpdateTier,
         DeleteTier, callVars
  <2>2. CASE GenerateSlots(w)
    BY <2>2 DEF GenerateSlots, Begin, Become
  <2>3. CASE CreateSlot(w)
    BY <2>3, BookingsHolding DEF CreateSlot, Return, Become, Idle
  <2>4. CASE BeginBooking(w)
    BY <2>4 DEF BeginBooking, Begin, Become
  <2>5. CASE FindTier(w)
    BY <2>5 DEF FindTier, Return, Become, Idle
  <2>6. CASE CreateBooking(w) \/ CutOff(w)
    BY <2>6 DEF CreateBooking, CutOff, Return, Become, Idle
  <2>7. QED
    BY <2>1, <2>2, <2>3, <2>4, <2>5, <2>6
<1>5. FoundIt'
  <2>1. CASE call' = call
    BY <1>3, <2>1 DEF FoundIt, At
  <2>2. CASE \E c : c.at \notin {"cancel", "suspend", "refund"} /\ call' = [call EXCEPT ![w] = c]
    BY <1>3, <2>2, FoundStays
  <2>3. QED
    BY <1>4, <2>1, <2>2
<1>6. QED
  BY <1>1, <1>5

LEMMA BookingsStep == BookingsInv /\ [BookingsNext]_bookingsVars => BookingsInv'
<1> SUFFICES ASSUME BookingsInv, [BookingsNext]_bookingsVars
             PROVE  BookingsInv'
  OBVIOUS
<1>1. CASE UNCHANGED bookingsVars
  BY <1>1 DEF bookingsVars, bookingVars, callVars, BookingsInv, BookingsTypeOK, FoundIt, Booked
<1>2. ASSUME NEW w \in Worker, CancelBooking(w) \/ SuspendBooking(w) \/ AdminRefundBooking(w)
      PROVE  BookingsInv'
  BY <1>2, WriteStep
<1>3. ASSUME NEW w \in Worker, BeginCancel(w) \/ BeginDecision(w)
      PROVE  BookingsInv'
  BY <1>3, BeginStep
<1>4. ASSUME NEW w \in Worker,
             \/ CreateSlotType \/ UpdateSlotType \/ DeleteSlotType
             \/ CreateTier \/ UpdateTier \/ DeleteTier
             \/ GenerateSlots(w) \/ CreateSlot(w)
             \/ BeginBooking(w) \/ FindTier(w) \/ CreateBooking(w)
             \/ CutOff(w) /\ UNCHANGED bookingVars
      PROVE  BookingsInv'
  BY <1>4, OtherStep
<1>5. QED
  BY <1>1, <1>2, <1>3, <1>4 DEF BookingsNext, SlotAdminRequests, SlotSellerRequests

LEMMA BookingsInvariant == BookingsSpec => []BookingsInv
  BY BookingsInitInv, BookingsStep, PTL DEF BookingsSpec

\* Every call keeps what is offered, the bookings and its locals within their types.
THEOREM BookingsTypeCorrect == BookingsSpec => []BookingsTypeOK
<1>1. BookingsInv => BookingsTypeOK
  BY DEF BookingsInv
<1>2. QED
  BY <1>1, BookingsInvariant, PTL

-----------------------------------------------------------------------------
(***************************************************************************)
(* Reviews and ratings                                                     *)
(***************************************************************************)
\* A call is about to sum the reviews of a product up, or to write their sum.
Due(p) == \E w \in Worker :
    /\ call[w].at \in {"sumUp", "writeRating"} /\ call[w].product = p
    /\ call[w].at = "writeRating" => call[w].shown = Summary(p)

\* What a call that has not been overtaken is to write is right.
UpToDate(c) == c.at = "writeRating" => c.shown = Summary(c.product)

\* A review that a call has found is in the table.
Finding(c) ==
    /\ c.at = "insertReview" => c.product \in Product /\ c.buyer \in Buyer /\ c.rating \in Rating
    /\ c.at \in {"edit", "mark"} => c.review \in Review /\ review[c.review] \in ReviewRow
    /\ c.at = "edit" => c.rating \in Rating
    /\ c.at = "mark" => c.is \in {"kept", "deleted"}

ReviewsInv ==
    /\ review \in [Review -> ReviewRow \cup {Nil}]
    /\ rating = [p \in Product |-> rating[p]]
    /\ call = [w \in Worker |-> call[w]]
    /\ faults \in Nat
    /\ \A w \in Worker : Finding(call[w])
    /\ \A w \in Worker : w \notin overtaken => UpToDate(call[w])
    /\ faults = 0 => \A p \in Product : rating[p] = Summary(p) \/ Due(p) \/ p \in outdated

\* Of products that have no reviews.
LEMMA NothingToSum ==
  ASSUME NEW p, KeptReviews(p) = {}
  PROVE  Summary(p) = [average |-> 0, count |-> 0]
<1>1. Cardinality(KeptReviews(p)) = 0
  BY FS_EmptySet
<1>2. QED
  BY <1>1 DEF Summary

LEMMA ReviewsInitInv == ReviewsInit => ReviewsInv
<1> SUFFICES ASSUME ReviewsInit
             PROVE  ReviewsInv
  OBVIOUS
<1>1. ASSUME NEW p \in Product
      PROVE  rating[p] = Summary(p)
  <2>1. KeptReviews(p) = {}
    BY DEF ReviewsInit, KeptReviews
  <2>2. QED
    BY <2>1, NothingToSum DEF ReviewsInit
<1>2. QED
  BY <1>1 DEF ReviewsInit, CallsInit, ReviewsInv, Finding, UpToDate, Idle

\* Reviews of other products do not count.
LEMMA SummaryStays ==
  ASSUME NEW p, KeptReviews(p)' = KeptReviews(p),
         \A r \in KeptReviews(p) : review'[r].rating = review[r].rating
  PROVE  Summary(p)' = Summary(p)
<1>1. [r \in KeptReviews(p) |-> review'[r].rating] = [r \in KeptReviews(p) |-> review[r].rating]
  OBVIOUS
<1>2. PICK f : f = [r \in KeptReviews(p) |-> review[r].rating]
  OBVIOUS
<1>3. PICK k : k = KeptReviews(p)
  OBVIOUS
<1>4. Summary(p) = [average |-> IF Cardinality(k) = 0 THEN 0
                                ELSE (20 * SumFunction(f) + Cardinality(k)) \div (2 * Cardinality(k)),
                    count |-> Cardinality(k)]
  BY <1>2, <1>3 DEF Summary
<1>5. Summary(p)' = [average |-> IF Cardinality(k) = 0 THEN 0
                                 ELSE (20 * SumFunction(f) + Cardinality(k)) \div (2 * Cardinality(k)),
                     count |-> Cardinality(k)]
  BY <1>1, <1>2, <1>3 DEF Summary
<1>6. QED
  BY <1>4, <1>5

LEMMA SameReviews ==
  ASSUME UNCHANGED review, NEW p
  PROVE  Summary(p)' = Summary(p)
<1>1. KeptReviews(p)' = KeptReviews(p)
  BY DEF KeptReviews
<1>2. QED
  BY <1>1, SummaryStays

LEMMA OneReviewChanged ==
  ASSUME ReviewsInv, NEW r \in Review, NEW row, review' = [review EXCEPT ![r] = row],
         NEW p, row.product # p, r \notin KeptReviews(p)
  PROVE  Summary(p)' = Summary(p)
<1>1. \A q \in Review : q # r => review'[q] = review[q]
  BY DEF ReviewsInv
<1>2. review'[r] = row
  BY DEF ReviewsInv
<1>3. KeptReviews(p)' = KeptReviews(p)
  <2>1. ASSUME NEW q \in Review
        PROVE  q \in KeptReviews(p)' <=> q \in KeptReviews(p)
    <3>1. CASE q = r
      BY <1>2, <3>1 DEF KeptReviews
    <3>2. CASE q # r
      BY <1>1, <3>2 DEF KeptReviews
    <3>3. QED
      BY <3>1, <3>2
  <2>2. KeptReviews(p) \subseteq Review /\ KeptReviews(p)' \subseteq Review
    BY DEF KeptReviews
  <2>3. QED
    BY <2>1, <2>2
<1>4. \A q \in KeptReviews(p) : review'[q].rating = review[q].rating
  BY <1>1 DEF KeptReviews
<1>5. QED
  BY <1>3, <1>4, SummaryStays

-----------------------------------------------------------------------------
\* What the other calls have found, and are due to write, stays.
LEMMA FindingStays ==
  ASSUME NEW c, Finding(c), \A r \in Review : review[r] \in ReviewRow => review'[r] \in ReviewRow
  PROVE  Finding(c)'
  BY DEF Finding

LEMMA FindingStep ==
  ASSUME ReviewsInv, \A r \in Review : review[r] \in ReviewRow => review'[r] \in ReviewRow,
         NEW w \in Worker, NEW c, call' = [call EXCEPT ![w] = c], Finding(c)'
  PROVE  (call = [v \in Worker |-> call[v]] /\ \A v \in Worker : Finding(call[v]))'
<1>1. call' = [v \in Worker |-> call'[v]]
  BY DEF ReviewsInv
<1>2. ASSUME NEW v \in Worker
      PROVE  Finding(call[v])'
  <2>1. PICK d : d = call'[v]
    OBVIOUS
  <2>2. CASE v = w
    <3>1. d = c
      BY <2>1, <2>2 DEF ReviewsInv
    <3>2. QED
      BY <2>1, <3>1 DEF Finding
  <2>3. CASE v # w
    <3>1. d = call[v]
      BY <2>1, <2>3 DEF ReviewsInv
    <3>2. Finding(d)'
      BY <3>1, FindingStays DEF ReviewsInv
    <3>3. QED
      BY <2>1, <3>2 DEF Finding
  <2>4. QED
    BY <2>2, <2>3
<1>3. QED
  BY <1>1, <1>2

LEMMA UpToDateStep ==
  ASSUME ReviewsInv, NEW w \in Worker, NEW c, call' = [call EXCEPT ![w] = c], UpToDate(c)',
         \A v \in Worker : v # w /\ v \notin overtaken' /\ call[v].at = "writeRating" =>
           /\ v \notin overtaken
           /\ \A p : p = call[v].product => Summary(p)' = Summary(p)
  PROVE  (\A v \in Worker : v \notin overtaken => UpToDate(call[v]))'
<1> SUFFICES ASSUME NEW v \in Worker, v \notin overtaken'
             PROVE  UpToDate(call[v])'
  OBVIOUS
<1>1. PICK d : d = call'[v]
  OBVIOUS
<1>2. CASE v = w
  <2>1. d = c
    BY <1>1, <1>2 DEF ReviewsInv
  <2>2. QED
    BY <1>1, <2>1 DEF UpToDate
<1>3. CASE v # w
  <2>1. d = call[v]
    BY <1>1, <1>3 DEF ReviewsInv
  <2>2. CASE d.at = "writeRating"
    <3>1. PICK p : p = d.product
      OBVIOUS
    <3>2. v \notin overtaken /\ Summary(p)' = Summary(p)
      BY <1>3, <2>1, <2>2, <3>1
    <3>3. d.shown = Summary(p)
      BY <2>1, <2>2, <3>1, <3>2 DEF ReviewsInv, UpToDate
    <3>4. d.shown = Summary(p)'
      BY <3>2, <3>3
    <3>5. QED
      BY <1>1, <3>1, <3>4 DEF UpToDate
  <2>3. CASE d.at # "writeRating"
    BY <1>1, <2>3 DEF UpToDate
  <2>4. QED
    BY <2>2, <2>3
<1>4. QED
  BY <1>2, <1>3

LEMMA DueStays ==
  ASSUME ReviewsInv, NEW p, Due(p), Summary(p)' = Summary(p),
         NEW w \in Worker, NEW c, call' = [call EXCEPT ![w] = c],
         ~(call[w].at \in {"sumUp", "writeRating"} /\ call[w].product = p)
  PROVE  Due(p)'
<1>1. PICK v \in Worker : /\ call[v].at \in {"sumUp", "writeRating"} /\ call[v].product = p
                          /\ call[v].at = "writeRating" => call[v].shown = Summary(p)
  BY DEF Due
<1>2. v # w /\ call'[v] = call[v]
  BY <1>1 DEF ReviewsInv
<1>3. QED
  BY <1>1, <1>2 DEF Due

\* A call that stood before neither sum nor write, and has changed no review,
\* leaves everything due.
LEMMA NothingReviewed ==
  ASSUME ReviewsInv, UNCHANGED <<reviewVars, faults>>,
         NEW w \in Worker, NEW c, call' = [call EXCEPT ![w] = c], Finding(c),
         call[w].at \notin {"sumUp", "writeRating"}, c.at # "writeRating"
  PROVE  ReviewsInv'
<1> USE DEF reviewVars, reviewHistory
<1>1. Finding(c)' /\ UpToDate(c)'
  BY DEF Finding, UpToDate
<1>2. (call = [v \in Worker |-> call[v]] /\ \A v \in Worker : Finding(call[v]))'
  BY <1>1, FindingStep
<1>1a. \A p : Summary(p)' = Summary(p)
  BY SameReviews
<1>2a. (\A v \in Worker : v \notin overtaken => UpToDate(call[v]))'
  BY <1>1, <1>1a, UpToDateStep
<1>3. ASSUME faults' = 0, NEW p \in Product
      PROVE  rating'[p] = Summary(p)' \/ Due(p)' \/ p \in outdated'
  <2>1. Summary(p)' = Summary(p)
    BY SameReviews
  <2>2. rating[p] = Summary(p) \/ Due(p) \/ p \in outdated
    BY <1>3 DEF ReviewsInv
  <2>3. Due(p) => Due(p)'
    BY <2>1, DueStays
  <2>4. QED
    BY <2>1, <2>2, <2>3
<1>4. QED
  BY <1>2, <1>2a, <1>3 DEF ReviewsInv

\* A review of one product changes, and the call goes on to sum up.
LEMMA ReviewedStep ==
  ASSUME ReviewsInv, NEW r \in Review, NEW row \in ReviewRow, review' = [review EXCEPT ![r] = row],
         NEW w \in Worker, call[w].at \notin {"sumUp", "writeRating"}, Changed(w, row.product),
         \A p : r \in KeptReviews(p) => p = row.product
  PROVE  ReviewsInv'
<1>1. review' \in [Review -> ReviewRow \cup {Nil}]
  BY DEF ReviewsInv
<1>2. \A q \in Review : review[q] \in ReviewRow => review'[q] \in ReviewRow
  BY DEF ReviewsInv
<1>3. PICK c : c = [at |-> "sumUp", product |-> row.product]
  OBVIOUS
<1>3a. call' = [call EXCEPT ![w] = c] /\ UNCHANGED <<rating, outdated, faults>>
  BY <1>3 DEF Changed, Become
<1>4. Finding(c)' /\ UpToDate(c)'
  BY <1>3 DEF Finding, UpToDate
<1>5. (call = [v \in Worker |-> call[v]] /\ \A v \in Worker : Finding(call[v]))'
  BY <1>2, <1>3a, <1>4, FindingStep
<1>5a. ASSUME NEW p, p # row.product
       PROVE  Summary(p)' = Summary(p)
  BY <1>5a, OneReviewChanged
<1>5b. ASSUME NEW v \in Worker, v \notin overtaken', call[v].at = "writeRating"
       PROVE  /\ v \notin overtaken
              /\ \A p : p = call[v].product => Summary(p)' = Summary(p)
  <2>1. v \notin overtaken /\ call[v].product # row.product
    BY <1>5b DEF Changed, At
  <2>2. QED
    BY <1>5a, <2>1
<1>5c. (\A v \in Worker : v \notin overtaken => UpToDate(call[v]))'
  BY <1>3a, <1>4, <1>5b, UpToDateStep
<1>6. ASSUME faults' = 0, NEW p \in Product
      PROVE  rating'[p] = Summary(p)' \/ Due(p)' \/ p \in outdated'
  <2>1. CASE p = row.product
    <3>1. call'[w] = c
      BY <1>3a DEF ReviewsInv
    <3>2. Due(p)'
      BY <1>3, <2>1, <3>1 DEF Due
    <3>3. QED
      BY <3>2
  <2>2. CASE p # row.product
    <3>1. Summary(p)' = Summary(p)
      BY <1>5a, <2>2
    <3>2. rating[p] = Summary(p) \/ Due(p) \/ p \in outdated
      BY <1>3a, <1>6 DEF ReviewsInv
    <3>3. Due(p) => Due(p)'
      BY <1>3a, <3>1, DueStays
    <3>4. QED
      BY <1>3a, <3>1, <3>2, <3>3
  <2>3. QED
    BY <2>1, <2>2
<1>7. QED
  BY <1>1, <1>3a, <1>5, <1>5c, <1>6 DEF ReviewsInv

LEMMA ReviewsStep == ReviewsInv /\ [ReviewsNext]_reviewsVars => ReviewsInv'
<1> SUFFICES ASSUME ReviewsInv, [ReviewsNext]_reviewsVars
             PROVE  ReviewsInv'
  OBVIOUS
<1> USE DEF callVars, At, Begin, Become, Return
<1>0. ASSUME UNCHANGED <<reviewVars, callVars>>
      PROVE  ReviewsInv'
  <2>1. UNCHANGED <<review, rating, overtaken, outdated, call, faults>>
    BY <1>0 DEF reviewVars, reviewHistory
  <2>2. \A p : Summary(p)' = Summary(p)
    BY <2>1, SameReviews
  <2>3. \A p : Due(p)' <=> Due(p)
    BY <2>1, <2>2 DEF Due
  <2>4. \A w \in Worker : Finding(call[w])'
    BY <2>1 DEF ReviewsInv, Finding
  <2>5. \A w \in Worker : w \notin overtaken' => UpToDate(call[w])'
    BY <2>1, <2>2 DEF ReviewsInv, UpToDate
  <2>6. QED
    BY <2>1, <2>2, <2>3, <2>4, <2>5 DEF ReviewsInv
<1>1. CASE ProductsStep /\ UNCHANGED reviewVars
  <2>1. UNCHANGED callVars
    BY <1>1 DEF ProductsStep, ProductRequests, ModerationRequests, CreateProduct, UpdateProduct,
                RemoveProduct, ToggleStatus, ApproveProduct, RejectProduct, Put
  <2>2. QED
    BY <1>0, <1>1, <2>1
<1>2. ASSUME NEW w \in Worker, CreateReview(w)
      PROVE  ReviewsInv'
  <2>1. PICK p \in Product, b \in Buyer, n \in Rating : call' = [call EXCEPT ![w] =
          [at |-> "insertReview", product |-> p, buyer |-> b, rating |-> n]]
    BY <1>2 DEF CreateReview, OnSale
  <2>2. UNCHANGED <<reviewVars, faults>> /\ call[w].at = "idle"
    BY <1>2 DEF CreateReview
  <2>3. Finding([at |-> "insertReview", product |-> p, buyer |-> b, rating |-> n])
    BY DEF Finding
  <2>4. QED
    BY <2>1, <2>2, <2>3, NothingReviewed
<1>3. ASSUME NEW w \in Worker, UpdateOwnReview(w)
      PROVE  ReviewsInv'
  <2>1. PICK r \in Review, n \in Rating :
          /\ review[r] # Nil
          /\ call' = [call EXCEPT ![w] = [at |-> "edit", review |-> r, rating |-> n]]
    BY <1>3 DEF UpdateOwnReview
  <2>2. UNCHANGED <<reviewVars, faults>> /\ call[w].at = "idle"
    BY <1>3 DEF UpdateOwnReview
  <2>3. Finding([at |-> "edit", review |-> r, rating |-> n])
    BY <2>1, <2>2 DEF Finding, ReviewsInv, reviewVars
  <2>4. QED
    BY <2>1, <2>2, <2>3, NothingReviewed
<1>4. ASSUME NEW w \in Worker, DeleteOwnReview(w) \/ ModerateReview(w)
      PROVE  ReviewsInv'
  <2>1. PICK r \in Review, is \in {"kept", "deleted"} :
          /\ review[r] # Nil
          /\ call' = [call EXCEPT ![w] = [at |-> "mark", review |-> r, is |-> is]]
    BY <1>4 DEF DeleteOwnReview, ModerateReview
  <2>2. UNCHANGED <<reviewVars, faults>> /\ call[w].at = "idle"
    BY <1>4 DEF DeleteOwnReview, ModerateReview
  <2>3. Finding([at |-> "mark", review |-> r, is |-> is])
    BY <2>1, <2>2 DEF Finding, ReviewsInv, reviewVars
  <2>4. QED
    BY <2>1, <2>2, <2>3, NothingReviewed
<1>5. ASSUME NEW w \in Worker, InsertReview(w)
      PROVE  ReviewsInv'
  <2>0. PICK c : c = call[w]
    OBVIOUS
  <2>1a. PICK r \in Review : \E row :
          /\ review[r] = Nil
          /\ row = [is |-> "kept", product |-> c.product, buyer |-> c.buyer, rating |-> c.rating]
          /\ review' = [review EXCEPT ![r] = row]
    BY <1>5, <2>0 DEF InsertReview
  <2>1. PICK row :
          /\ review[r] = Nil
          /\ row = [is |-> "kept", product |-> c.product, buyer |-> c.buyer, rating |-> c.rating]
          /\ review' = [review EXCEPT ![r] = row]
    BY <2>1a
  <2>2. c.at = "insertReview" /\ Changed(w, row.product)
    BY <1>5, <2>0, <2>1 DEF InsertReview
  <2>3. row \in ReviewRow
    <3>1. c.product \in Product /\ c.buyer \in Buyer /\ c.rating \in Rating
      BY <2>0, <2>2 DEF ReviewsInv, Finding
    <3>2. QED
      BY <2>1, <3>1 DEF ReviewRow
  <2>4. \A p : r \notin KeptReviews(p)
    BY <2>1 DEF KeptReviews
  <2>5. QED
    BY <2>0, <2>1, <2>2, <2>3, <2>4, ReviewedStep
<1>6. ASSUME NEW w \in Worker, Edit(w) \/ Mark(w)
      PROVE  ReviewsInv'
  <2>0. PICK c, r : c = call[w] /\ r = c.review
    OBVIOUS
  <2>1. r \in Review /\ review[r] \in ReviewRow /\ c.at \in {"edit", "mark"}
    BY <1>6, <2>0 DEF Edit, Mark, ReviewsInv, Finding
  <2>2. PICK row : row = IF c.at = "edit" THEN [review[r] EXCEPT !.rating = c.rating]
                         ELSE [review[r] EXCEPT !.is = c.is]
    OBVIOUS
  <2>3. review' = [review EXCEPT ![r] = row]
    BY <1>6, <2>0, <2>1, <2>2 DEF Edit, Mark, ReviewsInv
  <2>4. row \in ReviewRow /\ row.product = review[r].product
    <3>1. c.at = "edit" => c.rating \in Rating
      BY <2>0 DEF ReviewsInv, Finding
    <3>2. c.at = "mark" => c.is \in {"kept", "deleted"}
      BY <2>0 DEF ReviewsInv, Finding
    <3>3. CASE c.at = "edit"
      BY <2>1, <2>2, <3>1, <3>3 DEF ReviewRow
    <3>4. CASE c.at = "mark"
      BY <2>1, <2>2, <3>2, <3>4 DEF ReviewRow
    <3>5. QED
      BY <2>1, <3>3, <3>4
  <2>5. Changed(w, row.product)
    BY <1>6, <2>0, <2>4 DEF Edit, Mark
  <2>6. \A p : r \in KeptReviews(p) => p = row.product
    BY <2>4 DEF KeptReviews
  <2>7. QED
    BY <2>0, <2>1, <2>3, <2>4, <2>5, <2>6, ReviewedStep
<1>7. ASSUME NEW w \in Worker, SumUp(w)
      PROVE  ReviewsInv'
  <2>0. PICK p, s : p = call[w].product /\ s = Summary(p)
    OBVIOUS
  <2>1. PICK c : /\ c = [at |-> "writeRating", product |-> p, shown |-> s]
                 /\ call' = [call EXCEPT ![w] = c]
    BY <1>7, <2>0 DEF SumUp
  <2>2. UNCHANGED <<review, rating, overtaken, outdated, faults>>
    BY <1>7 DEF SumUp, reviewVars, reviewHistory
  <2>2a. s = Summary(p)'
    BY <2>0, <2>2, SameReviews
  <2>3. Finding(c)' /\ UpToDate(c)'
    BY <2>1, <2>2a DEF Finding, UpToDate
  <2>2b. \A q : Summary(q)' = Summary(q)
    BY <2>2, SameReviews
  <2>3a. (\A v \in Worker : v \notin overtaken => UpToDate(call[v]))'
    BY <2>1, <2>2, <2>2b, <2>3, UpToDateStep
  <2>4. (call = [v \in Worker |-> call[v]] /\ \A v \in Worker : Finding(call[v]))'
    BY <2>1, <2>2, <2>3, FindingStep
  <2>5. ASSUME faults' = 0, NEW q \in Product
        PROVE  rating'[q] = Summary(q)' \/ Due(q)' \/ q \in outdated'
    <3>1. Summary(q)' = Summary(q)
      BY <2>2, SameReviews
    <3>2. CASE q = p
      <4>1. call'[w] = c
        BY <2>1 DEF ReviewsInv
      <4>2. Due(q)'
        BY <2>0, <2>1, <3>1, <3>2, <4>1 DEF Due
      <4>3. QED
        BY <4>2
    <3>3. CASE q # p
      <4>1. rating[q] = Summary(q) \/ Due(q) \/ q \in outdated
        BY <2>2, <2>5 DEF ReviewsInv
      <4>2. Due(q) => Due(q)'
        BY <2>0, <2>1, <3>1, <3>3, DueStays
      <4>3. QED
        BY <2>2, <3>1, <4>1, <4>2
    <3>4. QED
      BY <3>2, <3>3
  <2>6. QED
    BY <2>2, <2>3a, <2>4, <2>5 DEF ReviewsInv
<1>8. ASSUME NEW w \in Worker, WriteRating(w)
      PROVE  ReviewsInv'
  <2>0. PICK p : p = call[w].product
    OBVIOUS
  <2>1. /\ rating' = [rating EXCEPT ![p] = call[w].shown] /\ call[w].at = "writeRating"
        /\ call' = [call EXCEPT ![w] = Idle] /\ UNCHANGED <<review, faults>>
        /\ overtaken' = overtaken \ {w}
    BY <1>8, <2>0 DEF WriteRating
  <2>1a. \A q \in Product : q # p => (q \in outdated' <=> q \in outdated)
    BY <1>8, <2>0 DEF WriteRating
  <2>1b. call[w].shown = Summary(p) \/ p \in outdated'
    <3> SUFFICES ASSUME call[w].shown # Summary(p)
                 PROVE  p \in outdated'
      OBVIOUS
    <3>1. w \in overtaken
      BY <2>0, <2>1 DEF ReviewsInv, UpToDate
    <3>2. outdated' = outdated \cup {p}
      BY <1>8, <2>0, <3>1 DEF WriteRating
    <3>3. QED
      BY <3>2
  <2>2. Finding(Idle)' /\ UpToDate(Idle)'
    BY DEF Finding, UpToDate, Idle
  <2>2b. \A q : Summary(q)' = Summary(q)
    BY <2>1, SameReviews
  <2>2c. \A v \in Worker : v # w /\ v \notin overtaken' => v \notin overtaken
    BY <2>1
  <2>2a. (\A v \in Worker : v \notin overtaken => UpToDate(call[v]))'
    BY <2>1, <2>2, <2>2b, <2>2c, UpToDateStep
  <2>3. (call = [v \in Worker |-> call[v]] /\ \A v \in Worker : Finding(call[v]))'
    BY <2>1, <2>2, FindingStep
  <2>4. ASSUME faults' = 0, NEW q \in Product
        PROVE  rating'[q] = Summary(q)' \/ Due(q)' \/ q \in outdated'
    <3>1. Summary(q)' = Summary(q)
      BY <2>1, SameReviews
    <3>2. CASE q = p /\ call[w].shown = Summary(p)
      BY <2>1, <3>1, <3>2 DEF ReviewsInv
    <3>3. CASE q = p /\ p \in outdated'
      BY <3>3
    <3>4. CASE q # p
      <4>1. rating[q] = Summary(q) \/ Due(q) \/ q \in outdated
        BY <2>1, <2>4 DEF ReviewsInv
      <4>2. Due(q) => Due(q)'
        BY <2>0, <2>1, <3>1, <3>4, DueStays
      <4>3. rating'[q] = rating[q]
        BY <2>1, <3>4 DEF ReviewsInv
      <4>4. QED
        BY <2>1a, <3>1, <3>4, <4>1, <4>2, <4>3
    <3>5. QED
      BY <2>1b, <3>2, <3>3, <3>4
  <2>5. rating' = [q \in Product |-> rating'[q]]
    BY <2>1 DEF ReviewsInv
  <2>6. QED
    BY <2>1, <2>2a, <2>3, <2>4, <2>5 DEF ReviewsInv
<1>9. ASSUME NEW w \in Worker, ReviewCutOff(w)
      PROVE  ReviewsInv'
  <2>1. /\ faults' \in Nat /\ faults' # 0 /\ call' = [call EXCEPT ![w] = Idle]
        /\ UNCHANGED <<review, rating>> /\ overtaken' = overtaken \ {w}
    BY <1>9 DEF ReviewCutOff, CutOff, ReviewsInv
  <2>2. Finding(Idle)' /\ UpToDate(Idle)'
    BY DEF Finding, UpToDate, Idle
  <2>2b. \A q : Summary(q)' = Summary(q)
    BY <2>1, SameReviews
  <2>2c. \A v \in Worker : v # w /\ v \notin overtaken' => v \notin overtaken
    BY <2>1
  <2>2a. (\A v \in Worker : v \notin overtaken => UpToDate(call[v]))'
    BY <2>1, <2>2, <2>2b, <2>2c, UpToDateStep
  <2>3. (call = [v \in Worker |-> call[v]] /\ \A v \in Worker : Finding(call[v]))'
    BY <2>1, <2>2, FindingStep
  <2>4. QED
    BY <2>1, <2>2a, <2>3 DEF ReviewsInv
<1>10. CASE UNCHANGED reviewsVars
  BY <1>0, <1>10 DEF reviewsVars
<1>11. QED
  BY <1>1, <1>2, <1>3, <1>4, <1>5, <1>6, <1>7, <1>8, <1>9, <1>10 DEF ReviewsNext, OwnReviewRequests

-----------------------------------------------------------------------------
\* When no call is running, and none was cut off, a product shows the average
\* and the number of its reviews that are not deleted (syncProductRating), but
\* for one whose rating was last written by a call that another had overtaken.
THEOREM RatingsMatch == ReviewsSpec => []RatingMatches
<1>1. ReviewsInv => RatingMatches
  BY DEF ReviewsInv, RatingMatches, NobodyCalls, Due, Idle
<1>2. QED
  BY <1>1, ReviewsInitInv, ReviewsStep, PTL DEF ReviewsSpec

-----------------------------------------------------------------------------
\* The average of ratings from 1 to 5, in tenths, is at most 50.
LEMMA AverageInTenths ==
  ASSUME NEW n \in Nat \ {0}, NEW sum \in Nat, sum <= 5 * n
  PROVE  (20 * sum + n) \div (2 * n) \in 0 .. 50
<1> DEFINE a == 20 * sum + n
           b == 2 * n
           q == a \div b
<1>1. a \in Nat /\ b \in Nat \ {0} /\ a < 51 * b
  OBVIOUS
<1>2. q \in Int /\ b * q <= a /\ a < b * (q + 1)
  BY <1>1
<1>3. q >= 0
  <2>1. SUFFICES ASSUME q <= -1 PROVE FALSE
    BY <1>2
  <2>2. b * (q + 1) <= 0
    BY <1>1, <1>2, <2>1
  <2>3. QED
    BY <1>1, <1>2, <2>2
<1>4. q <= 50
  <2>1. SUFFICES ASSUME q >= 51 PROVE FALSE
    BY <1>2
  <2>2. b * q >= b * 51
    BY <1>1, <1>2, <2>1
  <2>3. QED
    BY <1>1, <1>2, <2>2
<1>5. QED
  BY <1>2, <1>3, <1>4

\* What a product shows of its reviews is of its type.
LEMMA SummaryType ==
  ASSUME IsFiniteSet(Review), review \in [Review -> ReviewRow \cup {Nil}], NEW p
  PROVE  Summary(p) \in Shown
<1> DEFINE kept == KeptReviews(p)
           f == [r \in kept |-> review[r].rating]
           five == [r \in kept |-> 5]
           n == Cardinality(kept)
           sum == SumFunction(f)
<1>1. IsFiniteSet(kept) /\ n \in Nat /\ n <= Cardinality(Review) /\ Cardinality(Review) \in Nat
  <2>1. kept \subseteq Review
    BY DEF KeptReviews
  <2>2. QED
    BY <2>1, FS_Subset, FS_CardinalityType
<1>2. \A r \in kept : f[r] \in 1 .. 5
  BY ReviewAssumption DEF KeptReviews, ReviewRow
<1>3. sum = SumFunctionOnSet(f, kept)
  BY DEF SumFunction
<1> HIDE DEF f, kept
<1>4. sum \in Nat /\ sum <= 5 * n
  <2>1. \A r \in kept : f[r] \in Nat /\ five[r] \in Nat /\ f[r] <= five[r]
    BY <1>2
  <2>2. SumFunctionOnSet(f, kept) \in Nat
    BY <1>1, <1>2, SumType
  <2>3. SumFunctionOnSet(f, kept) <= SumFunctionOnSet(five, kept)
    BY <1>1, <2>1, SumAtMost
  <2>4. SumFunctionOnSet(five, kept) = 5 * n
    BY <1>1, SumOfEquals
  <2>5. QED
    BY <1>3, <2>2, <2>3, <2>4
<1>5. Summary(p) = [average |-> IF n = 0 THEN 0 ELSE (20 * sum + n) \div (2 * n), count |-> n]
  BY DEF Summary, kept, f
<1>6. CASE n = 0
  <2>1. n \in 0 .. Cardinality(Review) /\ 0 \in 0 .. 50
    BY <1>1
  <2>2. QED
    BY <1>5, <1>6, <2>1 DEF Shown
<1>7. CASE n # 0
  <2>1. n \in Nat \ {0} /\ n \in 0 .. Cardinality(Review)
    BY <1>1, <1>7
  <2>2. (20 * sum + n) \div (2 * n) \in 0 .. 50
    <3> HIDE DEF n, sum
    <3>1. QED
      BY <1>4, <2>1, AverageInTenths
  <2>3. PICK average \in 0 .. 50 : average = (20 * sum + n) \div (2 * n)
    BY <2>2
  <2>4. Summary(p) = [average |-> average, count |-> n]
    BY <1>5, <1>7, <2>3
  <2>5. QED
    BY <2>1, <2>4 DEF Shown
<1>8. QED
  BY <1>6, <1>7

\* Sellers and admins keep the types of the products.
LEMMA ProductsTypeStep ==
  ASSUME ProductsTypeOK, ProductsStep
  PROVE  ProductsTypeOK' /\ UNCHANGED callVars
<1> USE DEF ProductsTypeOK, ProductRow, Put
<1>1. CASE CreateProduct
  BY <1>1 DEF CreateProduct
<1>2. CASE UpdateProduct
  BY <1>2 DEF UpdateProduct
<1>3. CASE RemoveProduct
  BY <1>3 DEF RemoveProduct
<1>4. CASE ToggleStatus
  BY <1>4 DEF ToggleStatus
<1>5. CASE ApproveProduct
  BY <1>5 DEF ApproveProduct
<1>6. CASE RejectProduct
  BY <1>6 DEF RejectProduct
<1>7. QED
  BY <1>1, <1>2, <1>3, <1>4, <1>5, <1>6 DEF ProductsStep, ProductRequests, ModerationRequests

LEMMA ProductsInitType == ProductsInit => ProductsTypeOK
  BY DEF ProductsInit, ProductsTypeOK, ProductRow, NoProduct

\* A review that a call has found is in the table, which no row leaves.
ReviewsTyped ==
    /\ ReviewsTypeOK
    /\ \A w \in Worker : call[w].at \in {"edit", "mark"} => review[call[w].review] \in ReviewRow

LEMMA ReviewsTypedStep ==
  ASSUME IsFiniteSet(Review), ReviewsTyped, [ReviewsNext]_reviewsVars
  PROVE  ReviewsTyped'
<1> USE DEF At, Begin, Become, Return
<1> DEFINE Typed(c) == /\ c \in {Idle} \cup ReviewCall
                       /\ c.at \in {"edit", "mark"} => review'[c.review] \in ReviewRow
<1>1. ASSUME NEW w \in Worker, NEW c, Typed(c), call' = [call EXCEPT ![w] = c],
             UNCHANGED productVars, rating' \in [Product -> Shown],
             overtaken' \subseteq Worker, outdated' \subseteq Product,
             review' \in [Review -> ReviewRow \cup {Nil}],
             \A r \in Review : review[r] \in ReviewRow => review'[r] \in ReviewRow
      PROVE  ReviewsTyped'
  <2>1. \A v \in Worker : call'[v] = IF v = w THEN c ELSE call[v]
    BY <1>1 DEF ReviewsTyped, ReviewsTypeOK
  <2>2. call' \in [Worker -> {Idle} \cup ReviewCall]
    BY <1>1 DEF ReviewsTyped, ReviewsTypeOK
  <2>3. ASSUME NEW v \in Worker, call'[v].at \in {"edit", "mark"}
        PROVE  review'[call'[v].review] \in ReviewRow
    <3>1. CASE v = w
      BY <1>1, <2>1, <2>3, <3>1
    <3>2. CASE v # w
      <4>1. call[v].review \in Review
        BY <2>1, <2>3, <3>2 DEF ReviewsTyped, ReviewsTypeOK, ReviewCall, Idle
      <4>2. QED
        BY <1>1, <2>1, <2>3, <3>2, <4>1 DEF ReviewsTyped
    <3>3. QED
      BY <3>1, <3>2
  <2>4. ProductsTypeOK'
    BY <1>1 DEF productVars, ProductsTypeOK, ReviewsTyped, ReviewsTypeOK
  <2>5. QED
    BY <1>1, <2>2, <2>3, <2>4 DEF ReviewsTyped, ReviewsTypeOK
<1>2. \A p \in Product : Typed([at |-> "sumUp", product |-> p])
  BY DEF ReviewCall
<1>3. Typed(Idle)
  BY DEF Idle
<1> HIDE DEF Typed
<1>4. CASE ProductsStep /\ UNCHANGED reviewVars
  BY <1>4, ProductsTypeStep DEF reviewVars, reviewHistory, callVars, ReviewsTyped, ReviewsTypeOK
<1>5. ASSUME NEW w \in Worker, CreateReview(w) PROVE ReviewsTyped'
  <2>1. PICK p \in Product, b \in Buyer, n \in Rating : call' = [call EXCEPT ![w] =
          [at |-> "insertReview", product |-> p, buyer |-> b, rating |-> n]]
    BY <1>5 DEF CreateReview, OnSale
  <2>2. Typed([at |-> "insertReview", product |-> p, buyer |-> b, rating |-> n])
    BY DEF ReviewCall, Typed
  <2>3. QED
    BY <1>1, <1>5, <2>1, <2>2 DEF CreateReview, reviewVars, reviewHistory, ReviewsTyped, ReviewsTypeOK
<1>6. ASSUME NEW w \in Worker, UpdateOwnReview(w) PROVE ReviewsTyped'
  <2>1. PICK r \in Review, n \in Rating :
          /\ review[r] # Nil
          /\ call' = [call EXCEPT ![w] = [at |-> "edit", review |-> r, rating |-> n]]
    BY <1>6 DEF UpdateOwnReview
  <2>2. UNCHANGED <<review, rating, overtaken, outdated, productVars>>
    BY <1>6 DEF UpdateOwnReview, reviewVars, reviewHistory
  <2>3. Typed([at |-> "edit", review |-> r, rating |-> n])
    BY <2>1, <2>2 DEF ReviewCall, Typed, ReviewsTyped, ReviewsTypeOK
  <2>4. QED
    BY <1>1, <2>1, <2>2, <2>3 DEF ReviewsTyped, ReviewsTypeOK
<1>7. ASSUME NEW w \in Worker, DeleteOwnReview(w) \/ ModerateReview(w) PROVE ReviewsTyped'
  <2>1. PICK r \in Review, is \in {"kept", "deleted"} :
          /\ review[r] # Nil
          /\ call' = [call EXCEPT ![w] = [at |-> "mark", review |-> r, is |-> is]]
    BY <1>7 DEF DeleteOwnReview, ModerateReview
  <2>2. UNCHANGED <<review, rating, overtaken, outdated, productVars>>
    BY <1>7 DEF DeleteOwnReview, ModerateReview, reviewVars, reviewHistory
  <2>3. Typed([at |-> "mark", review |-> r, is |-> is])
    BY <2>1, <2>2 DEF ReviewCall, Typed, ReviewsTyped, ReviewsTypeOK
  <2>4. QED
    BY <1>1, <2>1, <2>2, <2>3 DEF ReviewsTyped, ReviewsTypeOK
<1>8. ASSUME NEW w \in Worker, InsertReview(w) PROVE ReviewsTyped'
  <2>1. PICK c : c = call[w]
    OBVIOUS
  <2>2. c.product \in Product /\ c.buyer \in Buyer /\ c.rating \in Rating
    BY <1>8, <2>1 DEF InsertReview, ReviewsTyped, ReviewsTypeOK, ReviewCall, Idle
  <2>3. [is |-> "kept", product |-> c.product, buyer |-> c.buyer, rating |-> c.rating] \in ReviewRow
    BY <2>2 DEF ReviewRow
  <2>4. PICK r \in Review : review' = [review EXCEPT ![r] =
          [is |-> "kept", product |-> c.product, buyer |-> c.buyer, rating |-> c.rating]]
    BY <1>8, <2>1 DEF InsertReview
  <2>5. QED
    BY <1>1, <1>2, <1>8, <2>1, <2>2, <2>3, <2>4 DEF InsertReview, Changed, ReviewsTyped, ReviewsTypeOK
<1>9. ASSUME NEW w \in Worker, Edit(w) \/ Mark(w) PROVE ReviewsTyped'
  <2>1. PICK c : c = call[w]
    OBVIOUS
  <2>2. /\ c.review \in Review /\ review[c.review] \in ReviewRow
        /\ Edit(w) => c.rating \in Rating
        /\ Mark(w) => c.is \in {"kept", "deleted"}
    BY <1>9, <2>1 DEF Edit, Mark, ReviewsTyped, ReviewsTypeOK, ReviewCall, Idle
  <2>3. PICK row \in ReviewRow : review' = [review EXCEPT ![c.review] = row]
    <3>1. CASE Edit(w)
      <4>1. [review[c.review] EXCEPT !.rating = c.rating] \in ReviewRow
        BY <2>2, <3>1 DEF ReviewRow
      <4>2. QED
        BY <2>1, <3>1, <4>1 DEF Edit
    <3>2. CASE Mark(w)
      <4>1. [review[c.review] EXCEPT !.is = c.is] \in ReviewRow
        BY <2>2, <3>2 DEF ReviewRow
      <4>2. QED
        BY <2>1, <3>2, <4>1 DEF Mark
    <3>3. QED
      BY <1>9, <3>1, <3>2
  <2>4. review[c.review].product \in Product
    BY <2>2 DEF ReviewRow
  <2>5. /\ call' = [call EXCEPT ![w] = [at |-> "sumUp", product |-> review[c.review].product]]
        /\ UNCHANGED <<rating, outdated, productVars>> /\ overtaken' \subseteq Worker
    BY <1>9, <2>1 DEF Edit, Mark, Changed, ReviewsTyped, ReviewsTypeOK
  <2>6. Typed([at |-> "sumUp", product |-> review[c.review].product])
    BY <1>2, <2>4
  <2>7. /\ review' \in [Review -> ReviewRow \cup {Nil}]
        /\ \A r \in Review : review[r] \in ReviewRow => review'[r] \in ReviewRow
    BY <2>2, <2>3 DEF ReviewsTyped, ReviewsTypeOK
  <2>8. rating' \in [Product -> Shown] /\ outdated' \subseteq Product
    BY <2>5 DEF ReviewsTyped, ReviewsTypeOK
  <2>9. QED
    BY <1>1, <2>5, <2>6, <2>7, <2>8
<1>10. ASSUME NEW w \in Worker, SumUp(w) PROVE ReviewsTyped'
  <2>1. PICK c : c = call[w]
    OBVIOUS
  <2>2. c.product \in Product
    BY <1>10, <2>1 DEF SumUp, ReviewsTyped, ReviewsTypeOK, ReviewCall, Idle
  <2>3. PICK shown \in Shown : shown = Summary(c.product)
    BY SummaryType DEF ReviewsTyped, ReviewsTypeOK
  <2>4. Typed([at |-> "writeRating", product |-> c.product, shown |-> shown])
    BY <2>2 DEF ReviewCall, Typed
  <2>5. QED
    BY <1>1, <1>10, <2>1, <2>3, <2>4 DEF SumUp, reviewVars, reviewHistory, ReviewsTyped, ReviewsTypeOK
<1>11. ASSUME NEW w \in Worker, WriteRating(w) PROVE ReviewsTyped'
  <2>1. PICK c : c = call[w]
    OBVIOUS
  <2>2. c.product \in Product /\ c.shown \in Shown
    BY <1>11, <2>1 DEF WriteRating, ReviewsTyped, ReviewsTypeOK, ReviewCall, Idle
  <2>3. QED
    BY <1>1, <1>3, <1>11, <2>1, <2>2 DEF WriteRating, ReviewsTyped, ReviewsTypeOK
<1>12. ASSUME NEW w \in Worker, ReviewCutOff(w) PROVE ReviewsTyped'
  BY <1>1, <1>3, <1>12 DEF ReviewCutOff, CutOff, ReviewsTyped, ReviewsTypeOK
<1>13. CASE UNCHANGED reviewsVars
  BY <1>13 DEF reviewsVars, reviewVars, reviewHistory, productVars, callVars, ReviewsTyped, ReviewsTypeOK, ProductsTypeOK
<1>14. QED
  BY <1>4, <1>5, <1>6, <1>7, <1>8, <1>9, <1>10, <1>11, <1>12, <1>13
  DEF ReviewsNext, OwnReviewRequests

LEMMA ReviewsInitTyped == IsFiniteSet(Review) /\ ReviewsInit => ReviewsTyped
<1> SUFFICES ASSUME IsFiniteSet(Review), ReviewsInit PROVE ReviewsTyped
  OBVIOUS
<1>1. [average |-> 0, count |-> 0] \in Shown
  BY FS_CardinalityType DEF Shown
<1>2. QED
  BY <1>1, ProductsInitType DEF ReviewsInit, CallsInit, ReviewsTyped, ReviewsTypeOK, Idle

\* What a product shows of its reviews, an average of at most five stars in
\* tenths and a count of at most the reviews there are, and the reviews and the
\* calls about them stay of their types, however the calls overlap (ReviewsTypeOK).
THEOREM ReviewsTypeCorrect == IsFiniteSet(Review) => (ReviewsSpec => []ReviewsTypeOK)
<1> SUFFICES ASSUME IsFiniteSet(Review) PROVE ReviewsSpec => []ReviewsTypeOK
  OBVIOUS
<1>1. ReviewsTyped /\ [ReviewsNext]_reviewsVars => ReviewsTyped'
  BY ReviewsTypedStep
<1>2. ReviewsTyped => ReviewsTypeOK
  BY DEF ReviewsTyped
<1>3. QED
  BY <1>1, <1>2, ReviewsInitTyped, PTL DEF ReviewsSpec

-----------------------------------------------------------------------------
(***************************************************************************)
(* Campaigns and their section                                             *)
(***************************************************************************)
Column == {"status", "payment", "phase", "reference", "selected", "deleted"}

\* What each of the handlers is about to write.
Deciding(k) ==
    /\ k.campaign \in Campaign
    /\ \/ /\ k.sync = "never"
          /\ {"status", "payment"} \subseteq k.columns /\ "deleted" \notin k.columns
          /\ k.new["status"] # "live" /\ k.new["payment"] # "paid"
       \/ /\ k.sync = "removed"
          /\ k.columns = {"status", "deleted"} /\ k.new["status"] = "cancelled"
       \/ /\ k.sync = "ifLive"
          /\ "status" \in k.columns /\ k.columns \subseteq {"status", "payment"}
          /\ "payment" \in k.columns => k.new["payment"] = "paid"
          /\ "payment" \notin k.columns /\ k.new["status"] = "live" => k.paid
       \/ /\ k.sync = "ifChanged"
          /\ k.columns \subseteq {"status", "payment", "selected", "phase"}
          /\ "status" \in k.columns /\ "payment" \notin k.columns /\ k.new["status"] = "live" => k.paid

Shaped(k) ==
    /\ k.at = "askPaystack" => k.campaign \in Campaign
    /\ k.at = "write" => Deciding(k)

CampaignsShaped ==
    /\ campaign = [c \in Campaign |-> campaign[c]]
    /\ \A c \in Campaign : campaign[c] = [f \in Column |-> campaign[c][f]]

DealsInv ==
    /\ CampaignsShaped
    /\ call = [w \in Worker |-> call[w]]
    /\ \A w \in Worker : Shaped(call[w])
    /\ \A c \in Campaign \ settled : campaign[c]["status"] = "live" => campaign[c]["payment"] = "paid"

LEMMA ColumnsOfCampaign == DOMAIN NoCampaign = Column
  BY DEF NoCampaign, Column

LEMMA DealsInitInv == DealsInit => DealsInv
<1> SUFFICES ASSUME DealsInit
             PROVE  DealsInv
  OBVIOUS
<1>1. NoCampaign = [f \in Column |-> NoCampaign[f]] /\ NoCampaign["status"] = "none"
  BY DEF NoCampaign, Column
<1>2. campaign = [c \in Campaign |-> NoCampaign]
  BY DEF DealsInit
<1>3. \A c \in Campaign : campaign[c] = NoCampaign
  BY <1>2
<1>4. CampaignsShaped
  BY <1>1, <1>2, <1>3 DEF CampaignsShaped
<1>5. Shaped(Idle)
  BY DEF Shaped, Idle
<1>6. call = [w \in Worker |-> Idle]
  BY DEF DealsInit, CallsInit
<1>7. (call = [w \in Worker |-> call[w]]) /\ \A w \in Worker : call[w] = Idle
  BY <1>6
<1>8. \A w \in Worker : Shaped(call[w])
  BY <1>5, <1>7
<1>9. \A c \in Campaign \ settled : campaign[c]["status"] # "live"
  BY <1>1, <1>3
<1>10. QED
  BY <1>4, <1>7, <1>8, <1>9 DEF DealsInv

\* One call goes on.
LEMMA CallsShaped ==
  ASSUME call = [w \in Worker |-> call[w]], \A w \in Worker : Shaped(call[w]),
         NEW w \in Worker, NEW k, Shaped(k), call' = [call EXCEPT ![w] = k]
  PROVE  (call = [v \in Worker |-> call[v]] /\ \A v \in Worker : Shaped(call[v]))'
<1>1. \A v \in Worker : call'[v] = IF v = w THEN k ELSE call[v]
  OBVIOUS
<1>2. QED
  BY <1>1 DEF Shaped, Deciding

LEMMA CallGoesOn ==
  ASSUME DealsInv, UNCHANGED <<campaign, settled>>,
         NEW w \in Worker, NEW k, Shaped(k), call' = [call EXCEPT ![w] = k]
  PROVE  DealsInv'
<1>1. (call = [v \in Worker |-> call[v]] /\ \A v \in Worker : Shaped(call[v]))'
  BY CallsShaped DEF DealsInv
<1>2. QED
  BY <1>1 DEF DealsInv, CampaignsShaped

\* What a handler may decide to write, and the call that will write it.
Allowed(c, new, columns, sync) ==
    \/ /\ sync = "never"
       /\ {"status", "payment"} \subseteq columns /\ "deleted" \notin columns
       /\ new["status"] # "live" /\ new["payment"] # "paid"
    \/ /\ sync = "removed"
       /\ columns = {"status", "deleted"} /\ new["status"] = "cancelled"
    \/ /\ sync = "ifLive"
       /\ "status" \in columns /\ columns \subseteq {"status", "payment"}
       /\ "payment" \in columns => new["payment"] = "paid"
       /\ "payment" \notin columns /\ new["status"] = "live" => Paid(c)
    \/ /\ sync = "ifChanged"
       /\ columns \subseteq {"status", "payment", "selected", "phase"}
       /\ "status" \in columns /\ "payment" \notin columns /\ new["status"] = "live" => Paid(c)

LEMMA DecisionShaped ==
  ASSUME NEW c \in Campaign, NEW new, NEW columns \in SUBSET Column, NEW sync,
         Allowed(c, new, columns, sync)
  PROVE  Shaped(Writing(c, new, columns, sync))
<1> DEFINE k == Writing(c, new, columns, sync)
<1>1. /\ k.at = "write" /\ k.campaign = c /\ k.columns = columns /\ k.sync = sync /\ k.paid = Paid(c)
      /\ k.new = [f \in Column |-> IF f \in columns THEN new[f] ELSE NoCampaign[f]]
  BY ColumnsOfCampaign DEF Writing
<1>2. \A f \in columns : k.new[f] = new[f]
  BY <1>1
<1> HIDE DEF k
<1>3. "status" \in columns => k.new["status"] = new["status"]
  BY <1>2
<1>4. "payment" \in columns => k.new["payment"] = new["payment"]
  BY <1>2
<1>5. Deciding(k)
  BY <1>1, <1>3, <1>4 DEF Deciding, Allowed
<1>6. QED
  BY <1>1, <1>5 DEF Shaped, k

-----------------------------------------------------------------------------
\* The row after a write: the written columns are new, any phase if dates are
\* among them, and the others are as they were.
Written(k, f) == IF f \in k.columns THEN k.new[f] ELSE campaign[k.campaign][f]

LEMMA WriteEffect ==
  ASSUME DealsInv, NEW w \in Worker, Write(w), NEW k, k = call[w]
  PROVE  /\ Deciding(k) /\ k.campaign \in Campaign
         /\ CampaignsShaped'
         /\ \A c \in Campaign : c # k.campaign => campaign'[c] = campaign[c]
         /\ campaign'[k.campaign]["status"] = Written(k, "status")
         /\ campaign'[k.campaign]["payment"] = Written(k, "payment")
         /\ campaign'[k.campaign]["selected"] = Written(k, "selected")
         /\ campaign'[k.campaign]["deleted"] = Written(k, "deleted")
<1>1. Deciding(k) /\ k.campaign \in Campaign
  BY DEF Write, At, DealsInv, Shaped, Deciding
<1>2. PICK row : row = [f \in Column |-> Written(k, f)]
  OBVIOUS
<1>3. PICK phase : campaign' = [campaign EXCEPT ![k.campaign] = [row EXCEPT !.phase = phase]]
  BY <1>2, ColumnsOfCampaign DEF Write, Written
<1>4. PICK new : new = [row EXCEPT !.phase = phase]
  OBVIOUS
<1>5. new = [f \in Column |-> IF f = "phase" THEN phase ELSE row[f]]
  BY <1>2, <1>4
<1>6. /\ \A c \in Campaign : campaign'[c] = IF c = k.campaign THEN new ELSE campaign[c]
      /\ campaign' = [c \in Campaign |-> campaign'[c]]
  BY <1>1, <1>3, <1>4 DEF DealsInv, CampaignsShaped
<1>7. new = [f \in Column |-> new[f]]
  BY <1>5
<1>8. CampaignsShaped'
  BY <1>6, <1>7 DEF DealsInv, CampaignsShaped
<1>9. /\ new["status"] = Written(k, "status") /\ new["payment"] = Written(k, "payment")
      /\ new["selected"] = Written(k, "selected") /\ new["deleted"] = Written(k, "deleted")
  BY <1>2, <1>5 DEF Column
<1>10. QED
  BY <1>1, <1>6, <1>8, <1>9

\* No campaign becomes live unpaid, unless its payment is set by hand.
LEMMA WritePaid ==
  ASSUME DealsInv, DealsClean, NEW w \in Worker, Write(w)
  PROVE  DealsInv'
<1>0. PICK k : k = call[w]
  OBVIOUS
<1> DEFINE c == k.campaign
<1>1. /\ Deciding(k) /\ c \in Campaign
      /\ CampaignsShaped'
      /\ \A d \in Campaign : d # c => campaign'[d] = campaign[d]
      /\ campaign'[c]["status"] = Written(k, "status")
      /\ campaign'[c]["payment"] = Written(k, "payment")
  BY <1>0, WriteEffect
<1>2. PICK next : call' = [call EXCEPT ![w] = next] /\ Shaped(next)
  <2>1. CASE Return(w)
    <3>1. Shaped(Idle)
      BY DEF Shaped, Idle
    <3>2. QED
      BY <2>1, <3>1 DEF Return, Become
  <2>2. CASE \E touched : Become(w, [at |-> "sync", products |-> touched])
    <3>1. PICK touched : Become(w, [at |-> "sync", products |-> touched])
      BY <2>2
    <3>2. PICK d : d = [at |-> "sync", products |-> touched]
      OBVIOUS
    <3>3. Shaped(d)
      BY <3>2 DEF Shaped
    <3>4. QED
      BY <3>1, <3>2, <3>3 DEF Become
  <2>3. QED
    BY <2>1, <2>2, Zenon DEF Write
<1>3. (call = [v \in Worker |-> call[v]] /\ \A v \in Worker : Shaped(call[v]))'
  BY <1>2, CallsShaped DEF DealsInv
<1>4. settled' = IF k.sync = "ifChanged" /\ "payment" \in k.columns THEN settled \cup {c} ELSE settled
  BY <1>0 DEF Write
<1>5. ASSUME c \notin settled', campaign'[c]["status"] = "live"
      PROVE  campaign'[c]["payment"] = "paid"
  <2>1. c \notin settled /\ ~(k.sync = "ifChanged" /\ "payment" \in k.columns)
    BY <1>4, <1>5
  <2>2. CASE "status" \notin k.columns
    <3>1. k.sync = "ifChanged" /\ "payment" \notin k.columns
      BY <1>1, <2>1, <2>2 DEF Deciding
    <3>2. campaign[c]["status"] = "live"
      BY <1>1, <1>5, <2>2 DEF Written
    <3>3. campaign[c]["payment"] = "paid"
      BY <1>1, <2>1, <3>2 DEF DealsInv
    <3>4. QED
      BY <1>1, <3>1, <3>3 DEF Written
  <2>3. CASE "status" \in k.columns /\ "payment" \in k.columns
    <3>1. k.new["status"] = "live"
      BY <1>1, <1>5, <2>3 DEF Written
    <3>2. k.sync = "ifLive"
      BY <1>1, <2>1, <2>3, <3>1 DEF Deciding
    <3>3. QED
      BY <1>1, <2>3, <3>2 DEF Deciding, Written
  <2>4. CASE "status" \in k.columns /\ "payment" \notin k.columns
    <3>1. k.new["status"] = "live"
      BY <1>1, <1>5, <2>4 DEF Written
    <3>2. k.paid
      BY <1>1, <2>4, <3>1 DEF Deciding
    <3>3. k.at = "write"
      BY <1>0 DEF Write, At
    <3>4. Paid(c)
      BY <1>0, <2>4, <3>1, <3>2, <3>3 DEF DealsClean, LateLive, Writes, At
    <3>5. QED
      BY <1>1, <2>4, <3>4 DEF Paid, Written
  <2>5. QED
    BY <2>2, <2>3, <2>4
<1>6. ASSUME NEW d \in Campaign \ settled', campaign'[d]["status"] = "live"
      PROVE  campaign'[d]["payment"] = "paid"
  <2>1. d \notin settled
    BY <1>4
  <2>2. CASE d = c
    BY <1>5, <1>6, <2>2
  <2>3. CASE d # c
    BY <1>1, <1>6, <2>1, <2>3 DEF DealsInv
  <2>4. QED
    BY <2>2, <2>3
<1>7. QED
  BY <1>1, <1>3, <1>6 DEF DealsInv

\* A call has decided what to write.
Decided(w) == \E k : /\ At(w, "idle") /\ k.at = "write" /\ Shaped(k)
                     /\ call' = [call EXCEPT ![w] = k]
                     /\ UNCHANGED <<dealVars, productVars, faults>>

LEMMA AllowedDecided ==
  ASSUME NEW w, NEW c \in Campaign, NEW new, NEW columns \in SUBSET Column, NEW sync,
         Decide(w, c, new, columns, sync), Allowed(c, new, columns, sync)
  PROVE  Decided(w)
<1>1. PICK k : k = Writing(c, new, columns, sync)
  OBVIOUS
<1>2. k.at = "write"
  BY <1>1 DEF Writing
<1>3. Shaped(k)
  BY <1>1, DecisionShaped
<1>4. /\ At(w, "idle") /\ call' = [call EXCEPT ![w] = k]
      /\ UNCHANGED <<dealVars, productVars, faults>>
  BY <1>1 DEF Decide, Begin, Become
<1>5. QED
  BY <1>2, <1>3, <1>4 DEF Decided

\* The handlers that decide.
LEMMA DecisionStep ==
  ASSUME DealsInv, NEW w \in Worker,
         \/ UpdateMyCampaign(w) \/ RemoveCampaign(w) \/ UpdateCampaignByAdmin(w)
         \/ ApproveCampaign(w) \/ ChargeSuccess(w) \/ ChargeFailed(w)
  PROVE  Decided(w)
<1>1. CASE UpdateMyCampaign(w)
  <2>1. PICK c \in Campaign, selected \in SUBSET Product, more \in SUBSET {"selected"} :
          Decide(w, c, [campaign[c] EXCEPT !.status = "draft", !.payment = "unpaid",
                          !.reference = Nil, !.selected = selected],
                 {"status", "payment", "reference", "phase"} \cup more, "never")
    BY <1>1 DEF UpdateMyCampaign
  <2>2. PICK new : new = [campaign[c] EXCEPT !.status = "draft", !.payment = "unpaid",
                                             !.reference = Nil, !.selected = selected]
    OBVIOUS
  <2>3. new["status"] = "draft" /\ new["payment"] = "unpaid"
    BY <2>2 DEF DealsInv, CampaignsShaped, Column
  <2>4. PICK columns \in SUBSET Column : columns = {"status", "payment", "reference", "phase"} \cup more
    BY DEF Column
  <2>5. Allowed(c, new, columns, "never")
    BY <2>1, <2>3, <2>4 DEF Allowed, Paid
  <2>6. Decide(w, c, new, columns, "never")
    BY <2>1, <2>2, <2>4
  <2>7. QED
    BY <2>5, <2>6, AllowedDecided
<1>2. CASE RemoveCampaign(w)
  <2>1. PICK c \in Campaign :
          Decide(w, c, [campaign[c] EXCEPT !.status = "cancelled", !.deleted = TRUE],
                 {"status", "deleted"}, "removed")
    BY <1>2 DEF RemoveCampaign
  <2>2. PICK new : new = [campaign[c] EXCEPT !.status = "cancelled", !.deleted = TRUE]
    OBVIOUS
  <2>3. new["status"] = "cancelled"
    BY <2>2 DEF DealsInv, CampaignsShaped, Column
  <2>4. PICK columns \in SUBSET Column : columns = {"status", "deleted"}
    BY DEF Column
  <2>5. Allowed(c, new, columns, "removed")
    BY <2>1, <2>3, <2>4 DEF Allowed, Paid
  <2>6. Decide(w, c, new, columns, "removed")
    BY <2>1, <2>2, <2>4
  <2>7. QED
    BY <2>5, <2>6, AllowedDecided
<1>3. CASE UpdateCampaignByAdmin(w)
  <2>1. PICK c \in Campaign, columns \in SUBSET Column :
          /\ columns \subseteq {"status", "payment", "selected", "phase"}
          /\ \E given, payment, selected :
               /\ "payment" \notin columns => payment = campaign[c]["payment"]
               /\ "status" \in columns => MayBe(given, payment)
               /\ Decide(w, c, [campaign[c] EXCEPT !.status = given, !.payment = payment, !.selected = selected], columns, "ifChanged")
    BY <1>3 DEF UpdateCampaignByAdmin, Column
  <2>2. PICK given, payment, selected :
          /\ "payment" \notin columns => payment = campaign[c]["payment"]
          /\ "status" \in columns => MayBe(given, payment)
          /\ Decide(w, c, [campaign[c] EXCEPT !.status = given, !.payment = payment, !.selected = selected], columns, "ifChanged")
    BY <2>1
  <2>3. PICK new : new = [campaign[c] EXCEPT !.status = given, !.payment = payment, !.selected = selected]
    OBVIOUS
  <2>4. new["status"] = given
    BY <2>3 DEF DealsInv, CampaignsShaped, Column
  <2>5. Allowed(c, new, columns, "ifChanged")
    BY <2>1, <2>2, <2>4 DEF Allowed, MayBe, Paid
  <2>6. Decide(w, c, new, columns, "ifChanged")
    BY <2>2, <2>3
  <2>7. QED
    BY <2>5, <2>6, AllowedDecided
<1>4. CASE ApproveCampaign(w)
  <2>1. PICK c \in Campaign :
          Decide(w, c, [campaign[c] EXCEPT
                    !.status = IF Paid(c) THEN StatusAfterPayment(c) ELSE "pending_payment"],
                 {"status"}, "ifLive")
    BY <1>4 DEF ApproveCampaign
  <2>2. PICK new : new = [campaign[c] EXCEPT !.status = IF Paid(c) THEN StatusAfterPayment(c) ELSE "pending_payment"]
    OBVIOUS
  <2>3. new["status"] = "live" => Paid(c)
    BY <2>2 DEF DealsInv, CampaignsShaped, Column
  <2>4. PICK columns \in SUBSET Column : columns = {"status"}
    BY DEF Column
  <2>5. Allowed(c, new, columns, "ifLive")
    BY <2>1, <2>3, <2>4 DEF Allowed, Paid
  <2>6. Decide(w, c, new, columns, "ifLive")
    BY <2>1, <2>2, <2>4
  <2>7. QED
    BY <2>5, <2>6, AllowedDecided
<1>5. CASE ChargeSuccess(w)
  <2>1. PICK c \in Campaign :
          Decide(w, c, [campaign[c] EXCEPT !.payment = "paid", !.status = StatusAfterPayment(c)],
                 {"status", "payment"}, "ifLive")
    BY <1>5 DEF ChargeSuccess
  <2>2. PICK new : new = [campaign[c] EXCEPT !.payment = "paid", !.status = StatusAfterPayment(c)]
    OBVIOUS
  <2>3. new["payment"] = "paid"
    BY <2>2 DEF DealsInv, CampaignsShaped, Column
  <2>4. PICK columns \in SUBSET Column : columns = {"status", "payment"}
    BY DEF Column
  <2>5. Allowed(c, new, columns, "ifLive")
    BY <2>1, <2>3, <2>4 DEF Allowed, Paid
  <2>6. Decide(w, c, new, columns, "ifLive")
    BY <2>1, <2>2, <2>4
  <2>7. QED
    BY <2>5, <2>6, AllowedDecided
<1>6. CASE ChargeFailed(w)
  <2>1. PICK c \in Campaign :
          Decide(w, c, [campaign[c] EXCEPT !.payment = "failed", !.status = "draft"],
                 {"status", "payment"}, "never")
    BY <1>6 DEF ChargeFailed
  <2>2. PICK new : new = [campaign[c] EXCEPT !.payment = "failed", !.status = "draft"]
    OBVIOUS
  <2>3. new["status"] = "draft" /\ new["payment"] = "failed"
    BY <2>2 DEF DealsInv, CampaignsShaped, Column
  <2>4. PICK columns \in SUBSET Column : columns = {"status", "payment"}
    BY DEF Column
  <2>5. Allowed(c, new, columns, "never")
    BY <2>1, <2>3, <2>4 DEF Allowed, Paid
  <2>6. Decide(w, c, new, columns, "never")
    BY <2>1, <2>2, <2>4
  <2>7. QED
    BY <2>5, <2>6, AllowedDecided
<1>7. QED
  BY <1>1, <1>2, <1>3, <1>4, <1>5, <1>6

\* The other steps of calls change no campaign.
LEMMA AskStep ==
  ASSUME DealsInv, NEW w \in Worker, AskPaystack(w)
  PROVE  \E k : k.at \in {"idle", "write"} /\ Shaped(k) /\ call' = [call EXCEPT ![w] = k]
<1>1. CASE Return(w)
  <2>1. Shaped(Idle) /\ Idle.at = "idle"
    BY DEF Shaped, Idle
  <2>2. QED
    BY <1>1, <2>1 DEF Return, Become
<1>2. ASSUME NEW r \in Reference,
             Become(w, Writing(call[w].campaign,
                 [NoCampaign EXCEPT !.status = "pending_payment", !.payment = "pending",
                                    !.reference = r],
                 {"status", "payment", "reference"}, "never"))
      PROVE  \E k : k.at \in {"idle", "write"} /\ Shaped(k) /\ call' = [call EXCEPT ![w] = k]
  <2>1. PICK c, new : /\ c = call[w].campaign
                      /\ new = [NoCampaign EXCEPT !.status = "pending_payment", !.payment = "pending",
                                                  !.reference = r]
    OBVIOUS
  <2>2. c \in Campaign
    BY <2>1 DEF AskPaystack, At, DealsInv, Shaped
  <2>3. new["status"] = "pending_payment" /\ new["payment"] = "pending"
    BY <2>1 DEF NoCampaign
  <2>4. PICK columns \in SUBSET Column : columns = {"status", "payment", "reference"}
    BY DEF Column
  <2>5. Allowed(c, new, columns, "never")
    BY <2>3, <2>4 DEF Allowed
  <2>6. PICK k : k = Writing(c, new, columns, "never")
    OBVIOUS
  <2>7. Shaped(k)
    BY <2>2, <2>5, <2>6, DecisionShaped
  <2>8. k.at = "write"
    BY <2>6 DEF Writing
  <2>9. QED
    BY <1>2, <2>1, <2>4, <2>6, <2>7, <2>8 DEF Become
<1>3. QED
  BY <1>1, <1>2 DEF AskPaystack

LEMMA OtherCallStep ==
  ASSUME NEW w \in Worker,
         \/ Sync(w) \/ ReadSections(w) \/ FeatureProduct(w) \/ WriteSections(w)
         \/ CutOff(w)
  PROVE  \E k : k.at \notin {"askPaystack", "write"} /\ call' = [call EXCEPT ![w] = k]
<1> USE DEF Become, Begin, Return, Idle
<1>1. CASE Sync(w)
  BY <1>1 DEF Sync, Plan
<1>2. CASE ReadSections(w)
  <2>1. CASE Return(w)
    BY <2>1
  <2>2. ASSUME NEW p, Become(w, [call[w] EXCEPT !.add = @ \ {p}])
        PROVE  \E k : k.at \notin {"askPaystack", "write"} /\ call' = [call EXCEPT ![w] = k]
    <3>1. PICK k : k = [call[w] EXCEPT !.add = @ \ {p}]
      OBVIOUS
    <3>2. k.at = call[w].at
      BY <3>1
    <3>3. QED
      BY <1>2, <2>2, <3>1, <3>2 DEF ReadSections, At
  <2>3. CASE \E p, s, a, r : Become(w, WriteBack(p, s, a, r))
    <3>1. PICK p, s, a, r : Become(w, WriteBack(p, s, a, r))
      BY <2>3
    <3>2. QED
      BY <3>1 DEF WriteBack
  <2>4. CASE \E p : Become(w, [call[w] EXCEPT !.add = @ \ {p}])
    BY <2>2, <2>4, Zenon
  <2>5. \/ Return(w)
        \/ \E p, s, a, r : Become(w, WriteBack(p, s, a, r))
        \/ \E p : Become(w, [call[w] EXCEPT !.add = @ \ {p}])
    BY <1>2, Zenon DEF ReadSections
  <2>6. QED
    BY <2>1, <2>3, <2>4, <2>5
<1>3. CASE FeatureProduct(w)
  BY <1>3 DEF FeatureProduct, WriteBack
<1>4. CASE WriteSections(w)
  BY <1>4 DEF WriteSections
<1>5. CASE CutOff(w)
  BY <1>5 DEF CutOff
<1>6. QED
  BY <1>1, <1>2, <1>3, <1>4, <1>5

LEMMA DealsStep == DealsInv /\ DealsClean /\ [DealsNext]_dealsVars => DealsInv'
<1> SUFFICES ASSUME DealsInv, DealsClean, [DealsNext]_dealsVars
             PROVE  DealsInv'
  OBVIOUS
<1>1. ASSUME UNCHANGED <<campaign, settled, call>>
      PROVE  DealsInv'
  BY <1>1 DEF DealsInv, CampaignsShaped, Shaped, Deciding
<1>2. CASE Charge
  BY <1>1, <1>2 DEF Charge, callVars
<1>3. CASE DatePasses
  <2>1. PICK c \in Campaign :
          campaign' = [campaign EXCEPT ![c].phase = IF @ = "early" THEN "running" ELSE "over"]
    BY <1>3 DEF DatePasses
  <2>2. UNCHANGED <<settled, call>>
    BY <1>3 DEF DatePasses, callVars
  <2>3. PICK row : row = [campaign[c] EXCEPT !.phase = IF @ = "early" THEN "running" ELSE "over"]
    OBVIOUS
  <2>4. row = [f \in Column |-> IF f = "phase" THEN row[f] ELSE campaign[c][f]]
    BY <2>3 DEF DealsInv, CampaignsShaped, Column
  <2>5. campaign' = [d \in Campaign |-> IF d = c THEN row ELSE campaign[d]]
    BY <2>1, <2>3 DEF DealsInv, CampaignsShaped
  <2>6. row = [f \in Column |-> row[f]]
    BY <2>4
  <2>7. CampaignsShaped'
    BY <2>5, <2>6 DEF DealsInv, CampaignsShaped
  <2>8. row["status"] = campaign[c]["status"] /\ row["payment"] = campaign[c]["payment"]
    BY <2>4 DEF Column
  <2>9. QED
    BY <2>2, <2>5, <2>7, <2>8 DEF DealsInv, Shaped, Deciding
<1>4. CASE ProductsStep /\ UNCHANGED dealVars
  <2>1. UNCHANGED callVars
    BY <1>4 DEF ProductsStep, ProductRequests, ModerationRequests, CreateProduct, UpdateProduct,
                RemoveProduct, ToggleStatus, ApproveProduct, RejectProduct, Put
  <2>2. QED
    BY <1>1, <1>4, <2>1 DEF dealVars, callVars
<1>5. CASE CreateMyCampaign
  <2>1. PICK c \in Campaign, selected \in Selections, phase \in Phase :
          campaign' = [campaign EXCEPT ![c] =
             [NoCampaign EXCEPT !.status = "draft", !.phase = phase, !.selected = selected]]
    BY <1>5 DEF CreateMyCampaign
  <2>2. PICK row : row = [NoCampaign EXCEPT !.status = "draft", !.phase = phase, !.selected = selected]
    OBVIOUS
  <2>3. row = [f \in Column |-> row[f]] /\ row["status"] = "draft"
    BY <2>2 DEF NoCampaign, Column
  <2>4. UNCHANGED <<settled, call>>
    BY <1>5 DEF CreateMyCampaign, callVars
  <2>5. campaign' = [d \in Campaign |-> IF d = c THEN row ELSE campaign[d]]
    BY <2>1, <2>2 DEF DealsInv, CampaignsShaped
  <2>6. CampaignsShaped'
    BY <2>3, <2>5 DEF DealsInv, CampaignsShaped
  <2>7. QED
    BY <2>3, <2>4, <2>5, <2>6 DEF DealsInv, Shaped, Deciding
<1>6. ASSUME NEW w \in Worker, InitializePayment(w)
      PROVE  DealsInv'
  <2>1. PICK c \in Campaign : call' = [call EXCEPT ![w] = [at |-> "askPaystack", campaign |-> c]]
    BY <1>6 DEF InitializePayment, Begin, Become
  <2>2. Shaped([at |-> "askPaystack", campaign |-> c])
    BY DEF Shaped
  <2>3. UNCHANGED <<campaign, settled>>
    BY <1>6 DEF InitializePayment, dealVars
  <2>4. QED
    BY <2>1, <2>2, <2>3, CallGoesOn
<1>7. ASSUME NEW w \in Worker,
             \/ UpdateMyCampaign(w) \/ RemoveCampaign(w) \/ UpdateCampaignByAdmin(w)
             \/ ApproveCampaign(w) \/ ChargeSuccess(w) \/ ChargeFailed(w)
      PROVE  DealsInv'
  BY <1>7, DecisionStep, CallGoesOn DEF Decided, dealVars
<1>8. ASSUME NEW w \in Worker, AskPaystack(w)
      PROVE  DealsInv'
  <2>1. UNCHANGED <<campaign, settled>>
    BY <1>8 DEF AskPaystack
  <2>2. QED
    BY <1>8, <2>1, AskStep, CallGoesOn
<1>9. ASSUME NEW w \in Worker, Write(w)
      PROVE  DealsInv'
  BY <1>9, WritePaid
<1>10. ASSUME NEW w \in Worker,
              \/ Sync(w) \/ ReadSections(w)
              \/ (FeatureProduct(w) \/ WriteSections(w)) /\ UNCHANGED dealVars
              \/ CutOff(w) /\ UNCHANGED <<dealVars, productVars>>
       PROVE  DealsInv'
  <2>1. UNCHANGED <<campaign, settled>>
    BY <1>10 DEF Sync, ReadSections, dealVars
  <2>2. PICK k : k.at \notin {"askPaystack", "write"} /\ call' = [call EXCEPT ![w] = k]
    BY <1>10, OtherCallStep
  <2>3. Shaped(k)
    BY <2>2 DEF Shaped
  <2>4. QED
    BY <2>1, <2>2, <2>3, CallGoesOn
<1>11. CASE UNCHANGED dealsVars
  BY <1>1, <1>11 DEF dealsVars, dealVars, callVars
<1>12. QED
  BY <1>2, <1>3, <1>4, <1>5, <1>6, <1>7, <1>8, <1>9, <1>10, <1>11
     DEF DealsNext, Handle, CampaignRequests, CampaignDecisions

LEMMA DealsInitClean == DealsInit => DealsClean
<1> SUFFICES ASSUME DealsInit
             PROVE  DealsClean
  OBVIOUS
<1>1. \A w \in Worker : call[w].at = "idle"
  BY DEF DealsInit, CallsInit, Idle
<1>2. QED
  BY <1>1 DEF DealsClean, LateLive, LateUnpaid, LateStatus, LateProducts, Reapproved,
              StalePlan, StaleSections, Writes, At

LEMMA DealsStutterClean == DealsClean /\ UNCHANGED dealsVars => DealsClean'
<1> SUFFICES ASSUME DealsClean, UNCHANGED dealsVars
             PROVE  DealsClean'
  OBVIOUS
<1>1. UNCHANGED <<campaign, call>>
  BY DEF dealsVars, dealVars, callVars
<1>2. \A p : InLiveCampaign(p)' <=> InLiveCampaign(p)
  BY <1>1 DEF InLiveCampaign, Open, Paid
<1> SUFFICES ASSUME NEW w \in Worker
             PROVE  /\ ~LateLive(w)' /\ ~LateUnpaid(w)' /\ ~LateStatus(w)' /\ ~LateProducts(w)'
                    /\ ~Reapproved(w)' /\ ~StalePlan(w)' /\ ~StaleSections(w)'
  BY DEF DealsClean
<1>3. \A l : (At(w, l)' <=> At(w, l)) /\ (Writes(w, l)' <=> Writes(w, l))
  BY <1>1 DEF At, Writes
<1>4. /\ ~LateLive(w)' /\ ~LateUnpaid(w)' /\ ~LateStatus(w)' /\ ~LateProducts(w)'
      /\ ~Reapproved(w)'
  BY <1>1, <1>3 DEF DealsClean, LateLive, LateUnpaid, LateStatus, LateProducts, Reapproved, Paid
<1>5. ~StalePlan(w)' /\ ~StaleSections(w)'
  BY <1>1, <1>2, <1>3 DEF DealsClean, StalePlan, StaleSections
<1>6. QED
  BY <1>4, <1>5

\* No handler makes a campaign live that is not paid, or takes the payment of
\* a live one back, unless an admin sets it by hand (updateCampaignByAdmin):
\* as long as no write comes late, for any campaigns, products and calls.
THEOREM LiveArePaid == DealsCleanSpec => []LiveIsPaid
<1>1. DealsInit => DealsInv /\ DealsClean
  BY DealsInitInv, DealsInitClean
<1>2. DealsInv /\ DealsClean /\ [DealsNext /\ DealsClean']_dealsVars => DealsInv' /\ DealsClean'
  BY DealsStep, DealsStutterClean
<1>3. DealsInv => LiveIsPaid
  BY DEF DealsInv, LiveIsPaid, Paid
<1>4. QED
  BY <1>1, <1>2, <1>3, PTL DEF DealsCleanSpec

-----------------------------------------------------------------------------
\* What a call is still to put right.
Tracks(k, p) ==
    \/ k.at = "sync" /\ p \in k.products
    \/ k.at \in {"nextProduct", "writeSections"} /\ p \in k.add \cup k.remove
    \/ k.at = "writeSections" /\ k.product = p

Tracked(p) == \E w \in Worker : Tracks(call[w], p)

Agreed(p) == "best_deals" \in product[p]["sections"] <=> InLiveCampaign(p)

ProductColumn == {"moderation", "active", "deleted", "sections"}

ProductsShaped ==
    /\ product = [p \in Product |-> product[p]]
    /\ \A p \in Product : product[p] = [f \in ProductColumn |-> product[p][f]]

SectionsInv ==
    /\ ProductsShaped
    /\ faults \in Nat
    /\ faults = 0 /\ settled = {} => \A p \in Product \ byHand : Agreed(p) \/ Tracked(p)

\* The campaigns that show a product.
Shows(c, p) ==
    /\ campaign[c]["status"] = "live" /\ ~campaign[c]["deleted"]
    /\ campaign[c]["payment"] = "paid" /\ p \in campaign[c]["selected"]

LEMMA LiveShows == \A p : InLiveCampaign(p) <=> \E c \in Campaign : Shows(c, p)
BY DEF InLiveCampaign, Shows, Open, Paid

LEMMA LiveShowsNext == \A p : InLiveCampaign(p)' <=> \E c \in Campaign : Shows(c, p)'
BY DEF InLiveCampaign, Shows, Open, Paid

LEMMA SectionsInitInv == DealsInit => SectionsInv
<1> SUFFICES ASSUME DealsInit
             PROVE  SectionsInv
  OBVIOUS
<1>1. NoProduct = [f \in ProductColumn |-> NoProduct[f]] /\ NoProduct["sections"] = {}
  BY DEF NoProduct, ProductColumn
<1>2. product = [p \in Product |-> NoProduct]
  BY DEF DealsInit, ProductsInit
<1>3. \A p \in Product : product[p] = NoProduct
  BY <1>2
<1>4. ProductsShaped
  BY <1>1, <1>2, <1>3 DEF ProductsShaped
<1>5. campaign = [c \in Campaign |-> NoCampaign] /\ NoCampaign["status"] = "none"
  BY DEF DealsInit, NoCampaign
<1>6. \A p : ~InLiveCampaign(p)
  BY <1>5, LiveShows DEF Shows
<1>7. \A p \in Product : Agreed(p)
  BY <1>1, <1>3, <1>6 DEF Agreed
<1>8. QED
  BY <1>4, <1>7 DEF SectionsInv, DealsInit, CallsInit

\* A step keeps what is right, or a call is to put it right.
LEMMA SectionsKept ==
  ASSUME SectionsInv, ProductsShaped', faults' \in Nat,
         faults' = 0 /\ settled' = {} => faults = 0 /\ settled = {},
         \A p \in Product \ byHand' :
            /\ p \notin byHand
            /\ settled' = {} /\ Agreed(p) => Agreed(p)' \/ Tracked(p)'
            /\ settled' = {} /\ Tracked(p) => Agreed(p)' \/ Tracked(p)'
  PROVE  SectionsInv'
BY DEF SectionsInv

LEMMA TrackedStays ==
  ASSUME call = [v \in Worker |-> call[v]], NEW w \in Worker, NEW k,
         call' = [call EXCEPT ![w] = k], NEW p,
         Tracks(call[w], p) => Tracks(k, p), Tracked(p)
  PROVE  Tracked(p)'
<1>1. PICK v \in Worker : Tracks(call[v], p)
  BY DEF Tracked
<1>2. \E d : d = call'[v] /\ Tracks(d, p)
  BY <1>1
<1>3. PICK d : d = call'[v] /\ Tracks(d, p)
  BY <1>2
<1>4. Tracks(call[v], p)'
  BY <1>3 DEF Tracks
<1>5. QED
  BY <1>4 DEF Tracked

LEMMA NowTracked ==
  ASSUME call = [v \in Worker |-> call[v]], NEW w \in Worker, NEW k,
         call' = [call EXCEPT ![w] = k], NEW p, Tracks(k, p)
  PROVE  Tracked(p)'
<1>1. call'[w] = k
  OBVIOUS
<1>2. Tracks(call[w], p)'
  BY <1>1 DEF Tracks
<1>3. QED
  BY <1>2 DEF Tracked

LEMMA AgreedStays ==
  ASSUME UNCHANGED product, \A p : InLiveCampaign(p)' <=> InLiveCampaign(p)
  PROVE  \A p : Agreed(p)' <=> Agreed(p)
BY DEF Agreed

\* A call goes on that is to put nothing right.
LEMMA NothingShown ==
  ASSUME SectionsInv, call = [v \in Worker |-> call[v]],
         UNCHANGED <<product, byHand, settled>>, UNCHANGED faults,
         \A p : InLiveCampaign(p)' <=> InLiveCampaign(p),
         NEW w \in Worker, NEW k, call' = [call EXCEPT ![w] = k],
         call[w].at \notin {"sync", "nextProduct", "writeSections"}
  PROVE  SectionsInv'
<1>1. \A p : ~Tracks(call[w], p)
  BY DEF Tracks
<1>2. \A p : Tracked(p) => Tracked(p)'
  BY <1>1, TrackedStays
<1>3. \A p : Agreed(p)' <=> Agreed(p)
  BY AgreedStays
<1>4. ProductsShaped'
  BY DEF SectionsInv, ProductsShaped
<1>5. QED
  BY <1>2, <1>3, <1>4, SectionsKept DEF SectionsInv

\* The products that a write leaves out of its sync are shown as before.
LEMMA WriteShows ==
  ASSUME DealsInv, DealsClean, NEW w \in Worker, Write(w), settled' = {}, NEW k, k = call[w],
         NEW touched,
         /\ k.sync = "removed" => touched = k.products
         /\ k.sync = "ifLive" /\ k.new["status"] = "live" => touched = Written(k, "selected")
         /\ (k.sync = "ifChanged" /\ (k.status # Written(k, "status") \/ "selected" \in k.columns))
              => touched = k.products \cup Written(k, "selected"),
         NEW p, p \notin touched
  PROVE  Shows(k.campaign, p)' <=> Shows(k.campaign, p)
<1> DEFINE c == k.campaign
<1>1. PICK old, row : old = campaign[c] /\ row = campaign'[c]
  OBVIOUS
<1>2. /\ Deciding(k) /\ c \in Campaign
      /\ row["status"] = Written(k, "status") /\ row["payment"] = Written(k, "payment")
      /\ row["selected"] = Written(k, "selected") /\ row["deleted"] = Written(k, "deleted")
  BY <1>1, WriteEffect
<1>3. \A f : Written(k, f) = IF f \in k.columns THEN k.new[f] ELSE old[f]
  BY <1>1 DEF Written
<1>4. settled = {} /\ ~(k.sync = "ifChanged" /\ "payment" \in k.columns) /\ k.at = "write"
  BY DEF Write, At
<1>5. old["status"] = "live" => old["payment"] = "paid"
  BY <1>1, <1>2, <1>4 DEF DealsInv
<1>6. row["status"] = "live" => row["payment"] = "paid"
  BY <1>1, <1>2, WritePaid DEF DealsInv
<1>7. Shows(c, p) <=> old["status"] = "live" /\ ~old["deleted"] /\ p \in old["selected"]
  BY <1>1, <1>5 DEF Shows
<1>8. Shows(c, p)' <=> row["status"] = "live" /\ ~row["deleted"] /\ p \in row["selected"]
  <2>1. \A d : d = c => (Shows(d, p)' <=> /\ campaign'[d]["status"] = "live" /\ ~campaign'[d]["deleted"]
                                       /\ campaign'[d]["payment"] = "paid" /\ p \in campaign'[d]["selected"])
    BY DEF Shows
  <2>2. QED
    BY <1>1, <1>6, <2>1
<1>9. /\ ~LateUnpaid(w) /\ ~LateStatus(w) /\ ~LateProducts(w) /\ ~Reapproved(w)
      /\ \A column : Writes(w, column) <=> column \in k.columns
  BY <1>4 DEF DealsClean, Writes, At
<1> HIDE DEF c
<1>10. CASE k.sync = "never"
  <2>1. row["status"] # "live"
    BY <1>2, <1>3, <1>10 DEF Deciding
  <2>2. old["payment"] # "paid"
    BY <1>1, <1>2, <1>9, <1>10 DEF Deciding, LateUnpaid, Paid, c
  <2>3. QED
    BY <1>5, <1>7, <1>8, <2>1, <2>2 DEF c
<1>11. CASE k.sync = "removed"
  <2>1. row["status"] # "live"
    BY <1>2, <1>3, <1>11 DEF Deciding
  <2>2. "deleted" \in k.columns
    BY <1>2, <1>11 DEF Deciding
  <2>3. old["selected"] = k.products
    BY <1>1, <1>9, <2>2 DEF LateProducts, c
  <2>4. QED
    BY <1>7, <1>8, <1>11, <2>1, <2>3 DEF c
<1>12. CASE k.sync = "ifLive"
  <2>1. "status" \in k.columns /\ "selected" \notin k.columns /\ "deleted" \notin k.columns
    BY <1>2, <1>12 DEF Deciding
  <2>2. CASE k.new["status"] = "live"
    BY <1>2, <1>3, <1>7, <1>8, <1>12, <2>1, <2>2 DEF c
  <2>3. CASE k.new["status"] # "live"
    <3>1. row["status"] # "live"
      BY <1>2, <1>3, <2>1, <2>3
    <3>2. old["status"] # "live"
      BY <1>1, <1>9, <1>12, <2>1, <2>3 DEF Reapproved, c
    <3>3. QED
      BY <1>7, <1>8, <3>1, <3>2 DEF c
  <2>4. QED
    BY <2>2, <2>3
<1>13. CASE k.sync = "ifChanged"
  <2>1. "deleted" \notin k.columns
    BY <1>2, <1>13 DEF Deciding
  <2>2. row["deleted"] = old["deleted"]
    BY <1>2, <1>3, <2>1
  <2>3. CASE "selected" \in k.columns
    <3>1. old["selected"] = k.products
      BY <1>1, <1>9, <1>13, <2>3 DEF LateProducts, c
    <3>2. QED
      BY <1>2, <1>7, <1>8, <1>13, <2>3, <3>1 DEF c
  <2>4. CASE "selected" \notin k.columns
    <3>1. row["selected"] = old["selected"]
      BY <1>2, <1>3, <2>4
    <3>2. CASE k.status # row["status"]
      BY <1>2, <1>7, <1>8, <1>13, <3>1, <3>2 DEF c
    <3>3. CASE k.status = row["status"]
      <4>1. row["status"] = old["status"]
        <5>1. CASE "status" \in k.columns
          BY <1>1, <1>9, <1>13, <3>3, <5>1 DEF LateStatus, c
        <5>2. CASE "status" \notin k.columns
          BY <1>2, <1>3, <5>2
        <5>3. QED
          BY <5>1, <5>2
      <4>2. QED
        BY <1>7, <1>8, <2>2, <3>1, <4>1 DEF c
    <3>4. QED
      BY <3>2, <3>3
  <2>5. QED
    BY <2>3, <2>4
<1>14. QED
  BY <1>2, <1>10, <1>11, <1>12, <1>13 DEF Deciding

\* What the write leaves for its sync.
LEMMA WriteTouches ==
  ASSUME NEW w \in Worker, Write(w), NEW k, k = call[w]
  PROVE  \E touched :
           /\ k.sync = "removed" => touched = k.products
           /\ k.sync = "ifLive" /\ k.new["status"] = "live" => touched = Written(k, "selected")
           /\ (k.sync = "ifChanged" /\ (k.status # Written(k, "status") \/ "selected" \in k.columns))
                => touched = k.products \cup Written(k, "selected")
           /\ \/ touched = {} /\ Return(w)
              \/ touched # {} /\ Become(w, [at |-> "sync", products |-> touched])
<1>1. PICK row : row = [f \in Column |-> Written(k, f)]
  OBVIOUS
<1>2. row["status"] = Written(k, "status") /\ row["selected"] = Written(k, "selected")
  BY <1>1 DEF Column
<1>3. PICK touched : touched = ToSync(k, row)
  OBVIOUS
<1>4. \/ touched = {} /\ Return(w)
      \/ touched # {} /\ Become(w, [at |-> "sync", products |-> touched])
  BY <1>1, <1>3, ColumnsOfCampaign DEF Write, Written
<1>5. /\ k.sync = "removed" => touched = k.products
      /\ k.sync = "ifLive" /\ k.new["status"] = "live" => touched = Written(k, "selected")
      /\ (k.sync = "ifChanged" /\ (k.status # Written(k, "status") \/ "selected" \in k.columns))
           => touched = k.products \cup Written(k, "selected")
  BY <1>2, <1>3 DEF ToSync
<1>6. QED
  BY <1>4, <1>5

\* ... and a product it shows or hides is among them.
LEMMA WriteTracked ==
  ASSUME DealsInv, DealsClean, SectionsInv, NEW w \in Worker, Write(w)
  PROVE  SectionsInv'
<1>1. PICK k : k = call[w]
  OBVIOUS
<1>2. PICK touched :
        /\ k.sync = "removed" => touched = k.products
        /\ k.sync = "ifLive" /\ k.new["status"] = "live" => touched = Written(k, "selected")
        /\ (k.sync = "ifChanged" /\ (k.status # Written(k, "status") \/ "selected" \in k.columns))
             => touched = k.products \cup Written(k, "selected")
        /\ \/ touched = {} /\ Return(w)
           \/ touched # {} /\ Become(w, [at |-> "sync", products |-> touched])
  BY <1>1, WriteTouches
<1>3. PICK d : call' = [call EXCEPT ![w] = d] /\ \A p \in touched : Tracks(d, p)
  <2>1. CASE touched = {} /\ Return(w)
    BY <2>1 DEF Return, Become
  <2>2. CASE Become(w, [at |-> "sync", products |-> touched])
    <3>1. PICK d : d = [at |-> "sync", products |-> touched]
      OBVIOUS
    <3>2. \A p \in touched : Tracks(d, p)
      BY <3>1 DEF Tracks
    <3>3. QED
      BY <2>2, <3>1, <3>2 DEF Become
  <2>3. QED
    BY <1>2, <2>1, <2>2
<1>4. \A p : ~Tracks(call[w], p)
  BY DEF Write, At, Tracks
<1>5. UNCHANGED <<product, byHand, faults>> /\ (settled' = {} => settled = {})
  BY DEF Write, productVars
<1>6. \A p : Tracked(p) => Tracked(p)'
  BY <1>3, <1>4, TrackedStays DEF DealsInv
<1>7. ASSUME NEW p, settled' = {}, p \notin touched
      PROVE  Agreed(p)' <=> Agreed(p)
  <2>1. Shows(k.campaign, p)' <=> Shows(k.campaign, p)
    BY <1>1, <1>2, <1>7, WriteShows
  <2>2. ASSUME NEW c \in Campaign, c # k.campaign
        PROVE  Shows(c, p)' <=> Shows(c, p)
    BY <1>1, <2>2, WriteEffect DEF Shows
  <2>3. \A c \in Campaign : Shows(c, p)' <=> Shows(c, p)
    <3>1. ASSUME NEW c \in Campaign, c = k.campaign
          PROVE  Shows(c, p)' <=> Shows(c, p)
      BY <2>1, <3>1 DEF Shows
    <3>2. QED
      BY <2>2, <3>1
  <2>4. InLiveCampaign(p)' <=> InLiveCampaign(p)
    BY <2>3, LiveShows, LiveShowsNext
  <2>5. QED
    BY <1>5, <2>4 DEF Agreed
<1>8. \A p \in touched : Tracked(p)'
  BY <1>3, NowTracked DEF DealsInv
<1>9. ProductsShaped'
  BY <1>5 DEF SectionsInv, ProductsShaped
<1>10. QED
  BY <1>5, <1>6, <1>7, <1>8, <1>9, SectionsKept DEF SectionsInv

\* Sellers and admins type sections in, which byHand remembers, or leave them.
LEMMA ProductsSections ==
  ASSUME ProductsShaped, ProductsStep
  PROVE  /\ ProductsShaped' /\ UNCHANGED callVars
         /\ \A p \in Product \ byHand' :
              /\ p \notin byHand
              /\ "best_deals" \in product'[p]["sections"] <=> "best_deals" \in product[p]["sections"]
<1> DEFINE Done(p, row) ==
      /\ product' = [product EXCEPT ![p] = row] /\ UNCHANGED callVars
      /\ byHand' = byHand \/ byHand' = byHand \cup {p}
      /\ byHand' = byHand => ("best_deals" \in row["sections"] <=> "best_deals" \in product[p]["sections"])
                            \/ p \in byHand
      /\ row = [f \in ProductColumn |-> row[f]]
<1>1. ASSUME NEW p \in Product, NEW row, Done(p, row)
      PROVE  /\ ProductsShaped' /\ UNCHANGED callVars
             /\ \A q \in Product \ byHand' :
                  /\ q \notin byHand
                  /\ "best_deals" \in product'[q]["sections"] <=> "best_deals" \in product[q]["sections"]
  <2>1. product' = [q \in Product |-> IF q = p THEN row ELSE product[q]]
    BY <1>1 DEF ProductsShaped
  <2>2. ProductsShaped'
    BY <1>1, <2>1 DEF ProductsShaped
  <2>3. QED
    BY <1>1, <2>1, <2>2
<1> HIDE DEF Done
<1>2. CASE CreateProduct
  <2>1. PICK p \in Product, active \in BOOLEAN, sections \in SUBSET Section :
          /\ product[p] = NoProduct
          /\ Put(p, [moderation |-> "approved", active |-> active, deleted |-> FALSE,
                     sections |-> sections])
          /\ byHand' = IF "best_deals" \in sections THEN byHand \cup {p} ELSE byHand
    BY <1>2 DEF CreateProduct
  <2>2. PICK row : row = [moderation |-> "approved", active |-> active, deleted |-> FALSE,
                          sections |-> sections]
    OBVIOUS
  <2>3. row = [f \in ProductColumn |-> row[f]] /\ row["sections"] = sections
    BY <2>2 DEF ProductColumn
  <2>4. product[p]["sections"] = {}
    BY <2>1 DEF NoProduct
  <2>5. Done(p, row)
    BY <2>1, <2>2, <2>3, <2>4 DEF Put, Done
  <2>6. QED
    BY <1>1, <2>5
<1>3. CASE UpdateProduct
  <2>1. PICK p \in Product, active \in BOOLEAN, sections \in SUBSET Section :
          /\ Put(p, [product[p] EXCEPT !.active = active, !.sections = sections])
          /\ byHand' = IF sections = product[p]["sections"] THEN byHand ELSE byHand \cup {p}
    BY <1>3 DEF UpdateProduct
  <2>2. PICK row : row = [product[p] EXCEPT !.active = active, !.sections = sections]
    OBVIOUS
  <2>3. row = [f \in ProductColumn |-> row[f]] /\ row["sections"] = sections
    BY <2>2 DEF ProductsShaped, ProductColumn
  <2>4. Done(p, row)
    BY <2>1, <2>2, <2>3 DEF Put, Done
  <2>5. QED
    BY <1>1, <2>4
<1>4. CASE RemoveProduct \/ ToggleStatus \/ ApproveProduct \/ RejectProduct
  <2>1. PICK p \in Product : \E active, deleted, moderation :
          /\ \/ Put(p, [product[p] EXCEPT !.deleted = deleted, !.active = active])
             \/ Put(p, [product[p] EXCEPT !.active = active])
             \/ Put(p, [product[p] EXCEPT !.active = active, !.moderation = moderation])
          /\ UNCHANGED byHand
    BY <1>4 DEF RemoveProduct, ToggleStatus, ApproveProduct, RejectProduct
  <2>2. PICK active, deleted, moderation :
          /\ \/ Put(p, [product[p] EXCEPT !.deleted = deleted, !.active = active])
             \/ Put(p, [product[p] EXCEPT !.active = active])
             \/ Put(p, [product[p] EXCEPT !.active = active, !.moderation = moderation])
          /\ UNCHANGED byHand
    BY <2>1
  <2>3. PICK row : /\ \/ row = [product[p] EXCEPT !.deleted = deleted, !.active = active]
                      \/ row = [product[p] EXCEPT !.active = active]
                      \/ row = [product[p] EXCEPT !.active = active, !.moderation = moderation]
                   /\ Put(p, row)
    BY <2>2
  <2>4. row = [f \in ProductColumn |-> row[f]] /\ row["sections"] = product[p]["sections"]
    BY <2>3 DEF ProductsShaped, ProductColumn
  <2>5. Done(p, row)
    BY <2>2, <2>3, <2>4 DEF Put, Done
  <2>6. QED
    BY <1>1, <2>5
<1>5. QED
  BY <1>2, <1>3, <1>4 DEF ProductsStep, ProductRequests, ModerationRequests

\* The steps of a sync keep what is left of it.
LEMMA SyncTracks ==
  ASSUME DealsClean, NEW w \in Worker, Sync(w) \/ ReadSections(w)
  PROVE  \E k : /\ call' = [call EXCEPT ![w] = k]
                /\ \A p : Tracks(call[w], p) => Tracks(k, p) \/ Agreed(p)
<1>1. CASE Sync(w)
  <2>1. PICK add : add = {p \in call[w].products : InLiveCampaign(p)}
    OBVIOUS
  <2>2. PICK k : k = [at |-> "nextProduct", add |-> add, remove |-> call[w].products \ add]
    OBVIOUS
  <2>3. call' = [call EXCEPT ![w] = k]
    BY <1>1, <2>1, <2>2 DEF Sync, Become, Plan
  <2>4. k.at = "nextProduct" /\ k.add = add /\ k.remove = call[w].products \ add
    BY <2>2
  <2>5. \A p : Tracks(call[w], p) => Tracks(k, p)
    BY <1>1, <2>1, <2>4 DEF Sync, At, Tracks
  <2>6. QED
    BY <2>3, <2>5
<1>2. CASE ReadSections(w)
  <2>1. PICK d : d = call[w]
    OBVIOUS
  <2>2. d.at = "nextProduct" /\ \A p : Tracks(d, p) <=> p \in d.add \cup d.remove
    BY <1>2, <2>1 DEF ReadSections, At, Tracks
  <2>3. CASE d.add \cup d.remove = {} /\ Return(w)
    BY <2>1, <2>2, <2>3 DEF Return, Become
  <2>4. CASE \E p \in d.add : "best_deals" \in product[p]["sections"] /\ Become(w, [d EXCEPT !.add = @ \ {p}])
    <3>1. PICK p \in d.add : "best_deals" \in product[p]["sections"] /\ Become(w, [d EXCEPT !.add = @ \ {p}])
      BY <2>4
    <3>2. PICK k : k = [d EXCEPT !.add = @ \ {p}]
      OBVIOUS
    <3>3. k.at = "nextProduct" /\ k.remove = d.remove /\ d.add \ {p} \subseteq k.add
      BY <2>2, <3>1, <3>2
    <3>4. InLiveCampaign(p)
      BY <2>1, <2>2, <3>1 DEF DealsClean, StalePlan
    <3>5. \A q : Tracks(d, q) => Tracks(k, q) \/ Agreed(q)
      BY <2>2, <3>1, <3>3, <3>4 DEF Tracks, Agreed
    <3>6. QED
      BY <2>1, <3>1, <3>2, <3>5 DEF Become
  <2>5. ASSUME NEW p, NEW sections, NEW add, NEW remove, Become(w, WriteBack(p, sections, add, remove)),
               d.add \cup d.remove \subseteq {p} \cup add \cup remove
        PROVE  \E k : /\ call' = [call EXCEPT ![w] = k]
                      /\ \A q : Tracks(call[w], q) => Tracks(k, q) \/ Agreed(q)
    <3>1. PICK k : k = WriteBack(p, sections, add, remove)
      OBVIOUS
    <3>2. k.at = "writeSections" /\ k.product = p /\ k.add = add /\ k.remove = remove
      BY <3>1 DEF WriteBack
    <3>3. \A q : Tracks(d, q) => Tracks(k, q)
      BY <2>2, <2>5, <3>2 DEF Tracks
    <3>4. QED
      BY <2>1, <2>5, <3>1, <3>3 DEF Become
  <2>6. CASE \E p \in d.add : Become(w, WriteBack(p, product[p]["sections"] \cup {"best_deals"},
                                             d.add \ {p}, d.remove))
    <3>1. PICK p \in d.add : Become(w, WriteBack(p, product[p]["sections"] \cup {"best_deals"},
                                             d.add \ {p}, d.remove))
      BY <2>6
    <3>2. d.add \cup d.remove \subseteq {p} \cup (d.add \ {p}) \cup d.remove
      OBVIOUS
    <3>3. QED
      BY <2>5, <3>1, <3>2
  <2>7. CASE \E p \in d.remove : d.add = {} /\ Become(w, WriteBack(p, product[p]["sections"] \ {"best_deals"},
                                                         {}, d.remove \ {p}))
    <3>1. PICK p \in d.remove : d.add = {} /\ Become(w, WriteBack(p, product[p]["sections"] \ {"best_deals"},
                                                         {}, d.remove \ {p}))
      BY <2>7
    <3>2. d.add \cup d.remove \subseteq {p} \cup {} \cup (d.remove \ {p})
      BY <3>1
    <3>3. QED
      BY <2>5, <3>1, <3>2
  <2>8. QED
    BY <1>2, <2>1, <2>3, <2>4, <2>6, <2>7 DEF ReadSections
<1>3. QED
  BY <1>1, <1>2

LEMMA SectionsWritten ==
  ASSUME DealsInv, DealsClean, SectionsInv, NEW w \in Worker, WriteSections(w), UNCHANGED dealVars
  PROVE  SectionsInv'
<1>1. PICK d : d = call[w]
  OBVIOUS
<1>2. PICK row : row = [product[d.product] EXCEPT !.sections = d.sections]
  OBVIOUS
<1>3. product' = [product EXCEPT ![d.product] = row]
  BY <1>1, <1>2 DEF WriteSections
<1>4. product' = [p \in Product |-> IF p = d.product THEN row ELSE product[p]]
  BY <1>3 DEF SectionsInv, ProductsShaped
<1>5. d.product \in Product => row = [f \in ProductColumn |-> row[f]] /\ row["sections"] = d.sections
  BY <1>2 DEF SectionsInv, ProductsShaped, ProductColumn
<1>6. ProductsShaped'
  BY <1>4, <1>5 DEF SectionsInv, ProductsShaped
<1>7. \A p : InLiveCampaign(p)' <=> InLiveCampaign(p)
  BY DEF dealVars, InLiveCampaign, Open, Paid
<1>8. d.at = "writeSections" /\ ("best_deals" \in d.sections <=> InLiveCampaign(d.product))
  BY <1>1 DEF WriteSections, At, DealsClean, StaleSections
<1>9. PICK k : /\ call' = [call EXCEPT ![w] = k]
               /\ \A p : Tracks(d, p) => Tracks(k, p) \/ p = d.product
  <2>1. CASE d.add \cup d.remove = {} /\ Return(w)
    BY <1>8, <2>1 DEF Return, Become, Tracks
  <2>2. CASE Become(w, [at |-> "nextProduct", add |-> d.add, remove |-> d.remove])
    <3>1. PICK k : k = [at |-> "nextProduct", add |-> d.add, remove |-> d.remove]
      OBVIOUS
    <3>2. \A p : Tracks(d, p) => Tracks(k, p) \/ p = d.product
      BY <1>8, <3>1 DEF Tracks
    <3>3. QED
      BY <2>2, <3>1, <3>2 DEF Become
  <2>3. QED
    BY <1>1, <2>1, <2>2 DEF WriteSections
<1>10. ASSUME NEW p \in Product, p = d.product
       PROVE  Agreed(p)'
  <2>1. product'[p]["sections"] = d.sections
    BY <1>4, <1>5, <1>10
  <2>2. QED
    BY <1>7, <1>8, <1>10, <2>1 DEF Agreed
<1>11. ASSUME NEW p \in Product, p # d.product
       PROVE  (Agreed(p) => Agreed(p)') /\ (Tracked(p) => Tracked(p)')
  <2>1. product'[p] = product[p]
    BY <1>4, <1>11
  <2>2. Agreed(p) => Agreed(p)'
    BY <1>7, <2>1 DEF Agreed
  <2>3. Tracks(call[w], p) => Tracks(k, p)
    BY <1>1, <1>9, <1>11
  <2>4. Tracked(p) => Tracked(p)'
    BY <1>9, <2>3, TrackedStays DEF DealsInv
  <2>5. QED
    BY <2>2, <2>4
<1>12. UNCHANGED <<byHand, faults, settled>>
  BY DEF WriteSections, dealVars
<1>13. QED
  BY <1>6, <1>10, <1>11, <1>12, SectionsKept DEF SectionsInv

LEMMA SectionsStep == DealsInv /\ DealsClean /\ SectionsInv /\ [DealsNext]_dealsVars => SectionsInv'
<1> SUFFICES ASSUME DealsInv, DealsClean, SectionsInv, [DealsNext]_dealsVars
             PROVE  SectionsInv'
  OBVIOUS
<1>0. call = [v \in Worker |-> call[v]]
  BY DEF DealsInv
<1>1. ASSUME UNCHANGED <<product, byHand, settled, call, faults>>,
             \A c \in Campaign : \A p : Shows(c, p)' <=> Shows(c, p)
      PROVE  SectionsInv'
  <2>1. \A p : InLiveCampaign(p)' <=> InLiveCampaign(p)
    BY <1>1, LiveShows, LiveShowsNext
  <2>2. \A p : Agreed(p)' <=> Agreed(p)
    BY <1>1, <2>1, AgreedStays
  <2>3. \A p : Tracked(p)' <=> Tracked(p)
    BY <1>1 DEF Tracked, Tracks
  <2>4. ProductsShaped'
    BY <1>1 DEF SectionsInv, ProductsShaped
  <2>5. QED
    BY <1>1, <2>2, <2>3, <2>4 DEF SectionsInv
<1>2. CASE Charge
  BY <1>1, <1>2 DEF Charge, callVars, productVars, Shows
<1>3. CASE DatePasses
  <2>1. PICK c \in Campaign :
          campaign' = [campaign EXCEPT ![c].phase = IF @ = "early" THEN "running" ELSE "over"]
    BY <1>3 DEF DatePasses
  <2>2. UNCHANGED <<product, byHand, settled, call, faults>>
    BY <1>3 DEF DatePasses, callVars, productVars
  <2>3. PICK row : row = [campaign[c] EXCEPT !.phase = IF @ = "early" THEN "running" ELSE "over"]
    OBVIOUS
  <2>4. row = [f \in Column |-> IF f = "phase" THEN row[f] ELSE campaign[c][f]]
    BY <2>3 DEF DealsInv, CampaignsShaped, Column
  <2>5. campaign' = [d \in Campaign |-> IF d = c THEN row ELSE campaign[d]]
    BY <2>1, <2>3 DEF DealsInv, CampaignsShaped
  <2>6. /\ row["status"] = campaign[c]["status"] /\ row["payment"] = campaign[c]["payment"]
        /\ row["selected"] = campaign[c]["selected"] /\ row["deleted"] = campaign[c]["deleted"]
    BY <2>4 DEF Column
  <2>7. \A d \in Campaign : \A p : Shows(d, p)' <=> Shows(d, p)
    BY <2>5, <2>6 DEF Shows
  <2>8. QED
    BY <1>1, <2>2, <2>7
<1>4. CASE ProductsStep /\ UNCHANGED dealVars
  <2>1. /\ ProductsShaped' /\ UNCHANGED callVars
        /\ \A p \in Product \ byHand' :
             /\ p \notin byHand
             /\ "best_deals" \in product'[p]["sections"] <=> "best_deals" \in product[p]["sections"]
    BY <1>4, ProductsSections DEF SectionsInv
  <2>2. \A p : InLiveCampaign(p)' <=> InLiveCampaign(p)
    BY <1>4 DEF dealVars, InLiveCampaign, Open, Paid
  <2>3. \A p : Tracked(p)' <=> Tracked(p)
    BY <2>1 DEF callVars, Tracked, Tracks
  <2>4. \A p \in Product \ byHand' : Agreed(p)' <=> Agreed(p)
    BY <2>1, <2>2 DEF Agreed
  <2>5. QED
    BY <1>4, <2>1, <2>3, <2>4, SectionsKept DEF SectionsInv, dealVars, callVars
<1>5. CASE CreateMyCampaign
  <2>1. PICK c \in Campaign, selected \in Selections, phase \in Phase :
          /\ campaign[c] = NoCampaign
          /\ campaign' = [campaign EXCEPT ![c] =
               [NoCampaign EXCEPT !.status = "draft", !.phase = phase, !.selected = selected]]
    BY <1>5 DEF CreateMyCampaign
  <2>2. PICK row : row = [NoCampaign EXCEPT !.status = "draft", !.phase = phase, !.selected = selected]
    OBVIOUS
  <2>3. row["status"] = "draft" /\ campaign[c]["status"] = "none"
    BY <2>1, <2>2 DEF NoCampaign
  <2>4. campaign' = [d \in Campaign |-> IF d = c THEN row ELSE campaign[d]]
    BY <2>1, <2>2 DEF DealsInv, CampaignsShaped
  <2>5. \A d \in Campaign : \A p : Shows(d, p)' <=> Shows(d, p)
    BY <2>3, <2>4 DEF Shows
  <2>6. QED
    BY <1>1, <1>5, <2>5 DEF CreateMyCampaign, callVars, productVars
<1>6. ASSUME UNCHANGED <<campaign, settled, productVars, faults>>, NEW w \in Worker, NEW k,
             call' = [call EXCEPT ![w] = k],
             call[w].at \notin {"sync", "nextProduct", "writeSections"}
      PROVE  SectionsInv'
  <2>1. \A p : InLiveCampaign(p)' <=> InLiveCampaign(p)
    BY <1>6 DEF InLiveCampaign, Open, Paid
  <2>2. QED
    BY <1>0, <1>6, <2>1, NothingShown DEF productVars
<1>7. ASSUME NEW w \in Worker, InitializePayment(w) \/ (FeatureProduct(w) /\ UNCHANGED dealVars)
      PROVE  SectionsInv'
  <2>1. PICK k : call' = [call EXCEPT ![w] = k]
    BY <1>7 DEF InitializePayment, FeatureProduct, Begin, Become
  <2>2. call[w].at = "idle"
    BY <1>7 DEF InitializePayment, FeatureProduct, Begin, At
  <2>3. UNCHANGED <<campaign, settled, productVars, faults>>
    BY <1>7 DEF InitializePayment, FeatureProduct, dealVars
  <2>4. QED
    BY <1>6, <2>1, <2>2, <2>3
<1>8. ASSUME NEW w \in Worker,
             \/ UpdateMyCampaign(w) \/ RemoveCampaign(w) \/ UpdateCampaignByAdmin(w)
             \/ ApproveCampaign(w) \/ ChargeSuccess(w) \/ ChargeFailed(w)
      PROVE  SectionsInv'
  <2>1. PICK k : /\ At(w, "idle") /\ call' = [call EXCEPT ![w] = k]
                 /\ UNCHANGED <<dealVars, productVars, faults>>
    BY <1>8, DecisionStep DEF Decided
  <2>2. QED
    BY <1>6, <2>1 DEF At, dealVars
<1>9. ASSUME NEW w \in Worker, AskPaystack(w)
      PROVE  SectionsInv'
  <2>1. PICK k : call' = [call EXCEPT ![w] = k]
    BY <1>9, AskStep
  <2>2. QED
    BY <1>6, <1>9, <2>1 DEF AskPaystack, At
<1>10. ASSUME NEW w \in Worker, Write(w)
       PROVE  SectionsInv'
  BY <1>10, WriteTracked
<1>11. ASSUME NEW w \in Worker, Sync(w) \/ ReadSections(w)
       PROVE  SectionsInv'
  <2>1. PICK k : /\ call' = [call EXCEPT ![w] = k]
                 /\ \A p : Tracks(call[w], p) => Tracks(k, p) \/ Agreed(p)
    BY <1>11, SyncTracks
  <2>2. UNCHANGED <<campaign, settled, product, byHand, faults>>
    BY <1>11 DEF Sync, ReadSections, dealVars, productVars
  <2>3. \A p : InLiveCampaign(p)' <=> InLiveCampaign(p)
    BY <2>2 DEF InLiveCampaign, Open, Paid
  <2>4. \A p : Agreed(p)' <=> Agreed(p)
    BY <2>2, <2>3, AgreedStays
  <2>5. \A p : Tracked(p) => Tracked(p)' \/ Agreed(p)
    <3>1. ASSUME NEW p, Tracked(p), ~Agreed(p)
          PROVE  Tracked(p)'
      BY <1>0, <2>1, <3>1, TrackedStays
    <3>2. QED
      BY <3>1
  <2>6. ProductsShaped'
    BY <2>2 DEF SectionsInv, ProductsShaped
  <2>7. QED
    BY <2>2, <2>4, <2>5, <2>6, SectionsKept DEF SectionsInv
<1>12. ASSUME NEW w \in Worker, WriteSections(w) /\ UNCHANGED dealVars
       PROVE  SectionsInv'
  BY <1>12, SectionsWritten
<1>13. ASSUME NEW w \in Worker, CutOff(w) /\ UNCHANGED <<dealVars, productVars>>
       PROVE  SectionsInv'
  <2>1. faults' \in Nat /\ faults' # 0
    BY <1>13 DEF CutOff, SectionsInv
  <2>2. ProductsShaped'
    BY <1>13 DEF SectionsInv, ProductsShaped, productVars
  <2>3. QED
    BY <2>1, <2>2 DEF SectionsInv
<1>14. CASE UNCHANGED dealsVars
  BY <1>1, <1>14 DEF dealsVars, dealVars, productVars, callVars, Shows
<1>15. ASSUME NEW w \in Worker, Handle(w)
       PROVE  SectionsInv'
  <2>1. \/ CreateMyCampaign \/ InitializePayment(w)
        \/ \/ UpdateMyCampaign(w) \/ RemoveCampaign(w) \/ UpdateCampaignByAdmin(w)
           \/ ApproveCampaign(w) \/ ChargeSuccess(w) \/ ChargeFailed(w)
        \/ AskPaystack(w) \/ Write(w) \/ (Sync(w) \/ ReadSections(w))
        \/ CutOff(w) /\ UNCHANGED <<dealVars, productVars>>
    BY <1>15 DEF Handle, CampaignRequests, CampaignDecisions
  <2>2. InitializePayment(w) => SectionsInv'
    BY <1>7
  <2>3. \/ UpdateMyCampaign(w) \/ RemoveCampaign(w) \/ UpdateCampaignByAdmin(w)
        \/ ApproveCampaign(w) \/ ChargeSuccess(w) \/ ChargeFailed(w)
        => SectionsInv'
    BY <1>8
  <2>4. (Sync(w) \/ ReadSections(w)) => SectionsInv'
    BY <1>11
  <2>5. QED
    BY <1>5, <1>9, <1>10, <1>13, <2>1, <2>2, <2>3, <2>4
<1>16. ASSUME NEW w \in Worker, (FeatureProduct(w) \/ WriteSections(w)) /\ UNCHANGED dealVars
       PROVE  SectionsInv'
  BY <1>7, <1>12, <1>16, Zenon
<1>17. QED
  BY <1>2, <1>3, <1>4, <1>14, <1>15, <1>16 DEF DealsNext

\* When every call has ended and none was cut off, best_deals shows the
\* products of live campaigns and no others (syncDealsSectionForProducts),
\* as long as no write comes late, for any campaigns, products and calls.
THEOREM BestDealsShowLive == DealsCleanSpec => []BestDealsAreLive
<1>1. DealsInit => DealsInv /\ DealsClean /\ SectionsInv
  BY DealsInitInv, DealsInitClean, SectionsInitInv
<1>2. DealsInv /\ DealsClean /\ SectionsInv /\ [DealsNext /\ DealsClean']_dealsVars
      => DealsInv' /\ DealsClean' /\ SectionsInv'
  BY DealsStep, DealsStutterClean, SectionsStep
<1>3. SectionsInv => BestDealsAreLive
  <2>1. NobodyCalls => \A p : ~Tracked(p)
    BY DEF NobodyCalls, Idle, Tracked, Tracks
  <2>2. QED
    BY <2>1 DEF SectionsInv, BestDealsAreLive, Agreed
<1>4. QED
  BY <1>1, <1>2, <1>3, PTL DEF DealsCleanSpec

-----------------------------------------------------------------------------
\* A row of campaigns, column by column.
LEMMA RowOfColumns ==
  ASSUME NEW row, row = [f \in Column |-> row[f]],
         row["status"] \in Status \cup {"none"}, row["payment"] \in Payment, row["phase"] \in Phase,
         row["reference"] \in Reference \cup {Nil}, row["selected"] \in SUBSET Product,
         row["deleted"] \in BOOLEAN
  PROVE  row \in CampaignRow
<1>1. row = [status |-> row["status"], payment |-> row["payment"], phase |-> row["phase"],
             reference |-> row["reference"], selected |-> row["selected"], deleted |-> row["deleted"]]
  BY DEF Column
<1>2. QED
  BY <1>1 DEF CampaignRow

LEMMA ColumnsOfRow ==
  ASSUME NEW row \in CampaignRow
  PROVE  /\ row = [f \in Column |-> row[f]]
         /\ row["status"] \in Status \cup {"none"} /\ row["payment"] \in Payment /\ row["phase"] \in Phase
         /\ row["reference"] \in Reference \cup {Nil} /\ row["selected"] \in SUBSET Product
         /\ row["deleted"] \in BOOLEAN
  BY DEF CampaignRow, Column

\* What a call holds is of its type.
Reason == {"never", "removed", "ifLive", "ifChanged"}

Holds(c) ==
    /\ c.at \in {"askPaystack", "write"} => c.campaign \in Campaign
    /\ c.at = "write" => c.new \in CampaignRow /\ c.sync \in Reason
    /\ c.at \in {"write", "sync"} => c.products \subseteq Product
    /\ c.at = "nextProduct" => c.add \subseteq Product /\ c.remove \subseteq Product
    /\ c.at = "writeSections" => c \in WritingSections

DealsTyped ==
    /\ DealsTypeOK
    /\ call = [w \in Worker |-> call[w]]
    /\ \A w \in Worker : Holds(call[w])

LEMMA DealsInitTyped == DealsInit => DealsTyped
<1> SUFFICES ASSUME DealsInit PROVE DealsTyped
  OBVIOUS
<1>1. NoCampaign \in CampaignRow
  BY DEF NoCampaign, CampaignRow, Status, Payment, Phase
<1>2. campaign \in [Campaign -> CampaignRow]
  BY <1>1 DEF DealsInit
<1>3. call = [w \in Worker |-> Idle]
  BY DEF DealsInit, CallsInit
<1>4. /\ \A w \in Worker : Holds(call[w]) /\ ~At(w, "writeSections")
      /\ call = [w \in Worker |-> call[w]]
  BY <1>3 DEF Holds, Idle, At
<1>5. QED
  BY <1>2, <1>4, ProductsInitType DEF DealsInit, DealsTyped, DealsTypeOK

\* One call goes on, and what it holds is of its type.
LEMMA DealCallTyped ==
  ASSUME DealsTyped, NEW w \in Worker, NEW c, Holds(c), call' = [call EXCEPT ![w] = c],
         campaign' \in [Campaign -> CampaignRow],
         event' \in [Reference -> SUBSET {"initialized", "charge.success", "charge.failed"}],
         settled' \subseteq Campaign, ProductsTypeOK'
  PROVE  DealsTyped'
<1>1. /\ \A v \in Worker : call'[v] = IF v = w THEN c ELSE call[v]
      /\ call' = [v \in Worker |-> call'[v]]
  BY DEF DealsTyped
<1>2. \A v \in Worker : Holds(call'[v])
  BY <1>1 DEF DealsTyped
<1>3. \A v \in Worker : call'[v].at = "writeSections" => call'[v] \in WritingSections
  BY <1>2 DEF Holds
<1>4. QED
  BY <1>1, <1>2, <1>3 DEF DealsTyped, DealsTypeOK, Holds, At

LEMMA IdleHolds == Holds(Idle)
  BY DEF Holds, Idle

\* What a handler decides to write of a row that is of its type.
LEMMA DecisionTyped ==
  ASSUME DealsTyped, NEW c \in Campaign, NEW new \in CampaignRow, NEW columns, NEW sync \in Reason
  PROVE  Holds(Writing(c, new, columns, sync))
<1> DEFINE k == Writing(c, new, columns, sync)
<1>1. PICK row : row = [f \in Column |-> IF f \in columns THEN new[f] ELSE NoCampaign[f]]
  OBVIOUS
<1>2. k.at = "write" /\ k.campaign = c /\ k.new = row /\ k.sync = sync /\ k.products = campaign[c].selected
  BY <1>1, ColumnsOfCampaign DEF Writing
<1>3. NoCampaign \in CampaignRow
  BY DEF NoCampaign, CampaignRow, Status, Payment, Phase
<1>4. row \in CampaignRow
  <2>1. \A f \in Column : row[f] = new[f] \/ row[f] = NoCampaign[f]
    BY <1>1
  <2>2. row = [f \in Column |-> row[f]]
    BY <1>1
  <2>3. {"status", "payment", "phase", "reference", "selected", "deleted"} \subseteq Column
    BY DEF Column
  <2>4. QED
    BY <1>3, <2>1, <2>2, <2>3, ColumnsOfRow, RowOfColumns
<1>5. campaign[c].selected \subseteq Product
  BY DEF DealsTyped, DealsTypeOK, CampaignRow
<1> HIDE DEF k
<1>6. QED
  BY <1>2, <1>4, <1>5 DEF Holds, k

LEMMA DecideTyped ==
  ASSUME DealsTyped, NEW w \in Worker, NEW c \in Campaign, NEW new \in CampaignRow,
         NEW columns, NEW sync \in Reason, Decide(w, c, new, columns, sync)
  PROVE  DealsTyped'
<1>1. PICK k : k = Writing(c, new, columns, sync)
  OBVIOUS
<1>2. Holds(k)
  BY <1>1, DecisionTyped
<1>3. call' = [call EXCEPT ![w] = k] /\ UNCHANGED <<dealVars, productVars>>
  BY <1>1 DEF Decide, Begin, Become
<1>4. QED
  BY <1>2, <1>3, DealCallTyped DEF dealVars, productVars, DealsTyped, DealsTypeOK, ProductsTypeOK

\* The handlers that decide on a change decide on a row of its type.
LEMMA HandlersTyped ==
  ASSUME DealsTyped, NEW w \in Worker,
         \/ UpdateMyCampaign(w) \/ RemoveCampaign(w) \/ UpdateCampaignByAdmin(w)
         \/ ApproveCampaign(w) \/ ChargeSuccess(w) \/ ChargeFailed(w)
  PROVE  DealsTyped'
<1>0. \A c \in Campaign : campaign[c] \in CampaignRow
  BY DEF DealsTyped, DealsTypeOK
<1>1. CASE UpdateMyCampaign(w)
  <2>1. PICK c \in Campaign, selected \in SUBSET Product, columns \in SUBSET Column :
          Decide(w, c, [campaign[c] EXCEPT !.status = "draft", !.payment = "unpaid",
                          !.reference = Nil, !.selected = selected], columns, "never")
    BY <1>1 DEF UpdateMyCampaign, Column
  <2>2. PICK new : new = [campaign[c] EXCEPT !.status = "draft", !.payment = "unpaid",
                            !.reference = Nil, !.selected = selected]
    OBVIOUS
  <2>3. new \in CampaignRow
    BY <1>0, <2>2 DEF CampaignRow, Status, Payment
  <2>4. QED
    BY <2>1, <2>2, <2>3, DecideTyped DEF Reason
<1>2. CASE RemoveCampaign(w)
  <2>1. PICK c \in Campaign :
          Decide(w, c, [campaign[c] EXCEPT !.status = "cancelled", !.deleted = TRUE],
                 {"status", "deleted"}, "removed")
    BY <1>2 DEF RemoveCampaign
  <2>2. PICK new : new = [campaign[c] EXCEPT !.status = "cancelled", !.deleted = TRUE]
    OBVIOUS
  <2>3. new \in CampaignRow
    BY <1>0, <2>2 DEF CampaignRow, Status
  <2>4. QED
    BY <2>1, <2>2, <2>3, DecideTyped DEF Reason
<1>3. CASE UpdateCampaignByAdmin(w)
  <2>1. PICK c \in Campaign, columns \in SUBSET {"status", "payment", "selected", "phase"} :
          \E st \in IF "status" \in columns THEN Status ELSE {campaign[c]["status"]},
             payment \in IF "payment" \in columns THEN Payment ELSE {campaign[c]["payment"]},
             selected \in IF "selected" \in columns THEN Selections ELSE {campaign[c]["selected"]} :
            Decide(w, c, [campaign[c] EXCEPT !.status = st, !.payment = payment,
                            !.selected = selected], columns, "ifChanged")
    BY <1>3 DEF UpdateCampaignByAdmin
  <2>2. PICK st \in IF "status" \in columns THEN Status ELSE {campaign[c]["status"]},
             payment \in IF "payment" \in columns THEN Payment ELSE {campaign[c]["payment"]},
             selected \in IF "selected" \in columns THEN Selections ELSE {campaign[c]["selected"]} :
            Decide(w, c, [campaign[c] EXCEPT !.status = st, !.payment = payment,
                            !.selected = selected], columns, "ifChanged")
    BY <2>1
  <2>3. PICK new : new = [campaign[c] EXCEPT !.status = st, !.payment = payment,
                            !.selected = selected]
    OBVIOUS
  <2>4. /\ st \in Status \cup {"none"} /\ payment \in Payment
        /\ selected \in SUBSET Product
    BY <1>0, <2>2, ColumnsOfRow DEF Selections, OnSale
  <2>5. new \in CampaignRow
    <3>1. ASSUME NEW row \in CampaignRow, NEW now \in Status \cup {"none"}, NEW pay \in Payment,
                 NEW sel \in SUBSET Product
          PROVE  [row EXCEPT !.status = now, !.payment = pay, !.selected = sel] \in CampaignRow
      BY DEF CampaignRow
    <3>2. QED
      BY <1>0, <2>3, <2>4, <3>1
  <2>6. QED
    BY <2>2, <2>3, <2>5, DecideTyped DEF Reason
<1>4. ASSUME NEW c \in Campaign
      PROVE  StatusAfterPayment(c) \in Status
  BY DEF StatusAfterPayment, Status
<1>5. CASE ApproveCampaign(w)
  <2>1. PICK c \in Campaign : Decide(w, c, [campaign[c] EXCEPT
                    !.status = IF Paid(c) THEN StatusAfterPayment(c) ELSE "pending_payment"],
                  {"status"}, "ifLive")
    BY <1>5 DEF ApproveCampaign
  <2>2. PICK new : new = [campaign[c] EXCEPT
                    !.status = IF Paid(c) THEN StatusAfterPayment(c) ELSE "pending_payment"]
    OBVIOUS
  <2>3. (IF Paid(c) THEN StatusAfterPayment(c) ELSE "pending_payment") \in Status
    BY <1>4 DEF Status
  <2>4. new \in CampaignRow
    BY <1>0, <2>2, <2>3 DEF CampaignRow
  <2>5. QED
    BY <2>1, <2>2, <2>4, DecideTyped DEF Reason
<1>6. CASE ChargeSuccess(w)
  <2>1. PICK c \in Campaign :
          Decide(w, c, [campaign[c] EXCEPT !.payment = "paid", !.status = StatusAfterPayment(c)],
                 {"status", "payment"}, "ifLive")
    BY <1>6 DEF ChargeSuccess
  <2>2. PICK new : new = [campaign[c] EXCEPT !.payment = "paid", !.status = StatusAfterPayment(c)]
    OBVIOUS
  <2>3. new \in CampaignRow
    BY <1>0, <1>4, <2>2 DEF CampaignRow, Payment
  <2>4. QED
    BY <2>1, <2>2, <2>3, DecideTyped DEF Reason
<1>7. CASE ChargeFailed(w)
  <2>1. PICK c \in Campaign :
          Decide(w, c, [campaign[c] EXCEPT !.payment = "failed", !.status = "draft"],
                 {"status", "payment"}, "never")
    BY <1>7 DEF ChargeFailed
  <2>2. PICK new : new = [campaign[c] EXCEPT !.payment = "failed", !.status = "draft"]
    OBVIOUS
  <2>3. new \in CampaignRow
    BY <1>0, <2>2 DEF CampaignRow, Payment, Status
  <2>4. QED
    BY <2>1, <2>2, <2>3, DecideTyped DEF Reason
<1>8. QED
  BY <1>1, <1>2, <1>3, <1>5, <1>6, <1>7

\* The row that a write leaves, and what is to be put right after it.
LEMMA WriteTyped ==
  ASSUME DealsTyped, NEW w \in Worker, Write(w)
  PROVE  DealsTyped'
<1>0. PICK k : k = call[w]
  OBVIOUS
<1>1. /\ k.at = "write" /\ k.campaign \in Campaign /\ k.new \in CampaignRow /\ k.products \subseteq Product
      /\ k.sync \in Reason
  BY <1>0 DEF Write, At, DealsTyped, Holds
<1>2. PICK old \in CampaignRow : old = campaign[k.campaign]
  BY <1>1 DEF DealsTyped, DealsTypeOK
<1>3. PICK row : row = [f \in Column |-> IF f \in k.columns THEN k.new[f] ELSE old[f]]
  OBVIOUS
<1>4. row \in CampaignRow
  <2>1. \A f \in Column : row[f] = k.new[f] \/ row[f] = old[f]
    BY <1>3
  <2>2. row = [f \in Column |-> row[f]]
    BY <1>3
  <2>3. {"status", "payment", "phase", "reference", "selected", "deleted"} \subseteq Column
    BY DEF Column
  <2>4. PICK new \in CampaignRow : new = k.new
    BY <1>1
  <2>5. QED
    BY <2>1, <2>2, <2>3, <2>4, ColumnsOfRow, RowOfColumns
<1>5. PICK touched : touched = ToSync(k, row)
  OBVIOUS
<1>6. touched \subseteq Product
  <2>1. row.selected \subseteq Product
    BY <1>4 DEF CampaignRow
  <2>2. QED
    BY <1>1, <1>5, <2>1 DEF ToSync, Reason
<1>7. PICK phase \in IF "phase" \in k.columns THEN Phase ELSE {old["phase"]} :
        campaign' = [campaign EXCEPT ![k.campaign] = [row EXCEPT !.phase = phase]]
  BY <1>0, <1>2, <1>3, ColumnsOfCampaign DEF Write
<1>8. campaign' \in [Campaign -> CampaignRow]
  <2>1. phase \in Phase
    BY <1>7, ColumnsOfRow
  <2>2. [row EXCEPT !.phase = phase] \in CampaignRow
    BY <1>4, <2>1 DEF CampaignRow
  <2>3. QED
    BY <1>7, <2>2 DEF DealsTyped, DealsTypeOK
<1>9. \/ Return(w)
      \/ Become(w, [at |-> "sync", products |-> touched])
  BY <1>0, <1>2, <1>3, <1>5, ColumnsOfCampaign DEF Write
<1>10. PICK c : Holds(c) /\ call' = [call EXCEPT ![w] = c]
  <2>1. Holds([at |-> "sync", products |-> touched])
    BY <1>6 DEF Holds
  <2>2. QED
    BY <1>9, <2>1, IdleHolds DEF Return, Become
<1>11. settled' \subseteq Campaign
  BY <1>0, <1>1 DEF Write, DealsTyped, DealsTypeOK
<1>12. UNCHANGED <<event, productVars>>
  BY DEF Write
<1>13. QED
  BY <1>8, <1>10, <1>11, <1>12, DealCallTyped DEF productVars, DealsTyped, DealsTypeOK, ProductsTypeOK

\* The handlers of no call, or that end before they decide.
LEMMA AskTyped ==
  ASSUME DealsTyped, NEW w \in Worker, InitializePayment(w) \/ AskPaystack(w)
  PROVE  DealsTyped'
<1>1. CASE InitializePayment(w)
  <2>1. PICK c \in Campaign : call' = [call EXCEPT ![w] = [at |-> "askPaystack", campaign |-> c]]
    BY <1>1 DEF InitializePayment, Begin, Become
  <2>2. Holds([at |-> "askPaystack", campaign |-> c])
    BY DEF Holds
  <2>3. QED
    BY <1>1, <2>1, <2>2, DealCallTyped
    DEF InitializePayment, dealVars, productVars, DealsTyped, DealsTypeOK, ProductsTypeOK
<1>2. CASE AskPaystack(w)
  <2>1. UNCHANGED <<campaign, settled, product, byHand>>
    BY <1>2 DEF AskPaystack, productVars
  <2>2. CASE Return(w) /\ UNCHANGED event
    BY <2>1, <2>2, IdleHolds, DealCallTyped DEF Return, Become, DealsTyped, DealsTypeOK, ProductsTypeOK
  <2>3. ASSUME NEW r \in Reference, event' = [event EXCEPT ![r] = {"initialized"}],
               Become(w, Writing(call[w].campaign,
                 [NoCampaign EXCEPT !.status = "pending_payment", !.payment = "pending",
                                    !.reference = r],
                 {"status", "payment", "reference"}, "never"))
        PROVE  DealsTyped'
    <3>1. PICK new : new = [NoCampaign EXCEPT !.status = "pending_payment", !.payment = "pending",
                                              !.reference = r]
      OBVIOUS
    <3>2. new \in CampaignRow
      BY <3>1 DEF NoCampaign, CampaignRow, Status, Payment, Phase
    <3>3. PICK c \in Campaign : c = call[w].campaign
      BY <1>2 DEF AskPaystack, At, DealsTyped, Holds
    <3>4. PICK k : k = Writing(c, new, {"status", "payment", "reference"}, "never")
      OBVIOUS
    <3>5. Holds(k)
      BY <3>2, <3>4, DecisionTyped DEF Reason
    <3>6. call' = [call EXCEPT ![w] = k]
      BY <2>3, <3>1, <3>3, <3>4 DEF Become
    <3>7. event' \in [Reference -> SUBSET {"initialized", "charge.success", "charge.failed"}]
      BY <2>3 DEF DealsTyped, DealsTypeOK
    <3>8. QED
      BY <2>1, <3>5, <3>6, <3>7, DealCallTyped DEF DealsTyped, DealsTypeOK, ProductsTypeOK
  <2>4. QED
    BY <1>2, <2>2, <2>3 DEF AskPaystack
<1>3. QED
  BY <1>1, <1>2

\* The steps of a sync, and of the handler that features a product.
LEMMA SectionsTyped ==
  ASSUME DealsTyped, NEW w \in Worker, UNCHANGED dealVars,
         Sync(w) \/ ReadSections(w) \/ FeatureProduct(w) \/ WriteSections(w)
  PROVE  DealsTyped'
<1>0. PICK k : k = call[w] /\ Holds(k)
  BY DEF DealsTyped
<1>1. ASSUME UNCHANGED productVars, NEW c, Holds(c), Become(w, c)
      PROVE  DealsTyped'
  BY <1>1, DealCallTyped DEF dealVars, productVars, Become, DealsTyped, DealsTypeOK, ProductsTypeOK
<1>2. ASSUME NEW p \in Product, NEW sections \in SUBSET Section,
             NEW add \in SUBSET Product, NEW remove \in SUBSET Product
      PROVE  Holds(WriteBack(p, sections, add, remove))
  BY DEF Holds, WriteBack, WritingSections
<1>3. \A p \in Product : product[p].sections \subseteq Section
  BY DEF DealsTyped, DealsTypeOK, ProductsTypeOK, ProductRow
<1>4. CASE Sync(w)
  <2>1. k.products \subseteq Product
    BY <1>0, <1>4 DEF Sync, At, Holds
  <2>2. Holds(Plan(w))
    BY <1>0, <2>1 DEF Plan, Holds
  <2>3. QED
    BY <1>1, <1>4, <2>2 DEF Sync
<1>5. CASE ReadSections(w)
  <2>1. k.add \subseteq Product /\ k.remove \subseteq Product /\ k.at = "nextProduct"
    BY <1>0, <1>5 DEF ReadSections, At, Holds
  <2>2. UNCHANGED productVars
    BY <1>5 DEF ReadSections
  <2>3. CASE Return(w)
    BY <1>1, <2>2, <2>3, IdleHolds DEF Return
  <2>4. ASSUME NEW p \in k.add, Become(w, [k EXCEPT !.add = @ \ {p}])
        PROVE  DealsTyped'
    <3>1. PICK c : c = [k EXCEPT !.add = @ \ {p}]
      OBVIOUS
    <3>2. Holds(c)
      BY <2>1, <3>1 DEF Holds
    <3>3. QED
      BY <1>1, <2>2, <2>4, <3>1, <3>2
  <2>5. ASSUME NEW p \in k.add,
               Become(w, WriteBack(p, product[p].sections \cup {"best_deals"}, k.add \ {p}, k.remove))
        PROVE  DealsTyped'
    <3>1. product[p].sections \cup {"best_deals"} \in SUBSET Section
      BY <1>3, <2>1 DEF Section
    <3>2. k.add \ {p} \in SUBSET Product /\ k.remove \in SUBSET Product /\ p \in Product
      BY <2>1
    <3>3. QED
      BY <1>1, <1>2, <2>2, <2>5, <3>1, <3>2
  <2>6. ASSUME NEW p \in k.remove,
               Become(w, WriteBack(p, product[p].sections \ {"best_deals"}, {}, k.remove \ {p}))
        PROVE  DealsTyped'
    <3>1. product[p].sections \ {"best_deals"} \in SUBSET Section
      BY <1>3, <2>1
    <3>2. {} \in SUBSET Product /\ k.remove \ {p} \in SUBSET Product /\ p \in Product
      BY <2>1
    <3>3. QED
      BY <1>1, <1>2, <2>2, <2>6, <3>1, <3>2
  <2>7. QED
    BY <1>0, <1>5, <2>3, <2>4, <2>5, <2>6 DEF ReadSections
<1>6. CASE FeatureProduct(w)
  <2>1. PICK p \in Product, sections \in SUBSET Section : Become(w, WriteBack(p, sections, {}, {}))
    BY <1>3, <1>6 DEF FeatureProduct, OnSale, Begin, Section
  <2>2. Holds(WriteBack(p, sections, {}, {}))
    BY <1>2
  <2>3. QED
    BY <1>1, <1>6, <2>1, <2>2 DEF FeatureProduct
<1>7. CASE WriteSections(w)
  <2>1. k \in WritingSections
    BY <1>0, <1>7 DEF WriteSections, At, Holds
  <2>2. /\ k.product \in Product /\ k.sections \subseteq Section
        /\ k.add \subseteq Product /\ k.remove \subseteq Product
    BY <2>1 DEF WritingSections
  <2>3. ProductsTypeOK'
    BY <1>0, <1>7, <2>2 DEF WriteSections, DealsTyped, DealsTypeOK, ProductsTypeOK, ProductRow
  <2>4. Holds([at |-> "nextProduct", add |-> k.add, remove |-> k.remove])
    BY <2>2 DEF Holds
  <2>5. PICK c : Holds(c) /\ call' = [call EXCEPT ![w] = c]
    BY <1>0, <1>7, <2>4, IdleHolds DEF WriteSections, Return, Become
  <2>6. QED
    BY <2>3, <2>5, DealCallTyped DEF dealVars, DealsTyped, DealsTypeOK
<1>8. QED
  BY <1>4, <1>5, <1>6, <1>7

LEMMA DealsTypedStep == DealsTyped /\ [DealsNext]_dealsVars => DealsTyped'
<1> SUFFICES ASSUME DealsTyped, [DealsNext]_dealsVars
             PROVE  DealsTyped'
  OBVIOUS
<1>0. ASSUME UNCHANGED call, ProductsTypeOK',
             campaign' \in [Campaign -> CampaignRow],
             event' \in [Reference -> SUBSET {"initialized", "charge.success", "charge.failed"}],
             settled' \subseteq Campaign
      PROVE  DealsTyped'
  BY <1>0 DEF DealsTyped, DealsTypeOK, Holds, At
<1>1. CASE Charge
  BY <1>0, <1>1 DEF Charge, productVars, callVars, DealsTyped, DealsTypeOK, ProductsTypeOK
<1>2. CASE DatePasses
  <2>1. PICK c \in Campaign, phase \in Phase : campaign' = [campaign EXCEPT ![c].phase = phase]
    BY <1>2 DEF DatePasses, Phase
  <2>2. campaign' \in [Campaign -> CampaignRow]
    BY <2>1 DEF DealsTyped, DealsTypeOK, CampaignRow
  <2>3. QED
    BY <1>0, <1>2, <2>2 DEF DatePasses, productVars, callVars, DealsTyped, DealsTypeOK, ProductsTypeOK
<1>3. CASE ProductsStep /\ UNCHANGED dealVars
  BY <1>0, <1>3, ProductsTypeStep DEF dealVars, callVars, DealsTyped, DealsTypeOK
<1>4. ASSUME NEW w \in Worker, Handle(w)
      PROVE  DealsTyped'
  <2>1. CASE CreateMyCampaign
    <3>1. PICK c \in Campaign, selected \in SUBSET Product, phase \in Phase :
            campaign' = [campaign EXCEPT ![c] =
              [NoCampaign EXCEPT !.status = "draft", !.phase = phase, !.selected = selected]]
      BY <2>1 DEF CreateMyCampaign, Selections, OnSale
    <3>2. [NoCampaign EXCEPT !.status = "draft", !.phase = phase, !.selected = selected] \in CampaignRow
      BY DEF NoCampaign, CampaignRow, Status, Payment
    <3>3. campaign' \in [Campaign -> CampaignRow]
      BY <3>1, <3>2 DEF DealsTyped, DealsTypeOK
    <3>4. QED
      BY <1>0, <2>1, <3>3
      DEF CreateMyCampaign, productVars, callVars, DealsTyped, DealsTypeOK, ProductsTypeOK
  <2>2. CASE CutOff(w) /\ UNCHANGED <<dealVars, productVars>>
    BY <2>2, IdleHolds, DealCallTyped
    DEF CutOff, Return, Become, dealVars, productVars, DealsTyped, DealsTypeOK, ProductsTypeOK
  <2>3. CASE Sync(w) \/ ReadSections(w)
    BY <2>3, SectionsTyped DEF Sync, ReadSections
  <2>4. QED
    BY <1>4, <2>1, <2>2, <2>3, HandlersTyped, AskTyped, WriteTyped
    DEF Handle, CampaignRequests, CampaignDecisions
<1>5. ASSUME NEW w \in Worker, FeatureProduct(w) \/ WriteSections(w), UNCHANGED dealVars
      PROVE  DealsTyped'
  BY <1>5, SectionsTyped
<1>6. CASE UNCHANGED dealsVars
  BY <1>0, <1>6
  DEF dealsVars, dealVars, productVars, callVars, DealsTyped, DealsTypeOK, ProductsTypeOK
<1>7. QED
  BY <1>1, <1>2, <1>3, <1>4, <1>5, <1>6 DEF DealsNext

\* Campaigns, what Paystack reports of their payments, the products and what a
\* call is about to write to them stay of their types, in all runs: however
\* late a write comes, it writes columns of a campaign (DealsTypeOK).
THEOREM DealsTypeCorrect == DealsSpec => []DealsTypeOK
<1>1. DealsTyped => DealsTypeOK
  BY DEF DealsTyped
<1>2. QED
  BY <1>1, DealsInitTyped, DealsTypedStep, PTL DEF DealsSpec

-----------------------------------------------------------------------------
(***************************************************************************)
(* The tree of categories                                                  *)
(***************************************************************************)
\* The recursion that Below is defined by, for n levels.
Climbs(g, top, n) ==
    g = [k \in 0 .. n |-> IF k = 0 THEN top ELSE g[k - 1] \cup ChildrenOf(g[k - 1])]

\* It has a solution.
LEMMA LevelsExist ==
  ASSUME NEW top, NEW n \in Nat
  PROVE  \E g : Climbs(g, top, n)
<1> DEFINE Good == {k \in Nat : \E g : Climbs(g, top, k)}
<1>1. 0 \in Good
  <2>1. Climbs([k \in 0 .. 0 |-> top], top, 0)
    BY DEF Climbs
  <2>2. QED
    BY <2>1
<1>2. ASSUME NEW m \in Nat, m \in Good PROVE m + 1 \in Good
  <2>1. PICK g : Climbs(g, top, m)
    BY <1>2
  <2> DEFINE next == g[m] \cup ChildrenOf(g[m])
             h == [k \in 0 .. m + 1 |-> IF k = m + 1 THEN next ELSE g[k]]
             hh == [k \in 0 .. m + 1 |->
                      IF k = 0 THEN top ELSE h[k - 1] \cup ChildrenOf(h[k - 1])]
  <2>2. ASSUME NEW k \in 0 .. m + 1
        PROVE  h[k] = IF k = 0 THEN top ELSE h[k - 1] \cup ChildrenOf(h[k - 1])
    <3> HIDE DEF ChildrenOf
    <3>1. CASE k = m + 1
      <4>1. h[k - 1] = g[m] /\ h[k] = next
        BY <3>1
      <4>2. QED
        BY <3>1, <4>1
    <3>2. CASE k # m + 1 /\ k # 0
      <4>1. k \in 0 .. m /\ k - 1 \in 0 .. m
        BY <3>2
      <4>2. h[k] = g[k] /\ h[k - 1] = g[k - 1]
        BY <4>1
      <4>3. g[k] = g[k - 1] \cup ChildrenOf(g[k - 1])
        BY <2>1, <3>2, <4>1 DEF Climbs
      <4>4. QED
        BY <3>2, <4>2, <4>3
    <3>3. CASE k = 0
      <4>1. h[k] = g[0] /\ g[0] = top
        BY <2>1, <3>3 DEF Climbs
      <4>2. QED
        BY <3>3, <4>1
    <3>4. QED
      BY <3>1, <3>2, <3>3
  <2>3. h = hh
    <3> HIDE DEF next
    <3>1. QED
      BY <2>2
  <2>4. Climbs(h, top, m + 1)
    BY <2>3 DEF Climbs
  <2>5. QED
    <3> HIDE DEF h
    <3>1. QED
      BY <2>4
<1>3. n \in Good
  <2> HIDE DEF Good
  <2>1. QED
    BY <1>1, <1>2, NaturalsByInduction
<1>4. QED
  BY <1>3

\* Below is the last level of a solution.
LEMMA BelowIsLevel ==
  ASSUME NEW top
  PROVE  \E g : Climbs(g, top, Cardinality(Category)) /\ Below(top) = g[Cardinality(Category)]
<1>1. IsFiniteSet(Category) /\ Cardinality(Category) \in Nat
  BY CatalogueAssumption, FS_CardinalityType
<1>2. \E g : Climbs(g, top, Cardinality(Category))
  BY <1>1, LevelsExist
<1>3. QED
  BY <1>2 DEF Below, Climbs

LEMMA LevelStep ==
  ASSUME NEW g, NEW top, NEW n \in Nat, Climbs(g, top, n), NEW k \in 0 .. n
  PROVE  /\ g[0] = top
         /\ k < n => g[k + 1] = g[k] \cup ChildrenOf(g[k])
<1>1. g[0] = top
  BY DEF Climbs
<1>2. ASSUME k < n PROVE g[k + 1] = g[k] \cup ChildrenOf(g[k])
  <2>1. k + 1 \in 0 .. n /\ k + 1 # 0 /\ (k + 1) - 1 = k
    BY <1>2
  <2>2. QED
    BY <2>1 DEF Climbs
<1>3. QED
  BY <1>1, <1>2

\* A set that has the top, and the children of its members, has all below the top.
LEMMA BelowLeast ==
  ASSUME NEW top, NEW S, top \subseteq S, ChildrenOf(S) \subseteq S
  PROVE  Below(top) \subseteq S
<1> DEFINE N == Cardinality(Category)
<1>1. N \in Nat
  BY CatalogueAssumption, FS_CardinalityType
<1>2. PICK g : Climbs(g, top, N) /\ Below(top) = g[N]
  BY BelowIsLevel
<1> HIDE DEF N
<1> DEFINE Good == {k \in Nat : k <= N => g[k] \subseteq S}
<1>3. 0 \in Good
  BY <1>1, <1>2, LevelStep
<1>4. ASSUME NEW k \in Nat, k \in Good PROVE k + 1 \in Good
  <2>1. ASSUME k + 1 <= N PROVE g[k + 1] \subseteq S
    <3>1. k \in 0 .. N /\ k < N /\ g[k] \subseteq S
      BY <1>1, <1>4, <2>1
    <3>2. g[k + 1] = g[k] \cup ChildrenOf(g[k])
      BY <1>1, <1>2, <3>1, LevelStep
    <3>3. ChildrenOf(g[k]) \subseteq ChildrenOf(S)
      BY <3>1 DEF ChildrenOf
    <3>4. QED
      BY <3>1, <3>2, <3>3
  <2>2. QED
    BY <2>1
<1>5. N \in Good
  <2> HIDE DEF Good
  <2>1. QED
    BY <1>1, <1>3, <1>4, NaturalsByInduction
<1>6. QED
  BY <1>1, <1>2, <1>5

\* What is below the top has the children of its members: a level that is not
\* closed yet has a category more than the one before, and there are no more
\* levels than categories.
LEMMA BelowClosed ==
  ASSUME NEW top, top \subseteq Showing, Showing \subseteq Category
  PROVE  /\ top \subseteq Below(top) /\ Below(top) \subseteq Showing
         /\ ChildrenOf(Below(top)) \subseteq Below(top)
<1> DEFINE N == Cardinality(Category)
<1>1. N \in Nat /\ IsFiniteSet(Category)
  BY CatalogueAssumption, FS_CardinalityType
<1>2. PICK g : Climbs(g, top, N) /\ Below(top) = g[N]
  BY BelowIsLevel
<1>3. \A T : ChildrenOf(T) \subseteq Showing
  BY DEF ChildrenOf
<1> DEFINE Grown(T, k) == Cardinality(T) >= k \/ ChildrenOf(T) \subseteq T
           Good == {k \in Nat : k <= N => /\ top \subseteq g[k] /\ g[k] \subseteq Showing
                                          /\ Grown(g[k], k)}
<1> HIDE DEF N
<1>4. \A T \in SUBSET Showing : IsFiniteSet(T) /\ Cardinality(T) \in Nat
  BY <1>1, FS_Subset, FS_CardinalityType
<1>5. 0 \in Good
  <2>1. g[0] = top
    BY <1>1, <1>2, LevelStep
  <2>2. Cardinality(top) \in Nat
    BY <1>4
  <2>3. QED
    BY <2>1, <2>2
<1>6. ASSUME NEW k \in Nat, k \in Good PROVE k + 1 \in Good
  <2>1. SUFFICES ASSUME k + 1 <= N
                 PROVE  /\ top \subseteq g[k + 1] /\ g[k + 1] \subseteq Showing
                        /\ Grown(g[k + 1], k + 1)
    OBVIOUS
  <2>2. k \in 0 .. N /\ k < N /\ k <= N
    BY <1>1, <2>1
  <2>3. /\ top \subseteq g[k] /\ g[k] \subseteq Showing
        /\ Grown(g[k], k)
    BY <1>6, <2>2
  <2>4. g[k + 1] = g[k] \cup ChildrenOf(g[k])
    BY <1>1, <1>2, <2>2, LevelStep
  <2>5. top \subseteq g[k + 1] /\ g[k + 1] \subseteq Showing
    BY <1>3, <2>3, <2>4
  <2>6. CASE ChildrenOf(g[k]) \subseteq g[k]
    BY <2>4, <2>5, <2>6
  <2>7. CASE ~(ChildrenOf(g[k]) \subseteq g[k])
    <3>1. Cardinality(g[k]) >= k
      BY <2>3, <2>7
    <3>2. g[k] \subseteq g[k + 1] /\ g[k] # g[k + 1]
      BY <2>4, <2>7
    <3>3. /\ IsFiniteSet(g[k + 1])
          /\ Cardinality(g[k]) \in Nat /\ Cardinality(g[k + 1]) \in Nat
      BY <1>4, <2>3, <2>5
    <3>4. /\ Cardinality(g[k]) <= Cardinality(g[k + 1])
          /\ Cardinality(g[k]) # Cardinality(g[k + 1])
      BY <3>2, <3>3, FS_Subset
    <3>5. Cardinality(g[k + 1]) >= k + 1
      BY <3>1, <3>3, <3>4
    <3>6. QED
      BY <2>5, <3>5
  <2>8. QED
    BY <2>6, <2>7
<1>7. N \in Good
  <2> HIDE DEF Good
  <2>1. QED
    BY <1>1, <1>5, <1>6, NaturalsByInduction
<1>8. /\ top \subseteq Below(top) /\ Below(top) \subseteq Showing
      /\ Grown(Below(top), N)
  <2> HIDE DEF Grown
  <2>1. QED
    BY <1>1, <1>2, <1>7
<1>9. CASE Cardinality(Below(top)) >= N
  <2>1. Below(top) \in SUBSET Category
    BY <1>8
  <2>2. /\ Cardinality(Below(top)) <= Cardinality(Category)
        /\ Cardinality(Category) = Cardinality(Below(top)) => Category = Below(top)
    BY <1>1, <2>1, FS_Subset
  <2>3. Cardinality(Below(top)) \in Nat
    BY <1>4, <1>8
  <2>4. Category = Below(top)
    BY <1>1, <1>9, <2>2, <2>3 DEF N
  <2>5. QED
    BY <1>3, <1>8, <2>4
<1>10. QED
  BY <1>8, <1>9

\* If no category is below itself, the tree of the roots has all that are shown:
\* a category left out, with as many below it as any, has a parent that is left
\* out too and has it below itself.
LEMMA TreeIsWhole ==
  ASSUME CatalogueTypeOK, Acyclic
  PROVE  BuildTree = Showing
<1> DEFINE Descendants(c) == Below(ChildrenOf({c}))
           Out == Showing \ BuildTree
<1>1. Showing \subseteq Category
  BY DEF Showing, Found, Inserted
<1>2. \A T : ChildrenOf(T) \subseteq Showing
  BY DEF ChildrenOf
<1>3. Roots \subseteq Showing
  BY DEF Roots
<1>4. /\ Roots \subseteq BuildTree /\ BuildTree \subseteq Showing
      /\ ChildrenOf(BuildTree) \subseteq BuildTree
  BY <1>1, <1>3, BelowClosed DEF BuildTree
<1>5. \A c : /\ ChildrenOf({c}) \subseteq Descendants(c) /\ Descendants(c) \subseteq Showing
             /\ ChildrenOf(Descendants(c)) \subseteq Descendants(c)
  BY <1>1, <1>2, BelowClosed
<1>6. IsFiniteSet(Category) /\ Cardinality(Category) \in Nat
  BY CatalogueAssumption, FS_CardinalityType
<1>7. \A c : /\ IsFiniteSet(Descendants(c)) /\ Cardinality(Descendants(c)) \in Nat
             /\ Cardinality(Descendants(c)) <= Cardinality(Category)
  <2> HIDE DEF Descendants
  <2>1. ASSUME NEW c
        PROVE  /\ IsFiniteSet(Descendants(c)) /\ Cardinality(Descendants(c)) \in Nat
               /\ Cardinality(Descendants(c)) <= Cardinality(Category)
    <3>1. Descendants(c) \in SUBSET Category
      BY <1>1, <1>5
    <3>2. QED
      BY <1>6, <3>1, FS_Subset, FS_CardinalityType
  <2>2. QED
    BY <2>1
<1>8. ASSUME NEW c \in Out
      PROVE  /\ category[c].parent \in Out
             /\ Cardinality(Descendants(c)) < Cardinality(Descendants(category[c].parent))
  <2> DEFINE p == category[c].parent
  <2>1. c \in Showing /\ c \notin BuildTree /\ c \notin Roots
    BY <1>4
  <2>2. p \in Showing
    BY <2>1 DEF Roots
  <2>3. p \notin BuildTree
    <3>1. p \in BuildTree => c \in ChildrenOf(BuildTree)
      BY <2>1 DEF ChildrenOf
    <3>2. QED
      BY <1>4, <2>1, <3>1
  <2>4. c \in ChildrenOf({p})
    BY <2>1 DEF ChildrenOf
  <2> HIDE DEF p, Descendants
  <2>5. c \in Descendants(p)
    BY <1>5, <2>4
  <2>6. c \notin Descendants(c)
    BY <2>1 DEF Acyclic, Descendants
  <2>7. ChildrenOf({c}) \subseteq ChildrenOf(Descendants(p))
    BY <2>5 DEF ChildrenOf
  <2>8. ChildrenOf({c}) \subseteq Descendants(p)
    BY <1>5, <2>7
  <2>9. Descendants(c) \subseteq Descendants(p)
    BY <1>5, <2>8, BelowLeast DEF Descendants
  <2>10. /\ Cardinality(Descendants(c)) <= Cardinality(Descendants(p))
         /\ Cardinality(Descendants(p)) # Cardinality(Descendants(c))
    BY <1>7, <2>5, <2>6, <2>9, FS_Subset
  <2>11. Cardinality(Descendants(c)) < Cardinality(Descendants(p))
    BY <1>7, <2>10
  <2>12. QED
    BY <2>2, <2>3, <2>11 DEF p
<1> HIDE DEF Descendants, Out
<1> DEFINE Good == {n \in Nat : \E c \in Out : Cardinality(Descendants(c)) >= n}
<1>9. SUFFICES ASSUME Out # {} PROVE FALSE
  BY <1>4 DEF Out
<1>10. 0 \in Good
  BY <1>7, <1>9
<1>11. ASSUME NEW n \in Nat, n \in Good PROVE n + 1 \in Good
  <2>1. PICK c \in Out : Cardinality(Descendants(c)) >= n
    BY <1>11
  <2>2. QED
    BY <1>7, <1>8, <2>1
<1>12. Cardinality(Category) + 1 \in Good
  <2> HIDE DEF Good
  <2>1. QED
    BY <1>6, <1>10, <1>11, NaturalsByInduction
<1>13. PICK c \in Out : Cardinality(Descendants(c)) >= Cardinality(Category) + 1
  BY <1>12
<1>14. QED
  BY <1>6, <1>7, <1>13

-----------------------------------------------------------------------------
(***************************************************************************)
(* The pages of a list                                                     *)
(***************************************************************************)
Orders == {"price_asc", "price_desc", "newest"}

LEMMA ShelvedType ==
  ASSUME CatalogueTypeOK
  PROVE  \A i \in Shelved : i \in Nat /\ shelf[i].price \in Nat /\ shelf[i].age \in 1 .. 2
<1> SUFFICES ASSUME NEW i \in Shelved
             PROVE  i \in Nat /\ shelf[i].price \in Nat /\ shelf[i].age \in 1 .. 2
  OBVIOUS
<1>1. i \in Item /\ shelf[i] \in Card
  BY DEF CatalogueTypeOK, Shelved
<1>2. QED
  BY <1>1, CatalogueAssumption DEF Card

\* Any two products are in one order, and not in the other.
LEMMA BeforeIsOrder ==
  ASSUME CatalogueTypeOK, NEW o \in Orders, NEW i \in Shelved, NEW j \in Shelved
  PROVE  /\ ~Before(o, i, i)
         /\ i # j => Before(o, i, j) \/ Before(o, j, i)
         /\ \A k \in Shelved : Before(o, i, j) /\ Before(o, j, k) => Before(o, i, k)
<1>1. CASE o = "price_asc"
  BY <1>1, ShelvedType DEF Before
<1>2. CASE o = "price_desc"
  BY <1>2, ShelvedType DEF Before
<1>3. CASE o = "newest"
  BY <1>3, ShelvedType DEF Before
<1>4. QED
  BY <1>1, <1>2, <1>3 DEF Orders

\* One of the products is after all others.
LEMMA LastExists ==
  ASSUME CatalogueTypeOK, NEW o \in Orders, NEW T, T \subseteq Shelved, IsFiniteSet(T), T # {}
  PROVE  \E j \in T : \A i \in T \ {j} : Before(o, i, j)
<1> DEFINE Good == {U \in SUBSET T : U # {} => \E j \in U : \A i \in U \ {j} : Before(o, i, j)}
<1>1. ASSUME NEW U \in SUBSET T, \A V \in (SUBSET U) \ {U} : V \in Good PROVE U \in Good
  <2>1. SUFFICES ASSUME U # {} PROVE \E j \in U : \A i \in U \ {j} : Before(o, i, j)
    OBVIOUS
  <2>2. PICK x \in U : TRUE
    BY <2>1
  <2>3. CASE U \ {x} = {}
    BY <2>2, <2>3
  <2>4. CASE U \ {x} # {}
    <3>1. U \ {x} \in Good
      BY <1>1, <2>2
    <3>2. PICK y \in U \ {x} : \A i \in (U \ {x}) \ {y} : Before(o, i, y)
      BY <2>4, <3>1
    <3>3. x \in Shelved /\ y \in Shelved /\ U \subseteq Shelved /\ x # y
      BY <2>2, <3>2
    <3>4. CASE Before(o, x, y)
      BY <3>2, <3>4
    <3>5. CASE Before(o, y, x)
      <4>1. ASSUME NEW i \in U \ {x} PROVE Before(o, i, x)
        <5>1. CASE i = y
          BY <3>5, <5>1
        <5>2. CASE i # y
          BY <3>2, <3>3, <3>5, <5>2, BeforeIsOrder
        <5>3. QED
          BY <5>1, <5>2
      <4>2. QED
        BY <2>2, <4>1
    <3>6. QED
      BY <3>3, <3>4, <3>5, BeforeIsOrder
  <2>5. QED
    BY <2>3, <2>4
<1>2. T \in Good
  <2> HIDE DEF Good
  <2>1. QED
    BY <1>1, FiniteSetByInduction
<1>3. QED
  BY <1>2

InOrder(s, o) == \A m, n \in DOMAIN s : m < n => Before(o, s[m], s[n])

\* Products can be put in order.
LEMMA OrderExists ==
  ASSUME CatalogueTypeOK, NEW o \in Orders, NEW T, T \subseteq Shelved, IsFiniteSet(T)
  PROVE  \E s \in [1 .. Cardinality(T) -> T] : InOrder(s, o)
<1> DEFINE Good == {U \in SUBSET T : \E s \in [1 .. Cardinality(U) -> U] : InOrder(s, o)}
<1>1. ASSUME NEW U \in SUBSET T, \A V \in (SUBSET U) \ {U} : V \in Good PROVE U \in Good
  <2>1. IsFiniteSet(U)
    BY FS_Subset
  <2>2. CASE U = {}
    <3>1. 1 .. Cardinality(U) = {}
      BY <2>2, FS_EmptySet
    <3> DEFINE s == [n \in 1 .. Cardinality(U) |-> n]
    <3>2. s \in [1 .. Cardinality(U) -> U] /\ InOrder(s, o)
      BY <3>1 DEF InOrder
    <3>3. QED
      BY <3>2
  <2>3. CASE U # {}
    <3>1. PICK j \in U : \A i \in U \ {j} : Before(o, i, j)
      BY <2>1, <2>3, LastExists
    <3> DEFINE V == U \ {j}
               N == Cardinality(V)
    <3>2. V \in Good
      BY <1>1, <3>1
    <3>3. PICK t \in [1 .. N -> V] : InOrder(t, o)
      BY <3>2
    <3>4. N \in Nat /\ Cardinality(U) = N + 1
      <4>1. IsFiniteSet(V) /\ N = Cardinality(U) - 1
        BY <2>1, <3>1, FS_RemoveElement
      <4>2. N \in Nat /\ Cardinality(U) \in Nat
        BY <2>1, <4>1, FS_CardinalityType
      <4>3. QED
        BY <4>1, <4>2
    <3> HIDE DEF N
    <3> DEFINE s == [n \in 1 .. N + 1 |-> IF n = N + 1 THEN j ELSE t[n]]
    <3>5. s \in [1 .. N + 1 -> U]
      <4>1. ASSUME NEW n \in 1 .. N + 1, n # N + 1 PROVE t[n] \in U
        BY <3>3, <3>4, <4>1
      <4>2. QED
        BY <3>1, <4>1
    <3>6. ASSUME NEW m \in 1 .. N + 1, NEW n \in 1 .. N + 1, m < n
          PROVE  Before(o, s[m], s[n])
      <4>1. m \in 1 .. N /\ s[m] = t[m] /\ t[m] \in V
        BY <3>3, <3>4, <3>6
      <4>2. CASE n = N + 1
        BY <3>1, <4>1, <4>2
      <4>3. CASE n # N + 1
        <5>1. n \in 1 .. N /\ s[n] = t[n]
          BY <3>4, <4>3
        <5>2. Before(o, t[m], t[n])
          BY <3>3, <3>6, <4>1, <5>1 DEF InOrder
        <5>3. QED
          BY <4>1, <5>1, <5>2
      <4>4. QED
        BY <4>2, <4>3
    <3>7. DOMAIN s = 1 .. N + 1
      OBVIOUS
    <3> HIDE DEF s
    <3>8. InOrder(s, o)
      BY <3>6, <3>7 DEF InOrder
    <3>9. QED
      BY <3>4, <3>5, <3>8
  <2>4. QED
    BY <2>2, <2>3
<1>2. T \in Good
  <2> HIDE DEF Good
  <2>1. QED
    BY <1>1, FiniteSetByInduction
<1>3. QED
  BY <1>2

\* A list has each of its products, in order.
LEMMA SortedHasAll ==
  ASSUME CatalogueTypeOK, NEW q \in Query
  PROVE  LET s == Sorted(q)
             F == ProductFilters(q)
         IN  /\ IsFiniteSet(F) /\ Cardinality(F) \in Nat /\ Cardinality(F) <= Cardinality(Item)
             /\ s \in Seq(F) /\ Len(s) = Cardinality(F)
             /\ \A x \in F : \E n \in 1 .. Len(s) : s[n] = x
             /\ \A m, n \in 1 .. Len(s) : m < n => Before(q.sort, s[m], s[n])
<1> DEFINE s == Sorted(q)
           F == ProductFilters(q)
           N == Cardinality(F)
<1>1. F \subseteq Shelved /\ Shelved \subseteq Item /\ IsFiniteSet(Item)
  BY CatalogueAssumption DEF ProductFilters, Shelved
<1>2. IsFiniteSet(F) /\ N \in Nat /\ N <= Cardinality(Item)
  BY <1>1, FS_Subset, FS_CardinalityType
<1>3. q.sort \in Orders
  BY DEF Query, Orders
<1>4. \E t \in [1 .. N -> F] : InOrder(t, q.sort)
  <2> HIDE DEF F
  <2>1. QED
    BY <1>1, <1>2, <1>3, OrderExists
<1>5. s \in [1 .. N -> F] /\ InOrder(s, q.sort)
  BY <1>4 DEF Sorted, InOrder
<1> HIDE DEF s, F
<1>6. s \in Seq(F) /\ Len(s) = N /\ DOMAIN s = 1 .. N
  BY <1>2, <1>5
<1>7. \A m, n \in 1 .. N : m < n => Before(q.sort, s[m], s[n])
  BY <1>5, <1>6 DEF InOrder
<1>8. \A m, n \in 1 .. N : s[m] = s[n] => m = n
  <2> SUFFICES ASSUME NEW m \in 1 .. N, NEW n \in 1 .. N, m < n PROVE s[m] # s[n]
    BY <1>2
  <2>1. Before(q.sort, s[m], s[n]) /\ s[m] \in Shelved
    BY <1>1, <1>5, <1>7
  <2>2. QED
    BY <1>3, <2>1, BeforeIsOrder
<1>9. s \in Injection(1 .. N, F)
  BY <1>5, <1>8 DEF Injection, IsInjective
<1>10. IsFiniteSet(1 .. N) /\ Cardinality(1 .. N) = N
  BY <1>2, FS_Interval
<1>11. s \in Surjection(1 .. N, F)
  BY <1>2, <1>9, <1>10, FS_Injection
<1>12. \A x \in F : \E n \in 1 .. N : s[n] = x
  BY <1>11 DEF Surjection
<1>13. QED
  BY <1>2, <1>6, <1>7, <1>12 DEF s, F

\* The recursion that FlattenSeq is defined by has a solution ...
Flattens(g, p, n) == g = [i \in 1 .. n |-> IF i = 1 THEN p[i] ELSE g[i - 1] \o p[i]]

LEMMA FlattenExists ==
  ASSUME NEW p, NEW n \in Nat
  PROVE  \E g : Flattens(g, p, n)
<1> DEFINE Good == {k \in Nat : \E g : Flattens(g, p, k)}
<1>1. 0 \in Good
  <2>1. Flattens([i \in 1 .. 0 |-> i], p, 0)
    BY DEF Flattens
  <2>2. QED
    BY <2>1
<1>2. ASSUME NEW k \in Nat, k \in Good PROVE k + 1 \in Good
  <2>1. PICK g : Flattens(g, p, k)
    BY <1>2
  <2> DEFINE last == IF k = 0 THEN p[1] ELSE g[k] \o p[k + 1]
             h == [i \in 1 .. k + 1 |-> IF i = k + 1 THEN last ELSE g[i]]
             hh == [i \in 1 .. k + 1 |-> IF i = 1 THEN p[i] ELSE h[i - 1] \o p[i]]
  <2>2. ASSUME NEW i \in 1 .. k + 1
        PROVE  h[i] = IF i = 1 THEN p[i] ELSE h[i - 1] \o p[i]
    <3>1. CASE i = k + 1
      <4>1. h[i] = last
        BY <3>1
      <4>2. CASE k = 0
        BY <3>1, <4>1, <4>2
      <4>3. CASE k # 0
        <5>1. h[i - 1] = g[k] /\ i # 1
          BY <3>1, <4>3
        <5>2. QED
          BY <3>1, <4>1, <4>3, <5>1
      <4>4. QED
        BY <4>2, <4>3
    <3>2. CASE i # k + 1
      <4>1. i \in 1 .. k /\ h[i] = g[i] /\ (i # 1 => h[i - 1] = g[i - 1])
        BY <3>2
      <4>2. g[i] = IF i = 1 THEN p[i] ELSE g[i - 1] \o p[i]
        BY <2>1, <4>1 DEF Flattens
      <4>3. QED
        BY <4>1, <4>2
    <3>3. QED
      BY <3>1, <3>2
  <2>3. h = hh
    <3> HIDE DEF last
    <3>1. QED
      BY <2>2
  <2>4. Flattens(h, p, k + 1)
    BY <2>3 DEF Flattens
  <2>5. QED
    <3> HIDE DEF h
    <3>1. QED
      BY <2>4
<1>3. n \in Good
  <2> HIDE DEF Good
  <2>1. QED
    BY <1>1, <1>2, NaturalsByInduction
<1>4. QED
  BY <1>3

\* ... and its last value is the result.
LEMMA FlattenIsLast ==
  ASSUME NEW p, Len(p) \in Nat \ {0}
  PROVE  \E g : Flattens(g, p, Len(p)) /\ FlattenSeq(p) = g[Len(p)]
<1>1. \E g : Flattens(g, p, Len(p))
  BY FlattenExists
<1>2. QED
  BY <1>1 DEF FlattenSeq, Flattens

\* The first part of a sequence and the next part are a longer first part.
LEMMA PartsJoin ==
  ASSUME NEW S, NEW s \in Seq(S), NEW a \in Nat, NEW b \in Nat, a <= b, b <= Len(s)
  PROVE  SubSeq(s, 1, a) \o SubSeq(s, a + 1, b) = SubSeq(s, 1, b)
<1> DEFINE u == SubSeq(s, 1, a)
           v == SubSeq(s, a + 1, b)
           w == SubSeq(s, 1, b)
<1>1. /\ u \in Seq(S) /\ Len(u) = a
      /\ \A i \in 1 .. a : u[i] = s[i]
  BY SubSeqProperties
<1>2. /\ v \in Seq(S) /\ Len(v) = b - a
      /\ \A i \in 1 .. b - a : v[i] = s[a + i]
  BY SubSeqProperties
<1>3. /\ w \in Seq(S) /\ Len(w) = b
      /\ \A i \in 1 .. b : w[i] = s[i]
  BY SubSeqProperties
<1> HIDE DEF u, v, w
<1>4. /\ u \o v \in Seq(S) /\ Len(u \o v) = b
      /\ \A i \in 1 .. b : (u \o v)[i] = IF i <= a THEN u[i] ELSE v[i - a]
  <2>1. Len(u) + Len(v) = b
    BY <1>1, <1>2
  <2>2. /\ u \o v \in Seq(S) /\ Len(u \o v) = Len(u) + Len(v)
        /\ \A i \in 1 .. Len(u) + Len(v) : (u \o v)[i] = IF i <= Len(u) THEN u[i] ELSE v[i - Len(u)]
    BY <1>1, <1>2, ConcatProperties
  <2>3. QED
    BY <1>1, <2>1, <2>2
<1>5. \A i \in 1 .. b : (u \o v)[i] = w[i]
  <2> SUFFICES ASSUME NEW i \in 1 .. b PROVE (u \o v)[i] = w[i]
    OBVIOUS
  <2>1. CASE i <= a
    BY <1>1, <1>3, <1>4, <2>1
  <2>2. CASE ~(i <= a)
    <3>1. i - a \in 1 .. b - a /\ a + (i - a) = i
      BY <2>2
    <3>2. QED
      BY <1>2, <1>3, <1>4, <2>2, <3>1
  <2>3. QED
    BY <2>1, <2>2
<1>6. u \o v = w
  BY <1>3, <1>4, <1>5, SeqEqual
<1>7. QED
  BY <1>6 DEF u, v, w

LEMMA LesserOfTwo ==
  ASSUME NEW a \in Int, NEW b \in Int
  PROVE  Min({a, b}) = IF a <= b THEN a ELSE b
BY DEF Min

LEMMA TimesMonotone ==
  ASSUME NEW m \in Int, NEW n \in Int, NEW l \in Nat, m <= n
  PROVE  m * l <= n * l
<1>1. (n - m) * l >= 0 /\ (n - m) * l = n * l - m * l
  OBVIOUS
<1>2. QED
  BY <1>1

\* There is a next page while the pages so far have not all of the list.
LEMMA PagesNeeded ==
  ASSUME NEW L \in Nat, NEW l \in Nat \ {0}, NEW n \in Nat
  PROVE  /\ (L + l - 1) \div l \in Nat
         /\ n < (L + l - 1) \div l <=> n * l < L
<1> DEFINE x == L + l - 1
           d == x \div l
<1>1. x \in Nat
  OBVIOUS
<1> HIDE DEF x
<1>2. d \in Nat /\ d * l <= x /\ x < d * l + l
  BY <1>1
<1> HIDE DEF d
<1>3. ASSUME n < d PROVE n * l < L
  <2>1. (n + 1) * l <= d * l
    BY <1>2, <1>3, TimesMonotone
  <2>2. (n + 1) * l = n * l + l
    OBVIOUS
  <2>3. QED
    BY <1>2, <2>1, <2>2 DEF x
<1>4. ASSUME ~(n < d) PROVE ~(n * l < L)
  <2>1. d * l <= n * l
    BY <1>2, <1>4, TimesMonotone
  <2>2. QED
    BY <1>2, <2>1 DEF x
<1>5. QED
  BY <1>2, <1>3, <1>4 DEF d, x

\* The pages of a list, one after the other, up to the last, are the list.
LEMMA WalkIsSorted ==
  ASSUME CatalogueTypeOK, NEW q \in Query, NEW k \in Nat \ {0},
         ~HasNextPage(q, k), \A m \in 1 .. k - 1 : HasNextPage(q, m)
  PROVE  FlattenSeq([n \in 1 .. k |-> FindProductPage(q, n)]) = Sorted(q)
<1> DEFINE s == Sorted(q)
           F == ProductFilters(q)
           L == Len(s)
           l == q.limit
           p == [n \in 1 .. k |-> FindProductPage(q, n)]
           upTo(n) == IF n * l <= L THEN n * l ELSE L
<1>1. s \in Seq(F) /\ L \in Nat /\ L = Cardinality(F)
  BY SortedHasAll
<1>2. l \in Nat \ {0}
  BY CatalogueAssumption DEF Query
<1>3. \A n \in Nat : HasNextPage(q, n) <=> n * l < L
  BY <1>1, <1>2, PagesNeeded DEF HasNextPage, TotalPages
<1>4. \A n \in Nat : n * l \in Nat /\ upTo(n) \in Nat /\ upTo(n) <= L
  BY <1>1, <1>2
<1>5. ASSUME NEW n \in 1 .. k
      PROVE  p[n] = SubSeq(s, (n - 1) * l + 1, upTo(n))
  <2>1. Min({n * l, L}) = upTo(n)
    <3> DEFINE c == n * l
    <3>1. c \in Int /\ L \in Int
      BY <1>1, <1>4
    <3> HIDE DEF c, L
    <3>2. Min({c, L}) = IF c <= L THEN c ELSE L
      BY <3>1, LesserOfTwo
    <3>3. QED
      BY <3>2 DEF c
  <2>2. QED
    BY <2>1 DEF FindProductPage
<1> HIDE DEF s, F, L, l
<1>6. p \in Seq(Seq(F)) /\ Len(p) = k
  <2> HIDE DEF p
  <2>1. ASSUME NEW n \in 1 .. k PROVE p[n] \in Seq(F)
    <3> DEFINE a == (n - 1) * l + 1
               b == upTo(n)
    <3>1. a \in Int /\ a >= 1 /\ b \in Nat /\ b <= L
      BY <1>2, <1>4
    <3>2. p[n] = SubSeq(s, a, b)
      BY <1>5
    <3> HIDE DEF a, b
    <3>3. \A i \in a .. b : s[i] \in F
      BY <1>1, <3>1 DEF L
    <3>4. SubSeq(s, a, b) \in Seq(F)
      BY <3>1, <3>3, SubSeqProperties
    <3>5. QED
      BY <3>2, <3>4
  <2>2. QED
    BY <2>1 DEF p
<1>7. PICK g : Flattens(g, p, k) /\ FlattenSeq(p) = g[k]
  BY <1>6, FlattenIsLast
<1> HIDE DEF p
<1> DEFINE Good == {n \in Nat : n \in 1 .. k => g[n] = SubSeq(s, 1, upTo(n))}
<1>8. 0 \in Good
  OBVIOUS
<1>9. ASSUME NEW n \in Nat, n \in Good PROVE n + 1 \in Good
  <2>1. SUFFICES ASSUME n + 1 \in 1 .. k PROVE g[n + 1] = SubSeq(s, 1, upTo(n + 1))
    OBVIOUS
  <2>2. p[n + 1] = SubSeq(s, n * l + 1, upTo(n + 1))
    <3>1. (n + 1) - 1 = n
      OBVIOUS
    <3>2. QED
      BY <1>5, <2>1, <3>1
  <2>3. CASE n = 0
    <3>1. g[n + 1] = p[n + 1]
      BY <1>7, <2>1, <2>3 DEF Flattens
    <3>2. n * l + 1 = 1
      BY <1>2, <2>3
    <3>3. QED
      BY <2>2, <3>1, <3>2
  <2>4. CASE n # 0
    <3>1. n \in 1 .. k - 1 /\ n \in 1 .. k
      BY <2>1, <2>4
    <3>2. n * l < L
      BY <1>3, <3>1
    <3>3. g[n] = SubSeq(s, 1, n * l)
      BY <1>1, <1>4, <1>9, <3>1, <3>2
    <3>4. g[n + 1] = g[n] \o p[n + 1]
      <4>1. n + 1 # 1 /\ (n + 1) - 1 = n
        BY <2>4
      <4>2. QED
        BY <1>7, <2>1, <4>1 DEF Flattens
    <3>5. n * l <= upTo(n + 1)
      <4>1. n * l <= (n + 1) * l
        BY <1>2, TimesMonotone
      <4>2. upTo(n + 1) = (n + 1) * l \/ upTo(n + 1) = L
        OBVIOUS
      <4>3. CASE upTo(n + 1) = (n + 1) * l
        <5> HIDE DEF upTo
        <5>1. QED
          BY <4>1, <4>3
      <4>4. CASE upTo(n + 1) = L
        <5>1. n * l \in Int
          BY <1>4
        <5> HIDE DEF upTo
        <5>2. QED
          BY <1>1, <3>2, <4>4, <5>1
      <4>5. QED
        BY <4>2, <4>3, <4>4
    <3>6. upTo(n + 1) \in Nat /\ upTo(n + 1) <= L /\ n * l \in Nat
      BY <1>4
    <3>7. SubSeq(s, 1, n * l) \o SubSeq(s, n * l + 1, upTo(n + 1)) = SubSeq(s, 1, upTo(n + 1))
      <4> HIDE DEF upTo
      <4>1. QED
        BY <1>1, <3>5, <3>6, PartsJoin DEF L
    <3>8. QED
      BY <2>2, <3>3, <3>4, <3>7
  <2>5. QED
    BY <2>3, <2>4
<1>10. k \in Good
  <2> HIDE DEF Good
  <2>1. QED
    BY <1>8, <1>9, NaturalsByInduction
<1>11. upTo(k) = L
  BY <1>1, <1>3, <1>4
<1>12. SubSeq(s, 1, L) = s
  BY <1>1, SubSeqFull DEF L
<1>13. FlattenSeq(p) = s
  <2>1. g[k] = SubSeq(s, 1, upTo(k))
    BY <1>10
  <2>2. QED
    BY <1>7, <1>11, <1>12, <2>1
<1>14. QED
  BY <1>13 DEF p, s

\* A walk ends.
LEMMA WalkEnds ==
  ASSUME CatalogueTypeOK, NEW q \in Query
  PROVE  \E n \in 1 .. Cardinality(Item) + 1 :
            ~HasNextPage(q, n) /\ \A m \in 1 .. n - 1 : HasNextPage(q, m)
<1> DEFINE L == Cardinality(ProductFilters(q))
           l == q.limit
           T == TotalPages(q)
<1>1. L \in Nat /\ L <= Cardinality(Item) /\ Cardinality(Item) \in Nat
  BY SortedHasAll, CatalogueAssumption, FS_CardinalityType
<1>2. l \in Nat \ {0}
  BY CatalogueAssumption DEF Query
<1>3. T \in Nat /\ ~(L < T)
  <2>1. L * l >= L
    BY <1>1, <1>2
  <2>2. L * l \in Nat
    BY <1>1, <1>2
  <2>3. ~(L * l < L)
    BY <1>1, <2>1, <2>2
  <2>4. T = (L + l - 1) \div l
    BY DEF TotalPages
  <2> HIDE DEF L, l, T
  <2>5. QED
    BY <1>1, <1>2, <2>3, <2>4, PagesNeeded
<1> HIDE DEF L, T
<1>4. CASE T = 0
  <2>1. ~HasNextPage(q, 1)
    BY <1>4 DEF HasNextPage, T
  <2>2. QED
    BY <1>1, <2>1
<1>5. CASE T # 0
  <2>1. T \in 1 .. Cardinality(Item) + 1
    BY <1>1, <1>3, <1>5
  <2>2. ~HasNextPage(q, T) /\ \A m \in 1 .. T - 1 : HasNextPage(q, m)
    BY <1>3 DEF HasNextPage, T
  <2>3. QED
    BY <2>1, <2>2
<1>6. QED
  BY <1>4, <1>5

\* A walk shows each product of a list once, in order.
LEMMA WalkShowsAll ==
  ASSUME CatalogueTypeOK, NEW q \in Query
  PROVE  LET walk == 1 .. CHOOSE n \in 1 .. Cardinality(Item) + 1 :
                           ~HasNextPage(q, n) /\ \A m \in 1 .. n - 1 : HasNextPage(q, m)
             seen == FlattenSeq([n \in walk |-> FindProductPage(q, n)])
         IN  /\ Range(seen) = ProductFilters(q)
             /\ \A m, n \in DOMAIN seen : m < n => Before(q.sort, seen[m], seen[n])
<1> DEFINE k == CHOOSE n \in 1 .. Cardinality(Item) + 1 :
                   ~HasNextPage(q, n) /\ \A m \in 1 .. n - 1 : HasNextPage(q, m)
           seen == FlattenSeq([n \in 1 .. k |-> FindProductPage(q, n)])
<1>1. /\ k \in 1 .. Cardinality(Item) + 1
      /\ ~HasNextPage(q, k) /\ \A m \in 1 .. k - 1 : HasNextPage(q, m)
  BY WalkEnds
<1>2. Cardinality(Item) \in Nat
  BY CatalogueAssumption, FS_CardinalityType
<1> HIDE DEF k
<1>3. k \in Nat \ {0}
  BY <1>1, <1>2
<1>4. seen = Sorted(q)
  BY <1>1, <1>3, WalkIsSorted
<1> HIDE DEF seen
<1>5. /\ DOMAIN seen = 1 .. Len(seen) /\ \A n \in 1 .. Len(seen) : seen[n] \in ProductFilters(q)
      /\ \A x \in ProductFilters(q) : \E n \in 1 .. Len(seen) : seen[n] = x
      /\ \A m, n \in 1 .. Len(seen) : m < n => Before(q.sort, seen[m], seen[n])
  BY <1>4, SortedHasAll
<1>6. Range(seen) = ProductFilters(q)
  BY <1>5 DEF Range
<1>7. QED
  BY <1>5, <1>6 DEF k, seen

-----------------------------------------------------------------------------
LEMMA CatalogueTypeStep ==
  ASSUME CatalogueTypeOK, [CatalogueNext]_<<catalogueVars, callVars>>
  PROVE  CatalogueTypeOK'
<1>1. CASE UNCHANGED <<catalogueVars, callVars>>
  BY <1>1 DEF CatalogueTypeOK, catalogueVars
<1>2. CASE CreateCategory
  BY <1>2 DEF CatalogueTypeOK, CreateCategory, CategoryRow, Inserted
<1>3. CASE UpdateCategory
  BY <1>3 DEF CatalogueTypeOK, UpdateCategory, CategoryRow, Inserted
<1>4. CASE RemoveCategory
  BY <1>4 DEF CatalogueTypeOK, RemoveCategory, CategoryRow, Inserted
<1>5. CASE AddItem
  BY <1>5 DEF CatalogueTypeOK, AddItem
<1>6. CASE EditItem
  BY <1>6 DEF CatalogueTypeOK, EditItem, Card, Inserted
<1>7. QED
  BY <1>1, <1>2, <1>3, <1>4, <1>5, <1>6 DEF CatalogueNext, CategoryRequests

LEMMA CatalogueInitType == CatalogueInit => CatalogueTypeOK
  BY DEF CatalogueInit, CatalogueTypeOK

\* Rows of categories and of products have their types.
THEOREM CatalogueTypeCorrect == CatalogueSpec => []CatalogueTypeOK
  BY CatalogueInitType, CatalogueTypeStep, PTL DEF CatalogueSpec

\* Whoever walks the pages of a list that stays as it is sees each of its products
\* once and in order (findAll, findProductPage), and the tree (buildTree) has every active category,
\* unless one is below itself.
THEOREM AllAreShown == CatalogueSpec => []AllShownOnce
<1>1. CatalogueTypeOK => AllShownOnce
  BY TreeIsWhole, WalkShowsAll DEF AllShownOnce
<1>2. QED
  BY <1>1, CatalogueTypeCorrect, PTL

-----------------------------------------------------------------------------
(***************************************************************************)
(* The services together, as they are explored                             *)
(***************************************************************************)
\* What each of the services keeps, whichever is explored.
PartInv ==
    /\ part = "codes" => CallsTyped
    /\ part = "deals" => DealsTyped
    /\ part = "wallets" => WalletsTypeOK
    /\ part = "addresses" => AddressesInv
    /\ part = "reviews" => ReviewsTyped
    /\ part = "stores" => StoresInv /\ StoresTypeOK
    /\ part = "notices" => NoticesInv /\ NoticesTypeOK
    /\ part = "desk" => DeskInv
    /\ part = "views" => ViewsTypeOK
    /\ part = "catalogue" => CatalogueTypeOK
    /\ part = "bookings" => BookingsInv
    /\ part = "onboarding" => OnboardingTypeOK

\* A step of the whole is one of the service that is explored.
PartStep ==
    /\ part' = part
    /\ part = "codes" => [CodesNext]_codeVars
    /\ part = "deals" => [DealsNext]_dealsVars
    /\ part = "wallets" => [WalletsNext]_walletsVars
    /\ part = "addresses" => [AddressesNext]_addressesVars
    /\ part = "reviews" => [ReviewsNext]_reviewsVars
    /\ part = "stores" => [StoresNext]_storesVars
    /\ part = "notices" => [NoticesNext]_noticesVars
    /\ part = "desk" => [DeskNext]_desksVars
    /\ part = "views" => [ViewsNext]_viewsVars
    /\ part = "catalogue" => [CatalogueNext]_<<catalogueVars, callVars>>
    /\ part = "bookings" => [BookingsNext]_bookingsVars
    /\ part = "onboarding" => [OnboardingNext]_onboardingsVars

LEMMA StepIsOfPart == [Next]_vars => PartStep
<1>1. CASE Next
  BY <1>1 DEF Next, ShopNext, UserNext, OtherNext, PartStep
<1>2. CASE UNCHANGED vars
  BY <1>2 DEF vars, shopVars, userVars, otherVars, callVars, PartStep, codeVars, dealsVars, dealVars,
              productVars, walletsVars, walletVars, addressesVars, reviewsVars, reviewVars,
              storesVars, storeVars, noticesVars, noticeVars, desksVars, deskVars, viewsVars, viewVars,
              catalogueVars, bookingsVars, bookingVars, onboardingsVars, onboardingVars
<1>3. QED
  BY <1>1, <1>2

LEMMA PartInvInit == IsFiniteSet(Review) /\ Init => PartInv
  BY InitTyped, DealsInitTyped, WalletsInitType, AddressesInitInv, ReviewsInitTyped, StoresInitInv,
     StoresInitType, NoticesInitInv, NoticesInitType, DeskInitInv, ViewsInitType, CatalogueInitType,
     BookingsInitInv, OnboardingInitType
  DEF Init, PartInv

LEMMA PartInvStep == IsFiniteSet(Review) /\ PartInv /\ [Next]_vars => PartInv'
<1> SUFFICES ASSUME IsFiniteSet(Review), PartInv, PartStep PROVE PartInv'
  BY StepIsOfPart
<1>1. QED
  BY TypedStep, DealsTypedStep, WalletsTypeStep, AddressesStep, ReviewsTypedStep, StoresStep,
     StoresTypeStep, NoticesStep, NoticesTypeStep, DeskStep, ViewsTypeStep, CatalogueTypeStep,
     BookingsStep, OnboardingTypeStep
  DEF PartInv, PartStep

\* Whichever service is explored, its rows and its calls stay of their types,
\* for any number of calls, rows and faults (TypeOK of MCServices).
THEOREM TypesHold == IsFiniteSet(Review) => (Spec => []TypeOK)
<1> SUFFICES ASSUME IsFiniteSet(Review) PROVE Spec => []TypeOK
  OBVIOUS
<1>1. Init => PartInv
  BY PartInvInit
<1>2. PartInv /\ [Next]_vars => PartInv'
  BY PartInvStep
<1>3. PartInv => TypeOK
  BY TypedImpliesTypeOK
  DEF PartInv, TypeOK, DealsTyped, AddressesInv, ReviewsTyped, DeskInv, BookingsInv
<1>4. QED
  BY <1>1, <1>2, <1>3, PTL DEF Spec
=============================================================================
