------------------------------ MODULE Wallets ------------------------------
(***************************************************************************)
(* Wallets (wallet.service.ts, wallet.repository.ts).  A call makes sure   *)
(* that the wallet exists, looks at the balance, and then changes it in a  *)
(* transaction that locks the wallet's row and writes an entry.  "Slip:"   *)
(* marks a faulty variant of the operator below it, which nothing uses.    *)
(***************************************************************************)
EXTENDS Calls, Sequences

CONSTANTS
    Holder,         \* the users who have a wallet
    MaxAmount,      \* bounds a credit or debit, of either sign
    MaxEntries      \* bounds the entries of a wallet

ASSUME WalletAssumption == MaxAmount \in Nat \ {0} /\ MaxEntries \in Nat

VARIABLES
    balance,
    entries     \* wallet_transactions in the order they are written

walletVars == <<balance, entries>>
walletsVars == <<walletVars, callVars>>

-----------------------------------------------------------------------------
\* The controller takes any number: zero and negative amounts are not refused.
Amount == -MaxAmount .. MaxAmount
Entry == [type : {"credit", "debit"}, amount : Amount, running : Int]
WalletCall == [at : {"credit", "debit"}, holder : Holder, amount : Amount]

WalletsTypeOK ==
    /\ balance \in [Holder -> Int]
    /\ entries \in [Holder -> Seq(Entry)]
    /\ call \in [Worker -> {Idle} \cup WalletCall]

WalletsInit ==
    /\ CallsInit
    /\ balance = [h \in Holder |-> 0]
    /\ entries = [h \in Holder |-> <<>>]

-----------------------------------------------------------------------------
\* debit refuses what it sees the wallet does not hold; credit looks at nothing.
BeginWalletCall(w) ==
    /\ \E h \in Holder, amount \in Amount, at \in {"credit", "debit"} :
        /\ at = "debit" => balance[h] >= amount
        /\ Begin(w, [at |-> at, holder |-> h, amount |-> amount])
    /\ UNCHANGED <<walletVars, faults>>

\* The transaction: the new balance, and an entry that names it.
Post(w, new) ==
    LET h == call[w].holder
        entry == [type |-> call[w].at, amount |-> call[w].amount, running |-> new]
    IN  /\ Len(entries[h]) < MaxEntries
        /\ balance' = [balance EXCEPT ![h] = new]
        /\ entries' = [entries EXCEPT ![h] = Append(@, entry)]

Credit(w) ==
    /\ At(w, "credit")
    /\ Post(w, balance[call[w].holder] + call[w].amount)
    /\ Return(w)
    /\ UNCHANGED faults

\* Slip: the balance is not looked at again under the lock.
DebitUnchecked(w) ==
    /\ At(w, "debit")
    /\ Post(w, balance[call[w].holder] - call[w].amount)
    /\ Return(w)
    /\ UNCHANGED faults

Debit(w) ==
    /\ At(w, "debit")
    /\ \/ balance[call[w].holder] < call[w].amount /\ UNCHANGED walletVars
       \/ /\ balance[call[w].holder] >= call[w].amount
          /\ Post(w, balance[call[w].holder] - call[w].amount)
    /\ Return(w)
    /\ UNCHANGED faults

WalletsNext == \E w \in Worker :
    \/ BeginWalletCall(w) \/ Credit(w) \/ Debit(w)
    \/ CutOff(w) /\ UNCHANGED walletVars

WalletsSpec == WalletsInit /\ [][WalletsNext]_walletsVars

-----------------------------------------------------------------------------
\* What an entry adds to the balance.
Change(e) == IF e.type = "credit" THEN e.amount ELSE -e.amount

\* Whatever calls overlap or are cut off, and whatever the amounts, no debit
\* leaves less than nothing (debit), each entry's running balance is that of the
\* entry before it with the entry's own amount added or taken, and the last one
\* is the wallet's balance.
WalletBalances == \A h \in Holder :
    /\ \A i \in DOMAIN entries[h] :
        /\ entries[h][i].type = "debit" => entries[h][i].running >= 0
        /\ entries[h][i].running =
             (IF i = 1 THEN 0 ELSE entries[h][i - 1].running) + Change(entries[h][i])
    /\ balance[h] = IF entries[h] = <<>> THEN 0 ELSE entries[h][Len(entries[h])].running
=============================================================================
