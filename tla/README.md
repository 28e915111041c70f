# CADNA Mart back end: specifications and proofs

This directory specifies the CADNA Mart back end (`src/`, a NestJS application
over PostgreSQL through Prisma): the parts of it that keep state which several
concurrent handlers change. TLC checks the specifications on small instances;
TLAPS checks theorems about nearly all of them for every instance.

A property that fails is stated, run, and explained under *Disagreements* like
one that holds. Paths without a directory are below `src/src/`.

## 1. The system

One or more server processes run the same handlers; all lasting state is in
PostgreSQL. A handler is sequential code with awaits: each SQL statement, each
`$transaction` block and each HTTP call to a provider is one indivisible step,
and anything may happen between two steps of one handler: another request to
the same process, another process, a crash. Four forms of update matter:

* a transaction that takes the row lock (`SELECT ... FOR UPDATE`) and looks at
  the row again: `reserveRefund`, `transitionStatusIfCurrent`, `cancelByBuyer`,
  `reserveReturnQuantity`, `decideForSeller`, wallet credit and debit,
  `pushMessage` and `appendJson`;
* a transaction of several statements that locks only what it writes: `setDefault`
  of an address, `follow` and `unfollow`, `claimGuestForUser`. The modules about
  these take each statement as a step and keep its lock until the last one;
* one conditional `updateMany`: `applyFinalProviderStatus`, `cancelPending`;
* a read followed by an update by id: `startRefund`, `decideByAdmin`,
  `finishRefundReservation`, `releaseReturnQuantity`, `updatePaymentStatus`,
  `confirmSession`, every change of a campaign or of a promotion booking, and
  every generic repository `update`. Those `update` functions answer any
  database error with `null`, and some callers go on.

The providers are Paystack (charges, refunds and a webhook that is repeated
until it is answered with 200), Clerk (accounts, webhook), Firebase and
StackAPI (notifications) and an image store. There is no queue, no cron job and
no outbox: whatever a handler had still to do when it was cut off is done only
if somebody calls a handler that does it again.

### Components

| component | state | operations that change it | what makes it correct | hard because |
|---|---|---|---|---|
| orders | `orders` row: status, payment status, reference, refund ledger, return quantities, timeline | create, pay, confirm, cancel, fulfil, admin move, hold, restore, reserve and finish a refund | paid before prepared; goods or money; the ledger counts the money | written by buyer, seller, supplier, admin and two webhooks |
| payments | none of its own (order row) | initialize, verify, charge event, create and fetch a refund | a successful charge confirms its order | provider call between check and write |
| returns | `return_requests` row: status, items with the sellers' reviews, refund columns, evidence | create, withdraw, evidence, seller and admin decision, refund, refund event, reconcile | no duplicate refund; a decision is not overwritten; no more is returned than was bought | three actors and a provider; unlocked updates |
| webhooks | none | Paystack and Clerk events | late, repeated, reordered events change nothing twice | delivery |
| checkout | `checkout_sessions` row: status, snapshots, expiry | create, address, delivery mode, pickup, summary, confirm | one order per session, priced as shown | double submit; live cart against snapshot |
| cart | carts and items | add, change, remove, clear, claim a guest's cart | one line per product; nothing lost in a merge | concurrent adds; a merge that reads before its transaction |
| otp | codes with attempts, expiry, used flag | generate, verify | one use, bounded guesses, newest only | check and write are separate |
| registration-session, auth, users | session step and fields; pending signup; user row; refresh token | start, verify, set details, complete, log in, refresh, reset, link | verified by a code; no signup lost; an address alone links nobody | expiry, unlocked steps, Clerk's events |
| deals, products | campaign row: status, payment status, schedule; a product's moderation, activity and sections | create, edit, pay, approve, reject, remove, charge events, admin update, feature | a live campaign is paid; `best_deals` shows live campaigns | late and reordered events; sections written back |
| promo-slots | types, tiers, slots with capacity, bookings | offer, reserve, book, cancel, suspend, refund | an administrator's decision stands | found, then written by id |
| reviews | review rows; a product's rating | write, edit, delete, moderate | the rating is that of the reviews | summed and written by overlapping calls |
| addresses | address rows, one default per user | create, update, set default, remove | at most one default, replaced and not lost | concurrent transactions, unique index |
| wallet | balance and entries | credit, debit | no overdraft, equal to its entries | concurrency (row locks), unchecked amounts |
| sellers | profile, banking, store, followers | register, onboard, open a store, follow | the follower count counts; the next step is true | reads of three tables; two statements |
| notifications | device rows | register, remove, push and clean up | a registered device stays | clean-up after a slow push |
| logistics, support | courier bookings with proofs, tickets with messages | book, cancel, upload; create, append, assign, close | nothing acknowledged is lost | concurrent appends |
| recently-viewed | rows per user | record, trim | the most recent stay | trimming by id |
| categories, product lists | rows; the reads made of them | create, edit, remove | each shown once, in order | ties across pages, inactive parents |

All other directories keep no protocol state worth a model (CRUD of single
rows, reads, configuration, mail, logging); PROJECT.json names each with its
reason, and section 8 sums them up.

### How the components interact

* `webhooks` verifies a Paystack event and calls `deals`, then `payments`, then
  `returns`, one after the other; an exception makes Paystack send it again.
* `checkout.confirmSession` reads `cart` and calls `orders.create`.
* `payments` writes the payment columns of the order, `orders.updatePaymentStatus`
  confirms it.
* `sellers`, `admin` and `returns` move the order's status through
  `transitionStatusIfCurrent`; the status endpoints of admins and suppliers set
  it without a condition.
* `returns` holds the order in `refund_requested` while a cancellation is
  decided, keeps quantities and the refund ledger on the order row, and calls
  `payments` for the refund itself.
* `auth` uses `otp` for sign-up, sign-in and password reset; the Clerk webhook and
  `clerkLogin` write the same user rows.
* `deals` and `products` write the same `sections` column; `reviews` writes the
  rating of a product.
* `JwtStrategy.validate` yields `{userId, email, accountType}` whereas many
  controllers read `@CurrentUser('id')`. The specifications start at the service
  layer with the actor's id as input; what an undefined id does there is not
  modelled.

## 2. Modules

| module | what it is |
|---|---|
| `Refunds` | money going back: the order's refund ledger, the refund columns of its return requests, Paystack's refunds, and the handlers that touch them |
| `RefundLedger` | the abstract specification of that ledger, which `Refunds` implements |
| `Orders` | one order from payment to delivery, cancellation or refund |
| `Returns` | item returns of one line of a delivered order: reserved quantities, review, decision, withdrawal |
| `Carts` | a buyer's cart, guests' carts and their merge |
| `Checkout` | checkout sessions over a cart of `Carts` (which it extends), and the orders they place |
| `Calls` | running calls, their awaits and how they are cut off: the common part of the modules below |
| `Codes` | one-time codes |
| `Accounts` | sign-up, sign-in, reset, second factor, tokens, Clerk's logins and events, over `Codes` (which it extends) |
| `Products` | whether a product is listed, and the sections it is shown in |
| `Deals`, `Reviews` | campaigns with their charge events and `best_deals`; reviews and the rating of a product. Both extend `Products` |
| `Wallets` | locked credits and debits with their entries |
| `Addresses` | delivery addresses and the default one |
| `Stores` | stores and their followers |
| `Onboarding` | the steps of a seller and the report of the next one |
| `Notices` | devices, pushes and their clean-up |
| `Desk` | support tickets and courier bookings |
| `Views` | recently viewed products |
| `Catalogue` | the tree of categories and the pages of product lists |
| `Bookings` | promotion slots and their bookings |
| `RefundsProofs`, `OrdersProofs`, `ReturnsProofs`, `AccountsProofs` | theorems about the module they are named for |
| `CheckoutProofs` | theorems about `Checkout` and `Carts` |
| `UsersProofs` | theorems about `Codes`, `Notices`, `Addresses`, `Onboarding` and `Views`, each by its own specification |
| `ServicesProofs` | the same for `Wallets`, `Stores`, `Desk`, `Bookings`, `Reviews`, `Deals` and `Catalogue`; the types of `MCServices`, which has all twelve |
| `SumLemmas` | sums over finite sets, for the proofs about rows that are added up; induction over finite sets and numbers |
| `MCRefunds`, `MCOrders`, `MCReturns`, `MCCheckout`, `MCAccounts`, `MCServices` | instances for TLC |

`Orders` and `Refunds` share `processRefund`. In `Orders` it has every step that
touches the order's status or a request's decision: reserving, reading the request and
writing it by id, the call, the refusal that releases and writes "failed" without
giving the order back, and the events that settle it. A refund there is of the
whole total, releasing is one step, and Paystack answers or refuses; amounts, lost answers,
repeated events and the unlocked release are in `Refunds`. `Refunds` starts where
`Orders` has approved the requests, and has only as much of the order's status as a
refund changes. `Returns` is the item-return side of the same requests, before the
money: one order line, one seller, a refund in two steps. Whole-order cancellations,
which hold the order instead of a quantity, are in `Orders`. An order of `Checkout`
is one of `Orders` in `pending_payment`.

### How state and actions correspond to the code

Columns keep their names (`paymentStatus`, `paystackReference`,
`refundedAmount`; `refundInProgress` is `refundInProgressRequestId`,
`orderStatus` or `status` the order's `status`, `previous` is
`previousOrderStatus`, `providerId` is `refundProviderId`). `null` is a model
value or `"none"`. A worker is one running call. In `Refunds`, `Orders`,
`Returns` and `Carts`, `pc` says before which await it stands and the other
locals are the values it carries over that await; in `Checkout` these are
`stage`, `session` and `held`, per caller; in the modules over `Calls` the call
is one record, `call[w]`, whose field `at` is the await. What a call has read
stays in its locals while others write, which is where races come from.

A history variable is written by the actions and read by properties only.

Reads that a later step repeats under a lock are merged into that step, and
several reads in a row without a write between them are one step, except where
a property is about what may happen between them (`getMyOnboardingStatus`).
Notifications, timelines and responses are left out. A group of actions named
`...Requests` (or `CampaignDecisions`) is a controller: the requests that begin
a call. Its read-only endpoints change nothing and have no action.

* `Returns`: `reserved` is the `returnQuantityReservations` list of the order
  line by request, `overridden` says that `adminOverrideBy` is set, `review` is the
  line's `sellerDecision`. Amounts are whole: cents and kobo are left out.
* `Refunds` has Paystack as an external part, modelled as the code uses it: it
  takes a refund or refuses it, may answer too late or not at all, settles it,
  and tells about it any number of times (`refundState`, `refundSum`,
  `refundFor`, `paidOut`). In `Orders` a transaction is created, its link goes
  out, the buyer pays. In `Deals`, `event` is the set of events Paystack may
  send of a reference, each at any time and any number of times.
* `Orders`: `byHand` is a history variable, that an admin or a supplier has set the
  order's status through an endpoint that looks at nothing (`AdminUpdatesStatus`,
  `SupplierMoves`); `named` is the provider id of a request, as far as it is there.
* `Carts`: a merge is the two reads before `claimGuestForUser`'s transaction and its
  statements one by one, with the locks of the lines they write (`written`).
  `wanted`, `drift` and `insertedBy` are history variables: what was put in and not
  taken out; what merges brought beyond what the guest's cart held in the end, or
  did not bring of it; the call that inserted a line. Two merges that wait for each
  other's lines are ended by PostgreSQL, which is a fault of one of them (`Abort`).
* `Checkout`: `placedBy` and `shown` are history variables, the session an order came
  from and the contents that its last summary priced. The cart goes on changing
  while a session is open.
* `Wallets`: amounts are numbers of either sign, as the controller takes them.
* `Reviews`: `overtaken` and `outdated` are history variables, the calls that have
  summed up before another one changed a review, and the products whose rating
  such a call wrote last.
* `Views`: `viewedAt` is taken before the write, as the code does.
* `Codes`: a guess is right or wrong, an age is new, past the cooldown or expired.
  `guesses` and `accepted` count what the code compares and accepts.
* `Accounts`: `pending` are the pending signups, `saved` those a buyer was told of;
  `owners` are the Clerk users an account belongs to.
* `Deals`: a date is what it means for a campaign: `phase` is early, running or
  over. `settled` and `byHand` are the campaigns and products an admin or seller
  has set by hand, about which the properties say nothing.
* `Addresses` and `Stores`: a call that has written a row in its transaction keeps
  it locked until it returns; a lock waited for is a guard. A unique index makes
  the losing transaction roll back.
* `Notices`: `RowsOf` and `RowsWith` are the rows of a user and of a device;
  `registered` is a history variable, the owner a device was told of.
* `Desk`: `list` is a JSON column, `stored` what callers were told is in it.
* `Catalogue`: `BuildTree` and `FindProductPage` are the reads, as operators over the
  rows; the actions write the rows.
* `Onboarding`: a seller's report reads approval, banking and store at three moments.

`Abort`, `Fail` and `CutOff` end a handler at any await: a crash of the process
or an exception from the database. `...Fails` actions are database errors that
the code swallows; in `Orders` one that the handler makes good (a request that cannot
be stored, a refund that cannot be started) does not count as a fault.

An operator under a comment "Slip:" is a faulty variant of the operator below
it: a bug somebody could write. Nothing uses it; section 6 says which property
notices when it takes the other's place.

## 3. The runs

| run | instance | checks | result |
|---|---|---|---|
| `refunds` | a cancellation and an item return, 2 Paystack refunds, 3 workers, total 2, 1 fault, clean runs | `OneRefundPerRequest`, `ExclusiveReservation`, `LedgerMatchesRequests`, `RefundedOrderIsPaidBack`, `CompletedIsFinal`, `LedgerSpec` | holds, 626 157 states |
| `refunds_liveness` | the same with 2 workers, no fault, `FairSpec` | `SettledRefundFreesOrder` | holds, 111 653 states |
| `refunds_duplicate` | one item return, 3 refunds, 2 workers, no fault, `Spec` | `OneRefundPerRequest` | violated (5.1) |
| `orders` | 1 charge, 2 cancellation requests, 3 workers, 1 fault, moves by hand, `CleanSpec` | `ConfirmedWasCharged`, `GoodsOrMoney`, `HoldMatchesRequest`, `ShippedStaysShipped` | holds, 799 566 states |
| `orders_liveness` | 2 charges, 1 request, 2 workers, 1 fault, moves by hand, `FairSpec` | `ChargeConfirmsOrder` | holds, 157 356 states |
| `orders_goods` | 1 charge, 1 request, 2 workers, no fault, `Spec` | `GoodsOrMoney` | violated (5.2) |
| `returns` | 3 requests, 3 workers, 2 bought, 2 faults, clean runs | `ReturnsWithinBought`, `OpenIsReserved`, `ApprovedWasReviewed` | holds, 481 402 states |
| `checkout` | 2 carts, 3 lines, 2 products (one with variants), 2 cart workers, quantities to 2, 1 session, 1 caller, 2 orders, 2 modes, 1 fault, clean runs | `NothingLost`, `SecondLineByAnother`, `PricedAsShown`, `OneOrderPerSession`, `ConfirmedShowsOrder` | holds, 616 054 states |
| `checkout_twice` | 1 cart, 1 line, 1 session, 2 callers, 2 orders, no fault, `Spec` | `OneOrderPerSession` | violated (5.3) |
| `carts_merge` | 2 carts, 2 lines, 2 workers, no session, no fault, `Spec` | `MergesWhole` | violated (5.4) |
| `accounts` | 1 address, 2 users, 1 registration session, 1 Clerk user, 2 workers, 1 attempt, 2 codes, 1 fault, clean runs | `VerifiedByCode`, `SignupNotLost`, `EmailNeverLinks`, `DeletedUntilSignIn` | holds, 1 138 407 states |
| `services` | twelve parts, one after the other, 2 workers, 1 fault, clean runs | `TypeOK` and the properties of section 4 from `GuessesBounded` on | holds, 921 798 states |

The other configurations show further failures that section 5 tells of; each is
run with the module it names there (`tlc -config BookingsCancel.cfg MCServices`)
and ends in a violation of its one property.

`services` explores modules that share no rows. `part` is chosen at the start
and stays; each part is explored as if it were alone, and the states are the sum,
of which the codes are half.

Why the bounds are enough. Two requests are what exclusion and mixed kinds
need; two provider refunds are a failed and a new one, the third in the
duplicate run is the duplicate. Three workers are an owner of the reservation,
an event handler and a rival. A total of 2 has a partial refund, a full one and
two that do not fit together. Two charges are a link that is replaced by
another; they are in `orders_liveness`, since what the safety properties of
`orders` say does not depend on which charge has paid (and is proved for any
number of them). Three returns of two units are one that is released while another is
reserved and a third refused. Two carts and three lines are a guest's cart
whose product is in the buyer's cart already and one that is not. Two users and
one address are an account that is deleted and its successor, or two that race
for the address. Elsewhere two workers are two calls that overlap; two rows of
each table are the one written and its rival, three where an order matters
(addresses, viewed products, categories, listed products), and lists longer than
a page or a batch are one longer than the page or batch of the instance
(`BatchSize` 1, `Limit` 2, `MaxRecent` 2, `MaxAttempts` 2, capacity 1).

In all of them the number of calls is not bounded: a worker that has finished
may be any handler again, and events repeat for ever. What is bounded is new
rows (the finite sets of ids) and faults (`MaxFaults`), and, where a counter
would grow for ever, that counter (`MaxCodes`, `MaxEntries`, `MaxAmount`,
`MaxLength`, `MaxViews`, `MaxQuantity`). One fault is a crash at any await; two
would be needed only for a property that survives one, of which those under
faults are proved for every number of them (section 7); a property that
excludes faults (`RatingMatches`, `BestDealsAreLive`, `RecentKept`) says so.

Some instances are narrowed further, by a named condition in their MC module:

* `CartsFirst` (`MCCheckout`): calls on carts overlap while at most one line has
  been deleted. Once a session is open, lines are changed in single steps, but no
  call of several steps runs on a cart: the merge and the checkout are not explored
  at the same time, and after a fault no call on a cart overlaps another. The
  theorems about both have no such bound.
* `Undisturbed` (`MCOrders`, liveness only): a fault or a move by hand ends the run.
  From then on `ChargeConfirmsOrder` asks for nothing, so that no counterexample is
  lost.
* `Narrow` (`MCAccounts`): one token, second factor, open reset or fault at a time,
  and from then on calls do not overlap, nor while a registration is open and an
  account deleted; a second code comes after the first is used.
* `NarrowDeals`: one campaign with overlapping calls, or two without; an admin whose
  call overlaps another makes the campaign live or cancels it; no fault and nothing
  set by hand. `NarrowCodes`: all codes but the first have one purpose,
  and no fault with the third. `NarrowReviews`: products are listed and stay so.
  `NarrowCatalogue`: categories vary with at most one product, products with at
  most one category. `NarrowBookings`: what is offered is fixed once it is
  booked, but for the price. `NarrowOnboarding`: one report at a time.

Deadlock is not checked: when every row is used up and every request decided,
the system rests. Symmetry is used in safety runs only. The two kinds of
requests in `Refunds` are told apart by `Cancellation`, so requests are not
permuted there.

### Clean runs

Some modules name the steps that let one handler undo what another has done,
and are checked without behaviours that reach them (`CONSTRAINT Clean`, or
`CleanSpec`, which the theorems are about: `AddressesCleanSpec`, `DealsCleanSpec`
and `ViewsCleanSpec` where modules share an instance). What fails with each of these
steps is shown by a run or told in section 5; what holds without them is
checked on the instance and proved for all, so that the list of these steps is
known to be complete. Of `Accounts` only `SignupNotLost` needs it, of `Returns` all
but `ApprovedWasReviewed`, of `Refunds` and `Orders` all but the types and
`ConfirmedWasCharged`: what does not need it is proved of `Spec`.

* `Refunds`: `Reusing(w)`: a request whose row still names an earlier refund is
  started again (5.1). Retrying a request that Paystack refused outright, or
  failed before it was named, is clean. `Disowning(w)`: Paystack has made a refund and
  answers with an error, which the code takes for a refusal (5.5).
* `Orders`: `LateConfirm` (a charge is confirmed once more after the order has
  moved on: `updatePaymentStatus` has no condition, and `verifyOrderPayment`
  does not look whether the order is paid; 5.14), `RestoreHeld` (an order is given
  back while a request claims it: an old request is rejected again, or a failed
  refund was restarted before its failure was dealt with; 5.14), `StaleDecision`
  (`decideByAdmin` overwrites a withdrawal, an earlier decision or a refund, or
  `startRefund` is about to write over an admin's rejection; 5.2), `Reusing` (a failed
  refund is started again after the order was given back; `processRefund` does not
  look at the order's status; 5.14).
* `Returns`: `Clean`: a release is about to write back a list that is no longer what
  the row holds (5.14).
* `Checkout`: `Overlap` (two calls on one session; 5.3), `CutOff` (a confirmation ended
  between the order and the session; 5.10).
* `Accounts`: `LateReplace` (an expired signup was read, and another is in its place
  by now; 5.11), `LateDelete` (the account a pending signup is deleted for has gone; 5.14).
* `Deals` (5.14): `LateUnpaid` (a write takes a payment back: `charge.failed` read the
  campaign earlier, or the admin's columns), `LateLive` (a write makes a campaign
  live on a payment that was taken back since it was read), `LateStatus` (an admin's
  update replaces a status it has not read), `Reapproved` (a live campaign past its
  end is approved again and becomes expired without a sync), `StaleSections` (a sync
  writes what was true when it read), `StalePlan` (a sync is about to go on to a
  product that it planned to add or to remove and would no longer), `LateProducts` (a
  removal or an admin's edit has read which products a campaign selects, and the
  campaign selects others by now).
* `Addresses`: an address is made the default after it was removed (5, accounts). `Views`:
  a product found stale is viewed again before its row is deleted, or a view is
  written after a later one of the same product (5, the rest).

The other modules need no such list: what is checked of them holds in every
behaviour.

### Fairness

`FairSpec` gives weak fairness to the next step of each running handler: once
called, it runs on. Nothing makes anybody call a handler, with one exception:
in `Orders`, Paystack repeats the event of a successful charge until it is
answered with 200, hence strong fairness of `ChargeWebhook` per charge (strong,
because its guard reads a row others write and needs a free worker). Settled
refunds are not assumed to be announced: an event can be dropped for good by
coming before the provider id is stored. The other modules have no liveness
property: nothing calls a handler a second time, and what one call does by
itself ends when it returns.

## 4. What the properties say

`Refunds`: `OneRefundPerRequest` (no request has two refunds at Paystack that
have not failed), `ExclusiveReservation` (one handler owns an order between
reservation and release, although the release is not locked),
`LedgerMatchesRequests` (the ledger never runs ahead of the completed requests
and agrees with them whenever no event is half applied),
`RefundedOrderIsPaidBack` (an order is closed as refunded only when all of it
was refunded, although the code adds the amount twice in its test),
`CompletedIsFinal`, `SettledRefundFreesOrder`, and `LedgerSpec`, the refinement
of `RefundLedger`. `LedgerCoversMoney` (spent and reserved stay within the
total, and the money that is out is the spent part, with or without the
reservation) is proved.

`Orders`: `ConfirmedWasCharged` (no order counts as paid without a charge, none is
confirmed, prepared or shipped before one), `GoodsOrMoney` (no order is shipped while
a refund of it is under way or done), `HoldMatchesRequest` (at rest the order is held
exactly while one request asks for it), `ShippedStaysShipped`,
`ChargeConfirmsOrder` (if no handler is cut off). All five are about orders that
nobody has moved by hand, but for the payment status: the status endpoints of admins
and suppliers look at nothing, and break them in one step (5.6).

`Returns`: `ReturnsWithinBought` (requests that may still lead to a refund never
ask for more than was bought), `OpenIsReserved` (each of them has its quantity
set aside), `ApprovedWasReviewed` (no approval before the seller's review, none
over a rejection but an admin's). A request rejected by its seller counts as
open, because an admin may override the seller; the code keeps its reservation
for that. `ReleasedIsFree` (a request closed for good has none) fails (5.7).

`Carts`: `NothingLost` (the carts hold what was put in and not taken out, and `drift`,
which only the end of a merge changes, by just what it had read and the guest's cart
no longer holds or holds since: nothing else loses or doubles anything, in any
behaviour), `MergesWhole` (that difference is nothing; it fails, 5.4),
`SecondLineByAnother` (two lines of one product come from two different calls, and
only without a variant: no call doubles what it could have found),
`OneLinePerProduct` (fails, 5.8).

`Checkout`: `OneOrderPerSession`, `PricedAsShown` (an order costs what the summary
showed for its way of delivery, also when the cart or the session has changed
since), `PricedAsItems` (it costs what its own items cost; fails, 5.9),
`ConfirmedShowsOrder`.

`Accounts`: `VerifiedByCode` (an address counts as verified by a code sent to it
or by Clerk's word), `SignupNotLost` (a signup the buyer was told is saved stays
until it expires or there is an account), `EmailNeverLinks` (a Clerk user enters
only the account it made or was linked to), `DeletedUntilSignIn` (a late event
does not revive an account).

`services`: `GuessesBounded`, `NoSecondUse` and `CodesReplaced` say how far
overlapping calls can go beyond one code, one use and the attempts allowed;
`LiveIsPaid`, `BestDealsAreLive`; `WalletBalances` (no debit overdraws, and each entry's
running balance is right, for amounts of either sign); `DefaultIsReplaced` (at most
one default address at every moment, and none lost halfway); `RatingMatches` (at rest a product's rating is
that of its reviews, unless the call that wrote it last had summed up before another
one changed a review: whatever else overlaps, no change is left out); `FollowersCounted`;
`RegistrationsKept` (a clean-up deletes rows of lost devices only);
`AcknowledgedKept` (nothing that was acknowledged is missing from a JSON list);
`RecentKept`; `AllShownOnce` (whoever walks the pages of a list that does not change
meanwhile sees each product once, in order; every active category is in the tree);
`StepReported` (the next step a seller is told was still to do and all before it
are done). `TypeOK` is that of the part explored. `SuspendedStays` of `Bookings` (a
suspension does not end in a seller's cancellation) fails (5.12).

## 5. Disagreements between the code and what it says

1. `refunds_duplicate`. `processRefund` starts a failed request again without
   clearing `refundProviderId` and `refundReference`. An event of the failed
   refund, repeated late, still matches the row while the new refund is on its
   way; the amounts agree; the new attempt is marked failed, the reservation is
   released, and a third attempt pays once more. The comment at
   `returns/returns.service.ts:354` keeps the reservation "to prevent a
   duplicate refund".
2. `orders_goods`. A cancellation is withdrawn while an admin's approval, which
   read it before, is about to be written. The order is confirmed again, the
   request approved; the refund goes out and the seller dispatches, though "this
   order cannot be dispatched while cancellation or refund is pending"
   (`sellers/seller-post-order.controller.ts:137`).
3. `checkout_twice`. `confirmSession` reads the session, tests its status, and
   several awaits later places the order and writes "confirmed" by id
   (`checkout/checkout.service.ts:290`). Two confirmations at once place two
   orders, though the second is to be told "Checkout session is already
   confirmed" (line 72).
4. `carts_merge`. `claimGuestForUser` reads both carts before its transaction
   (`cart/cart.repository.ts:158`), then adds the lines it has read and deletes the
   guest's cart with the lines it has by then. An item added to it in between is
   lost, one removed comes back, a changed quantity is the old one, though "Merge a
   guest cart into the authenticated user cart" (`cart/cart.controller.ts:156`).

The configurations beside the runs show more:

5. `RefundsDisowned` (`MCRefunds`, `OneRefundPerRequest`). `initializeRefund` throws
   the same exception for every answer that is not ok
   (`payments/payments.service.ts:208`), a 5xx after Paystack has taken the refund
   included. `processRefund` takes it for a refusal, frees the reservation and
   marks the request failed; an admin starts a second refund.
6. `OrdersSupplier` (`MCOrders`, `NeverGoodsAndMoney`). `markReady` and `markDispatched`
   of a supplier (`suppliers/suppliers.controller.ts:94`) set the status of any order, like
   the admin's endpoint (`orders/orders.service.ts:279`), and look neither at the
   status nor at the payment. An order whose cancellation is approved is shipped
   while its refund goes out; an order nobody has paid is fulfilled.
7. `ReturnsReleased` (`MCReturns`, `ReleasedIsFree`). `create` stores a request under a
   new public id (`returns/returns.repository.ts:25`), while its quantity was
   reserved under the id the service made. A release by the row's id finds nothing: the
   quantity of a withdrawn or refused request cannot be returned any more.
8. `CartsLines` (`MCCheckout`, `OneLinePerProduct`). An add looks for a line and
   creates one in two statements; without a variant the unique index does not
   refuse a second (`prisma/schema.prisma:296`; null is equal to nothing). Two adds, or an
   add and a merge, leave two lines, of which later changes find one.
9. `CheckoutRepriced` (`MCCheckout`, `PricedAsItems`). The items come from the cart as it
   is, the price from the session's snapshot (`checkout/checkout.service.ts:324`), and
   no change of the cart takes the session back: after "Review the order summary
   before confirming" the order may have other items for the price shown.
10. `CheckoutCutOff` (`MCCheckout`, `OneOrderPerSession`). After a crash between the
    order and the session (`checkout/checkout.service.ts:342`) the session is still
    "summary_ready", no session shows the order, and confirming again places another.
11. `AccountsReplaced` (`MCAccounts`, `SignupNotLost`). `registerPassword` finds an expired
    signup, and deletes by the address what may be another one by then, whose buyer was
    told "Signup saved. Please verify your email." (`auth/auth.service.ts:143`).
12. `BookingsCancel` (`MCServices`, `SuspendedStays`). `cancelBooking` tests the status it
    has read and writes "cancelled" by id (`promo-slots/promo-slots.service.ts:210`): a
    suspension in between is overwritten.
13. `AccountsRefresh` (`MCAccounts`, `RefreshAccepted`). `toUser` (`users/users.repository.ts:21`)
    drops `refreshToken` from every row it reads, so that `refreshTokens`, which
    compares it, refuses the token just issued, though `auth/auth.controller.ts:451`
    promises "Refresh access token".
14. With one of the steps of section 3 allowed again, TLC finds:
    * `Orders`: a second verification (`LateConfirm`) takes a shipped order back to
      confirmed (`ShippedStaysShipped`); an order given back for an old request
      (`RestoreHeld`), a decision or a refund's start written over a later one
      (`StaleDecision`) and a failed refund started again (`Reusing`) leave a request
      without its hold or a hold without its request (`HoldMatchesRequest`).
    * `Returns`: a stale list written back loses the reservation of another request
      (`OpenIsReserved`).
    * `Accounts`: a verified signup is deleted after its account has gone, and with it
      one that was saved meanwhile (`LateDelete`, `SignupNotLost`).
    * `Deals`: a late `charge.failed` takes a live campaign back to draft without a sync
      (`LateUnpaid`); that, a sync that is out of date (`StaleSections`), an admin's update
      of a status it has not read (`LateStatus`) and a new approval after the end
      (`Reapproved`) leave `best_deals` wrong (`BestDealsAreLive`), as do, with two
      products, a removal or an edit that has read an older selection (`LateProducts`).
      `LateLive` needs a payment taken back, and `StalePlan` does harm by the stale
      write that follows: neither breaks a property while the others are left out.

Seen while modelling and not given a configuration. Of money and orders:

* A refund that is refused when it is asked for gives no order back
  (`returns/returns.service.ts:353`): the order stays held until the refund is
  started again or somebody moves the order by hand.
* A crash between a request's final status and the release keeps the order
  reserved, because the repeated event looks for a *processing* request;
  `sellerDecision` writes its status over an admin's rejection or a withdrawal.
* A second payment link replaces the reference of the first, whose payment is then
  found by nobody; a crash between the two writes of `updatePaymentStatus` leaves
  an order paid and unconfirmed, which the repeated event ignores.
* `updateBuyerDeliveryAddress` tests the status and then writes by id.
* Nothing checks the amount of a wallet call: a negative credit may leave a wallet below
  zero, a negative debit raises it.
* Adding the items of an old order again adds nothing (an order's items have an
  empty `productId`). `expiresAt` of a session is never looked at. Checkout and
  cart use fixed fees.
* An edit or a second payment link of a campaign loses the earlier reference; nothing
  starts or ends a campaign when its date comes. A seller's product update
  overwrites `best_deals`, and a seller may reactivate a rejected product, an admin
  a deleted one. `updateProduct` with a new price only leaves the savings stale.
* The count of bookings of a promotion slot never changes
  (`incrementSlotBooked` has no caller), so that capacity refuses nobody;
  `reserveSlot` reserves nothing; a booking is never paid or active; suspending
  after a refund is possible.
* `redeemCashback` changes nothing; commitments of partners are not checked against
  the cap.

Of accounts:

* The address of a deleted account can sign up and gets a code, but the account
  made for it cannot be verified. A seller whose account is made and whose profile
  is not is told on the retry that the user exists. `registerSellerDetails` does not
  store business details.
* A store can be opened before approval, and approval does not ask for banking. If
  an approval is revoked while `getMyOnboardingStatus` reads, it may name a step
  that was never next.
* The controllers of partners, rewards, wallet, payments, proof of delivery,
  refunds, returns and suppliers read `@CurrentUser('id')`, which the token's
  strategy does not provide.
* Removing or unsetting the default address leaves none; `setDefault` may mark an
  address that is deleted meanwhile.

Of the rest:

* `addMessageForUser` passes its two ids in each other's place: a buyer's message is
  answered with 404 and stored nowhere. A late assignment reopens a closed ticket.
* Reviews: a sum that was made before another review changed may be written after the sum
  of that one; the rating stays wrong until the next review (`outdated`). A moderation
  approves a review its buyer has deleted; one review per buyer is a check before an
  insert.
* A product list's rows and their number are two queries, and writes may fall between
  two pages; `AllShownOnce` is about a list that stays as it is. Rows are read by id in a
  second query; an unknown category filters
  nothing; lists other than products are ordered by time without a tie-break; sales
  are never counted, so that "popular" is "newest". A category may be put below
  itself, and is then not in the tree; `productCount` is never incremented.
* The trim of recently viewed products may delete one viewed again meanwhile, and a view
  that is written late takes its product's time back (`ViewsClean`); the
  clean-up after a push may delete a row confirmed meanwhile, of a lost device only.
* `updateFees`, `updateNotificationPreferences`, `addEvidence` and
  `attachProductImages` read a JSON value and write it back; `updateLegalPage`
  stores nothing.

## 6. What each property notices

| property | slip | in place of |
|---|---|---|
| `OneRefundPerRequest` (`refunds`) | `Refunds!CanReserveShared` | `CanReserve` |
| `ExclusiveReservation` (`refunds`) | `Refunds!CanReserveShared` | `CanReserve` |
| `LedgerMatchesRequests` (`refunds`) | `Refunds!ReleaseWriteSpent` | `ReleaseWrite` |
| `RefundedOrderIsPaidBack` (`refunds`) | `Refunds!RefundAmountsAdjusted` | `RefundAmounts` |
| `CompletedIsFinal` (`refunds`) | `Refunds!StartRefundFindBlind` | `StartRefundFind` |
| `LedgerSpec` (`refunds`) | `Refunds!ReleaseWriteSpent` | `ReleaseWrite` |
| `SettledRefundFreesOrder` (`refunds_liveness`) | `Refunds!ReleaseWriteKeeping` | `ReleaseWrite` |
| `ConfirmedWasCharged` (`orders`) | `Orders!ChargeWebhookAny` | `ChargeWebhook` |
| `GoodsOrMoney` (`orders`) | `Orders!DispatchHeld` | `Dispatch` |
| `ShippedStaysShipped` (`orders`) | `Orders!HoldOrderBlind` | `HoldOrder` |
| `HoldMatchesRequest` (`orders`) | `Orders!InsertRequestFailsOnly` | `InsertRequestFails` |
| `ChargeConfirmsOrder` (`orders_liveness`) | `Orders!MarkPaidOnly` | `MarkPaid` |
| `ReturnsWithinBought` (`returns`) | `Returns!HasRoomAlone` | `HasRoom` |
| `OpenIsReserved` (`returns`) | `Returns!RemainingInverted` | `Remaining` |
| `ApprovedWasReviewed` (`returns`) | `Returns!AdminFindsEarly` | `AdminFinds` |
| `SignupNotLost` (`accounts`) | `Accounts!MadeAlreadyOrDeleted` | `MadeAlready` |
| `VerifiedByCode` (`accounts`) | `Codes!FindCodeOrPass` | `FindCode` |
| `EmailNeverLinks` (`accounts`) | `Accounts!SameIdentityOrEmail` | `SameIdentity` |
| `DeletedUntilSignIn` (`accounts`) | `Accounts!SyncDeleted` | `SyncClerkIdentity` |
| `TypeOK` (`services`) | `Stores!BeginFollowAny` | `BeginFollow` |
| `GuessesBounded` (`services`) | `Codes!ExhaustedLate` | `Exhausted` |
| `NoSecondUse` (`services`) | `Codes!AcceptCode` | `UseCode` |
| `CodesReplaced` (`services`) | `Codes!InvalidateNone` | `InvalidateAll` |
| `LiveIsPaid` (`services`) | `Deals!MayBeLiveUnpaid` | `MayBe` |
| `BestDealsAreLive` (`services`) | `Deals!PlanToAdd` | `Plan` |
| `WalletBalances` (`services`) | `Wallets!DebitUnchecked` | `Debit` |
| `DefaultIsReplaced` (`services`) | `Addresses!ClearAtOnce` | `Clear` |
| `RatingMatches` (`services`) | `Reviews!MarkOnly` | `Mark` |
| `FollowersCounted` (`services`) | `Stores!DeleteAnyFollower` | `DeleteFollower` |
| `RegistrationsKept` (`services`) | `Notices!InvalidAmongAll` | `Invalid` |
| `AcknowledgedKept` (`services`) | `Desk!ReadForPush` | `LockForPush` |
| `RecentKept` (`services`) | `Views!StaleById` | `Stale` |
| `AllShownOnce` (`services`) | `Catalogue!PageFromZero` | `FindProductPage` |
| `StepReported` (`services`) | `Onboarding!NextStepApprovalFirst` | `NextStep` |
| `NothingLost` (`checkout`) | `Carts!IncrementOver` | `Increment` |
| `SecondLineByAnother` (`checkout`) | `Carts!FindNoLine` | `FindLine` |
| `PricedAsShown` (`checkout`) | `Checkout!SelectDeliveryOnly` | `SelectDelivery` |
| `OneOrderPerSession` (`checkout`) | `Checkout!ActiveOrConfirmed` | `Active` |
| `ConfirmedShowsOrder` (`checkout`) | `Checkout!CloseSessionOnly` | `CloseSession` |

## 7. What is proved

For any sets of ids, any number of workers, faults, attempts and rows, under the
assumptions the modules name: ids are not the null value, the total of an order
and the units bought are positive, prices are numbers, there are finitely many
workers (`Calls`), device rows (`Notices`), categories and products of the catalogue
(`Catalogue`), whose pages have at least one row each. Where a theorem needs more, the
table says so: sums and ranks need a finite set of what is summed or ranked,
which a table of rows is.

| theorem | says |
|---|---|
| **`RefundsProofs`** | |
| `TypeCorrect` | `Spec => []TypeOK` |
| `Invariance` | `CleanSpec => []IInv` |
| `OneRefund`, `Exclusion`, `LedgerCovers` | the safety properties that `IInv` contains or implies |
| `CompletedStays` | `CleanSpec => CompletedIsFinal` |
| `PaidBack` | `CleanSpec => []RefundedOrderIsPaidBack`, with two more invariants on top of `IInv` |
| `LedgerAgrees` | `CleanSpec => []LedgerMatchesRequests`, requests finite |
| `Refinement` | `CleanSpec => LedgerSpec` |
| **`OrdersProofs`** | |
| `TypeCorrect` | `Spec => []TypeOK` |
| `PaidWasCharged` | `Spec => []ConfirmedWasCharged`, races included |
| `ShippedStays` | `CleanSpec => ShippedStaysShipped` |
| `GoodsNotBoth` | `CleanSpec => []GoodsOrMoney` |
| `HoldsMatch` | `CleanSpec => []HoldMatchesRequest` |
| **`ReturnsProofs`** | |
| `TypeCorrect` | `Spec => []TypeOK` |
| `ApprovalFollowsReview` | `Spec => []ApprovedWasReviewed`, races included |
| `OpenStaysReserved` | `CleanSpec => []OpenIsReserved` |
| `NeverMoreThanBought` | `CleanSpec => []ReturnsWithinBought`, requests finite |
| **`CheckoutProofs`** | lines and products finite |
| `CheckoutTypes` | `CleanSpec => []TypeOK` |
| `OneOrder` | `CleanSpec => []OneOrderPerSession` |
| `OrdersArePriced` | `CleanSpec => []PricedAsShown` |
| `OrderIsShown` | `CleanSpec => []ConfirmedShowsOrder` |
| `CartsKeepItems` | `Spec => []NothingLost`, races included |
| `OneLine` | `Spec => []SecondLineByAnother`, races included |
| **`AccountsProofs`** | |
| `AccountTypes` | `Spec => []TypeOK` |
| `AddressProved` | `Spec => []VerifiedByCode` |
| `OnlyOwnersSignIn` | `Spec => []EmailNeverLinks` |
| `DeletedStays` | `Spec => DeletedUntilSignIn` |
| `SignupsStay` | `CleanSpec => []SignupNotLost` |
| **`UsersProofs`** | |
| `CodesTypeCorrect` | `CodesSpec => []CodesTypeOK` |
| `GuessesAreBounded` | `CodesSpec => []GuessesBounded` |
| `NoSecondUseHolds` | `CodesSpec => []NoSecondUse` |
| `ReplacedHolds` | `CodesSpec => []CodesReplaced` |
| `RegistrationsStay` | `NoticesSpec => []RegistrationsKept` |
| `NoticesTypeCorrect` | `NoticesSpec => []NoticesTypeOK` |
| `AddressesTypeCorrect` | `AddressesSpec => []AddressesTypeOK` |
| `DefaultsAreReplaced` | `AddressesCleanSpec => DefaultIsReplaced` |
| `StepsAreReported` | `OnboardingSpec => []StepReported` |
| `OnboardingTypeCorrect` | `OnboardingSpec => []OnboardingTypeOK` |
| `RecentStay` | `ViewsCleanSpec => []RecentKept`, products finite |
| `ViewsTypeCorrect` | `ViewsSpec => []ViewsTypeOK` |
| **`ServicesProofs`** | |
| `WalletsTypeCorrect` | `WalletsSpec => []WalletsTypeOK` |
| `BalancesHold` | `WalletsSpec => []WalletBalances` |
| `FollowersAreCounted` | `StoresSpec => []FollowersCounted` |
| `StoresTypeCorrect` | `StoresSpec => []StoresTypeOK` |
| `DeskTypeCorrect` | `DeskSpec => []DeskTypeOK` |
| `NothingAcknowledgedIsLost` | `DeskSpec => []AcknowledgedKept` |
| `BookingsTypeCorrect` | `BookingsSpec => []BookingsTypeOK` |
| `RatingsMatch` | `ReviewsSpec => []RatingMatches` |
| `ReviewsTypeCorrect` | `ReviewsSpec => []ReviewsTypeOK`, reviews finite |
| `LiveArePaid` | `DealsCleanSpec => []LiveIsPaid` |
| `BestDealsShowLive` | `DealsCleanSpec => []BestDealsAreLive` |
| `DealsTypeCorrect` | `DealsSpec => []DealsTypeOK` |
| `CatalogueTypeCorrect` | `CatalogueSpec => []CatalogueTypeOK` |
| `AllAreShown` | `CatalogueSpec => []AllShownOnce` |
| `TypesHold` | `Spec => []TypeOK` of `MCServices`, reviews finite |

### The arguments

The argument for `Refunds`. `ExclusiveReservation` alone is not inductive: the
release reads that its request holds the order and writes without looking
again, which is safe only because no other handler can be between its
reservation and its release. `IInv` therefore says what the owner knows
(`OwnerHoldsOrder`: its request is the holder and its amount the reserved one),
what exists at Paystack at each of its labels (`Starting`, `Calling`, `Ending`),
and, when no handler owns the order but a request still waits for its refund,
that this refund is the reserved one (`AwaitsRefund`, `Settling`). An event can
then only end the refund that is reserved, because a row names no refund but its
own; this is where the clean runs are needed. `FailingAlone` and `markFailed`'s
conjunct in `Ending` keep the late write of "failed" off a new attempt.
`LedgerAgrees` adds `Counted`: an event first completes its request and then credits
the amount reserved, and between the two (`Crediting`) the ledger is behind the
completed requests by just that amount; cut off there, it stays behind.

The argument for `Orders`. `PaidWasCharged` rests on `ChargedFirst`: either a
charge has gone through, which nothing undoes, or the order is untouched but for
moves by hand. `LinkPending` is needed because storing a reference also publishes the
link, and must not be able to reset a charge that has been paid.

`GoodsOrMoney` and `HoldMatchesRequest` rest on `HoldInv`, which holds until somebody
moves the order by hand. A request claims the order if it holds it or its refund is
made. At most one request does, and none while another is being filed (`OneClaim`); an
order with a request on it is held, and one whose money went back is not up for
fulfilment again (`ClaimKept`); an order that is held has a request on it or a handler
that is about to store one, to give the order back or to close it (`HoldAwaited`). The
refund's steps add two: from the reservation to the release one handler owns the order
(`OneOwner`), and while it starts its refund the row says what it wrote
(`RefundInStep`), so that a refused refund is marked failed, and goes on holding the
order, before another starts. The other conjuncts say what handlers know: `GivenBack`,
`FilingUnstored`, `DecidedStored`, `RefundWasApproved`. Each of the four steps left out
by `Clean` breaks one of these.

The argument for `Returns`. A review is never undone, so it is enough that a
handler on its way to an approval has seen one (`SeenReview`), and that a refund
only starts from an approval (`RefundReviewed`). For the reservations, a request
that is being filed belongs to one handler and is not in the table
(`FilingAlone`), and a release has the id of its own request or of a row, which no
reservation has (`ReleasesOwn`). What is in the table is reserved, for good
(`StoredIsReserved`): that is why a stale decision does no harm to the reservations, and
why `ReleasedIsFree` fails. `Clean` is what makes the list written back the current one.
`NeverMoreThanBought` needs, on top, that the reservations never sum to more than
was bought (`RoomKept`), which the check under the row lock establishes; each open
request has its quantity among them.

The argument for sums (`SumLemmas`). A sum over a set is defined by recursion on its
subsets. That the recursion has a solution, and that a sum changes as one summand
does, is proved by induction over finite sets; induction is stated for a set of
numbers (`NaturalsByInduction`) instead of an operator.

The argument for `Carts`. `CartsInv` says what a call knows at each await of the
cart, line and quantity it has found. A merge is a transaction of many steps:
`MergeInv` says which rows it has written, that no other call writes them, and that
they are in the buyer's cart or still to be committed. `NothingLost` is an equation
between sums per product. `GatherInv` says that what a merge has read is what it has
added to lines, has yet to add and is about to add, each line once; when it commits,
the sum changes by what it has read less what the guest's lines hold then, which is
`drift`. For `SecondLineByAnother` (`LineInv`), a call that is about to insert a line has
inserted none of this product before; with a variant, the index makes it wait for a
transaction that has, and refuses what is there.

The argument for `Checkout`. `CheckoutInv` relates the three places an order's price
comes from: what a call has read agrees with its session (`Caught`), a session that can
be confirmed is priced for what its last summary showed, and a confirmed one shows its
order (`Shown`), and a placed order is named by its session or by the call about to
close it (`Known`). The cart does not occur in it but for its types.

The argument for `Accounts`. `AccountsInv` has what is stored (`Tables`), what a
running call knows (`CallsSound`: `WellFormed` and, of a call past its code,
`Grounded`, that a code for its address was accepted) and what an account rests on
(`Backed`: an account with a Clerk user belongs to it, a verified account that
belongs to none had its address proved). Codes accepted and owners never shrink, so that a
call that has read them long ago still knows them; nothing here needs the clean
runs. `SignupNotLost` does: a pending signup is deleted only for an account that
exists, if the account has not gone meanwhile.

The argument for `Codes`. The bounds speak of what has happened; the invariants
add what running calls still may do. `GuessesInv`: the guesses at a code are
covered by the attempts counted, the calls that are about to count theirs
(`Counting`) and the calls cut off, and no call looks at a code whose attempts
are used up. `UsesInv`: the acceptances of a code and the calls that have read it
unused and are about to accept it (`Using`) are together no more than the
workers, since no call joins them once it is used. Both need facts about the
cardinality of a set that one worker enters or leaves, stated as lemmas.
`ReplacedInv`: the valid codes of an address and purpose and the calls that
have invalidated and are about to insert are together no more than the workers
(`Few`), since the step that joins the second set empties the first.

The argument for `Notices` (`NoticesInv`). A clean-up carries rows of devices that
Firebase has reported lost (`Informed`); a row keeps its device and a lost device
never comes back, so that what is deleted is out of reach, whoever owns it by then.
A registered device is within reach and has a row (`RegisteredHasRow`).

The argument for `Addresses` (`AddressesInv`). A transaction clears defaults only, on
its way to set one, and no two have cleared the same row (`Clearing`); the one
default there is (`OneDefault`) is then replaced where the transaction ends.

The argument for `Onboarding` (`OnboardingInv`). A report has seen, in the rows it has
read, all steps that were done when it began, and what it has seen is done
(`Reading`); steps stay done but for a revoked approval, which the property
excludes.

The argument for `Views` (`ViewsInv`). The products viewed most recently have a row,
and any other row is one that a running call is about to find stale or to delete
(`Doomed`). A product leaves the most recent only when another is viewed, and that
call then trims.

The argument for `Wallets`. The wallet is written under its lock in one step with
the entry, so that the last entry's running balance is the balance after every
step, whatever a call has read before; the balance is compared again under the
lock, so that no debit leaves less than nothing, of whichever sign its amount is.

The argument for `Stores` (`StoresInv`). Between the follower's row and the count
the row is locked (`Locks`: one call per row, and the row has not changed for
others yet), so that the count follows the committed rows (`Counted`), however
the calls of other followers are ordered.

The argument for `Desk` (`DeskInv`). A call between the lock and the write holds
the list as it is and is the only one there for its row (`Locking`); a row that a
call has found is inserted already (`Fitting`), so that creating a ticket or a
booking disturbs none.

The argument for `Bookings` (`BookingsInv`). Writes go to rows that were found and
stay (`FoundIt`).

The argument for `Reviews` (`ReviewsInv`). A call that has summed up and not been
overtaken is about to write what is right (`UpToDate`). A product's rating is that of
its reviews, or was written last by an overtaken call, or a call is about to sum them up
or to write a sum that is still right (`Due`).

The argument for `Deals`. `DealsInv`: every write a call carries is one of the
decisions the code takes (`Shaped`), among which those that make a campaign live
carry or have read its payment; with `Clean` they are still true when written.
`SectionsInv`: each product agrees with the campaigns (`Agreed`) or a running call
has it on its list of products to add or to remove (`Tracked`). Its proof needed
`LateProducts` among the steps left out, and showed a fault the run could not
(section 5).

The argument for `Catalogue`. Both halves of `AllShownOnce` follow from the types of
the rows alone, and are about what a definition computes. The tree is built level
by level (`Below`), as a recursive function of which the lemmas show that it has a
solution (`LevelsExist`). A level is closed under taking children or the next one has
a category more (`LevelStep`, `BelowLeast`), so that as many levels as there are
categories reach all that can be reached (`BelowClosed`). A category that is left out then
has a parent that is left out as well, and has it below: the parent has more
categories below it than its child has, as a table without cycles has it, and that one's
parent more again, which a finite table does not allow (`TreeIsWhole`). Of a list, `Before` is a strict order
(`BeforeIsOrder`), a finite set of products can be put in that order (`OrderExists`),
and a list in strict order has each once (`SortedHasAll`). The first pages joined are
the first products of the list (`WalkIsSorted`), and there is a next page exactly
while some are left (`PagesNeeded`: `n < (L + l - 1) \div l` is `n * l < L`), so that
the walk ends, with all of them (`WalkEnds`, `WalkShowsAll`).

The argument for the types. Most are inductive with what the calls hold. `Stores`
needs that a call's row is of a store that is there (`StoresInv`), `Notices` that the
rows of a push are in the table (`NoticesInv`), `Reviews` that a review which is edited
was inserted (`ReviewsTyped`), and that the rounded average of ratings of at most 5
is at most 50 tenths, by a bound on a sum (`SummaryType`); `Deals` what each of the
labels holds (`Holds`), a decision being a whole row of which a write takes some columns
(`DecisionTyped`, `WriteTyped`). None needs the clean runs. `TypesHold` joins the
twelve: a step of `MCServices` is one of the part explored (`StepIsOfPart`).

TLC has checked the inductive invariants as invariants of the runs' instances or of
smaller ones: `IInv`; `ChargedFirst` and `HoldInv` (799 566 states); `ReviewInv`,
`ReservedInv` and `RoomKept` (481 402); `CartsInv`, `MergeInv`, `LineInv`, `GatherInv` and
`CheckoutInv` (616 054); `AccountsInv` (1 138 407); `NoticesInv` (113 272); `ReviewsInv`,
`ViewsInv` and `BookingsInv` (199 401); what `PartInv` says of the other services, of
`StoresInv` conjunct by conjunct; `DealsInv` and `SectionsInv` (two products, one
campaign, 1.75 million); `ReplacedInv` (three workers, 16 million states and not
finished). Of the other theorems, the properties they end in.

### Only model-checked

Liveness (`SettledRefundFreesOrder`, `ChargeConfirmsOrder`), which is out of the
prover's reach: the argument needs that the fair actions are enabled. Every other
property of a passing run is stated by a theorem. The failures of section 5 are
counterexamples, which TLC finds. Where the table names a clean specification, the
runs left out are those in which a late write may break the property (sections 3 and
5); the types alone hold in all of them.

## 8. What is left

Worth proving next: that the reservations of `Returns` and the refund of `Refunds`
agree with what `Orders` assumes of them, by a refinement of one module that has
the rows of all three; the exact outcome of a late write where a clean
specification leaves it out.

Left out of modelled components: evidence images and several lines or sellers in
one return; adding an old order again; prices, texts and images of products, and
the filters of a search that need texts; profile and preferences of a user;
settings of a store; the votes on a review; rows of notifications; retry counter,
quotes, coverage and pick-ups of couriers.

Not modelled, with the reason:

* placeholders that keep nothing: wallet top-up and transfer, most of `rewards`, the
  Stripe and proof-of-delivery parts, `partners` as far as its calls fail (5);
* one row written by one statement, about which no two calls can disagree: banners,
  brands, collections, policies, newsletter, wishlist, shipping rates, site
  configuration, supplier records, auth events;
* `data-requests`: one check before an insert, whose only harm is a second open
  request;
* reads: product detail, availability, cart totals and validation, seller cards,
  search, home, reports, health;
* pure functions and plumbing: authentication guards and signature checks, upload
  ownership, money formatting, the contents of mails and notifications, types,
  configuration, logging, the Prisma client.
