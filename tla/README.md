# rekit_backend: specifications, model checking, proofs

The repository is the backend of a web shop: FastAPI handlers over PostgreSQL
(SQLAlchemy), Redis, and the payment gateway Toss. This directory holds TLA+
modules for every part of it that keeps or changes state, TLC configurations that
check them on small instances, and proofs that TLAPS checks for every instance.

Contents: [system](#the-system) · [modules](#modules) · [Checkout](#checkout) ·
[Inventory](#inventory) · [RowLocks](#rowlocks) · [Sweeper](#sweeper) ·
[requests](#requests-under-way-at-once) · [Accounts](#accounts-codes-and-sessions) ·
[lists and sums](#lists-prices-figures) · [Migrations](#migrations) · [runs](#runs) ·
[findings](#findings) · [fairness](#fairness) · [proofs](#proofs) ·
[plan](#plan) · [not modelled](#what-is-not-modelled)

## The system

| component | state it keeps | operations | correct when |
|---|---|---|---|
| Order life cycle (`app/order`) | `orders.status`, items | create, cancel (buyer, admin), request refund, input shipment, update status, release when unpaid | an order is fulfilled only if paid; a closed order stays closed; its items go back once |
| Payment (`app/payment`) | `payments.status`, `pg_tid` | init, confirm, webhook, cancel, late refund, release | books say of a charge what Toss says; no money stays taken for a cancelled order |
| Toss (external, `app/payment/adapters`) | status of every paymentKey, webhooks it owes | confirm, cancel, query, webhooks, expiry | as the adapter uses it |
| Sweeper (`order/abandoned_order_sweeper.py`) | the skip list of a pass; locks an order with SKIP LOCKED | passes over overdue unpaid orders, in every worker | every unpaid order that is safe to release ends |
| Product stock (`catalog/catalog_utils.py`, stock updates of order and payment) | `products.stock`, `products.status` | decrement, increment | nothing gets lost, nothing is oversold, status follows stock |
| Request transactions (`core/deps.py`) | row locks | one transaction per request: commit or roll back | requests wait in a circle only where the code is known to lock out of order |
| Catalog administration (`catalog/admin_catalog_service.py`) | products, categories, images | create, patch, delete, replace images | one admin does not undo another's edit; a product with images has a thumbnail |
| Catalog browsing | none | list with filter, sort, page | turning pages misses nothing |
| Cart, favorites (`app/cart`, `app/favorites`) | rows per user and product | add, update, remove, bulk remove | one row per product, within the stock; a request does what it says |
| Address book (`app/address`) | rows per user, one default | create, update, delete | at most ten, one default |
| Accounts (`app/auth`, `app/user`) | users, linked social accounts, temp tokens | sign up, social login and sign-up, link, passwords, phone, withdraw, status | owners get in, nobody else does, a withdrawal is final |
| Verification codes (`app/auth`, `adapters/octomo.py`) | codes and rate keys in Redis | send, show, verify | one code verifies once; nobody is locked out |
| Sessions (`core/security.py`) | cookie of a browser | sign in, refresh, sign out | who comes back in time is signed in |
| Help desk (`app/help`) | inquiries, notices, FAQs | submit, answer, set status; edit | what is stored was mailed |
| Members, dashboard, sales (`app/admin`) | none of their own | sums over orders | all pages show the same money |
| Shipping fees, delivery area (`core/shipping.py`) | none | fee and discount of a method | what was quoted is charged |
| Migrations (`alembic/versions`) | the schema, and rows they rewrite | 22 upgrades and downgrades | a downgrade undoes its upgrade; data survives |
| Uploads, seed scripts, error table, rendering | none | | outside the model |

How they interact. `create_order` releases the buyer's older unpaid orders
(which asks Toss), then checks and takes stock, in one transaction. The payment
widget creates a paymentKey at Toss; `confirm` asks Toss to charge it while it
holds the order lock. Toss sends a webhook for every status change, until it is
answered with 200; the handler asks Toss for the status (a webhook's own
words are not believed), then locks, then acts. The sweeper runs in every worker.
Admins cancel orders (which calls Toss), ship them, and edit stock. Accounts,
address book, cart and help desk meet the orders only through rows that are
copied (snapshots of address, price, name), never through shared decisions, so
they are modelled side by side.

What is hard here:

- **A call to Toss inside a transaction.** It may time out after Toss has acted
  or before it will; the rollback does not take back what Toss did.
- **Webhooks** come late, twice, in any order, or for something the shop has
  done itself; the status they act on was fetched before any lock was taken.
- **Reads without locks**: `request_refund` and the list of stale orders in
  `create_order` decide on rows that others change meanwhile; and so does every
  request of cart, address book, accounts, help desk and console.
- **Four parties that may close an unpaid order**: buyer, sweeper, the buyer's
  next order, webhook. While one asks Toss, the others wait for its lock, or not.
- **Locks** on orders, payments and products, taken in different orders.
- **Columns, not rows, are written.** SQLAlchemy's UPDATE names what differs from
  what the request has read: two requests may each write a part of one row.
- **Mail and commit** are two things, in this order or the other; a background
  task writes after the answer to its request has left.
- **Two calls where one is meant**: GET and DELETE of a code in Redis.

The full list, line by line, with the properties that cover it, is `hazards` in
`PROJECT.json`.

## Modules

| module | what it is |
|---|---|
| `Sale` | abstract specification: what happens to the goods and the money of one sale |
| `Checkout` | orders, payments, Toss, webhooks, release; implements `Sale` |
| `Inventory` | product stock and status under orders and admin edits |
| `RowLocks` | which rows the transactions lock, in which order; deadlock and its resolution |
| `Sweeper` | the loop of the sweeper: claims, skip list, bound of a pass, workers, restarts |
| `Requests` | bookkeeping of requests under way: which ones of a user overlap |
| `Addresses`, `Basket`, `HelpDesk`, `Records`, `Gallery` | tables edited by concurrent requests |
| `Accounts`, `Codes`, `Sessions` | users and what they sign in with; codes in Redis; the cookie |
| `Listing`, `Pricing`, `Figures` | pages of a list, amount of an order, sums of the console |
| `Migrations` | the revisions of the schema, both ways, over data |
| `Shop` | the components around the orders side by side: help desk, addresses, basket, records, gallery, listing, pricing, figures |
| `Identity` | accounts, codes and sessions side by side |
| `Checkout_proofs`, `Inventory_proofs`, `RowLocks_proofs`, `Sweeper_proofs`, `Shop_proofs`, `Identity_proofs`, `Migrations_proofs` | theorems about these modules |
| `Lemmas` | lemmas that several of them use |
| `MC*` | instances for TLC |

`Checkout`, `Inventory`, `RowLocks` and `Sweeper` look at the same requests from
four sides and share no variables: what becomes of an order and its money; what
becomes of the stock; who waits for whom; which order is looked at next. Each says
in its first comment what it leaves to the others. A definition whose name has a
suffix (`RowsFree_Unlocked`) and whose comment begins with "Variant:" is not part
of any specification; it is what the code would be with a plausible mistake in it,
and `mutants` in `PROJECT.json` says which property fails with it.

## Checkout

| variable | in the code |
|---|---|
| `order[o]` | `orders.status` (`NONE` before the insert is committed) |
| `payment[o]`, `tid[o]` | `payments.status` and `pg_tid` of the order's row |
| `returned[o]` | how many passes of `increment_stock` over the order's items |
| `busy[o]` | the open transaction that waits for Toss's answer, with its locks |
| `creating` | `create_order` requests that have listed the stale orders of their buyer |
| `reading` | orders a `request_refund` has read as DELIVERED, without a lock |
| `hook[h]` | what a webhook handler fetched from Toss, before it locks anything |
| `toss[k]`, `wire`, `due` | Toss: status of a paymentKey, requests not carried out yet, webhooks owed |

One request is one transaction (`core/deps.py`). A transaction that does not
wait for Toss while it holds locks is one action, since nobody sees its parts.
One that does is a `...Call` and a `...Commit` (or `ConfirmRefused`), with
`EndWithoutCommit` for every way of ending in a rollback: timeout, error answer,
failed commit, lost worker. Toss moves in between or later: a request stays in
`wire` until Toss carries it out, also if the shop gave up long ago; a request
that is never carried out is one that got lost.

| actions | code |
|---|---|
| `CreateBegin`, `CreateCommit`, `CreateFail` | `create_order`: list stale orders unlocked; release each and insert; or roll back all of it |
| `ReleasePending` | `release_pending_order`, from the sweeper and from `get_order` |
| `InitPayment`, `ConfirmCall`, `ConfirmCommit`, `ConfirmRefused` | `init_payment`, `confirm_payment` |
| `CancelAtOnce`, `CancelCall`, `CancelCommit` | `cancel_order` of buyer and admin |
| `RefundRead`, `RefundCall`, `RefundCommit`, `RefundNothing`, `RefundFail` | `request_refund` |
| `InputShipment`, `UpdateStatus` | admin endpoints; `AdminMoves` says what admins ask for |
| `WebhookFetch`, then one of `WebhookIgnore/Approved/LateCall/Cancelled/PartlyCancelled/Failed`, `LateRefundCommit`, `WebhookError` | `handle_webhook` and `_apply_remote_payment_status` |
| `Authenticate`, `TossApprove`, ... `Redeliver` | Toss, the buyer in the widget, and an operator at Toss's console |

Decisions worth knowing:

- `release_pending_order` asks Toss while it holds the locks. This query changes
  nothing at Toss, and Toss's answer remains safe or becomes stale only through a
  step of Toss, which the model may take right after the release: query and
  commit are one action, and `SweeperRace.cfg` is just this case.
- `request_refund` does not lock the order; `cancel_payment` then locks its
  payment rows. So `OrderRowFree` holds during a refund and `RowsFree` does not.
- `hook[h].byNumber`: the handler looks up the paymentKey after Toss has answered and
  before it locks, and uses the order number if it found none. So the row may have got
  its key between the question to Toss and the lookup (`HasTarget` by key), or between
  the lookup and the lock, and is then no READY row any more: the handler finds nothing
  and answers 200 (`Overlooked`, one way to `WebhookIgnore`).
- A stale webhook that saw DONE and is applied after a refund sets the payment
  back to PAID until the CANCELED webhook of that refund arrives. The model has
  this; `BooksFollowToss` therefore says "a charge of this order", not "DONE".
- The shop has one payment row per order (`init_payment` refuses a second). Toss
  accepts at most one payment per orderId. READY at Toss is merged with
  IN_PROGRESS, which the code treats alike. Virtual accounts
  (WAITING_FOR_DEPOSIT) are not offered by the shop and not modelled; neither are
  failing amount and ownership checks, which end a request before it does
  anything. Partial cancellations have no endpoint; an operator can make one at
  Toss's console (`Console`), for a charge the shop shows as paid.
- `reading` holds an order once: of its refund requests one at a time is between
  its read and its locks (a bound). So `returned`, a counter without a bound of
  its own, stays at two or below in the instances checked.

Properties: `NoDoubleSale`, `FulfilmentIsPaid`, `BooksFollowToss`,
`LateMoneyIsNoticed`, `ReturnedOnce` (invariants); `PaidBackFirst` (actions);
`PendingEnds`, `LateMoneyReturned` (liveness); `ImplementsSale` (refinement: goods
go from the shelf to reserved, to sold only against money, and back at most
once; money is taken once, and given back only when the goods are no longer
merely reserved). `RefundKeepsStock`, `ClosedStaysClosed` and
`NoApprovalAfterRelease` are what the repository's comments promise; see
[findings](#findings).

`ImplementsSale` does allow goods to return after the money did, and goods to be
sold whose money was given back at Toss but not in the books yet: that is the
window between a refund at Toss and the commit or webhook that follows.

## Inventory

`product` has the two columns, `order` as much of an order's status as the stock
depends on (PAID stands for all later statuses; a refunded order keeps its goods
and is PAID here), `items` the lines. `CreateOrder(o, basket)` is the whole
transaction: release some of the buyer's unpaid orders, check every line against
the stock as it is then, take all lines out. An unpaid order that Toss knows as
paid is a `Pay` step before it. Product rows are locked from the check to the
commit, so the transaction is one step. An admin's edit writes absolute values
into the fields that were filled in (`NoChange` for the others); editing only
the status takes no lock and writes only that column, so it too is one step.
That a webhook puts back the goods of a refunded order is `CancelOrder` of a PAID
order; that this may happen twice is a matter of `Checkout` (`ReturnedOnce`).

`Conserved`: no step but an admin's edit changes the sum of what is on the shelf
and what orders hold. `StatusFollowsStock`: a step that changes a product leaves
it SOLD_OUT exactly if nothing is left, unless it is hidden or the step was
an admin's edit. `NotOversold`: no stock below zero, edits or not. The first two
are properties of steps, so that they say something about every history of
edits.

## RowLocks

A transaction has a plan, the rows it will lock one after the other, and holds
what it has locked until it ends. The plans are read off the queries with
`with_for_update`, the UPDATEs of products and the final write of `request_refund`:

| operation | locks |
|---|---|
| confirm | order, payment |
| webhook | order, payment, and products in the order of the lines if it restores |
| cancel | order, payment if it is paid, products line by line |
| refund | **payment, order** |
| release, sweep | order (the sweep only if free), payment, products line by line |
| create | **all stale orders of the buyer one after the other** (`ReleaseNext`), each with its payment and products as in a release; then the products of the basket in the order the database finds them (`LookUp`) |
| init, shipment, status | order |
| edit | one product |

Which operation is possible in which status is left out (an operation ruled out
by a status ends early, which is `RollBack`), so the module allows more than the
program, and what it excludes the program does not do either.

Requests do wait for each other in circles, in the module and in the program. Three places
lock a row above one that is held: a refund writes its order after its payments; a create
goes on to the next stale order while it holds the rows of the last; and products are
locked as the lines name them or as the database finds them. `DeadlocksAreOutOfOrder`
says that there is no fourth: in every circle some request is just about to do one of these
three. What it promises is what the code says of itself (payment_service.py:123 and 224):
order before payment keeps confirm, webhook, cancel and release of an order apart.

`LocksRefund.cfg` has two requests. Its shortest deadlock is that of a refund and a request
that locks order before payment, there a sweep; in the program, where the order is delivered,
this is the webhook that Toss sends as soon as it has cancelled, while the refund's
transaction is still open. PostgreSQL then aborts one of the two, which is a `RollBack`
here. If this is the refund, Toss has paid back, the shop rolls back, and the webhook closes
the order and restocks its goods.

## Sweeper

`claim[w]` is the order that worker w's transaction has locked (`SELECT ... FOR
UPDATE SKIP LOCKED`), `skipped[w]` the list the pass keeps of orders it could not
settle, `turns[w]` the counter that stops a pass after `max_orders`. `toss[o]` is
what asking Toss comes to: safe to release, open (no answer, or payment under way),
done, or broken, which makes the handler raise something else than the gateway's
own error. `Claim`, `Handle` (one of `Release`, `Settle`, `Postpone`, `Fail`) and
`Break` are a turn of the loop; `Restart` loses the worker; `Request` is any other
request that ends an order, `Answer` Toss making up its mind about a payment that
is open, and `Retry` a buyer who begins to pay an unpaid order again: what was safe to
release is open once more, also while a worker holds the order and after it asked.

- `IInv`: the items of an order go back exactly when it is cancelled, and once; no
  two workers hold one order; what is held is unpaid.
- `SafeOrdersAreReleased`: an order that is safe to release is released or paid again
  (`Released`), provided that the older orders that cannot be settled are always among
  some fixed set of fewer than `max_orders`, and none of them is broken. The hypothesis is
  the content: with as many, the pass is used up on them. That the set is fixed matters
  since buyers pay again: if now one, now another older order is open, a pass may meet each
  of them at a bad moment.
  `SweepFailure.cfg` shows that "broken" must be excluded: the exception leaves
  `sweep_abandoned_orders`, and the next pass begins with the same order again.

## Requests under way at once

Each of these modules has `request`, a record per handler: what it has read, what
it will write. A request starts (reads, checks, decides) in one action and commits
in another; in between everything else may happen. `Requests` keeps `alone`: false
as soon as another request of the same user (or about the same row) overlaps.
Properties of the form "a request that is alone does what it says" hold in every
state that earlier races may have left, which is more than a test of one request
says; what races themselves may do is stated by the invariants.

- `Addresses`: the UPDATE that clears the default finds its rows (`StartClear`),
  waits for the locks of others and looks again at what changed (`ClearDefault`),
  as READ COMMITTED does; then the request writes its own row and commits. Limit:
  `LimitPlusRaces`. `LoneDefaultHeals`: whatever defaults races left, the next
  lone request for the default leaves one.
- `Basket`: `AddItem` adds to the quantity it has read; the unique constraint and
  SQLAlchemy's check of updated rows end a request that lost a race. Stock moves.
  `LoneRequestTakesEffect` has one conjunct per operation on a cart row or a favorite.
- `HelpDesk`: mails leave before the commit, one after the other; a failure rolls
  back everything but the mails. `Merged` is the UPDATE of the columns that differ. The
  notice to the shop exists only where an address for it is configured (`AdminEmail`; both
  settings are empty by default): `Announcement` is what is due about an inquiry.
- `Records`: the one form of code that notices, FAQs, categories, products, images
  and profiles share: insert, patch of the fields a body names, delete.
- `Gallery`: the DELETE of a replacement does not see rows that a concurrent one
  has inserted; both lists may stay, but an image numbered 0 is always there.

## Accounts, codes and sessions

`Accounts` has every operation that writes `users` or `social_accounts`: sign-up,
social login (which links by e-mail, or hands out a temp token), social sign-up,
withdrawal (with password, or after re-verification by the provider), change of
password and phone, the admin's status, and the temporary password: the request
only queues the task (`IssueTempPassword`), which mails (`MailTempPassword`), reads
the user in a session of its own (`LoadTempPassword`) and commits. `Written` is the
UPDATE of the changed columns, `Refused` the unique constraints. An address has a
spelling, because providers keep capitals and the shop compares small letters.

- `NobodyLockedOut`: the owner can always prove that the account is his; a lost mail
  leaves the old password in force.
- `WithdrawalIsFinal`: no request that was under way when a user withdrew brings his
  login id or e-mail back. (His phone number it may: see [findings](#findings).)
- `LoneRequestApplies`: withdrawal, password change, temporary password and admin's
  decision leave what they promise when nothing overlaps.

`Codes`: every Redis and HTTP call is a step; between any two of them it may fail
(`SendFails`, which for a phone takes the rate key back) or the worker may die (`Die`, which
takes nothing back). `AcceptedIsDead`: a request that begins after a code was accepted
does not find it. (Two that began before both may.) `LockMeansShown`: a phone is locked only
while a QR is being made for it, if the newest code drawn for it was shown, or because a
worker died over it (`orphaned`: until the key expires, the customer waits and has nothing
to scan, in the code as here). `VerifiedWasProved`: Octomo keeps which phone a
message came from (`sent` has pairs), and the phone a user has verified sent an accepted code.

`Sessions`: days; a refresh token has its own end and its cookie has one, computed
in two places. `StaysSignedIn`: who returns within `ExpireDays` is still signed in.

## Lists, prices, figures

`Listing`: every page is a query of its own, and where the sort leaves the order
open the database may choose differently each time (`Orderings`); `NothingMissed`
is why `get_list` sorts by id last. The console adds, reprices, hides and shows products
meanwhile (`UpdateProduct`). Two things are outside the promise, and pages by offset cannot
give them: a product that is itself edited may be missed (`edited`), and once a listed product
leaves the list or moves towards its end, those behind it move up past the reader
(`yielded`). `Pricing`: quote and order compute the amount
separately while the console changes prices. `Figures`: one set of orders, the
queries of four pages, days cut in two time zones; the queries are operators,
checked against each other in every state of the orders.

## Migrations

A migration is a sequence of steps on tables, the columns that some migration
treats specially, foreign keys, enum types, and the rows a step reads or rewrites;
`Accepts` is what PostgreSQL would refuse. A command (upgrade to head or by one,
downgrade by one or to base) happens whole or not at all, as `env.py` runs it in
one transaction. Between commands the application of the day writes rows: `Users` who are
verified by a column or another, `Phones` (the fields of users, addresses and orders that
hold a number), `Products` with a category, of the enum (`BuiltIn`) or any other
(`Categories`). A line of scripts is applied by recursive functions (`Applied`, `Upgraded`,
`Downgraded`), so that proofs can follow it.
`DataNeverBlocks` holds from c1a4d8e2f6b3 on; before it, fe0e26b92c26 and 589d381b3893 add
NOT NULL columns without a default and are refused by a table with rows, and
c1a4d8e2f6b3 itself by a user without a name. Indexes,
comments, lengths and column types are left out, and so is the UPDATE of 1b7cb4efab36, which
fills a nullable column that no later script reads; all but thirty lines of the longest
script set comments.

## Runs

| passing run | instance | what it shows | distinct states |
|---|---|---|---|
| `one_attempt` | 1 order, 1 key, 2 handlers, no console, fairness | money for a cancelled order is noticed, and returned; a paid order closes only when paid back; unpaid orders end | 5,626 |
| `two_attempts` | 1 order, 2 keys, 2 handlers, console | types, `NoDoubleSale`, `FulfilmentIsPaid`, `BooksFollowToss`, `ImplementsSale` with two attempts that compete | 514,572 |
| `two_orders` | 2 orders of one buyer, 1 key, 1 handler, console, nothing delivered | the inductive invariant; items go back once although buyer, sweeper, next order and webhook all may release | 4,762 |
| `stock` | 3 orders, 2 buyers, 2 products (stock 2 and 1), edits of stock (0, 2) and status | `NotOversold`, `Conserved`, `StatusFollowsStock` | 129,951 |
| `locks` | 3 requests of all kinds, 2 orders with the same 2 products in opposite lines, up to 2 stale orders, refunds | `DeadlocksAreOutOfOrder` | 288,664 |
| `sweep` | 3 orders, 2 workers, passes of 2, 1 restart, fairness | `IInv`; `SafeOrdersAreReleased`, with buyers who pay again | 292,810 |
| `migrations` | 22 revisions, up, down, base, head; data of 2 users, 1 phone, 1 product, 2 categories of the enum and one of the console | shape follows revision; data does not block and is not lost | 81,630 |
| `shop` | 2 users, 2 requests at once; bounds below | addresses, basket, help desk, records, gallery, listing, pricing, figures | 492,247 |
| `accounts` | 2 requests at once; bounds below | accounts (1 user with everything, 2 users that compete), codes on 2 phones, a browser over a week | 1,024,314 |

Three more runs are [findings](#findings), with one counterexample each.

Why these bounds are enough to be interesting. One order and two keys are what it
takes for two attempts to compete for the one payment row; two handlers, for two
webhooks of different age to be applied in either order; two orders of one buyer,
for one to release the other while something else happens to it. More orders do
not interact: the only action on two of them is `CreateCommit`. Three orders on
two products with stock 2 and 1 reach sold out, refusal, and release and resale
in one transaction; three requests form circles of two and of three, two orders with their
products in opposite lines form them on orders, payments and products. Three orders
and passes of two make a pass end with an order left over, and let two obstacles
use up a pass.

`shop`: the limit of addresses is 1 (10 in the code), so that two requests exceed it,
and 3 ids; one product with stock 0 to 2, quantities 1 and 2, 3 cart rows ever; one
inquiry with two possible answers; two rows with two fields of two values; images in
lists of up to 2, 5 ever, so that two replacements meet what a third left; a list of
up to 4 products with two prices and pages of 2, which has a full, a partial and
an empty page, and one product that is edited any number of times (`MaxEdited`);
requests of up to 2 lines that may name a product twice; days of 2 ticks,
weeks of 2 days, 4 ticks and 3 orders, so that ranges begin inside a day of the
database. Orders, prices and ids beyond this repeat the same cases. `accounts`: one
user under all operations with two overlapping requests, then two users who want
one login id, mailbox and social account; for the codes, one user, an address, two phones and
2 codes, so that one is accepted or lost and replaced; 2 days to expire, 4 to be remembered,
7 in all.

`Shop` and `Identity` interleave their components; the theorems are about them. `MCShop`
and `MCAccounts`, for TLC, let a behaviour exercise one component (`part`) and leave the
others in an initial state: they share no variables, so that is what a behaviour
of all looks like to the properties of one.

`migrations`: two users, one verified and one not; one phone and one product, since
no statement relates two of them; a seeded category that a product is in, one that it is
not in, and one that is not seeded. The six of the code would add no case.

TLC's own deadlock check is off in every run but `migrations`: after the last order
is closed, the ids of the bound are used up or time has run out, the system rests;
`RowLocks` has its own notion of deadlock, `Deadlocked`.

`SYMMETRY` is used for the requests of `locks`, for users and handlers in `shop`, and for
handlers and the phones of `Codes` in `accounts`, which nothing tells apart; never in a liveness run.

## Findings

| run | property | what happens |
|---|---|---|
| `fair_two_attempts` | `LateMoneyReturned` | the failure of one attempt uses up the READY row; the charge of the other attempt is never matched, never refunded |
| `stock_repeated` | `NotOversold` | two lines of the same product pass the check one by one |
| `one_mailbox` | `OneAccountPerMailbox` | a social sign-up keeps the provider's capitals; the same mailbox signs up again in small letters |

`PROJECT.json` quotes the line of the repository that each of them contradicts. Ten
more configurations, not among the runs, give counterexamples to what comments and
docs of the repository say:

| configuration (module) | property | what happens |
|---|---|---|
| `RefundRestocks.cfg` (`MCCheckout`) | `RefundKeepsStock` | the CANCELED webhook of the shop's own refund restocks delivered goods, and makes REFUNDED CANCELLED (order_service.py:218) |
| `AdminAnyMove.cfg` (`MCCheckout`) | `ClosedStaysClosed` | `update_status` takes cancelled orders back into fulfilment |
| `ConsoleCancel.cfg` (`MCCheckout`) | `PaidBackFirst` | after a partial cancellation the rest of the money is not asked back |
| `SweeperRace.cfg` (`MCCheckout`) | `NoApprovalAfterRelease` | a timed-out confirm reaches Toss after the release (with one attempt the late refund repairs it) |
| `LocksRefund.cfg` (`MCRowLocks`) | `NoDeadlock` | requests wait in a circle: refund locks payment, order; the webhook order, payment (payment_service.py:224) |
| `SweepFailure.cfg` (`MCSweeper`) | `FailureHurtsNoOther` | one order whose handling raises ends every pass (abandoned_order_sweeper.py:7) |
| `ForcedChange.cfg` (`MCAccounts`) | `ForcedChange` | `change_password` and the task of find-password overlap: the temporary password stays without a forced change, since each writes only its columns (auth_service.py:578) |
| `StatusFollowsAnswer.cfg` (`MCShop`) | `StatusFollowsAnswer` | two admins at once leave an ANSWERED inquiry without a time, or the reverse (help/service.py:233) |
| `OneDefault.cfg` (`MCShop`) | `OneDefault` | two tabs both make a new address the default (address/models.py:71) |
| `TodayIsOnChart.cfg` (`MCShop`) | `TodayIsOnChart` | the database cuts days in Asia/Seoul (docker-compose.yml:10), Python at UTC midnight: the days of the chart are labelled a day early |

And some that the modules, or the reading for them, show without a run:

- `ReturnedOnce` fails if orders are delivered: a second refund request that read
  DELIVERED before the first committed finds no PAID payment (`RefundNothing`) and
  writes REFUNDED over the CANCELLED of the first refund's webhook; the next
  CANCELED webhook restocks again. That is why `two_orders` delivers nothing.
- `confirm_payment` sets FAILED and raises, and `db_session` rolls back on every
  exception: a refusal is never recorded (payment_service.py:167, `ConfirmRefused`).
- An admin who types in a new stock for a sold out product leaves it SOLD_OUT
  (`UpdateProduct`); `catalog/models.py:26` says that it becomes ACTIVE again.
- Two more kinds of requests wait in circles (`OutOfOrder`): creates that release several
  stale orders, which hold products of one order when they want the next order; and any
  two that lock the same two products in opposite orders, since neither the query of
  `create_order` nor the lines of an order are sorted by product.
- The downgrade of 9855aeca0293 leaves the type `contact_status`, so that the next
  upgrade fails (docs/memory.md:115 knows it); `DataNeverBlocks` excepts it.
- Two admins who set the status of one member at once can leave `status` and
  `is_active` apart (user/models.py:92); so can an admin and the member's withdrawal,
  and an admin may reactivate an account that was anonymised.
- A phone change under way when its user withdraws puts the number back into the
  anonymised row; a social link under way then is committed afterwards, and the social
  account cannot sign up again.
- Two requests that read an e-mail code before either deletes it both get a token
  (auth_service.py:150).
- "Remember me" lasts until the first refresh, which issues tokens of `ExpireDays`
  (auth_service.py:276; .env.example:18).
- A range of dates ends at the midnight that begins its last day
  (`sales_router._parse_range`): that day's sales are not in it.

## Fairness

`Checkout`: a transaction that waits for Toss ends some time (the HTTP client has
a timeout): weak fairness of its ends, taken together. Toss carries out
cancellations and repeats a webhook until it is answered with 200: weak fairness
of `TossCancel`; strong fairness of `WebhookFetch`, because handlers are busy now
and then, and of `WebhookAnswer`, because row locks are.
`ReleasePending` is strongly fair: `run_periodically` sweeps
in every worker for as long as the server runs and skips locked orders, so an
order that is again and again free with an answer from Toss is found. Nothing is
assumed of buyers, admins, approvals or confirmations, nor that a late refund
succeeds at the first attempt.

`Sweeper`: `run_periodically` keeps every worker sweeping (weak fairness of `Sweep(w)`),
and time passes (`Expire`). Nothing makes Toss answer, a buyer come back or a worker
restart; restarts are finitely many by their bound.

The other modules state no liveness: their requests end by themselves, and what must
eventually happen there is the answer to a request. A temporal property of the form
`[][...]_vars` needs no fairness.

## Proofs

TLAPS checks the theorems for any numbers of orders, keys, products, users, rows,
handlers and requests at once. Every invariant and every action property that a
passing run checks is the conclusion of a theorem, and so is the refinement; only
liveness is not ([below](#what-only-tlc-checks)). The assumptions on constants are few:

| assumption | says | why the code justifies it |
|---|---|---|
| `InventoryAssumption` | finitely many orders; lines ask for one piece or more; stocks typed in are not negative | `order_schemas.py:24`, `admin_catalog_schemas.py:28` and `50` |
| `ListsAssumption` | a page has room for a product; prices and numbers of products are natural numbers | `core/pagination.py:8`; ids are an identity column; `admin_catalog_schemas.py:22` |
| `LimitsAssumption` | finitely many handlers; a cart or order takes one piece or more; an address book holds an address | `cart_schemas.py:15`, `order_schemas.py:24`, `address_service.py:10` |
| `FiguresAssumption` | finitely many members; an amount is a whole number | KRW, an integer column |
| `IdentityAssumption` | no mailbox is spelled like the placeholder of a withdrawn account; new accounts are active | `user_service.py:86`: addresses that people have contain a dot |
| `CategoriesAssumption` | the categories of the enum are categories | by what they are (`b427d8f8f268`) |
| `DaysAssumption` | remembering is for no less than the ordinary life of a token | `core/config.py:31` |

What the code does not guarantee is a hypothesis of the theorem that needs it:
`AdminsFollowFlow` (admins only move orders that are being fulfilled; without it
`AdminAnyMove.cfg`), `~Console` (nobody refunds a part at Toss's console;
`ConsoleCancel.cfg`), `NothingDelivered` (see [findings](#findings)), `OneKeyEach` (one
attempt per order; `FairTwoAttempts.cfg`), `LinesDiffer` (no request names a product
twice; `StockRepeated.cfg`). Each has
its counterexample where it fails, and states that satisfy it: the passing runs.

### Checkout_proofs

- `TypeCorrect`; `Invariance`: `IInv` holds always.
- `DoubleSaleIsImpossible`, `NothingIsGivenAway`, `BooksAreTrue`: three conjuncts of `IInv`.
- `CheckoutImplementsSale`: the refinement, one lemma for the steps of the shop and
  one for those of Toss. `Sale!Next` moves each order by itself, so a
  `CreateCommit` that releases several orders is one step of `Sale`.
- `MoneyIsBackFirst`: a paid order is closed only when Toss has paid back all of it.
- `ItemsGoBackOnce`: the five parties that may close an order return its items once.
- `LateMoneyIsNotMissed`: a charge of a closed order is in sight, in a webhook that Toss
  owes or in what a handler has fetched.

Why the invariant is needed: none of these is inductive. That
`ConfirmCommit` does not revive a released order depends on `LocksHold` (what
a transaction read under its locks still holds when Toss answers); that a paid
order was charged, on `SeenWasTrue` (what a handler fetched may be old but was
true, and charges end only by cancellation); that a payment found by order
number is not another order's, on `OrderOf` and `ChargedOnce` (Toss accepts
one payment per orderId); that a cancelled charge does not belong to an
order still waiting for payment, on `RefundsComeLate`. `OrderFirst` and `NewIsNew`
carry all of it across creation. Items go back once because the status that
each party tests under the lock of the order is closed from then on; late money is
noticed because the status of a key does not change without a webhook becoming due.

### Inventory_proofs

- `NothingIsOversold`, `StatusIsAsStock` (both if `LinesDiffer`), `GoodsAreConserved`
  (without it: lines that oversell still put back what they took).

The loops of the code over lines and over orders are recursive functions. A loop has a
run (`LoopRuns`), which is followed line by line up to its end (`UpTo`): after n lines a
product has lost what the first n lines ask of it. The sum over the orders changes by
the order that changed.

### RowLocks_proofs, Sweeper_proofs

- `OnlyOutOfOrderDeadlocks`, without a hypothesis on plans, lines or scans. The invariant
  says what each operation's locks look like at any moment (`Disciplined`): everything but a
  refund has an order before its payments, only a create that tidies up wants an order while
  it holds something, and then it holds an order. In a circle in which nobody is out of order,
  nobody waits for a refund, since one that holds something wants its order; so nobody
  waits for payments, since who holds them holds the order, and who wants them holds it
  too; nobody who holds something waits for an order; so who is waited for wants a product,
  and so does the one it waits for, who holds that product: out of order after all.
- `Invariance` of `Sweeper`, `StockReturnsOnce`: that a worker cancels an order once rests
  on the order being unpaid for as long as it is held, which rests on the lock.

What would end all deadlocks: `request_refund` locks the order first; products are locked in
one order, by `ORDER BY id` in the query of `create_order` and by sorted lines where they are
updated one by one; and `create_order` releases stale orders in transactions of their own.

### Identity_proofs

- `WithdrawnForGood`: what a request under way will write is the e-mail and login id it
  has read, or those of a withdrawal (`AInv`); so `Written`, which takes over only the
  columns that differ, cannot undo an anonymisation. With an UPDATE of whole rows it
  could: that is the mutant.
- `OwnersAreNotLockedOut`, `AloneItApplies`, with `SInv`: what a request will write is what
  its operation promises (`Promised`), and as long as it is alone the row is as it was
  read; a password that a row has it keeps, whoever else writes the row. `Apart` is what
  "alone" means: of two requests of one user neither is alone.
- `AcceptedStaysDead`: no two addresses hold the same code, a request has read
  the code of one address only, and no address holds a code that was accepted
  (`CInv`): accepting deletes the only one there is.
- `LocksAreScannable`: a rate key exists for as long as its request draws a code; when the
  request ends, its code was shown, or the key is gone, or a worker has died (`KInv`).
- `AccountsAreTyped`: rows, codes and keys are well formed; and the phone a user has verified
  is one from which a message with an accepted code came, since the request that
  commits it asked Octomo about the phone and the code it had read (`Proved`).
- `ComesBackInTime`: token and cookie both outlive the last visit by `ExpireDays` (`Seen`).

### Shop_proofs

Each component takes its steps or stands still (`EachByItself`), so its invariant is proved
about it alone.

- `DefaultHeals`: a request that is alone has found all defaults its user has, and they
  are still the same when it writes (`BookInv`); requests lock different rows.
- `CartsDoAsAsked`: as above, for the row of a product that a request has read
  (`BasketInv`), and for the pair of a favorite, added or removed.
- `RowsAreTyped`: among others, the limit of an address book. Its rows and the requests
  that are about to add one are, together, fewer than the limit and the handlers
  (`LimitInv`): a request that begins has counted fewer rows than the limit, and there are no
  more requests than handlers. Pages cover a list because `TotalPages` rounds up.
- `ThumbnailStays`: the rows of one list have consecutive ids, so the number of a row
  tells the id of the first of its list, and a replacement sees all of a list or
  nothing of it (`GInv`).
- `EverythingShown`: where in the list a product stands is how many stand before it
  (`Ahead`, `Place`). As long as no product gives up its place before another (`yielded`),
  every step keeps who stands before a product that is not edited, or adds to them; so who
  was not shown yet is not before the next page (`LInv`). This is where sorting by id last
  is used.
- `ChargedAsQuoted`: the quote in force is what the items cost at the prices of now.
- `OthersFieldsStay`: a PATCH writes what differs from what it has read.
- `MailedFirst`: what a request will store is announced by mails that left or
  are still due, and only a request with none due commits; with or without an address
  for the notice. `LoneRequestsMend`.
- `SameMoney`: orders in groups, by period or by member: the sums of the groups add up to
  the sum of all, their counts to the number of all (`SumOfGroups`), whatever
  cuts the groups; so the time zone of the database does not matter. No order is later
  than now (`Dated`).

### Migrations_proofs

The inductive invariant is `At(db, rev)`: the database at a revision has the tables, columns
and foreign keys of that revision, and its data is what this revision can hold. For this
the schema is written down once more, as a function of the revision and independently of
the scripts: `TablesAt(n)` and `ColumnsAt(n)` say in which interval of the line a table or a
column exists.

- One lemma for each kind of step says when it is accepted and what it changes; from these,
  one lemma for each of the 22 revisions (`Revision1` ... `Revision22`) follows the upgrade from
  any database at n - 1 to one at n (`Up`), and the downgrade back (`Down`).
- Along the line (`UpgradeGives`, `DowngradeGives`), by induction on the number of scripts:
  an upgrade from a reachable database succeeds if the data allows each script on the way
  (`Open`). For a single script the condition is exact (`Allows`, in `Up`).
- `UpgradesAndDowngrades` states the result for every reachable database and every
  target: which data upgrades need, what they keep and add; and that no downgrade
  as far as 589d381b3893 is refused, whatever the rows.
- `ShapeFollows`: both the database and the one upgraded straight from nothing are `At` the
  revision. `DataBlocksNothing`, `HyphensStay`, `VerifiedStay` and `CategoriesCover` are
  read off `Upward`, `Downward` and `At`; the first needs that a user without a name
  exists at 589d381b3893 only, and that no other refusal depends on rows.

### Lemmas

What the induction theorems of the library say, for predicates given as sets
(the provers instantiate no operator parameters): `Least`, `UpTo`, `LoopRuns`,
`Subsets`; and from them, about `SumFunctionOnSet` of the community modules: a sum is a
number, any element may be set apart, sums with equal terms are equal, sums of disjoint sets
and of groups add up, counting is adding ones. About requests: starting one changes of the
others nothing but `alone`, and `alone` is what it says.

### What only TLC checks

Liveness: `PendingEnds`, `LateMoneyReturned` and `SafeOrdersAreReleased`. Fairness and ENABLED are
out of the provers' reach. The runs that are expected to fail have counterexamples, and no proofs.

## Plan

Done, in this order: `Checkout` with `Sale` and their proofs, `Inventory`, `RowLocks`
with its proofs; then `Sweeper` with its proofs, `Accounts`, `Codes`, `Sessions`,
`Addresses`, `Basket`, `HelpDesk`, `Records`, `Gallery`, `Listing`, `Pricing`, `Figures`,
`Migrations`; then `Identity` and `Shop`, and theorems for every safety property of the runs,
those of `Migrations` last.

What would be worth adding: `Checkout` and the stock of `Inventory` composed, so that
`returned` is an actual stock; an abstract specification of the address book and the
cart as they would be if every request were one step, implemented for as long as no two
requests of a user overlap; the sweeper's promise as leads-to lemmas without ENABLED.

## What is not modelled

Uploads (presigned URLs; the files are in S3 storage) and the cleaning of SVG files; the seed
and maintenance scripts, run by hand on a development database; the table from
exceptions to HTTP errors; rendering of e-mails and the CSV export; queries that only
read and that no other page has to agree with (fetching by id, featured products,
rankings by product, category and payment method, searching for members); validation of
inputs by schemas, unless a module needs its result; of orders, everything beyond
products, quantities, prices and fees; recipient, phone and texts of an address. Of the Toss
adapter, the parsing of answers is modelled only as far as it can raise (`Sweeper`).
`components` in `PROJECT.json` says for each part what of it is in which module.
