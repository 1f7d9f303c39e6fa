# Formal models of the BLENDiT backend

TLA+ specifications of the server in `src/` (NestJS, Prisma, PostgreSQL), the TLC
configurations that check them on small instances, and TLAPS proofs of their main
properties for every instance. The backend serves a chain of smoothie shops: point-of-sale
tills (which may work offline and synchronise later), a website, a delivery screen and an
administration panel. One Node process runs the handlers; they interleave at every `await`.
The database is PostgreSQL at its default isolation level, READ COMMITTED: a transaction
sees what others commit while it runs, and only unique indexes and the locks of the rows it
writes keep two transactions apart. Nearly everything that is hard in this code comes from
handlers that read first, decide, and write in a later statement.

## 1. The system

| Component | State it keeps | Operations | Interacts with | Hard behaviour | What makes it correct |
|---|---|---|---|---|---|
| **Checkout** `orders/orders.service.ts` `create` | `orders`, `order_items`, `transactions`, `loyalty_accounts`, `loyalty_transactions`, `delivery_orders` | `create` (POS and website) | loyalty, delivery, activity log, events | repeated and overlapping calls for one sale, order numbers made by counting, a balance checked before the transaction | a sale with a client order id is recorded once and answered alike; points move with it and only then; numbers are unique |
| **Life of an order** `orders.service.ts` `updateStatus`, `update`, `refund`, `appendOrderNote`, `tryAward…`, `tryDeduct…` | the same rows after checkout | complete, reopen, cancel, refund, edit, add a note | delivery, inventory, settings (PIN), events | several statements without a transaction; guards evaluated on stale rows; failure half-way; retries | a cancelled sale stays cancelled and has nothing open; points once; stock once; payments match the total; reversed money is negative |
| **Delivery** `delivery/delivery.service.ts` | `delivery_orders` | `createDeliveryOrder`, `updateStatus`, `update` | writes the order's status, awards points, deducts stock | four separate steps after the delivery's own row | a delivered order is settled as a whole |
| **Shifts** `shifts/shifts.service.ts` | `shifts` | open (`ensureActiveShift`), report, end | reads `orders` and `transactions` | the totals are computed from orders that go on changing; two calls end one shift; device clocks | every sale in one shift; a closed report is final |
| **Inventory** `inventory/inventory.service.ts` | `inventory_items`, `stock_transactions` | create, update, remove, stock movement, transfer, deduction | recipes of products, orders | checks outside the transaction that acts on them | the ledger explains every quantity |
| **Products** `products/products.service.ts` | `products`, sizes, `categories`, `product_recipe_items` | CRUD, transfer and copy between branches | inventory (recipes) | clones written statement by statement | recipes refer to existing stock; a copy is whole |
| **Pricing and rewards** `orders/order-pricing.ts`, private methods of `OrdersService` | none (pure) | totals and tax, free drinks, BOGO offers, points earned, split payments | checkout, edit, deferred award | rounding, zero, interacting rewards | no total below zero; the buyer pays for what no reward gives; points for paid units only |
| **Loyalty** `loyalty/*.service.ts` | accounts, ledger, tiers, gifts, BOGO offers | `manualAdjust`, CRUD | checkout, orders | balance and ledger in two statements | the ledger explains the balance |
| **Website sign-in** `public/website-phone-auth.service.ts` | `website_otp_challenges` | `sendOtp`, `verifyOtp` | customers, WhatsApp gateway | overlapping sends and verifications; a code used before the sign-in succeeds | a code signs in once, the newest one works, a used one signs its owner in |
| **Customers** `customers/customers.service.ts` | `customers`, favourites | create, register, upsert, remove | loyalty, delivery | look-up before insert or update; rows that come while a customer is removed | one account per phone and email; a removal is whole |
| **Settings** `settings/settings.service.ts` | `settings` (JSON) | update store, video, loyalty; PIN | refund, cancel | read, merge, write back | an update that was saved is only lost to one that overlapped it |
| **Users, auth, branches, guards** `users`, `auth`, `branches`, `common` | `users`, `user_branches`, `branches` | accounts, tokens, branch scope, deletion of a branch | every controller | role written before its branches; several reads of one account in a login; tokens older than the account | staff have the branches of their role, can work where they sign in, and write only there |
| **Held orders, promotions, addons** | one table each | single-statement CRUD | – | – | – |
| **Transactions, analytics** | none | reports | read only | sign of refunds in sums | – |
| **Events, activity log, uploads, bootstrap** | none that others read | output | – | best effort | – |

`PROJECT.json` lists these components with their source files, and the hazards of the code
line by line with the properties aimed at each.

## 2. Modules

Grain: an action is what a handler does from one `await` that matters to the next: one
statement outside a transaction, or the commit of a transaction. Reads inside a transaction
are actions of their own where another commit can come between them (READ COMMITTED). A
handler's local variables are a record per call (`seen`); a call that dies, or that the
database aborts, is an action too (`Fail`), possible at every step. Calls that a guard
rejects before they have written anything are left out, unless the rejection itself is
the subject.

### OrderLifecycle

One order. State: the columns of its row that decide anything (`status`, `total`, `notes`,
`stock_deducted_at`), its payment rows, its delivery rows, and the number of EARNED and
USAGE rows that point to it. Ten kinds of requests; each is a sequence of actions named
after the code:

| Request | Code | Actions |
|---|---|---|
| complete, reopen | `updateStatus` | `StatusRead`, `StatusWrite`, then `AwardCheck`, `AwardCommit` |
| cancel | `updateStatus` to CANCELLED | `CancelRead`, `CancelWrite`, `CancelDeliveries`, `ReadPayments`, `ReverseOne` |
| refund | `refund` | `RefundRead`, `RefundCheck`, `RefundLock`, `RefundReadPayments`, `RefundCommit`, `CancelDeliveries` |
| edit | `update` | `EditRead`, `EditLock`, `EditReadPayments`, `EditCommit` |
| deliver, abort | delivery `updateStatus` | `DeliveryRead`, `DeliveryWrite`, (`AbortNoteRead`, `NoteWrite`), `SyncRead`, `SyncWrite`, `Refresh`, award, `DeductCheck`, `DeductCommit` |
| repeat | delivery `updateStatus` to the status the delivery has | `RepeatRead`, `RepeatAnswer` |
| attach | `createDeliveryOrder` | `AttachDelivery` |
| note | `appendOrderNote` | `NoteRead`, `NoteWrite` |

Transactions hold the order row's lock (`lock`) from their `order.update` on, and every
other statement that writes the row waits. Wording of notes is reduced to the set of
requests whose text it holds; that a customer is linked and the order earns points is one
Boolean (`earner`). Money is in hundredths of a cent, for a total is stored as it was computed and its
single payment in whole cents (`roundMoney`); two payments may miss the rounded total by two
cents (`PaidWithTwo`, which stands for any number of them), and `split` marks such sales.
Rejections by role and manager PIN change nothing and are left out,
apart from the cashier's restriction to pending orders. A repeat of a delivery's completion or
cancellation is not a rejection: it is answered with the delivery, and does nothing.

Two more variables are history. `overlaps` holds which kinds of requests have been in flight
together; the properties use it to say exactly under which races they hold: `Raced(A, B)` names
the pairs of requests that break each. `broken` holds the deliveries whose completion ended in
a failure after it had written the delivery's own row.

### Checkout and ExactlyOnceSale

`Checkout` is `create` as clients see it: look-up by client order id, validation outside the
transaction (the balance is read here), the count that makes the order number, the insert
that the unique indexes may refuse or make wait, the commit, the announcement, and the
recovery from a refused insert. Clients repeat a call until they are answered (`Send`, the
one external action); answers may be lost and calls may break off anywhere. Items, prices
and the choice of a cashier are abstracted to what a sale redeems and earns.

`ExactlyOnceSale` is what checkout promises, in twenty lines: a keyed sale is recorded at
most once, its points move with it in the same step, and clients are told only of what is
recorded. `Checkout` implements it under the mapping recorded = sales with an order, told =
sales whose client has an answer.

### Shifts

One cashier in one branch. Orders are reduced to the columns `computeSummary` reads, with
history of when they were really recorded, last changed, cancelled and refunded, and they change
under the shift calls: a checkout may commit late or with the device's time, any later change
sets `updated_at` to the time of its statement, which its commit may follow by any time
(`Stamps`), and a cancellation writes the status first and reverses the payments afterwards, or
both in one transaction. A shift starts at the device's time, or at a time taken before its
insert; `overlap` is history: some shift was opened with a start before the end of another.
`endShift` is look-up, end time, two reads in either order, and a write by id. A summary is
kept as the sets of orders counted into sales and into refunds and what each adds to the
drawer. The partial unique index on open shifts is the guard `Insertable`.

### Inventory

Stock items of several branches with the sum of each item's ledger rows, the set of items
used in recipes, and calls that look first and commit later. `missed` is history: which kinds
of writes were committed by others while a call was under way; `unbooked` marks items whose
quantity was set without a ledger row (`update`, or a negative initial quantity), which the
code allows. `deductForOrder` is modelled here by its effect on stock, and in
`OrderLifecycle` by its effect on the order. The key from recipes to items, which restricts
deletion, is the guard `Deletable` of the statement that deletes; a removal that meets it fails
and rolls back. `restoreForOrder` has no live caller.

### OrderPricing

The arithmetic of one order, as operators on sequences of lines with the code's names
(`computeOrderTotals`, `earnedPointsUnitsAfterFreeUnits`, `countPaidUnitsForBogoBuy`, …) and
the four handlers that call it, a step each: `Create`, `Update`, `UpdateStatus` and the
deferred award. Amounts are whole cents and a total is in hundredths of a cent, so that a
whole percentage of tax is exact and `roundMoney` rounds; float sums are taken as exact, and a
split payment exactly at its tolerance of two cents, where floats decide either way, is
accepted. The loops over lines are folds. The reference they are checked against knows no
lines and no loops: it lists the single units of a product in the order of the cart, of which
the first few are free. `quote` remembers what the checkout was asked for.

### Catalog

Copies of products into another branch. Each statement of `transferProduct`,
`copyAllProducts` and `cloneProductIntoBranch` is an action, from the queries that read the
source (`ReadProducts`, `ReadRecipes`: an include is a query of its own) and the names in the
target (`ReadNames`) to the category, the product, each size, each stock item and the recipe.
A copy may break off at any of them (`Fail`), and what was written stays. Between them an
administrator edits, or removes, products, stock items and categories (`EditSource`,
`EditTarget`, `RemoveProduct`, `RemoveItem`, `RemoveCategory`). Foreign keys, and the unique
indexes of sizes and recipe rows that the migrations create, are guards. A row found earlier
and deleted since is `lost`: a new row of that name has another id. The names of the sizes a
recipe refers to are read together with its rows (one query more in Prisma), and products of
the source are edited but not removed.

### HttpCalls

What the two modules below have in common: a request comes in, goes from one awaited statement
to the next and is answered, refused or breaks off (`BreakOff`, possible at every statement).
`before` is history: the requests that had ended when one came in. `NotBefore(s, r)` therefore
says that s overlapped r or came later, and it is the only way in which properties speak of
races.

### Customers

Customer rows with their account (balance, or none) and their ledger (number and sum of its
rows), and the one-time codes of the website, some of them expired.

| Request | Code | Actions |
|---|---|---|
| send | `sendOtp` | `SendOtp`, `Message` (the gateway takes it or the call is refused), `Forget`, `Store` |
| verify | `verifyOtp` | `Compare`, `Consume`, `Find`, then for a new customer `Lookup`, `Insert` |
| register, upsert | `register`/`create`, `upsertByPhone` | `Lookup`, `EmailCheck`, `Insert` or `Update` |
| adjust | `manualAdjust` | `FindCustomer`, `Credit`, `Ledger` |
| sale | the points of `OrdersService.create` | `Sale`, one transaction |
| remove | `remove` | `FindCustomer`, `Cut`, `Delete` in one transaction |

The unique indexes on phone and email, and the keys that restrict or cascade, are guards of
`Insert`, `Update` and `Delete`. Ids are not used again. Phones and emails are the normalised
ones; a code is whatever the generator drew, so that two sends may draw the same; favourites
and the encoding of the WhatsApp message are left out. A verification does not carry an email,
since the website sends none with the code.

### BranchAccess, StoreSettings and Administration

`BranchAccess` holds the decisions about branches that four services and a guard share, as
operators over rows already read: `BranchesFor` (`resolveBranchesForUser`), `MayAccess`
(`assertBranchAccess`), `AskedBranch` and `HomeOnly` (`resolveActiveBranchId`),
`TokenBranches`, `ShownBranches`, `SeesPages`. Where the code takes the first row of a list
without an order, the operator gives the set that holds it. `StoreSettings` holds how settings
rows are merged. `Administration` composes them with the accounts, the branches and the
tokens:

| Request | Code | Actions |
|---|---|---|
| create, edit, assign, drop | `UsersService` | `CreateFind`, `Validate`, `Insert`, `Sync`; `EditFind`, `Write`, `Validate`, `Sync` or `Unassign`; `AssignFind`, `Validate`, `Sync`; `Drop` |
| open, toggle, close | `BranchesService` | `OpenBranch`, `ToggleBranch`, `CloseBranch` |
| login (also on the till) | `AuthService.login`, `posSwitch` | `Login`, `Token`, `Me`, `Show` |
| switch | `switchBranch` | `Authenticate`, `SwitchFind`, `SwitchAccess`, `Me`, `Show` |
| store, video, loyalty | `JwtStrategy`, `BranchGuard`, `RolesGuard`, `SettingsService` | `Authenticate`, `Guard`, `GuardAgain`, `ReadSettings`, `SaveSettings` |
| hold | the same guards, `HeldOrdersService.create` | `Authenticate`, `Guard`, `GuardAgain`, `Hold` |

`local` is what a request has read: the user row, the branch it acts in, the assignments, the
copy of the settings. Accounts and branches are administered by a super admin who is not one of
the accounts modelled, so that refusals because of the caller's own role do not occur; an
account is identified by its email, and a deleted one is not created again. Left out:
passwords, PINs, which pages an assignment grants (at least one), an explicit null for the home
branch, the header `x-branch-all`, which only widens listings, and of a deleted branch the rows
other than settings, assignments and home branches. The three settings fields stand for the two
that exclude each other and for all that are merged by themselves.

## 3. What the runs check

| Run | Instance | States | Shows |
|---|---|---|---|
| `order_lifecycle` | 3 requests of any kind, 3 payment ids, 2 delivery rows, totals of 20.50 cents at first and 10 or 20.50 after an edit, tenders of 5 and 15 cents | 2.1 million | nine properties of one order under every interleaving and failure |
| `stock_race` (violation) | the same | | two delivery completions in flight deduct the stock twice |
| `cancelled_paid` (violation) | the same | | cancelling a delivery leaves its cancelled order paid |
| `checkout` | 3 sales, 5 calls, 2 days, 1 failure | 3.8 million | exactly-once, answers, announcements, points, refinement |
| `checkout_live` | 3 sales, 4 calls, no redemption, fairness | 98 thousand | every client is answered |
| `shifts` | 1 sale, 2 shifts, 2 calls, 4 instants | 6.9 million | which shift counts a sale and its refund; closed shifts are final |
| `shift_drawer` (violation) | the same | | a refund of an earlier sale adds to the drawer |
| `inventory` | 3 calls, 3 items, 2 branches, 2 names, quantities -1 and 1 | 2.4 million | ledger, removals and their refusals, transfers |
| `pricing` | carts of 3 lines, 2 drinks at 3 prices, 2 gifts, 2 offers | 1.0 million | what carts cost and earn, against the reference |
| `catalog` | 2 copying calls, 2 products, 2 sizes, 1 stock item, 1 act of an administrator | 4.5 million | whole copies, no double copies, complete recipes |
| `customers` | 3 requests of any kind, 2 phones, 1 email, 2 codes, points 2 and -1 | 1.8 million | codes work, once; registration, removal and ledger under overlap and failure |
| `administration` | 1 account, 2 branches, 2 requests of any kind and a late one | 2.1 million | staff keep their branches, sign in where they can work, write only there; settings are kept |

Why these bounds: every property of `OrderLifecycle` is about one or two requests that
interfere, and a third brings the failed attempt, the second delivery row or the earlier
reopening that makes the interference legal; two totals tell an edited payment from an
unedited one, one of them with a fraction of a cent, so that it differs from its payment; the
tenders come to a sum that misses it within the tolerance; three payment ids leave room for a split sale and the row an edit adds. In
`Checkout` two calls for one sale are the smallest overlap, two sales contend for a number,
and one failure loses an answer or a call; `Days` = 2 lets a midnight fall between the count
and the insert. In `Shifts` two shifts and two calls are the least that can count a sale
twice; three instants of the server's clock separate before, inside and after, and `Skew` = 1
puts a device ahead. In `Inventory` three calls give two that interfere and one that renames,
removes or creates in between. In `OrderPricing` three lines hold a bought drink, a second
line of the same drink at another price, and one more; prices lie on both sides of the 100
pounds that double the points; a third offer would interact with the others as the second
does. In `Catalog` two products are enough for a call to write one after the other, two sizes
for a recipe to be incomplete, and one act falls between any two statements. In `Customers`
three requests are a send and two that dispute its code, or a removal between an adjustment
and an order; a second phone brings the dispute over the email. In `Administration` two
requests overlap or follow each other, and a third (`Late`) comes in when both have ended, to
sign in or to write: it meets whatever they have left. One account is enough, since nothing
relates two, and two branches tell the home from the one that is closed. `Horizon`,
`Skew`, `Days`, `MaxFailures`, `MaxLines`, `MaxRewards`, `MaxActs`, `MaxCustomers`, `Asked`
and `Late` are the only bounds in the modules; all identifiers are finite sets given as
constants.

Deadlock is checked in all runs: a system whose calls have all ended stutters (`Ended`,
`Settled`, `AllEnded`), so that a call that can never go on would be reported.

### Properties worth knowing

* `CancelledIsFinal`, `CancelLeavesNothingOpen`, `DeliverySettlesSale`, `AwardedOnce`,
  `StockDeductedOnce`, `TenderMatchesTotal`, `ReversedMoneyIsNegative`, `NotesAreKept`,
  `CashierChangesPendingOnly` (OrderLifecycle): each holds in every interleaving except the
  overlaps it names, so that it also documents the code's races.
* `OneOrderPerSale`, `ClientsKnowTheirOrder`, `AnnouncedOnce`, `PointsCoverRedemptions`,
  `ImplementsPromise`, `EveryClientIsAnswered` (Checkout).
* `SalesAreCountedOnce`, `ReturnsAreCountedOnce` (in one shift, and not in two),
  `OnlyEndingClosesShifts` (reports end none, and a closed one stays as it is) (Shifts).
* `LedgerExplainsStock`, `RemovalWritesOff`, `RemovalRefusedOnlyByContention` (a removal counts
  recipes and deletes later), `TransfersDoNotOverdraw` (Inventory).
* `BuyersPayForTheRest`, `PaidUnitsEarn`, `OffersArePaidFor`, `PaymentsCoverTotal`
  (OrderPricing).
* `CopiesAreWhole`, `CopiesHaveNewNames`, `EverySizeHasItsIngredients` (Catalog).
* `CodesSignInOnce`, `CodesAreHonoured`, `ConsumedCodesSignIn`, `LedgerExplainsBalance`
  (Customers).
* `StaffHaveTheirBranches`, `SignedInStaffCanWork`, `ActsWhereAllowed`, `SettingsAreKept`
  (Administration).

### Disagreements between the code and what it says of itself

1. `tryDeductStockForOrder` is called idempotent and is not under overlap (`stock_race`).
2. A migration says that the payments of cancelled orders should be refunded; cancelling
   through the delivery does not (`cancelled_paid`).
3. "Money returned this shift … reduce drawer totals": since refunded amounts became
   negative, subtracting them adds (`shift_drawer`).

Further gaps show as the exceptions that properties name:

* A completion of a delivery that fails after its first statement leaves the sale open, and its
  repeat is answered as a success without doing anything: the stock stays
  unbooked unless another delivery of the order is completed or cancelled, and the points unless
  that happens or the order's own status is set to completed anew (`DeliverySettlesSale` speaks
  of repeats of completions that did not break off).
* Cancelled orders "cannot be changed again", but `update` does not look at the status for
  admins. "Insufficient loyalty points" is checked outside the transaction that redeems, so
  that two redeeming sales at once overdraw (`PointsCoverRedemptions`).
* A code is compared and used up in two statements: two verifications that overlap sign in with
  one code (`CodesSignInOnce`), and the slower one deletes a code sent since
  (`CodesAreHonoured`). A code is used up before a missing name is noticed
  (`ConsumedCodesSignIn`).
* An adjustment that breaks off between its two statements leaves a balance that the ledger does
  not explain (`LedgerExplainsBalance`).
* An edit can make a cashier without a home branch, an edit that is refused for want of branches
  has already changed the role, and two edits that overlap take each other's role for the old
  one (`StaffHaveTheirBranches` speaks of accounts that escaped all three).
* Settings are read, merged and written whole: updates that overlap lose each other's fields
  (`SettingsAreKept`).
* Read, decide and write without a lock, in the same way: two awards that overlap
  (`AwardedOnce`), two writers of the notes (`NotesAreKept`), a removal that writes off a quantity
  read before a restock (`RemovalWritesOff`), two transfers of one item
  (`TransfersDoNotOverdraw`), and a shift opened with a start before the end of another
  (`SalesAreCountedOnce`). Here a property shows that nothing else than the race it excepts
  breaks it; the race itself stays, and the hazards in `PROJECT.json` say so.

So do those that the pricing properties name, each reached by the run: the comment at `orders.service.ts:345` says that units free by another reward do not count as
bought, which is so only for an offer on any product (`OffersArePaidFor`); a gift and an offer
of one product both take its first unit off the price, be they one unit or two
(`BuyersPayForTheRest`); the deferred award leaves out one free unit of the order, so that
website and delivery orders earn points for the others (`PaidUnitsEarn`); an edit keeps the
discount of drinks that are no longer in the order, and leaves split payments as they were
(`PaymentsCoverTotal` speaks of them until then). Likewise in `Catalog`: a product edited
between the two queries that read it is copied with the sizes of before and the recipe of
after, and a copy that breaks off stays unfinished, since the next one skips it by its name.

An observation without a property: a repeat of a redeeming checkout that overlaps its first
call may be refused for lack of the points the first has just taken, though the sale is
recorded; the next repeat is answered with the order.

### Fairness

Only `checkout_live` assumes any (`FairSpec`). Weak fairness of `Handle(c)`: once a call has
an enabled step the event loop runs it, and the database grants a row lock when its holder
ends, so no step is put off for ever. Weak fairness of `Send(c)`: a till or browser without
an answer repeats its call; this is the clients' part and outside the repository. Nothing is
assumed about failures and midnights, which are bounded.

## 4. What is proved

Every safety property that a passing run checks, the action properties and the refinement are
theorems; only liveness is not. All of them hold for every value of the constants under the
named assumptions of the modules, which TLC evaluates in the runs:

| Assumption | Says |
|---|---|
| `TotalsAreMoney`, `TendersAreMoney`, `PointsAreNumbers`, `ChangesAreQuantities` | amounts of money are natural numbers, points and quantities integers; there is a customer id |
| `SalesAreSales` | calls belong to sales, prices in points are natural numbers, bounds are numbers |
| `ClockIsNatural` | totals are natural numbers, and so are the horizon of the clock and the skew of devices |
| `SomewhereToStock`, `MainIsABranch`, `AskedAreCalls` | there is a branch and a name, the main branch is one of the branches, requests ask for calls |
| `CatalogAssumption` | every name has a category that is no stock item, the number of acts is a number |
| `PricingAssumption` | prices, add-ons, discounts, tax rates are natural numbers, quantities positive, the menu has finitely many products, carts and reward lists are of some finite length, an edit leaves something in the cart |
| `NoneIsNoCall`, `NoneIsNoRow` | the values that stand for none and for a deleted row are no calls, rows, numbers or states |
| `FewRequests` | a run of `Customers` has finitely many requests, as many as one likes: points of a set of them are added up |

Each proof has the same plan. The properties are not inductive, since they say nothing of
what a call under way has already read; an inductive invariant `IInv` adds that, one named part
for each kind of knowledge, and TLC checked each part on the run's instance before it was
proved. `Inductive` (its parts are kept by every action) is proved part by part and action by
action, and each property is a corollary of it.

**OrderLifecycleProofs.** `IInv`: `TypeOK`; `ControlInv` (a step belongs to a kind of request,
and requests in flight together are recorded in `overlaps`); `LockInv` (an open transaction
holds the lock, alone); and one part per property. For instance `AwardInv`: while an awarder
is past its check, either no EARNED row exists or another awarder has overlapped it;
`TenderInv`: inside an edit's transaction the payments read are those in the table, because
the lock keeps refunds out, so that the one completed payment is what checkout rounded or the
edit stored; `SignInv`: the rows a cancellation has read still hold, or are
already reversed, unless an edit overlapped. Three parts follow several handlers through their
statements. `SettleInv`: a delivery's completion past its write of the order finds it completed
or cancelled, and past the award finds its points. `DeliveredInv`, for the repeats: of a
completed delivery that is not `broken`, the stock is deducted, or the completion is still under
way (`Settling`), or the order is cancelled and nobody is about to revive it. `ClosedInv`: a cancellation finds cancelled
what it has cancelled so far, and the completed payments are among those it has read and has
yet to reverse (`ReadIsAll`, `ReverseCloses`). `OthersSettle` and `OthersClose` say what a
request that overlaps these can still do, `OwnSettles` and `OwnCloses` what their own
steps do. From `IInv` follow `AwardedOnceHolds`, `StockDeductedOnceHolds`,
`TenderMatchesTotalHolds`, `ReversedMoneyHolds`, `NotesAreKeptHolds`, `CancelledIsFinalHolds`,
`CashierChangesPendingOnlyHolds`, `DeliverySettlesSaleHolds` and `CancelLeavesNothingOpenHolds`.

**CheckoutProofs.** `IInv` adds to the types that rows of open transactions and committed
orders are kept apart by the unique keys (`KeyInv`, the heart of exactly-once), that clients
know only committed orders of their sale, that no number is ahead of the count, that the
balance covers every redemption past its check, and that announcements are no more than the
orders that no call has yet to announce (`AnnounceInv`, from which `AnnouncedOnceHolds`). From
it also: `OneOrderPerSaleHolds`, `ClientsKnowTheirOrderHolds`, `PointsCoverRedemptionsHolds`,
`ConflictMeansContentionHolds`, and `ImplementsPromiseHolds`, the refinement of
`ExactlyOnceSale` step by step (`Commit` maps to `Record`, the three actions that answer map to
`Tell` or to a stutter).

**ShiftsProofs.** `OneOpen` (the partial unique index) and `LookupInv` (which shift a call that
ends one has found, and since when it is open); `RaceInv` (without a race no two calls end one
shift, and it is open until then); `ClockInv` (ends lie in the past, and the `updated_at` of a
cancelled order is not after the commit of its last change); `WindowInv` (without races and
without shifts that start inside another they follow one another); and `SummaryInv`, which says of a closed shift and of a call half-way through its
two reads the same thing: what it counts is of its time (`SalesFit`, `ReturnsFit`), and all that
was recorded, or cancelled and reversed, before its end is counted (`SalesAll`, `OwnReturns`,
`EarlierReturns`). A change that commits later is on record as later (`changed`), and so is a
sale, so that what is counted remains right. `SalesAreCountedOnceHolds` and `ReturnsAreCountedOnceHolds`
join this with the order of the windows; `OnlyEndingClosesShiftsHolds` is an action property.

**InventoryProofs.** `IInv` adds to the types and the ledger what calls under way rely on: ids
they have read are never free again, a quantity they have read still holds unless they missed a
write that changes it, a destination that was not found is still missing unless somebody created
or renamed an item, and an item whose recipes were counted is there and in none unless somebody
removed it or changed a recipe (`CountInv`). `ReadStep` and `CommitStep` factor the
sixteen actions into those that only look and those that commit. All four properties of the
run are proved, the types, and `RefusedOnlyByContention` beside them.

**OrderPricingProofs.** `QuoteInv` says that until an edit the order is what the checkout made of
the cart and the rewards, `EarnedInv` for which free units points were left out; both are short,
and the work is in what the loops compute, for carts of any length. `TakenRight`, by induction
over the free units, shows that the loop which takes free units off the lines leaves of every
product all but its first n units, at their prices. `LinesWorthSum` exchanges the sum over the
lines for the sum over the products, for any worth of a unit: its price gives
`BuyersPayForTheRestHolds`, its points `PaidUnitsEarnHolds`, and 1 the number of units that
`OffersArePaidForHolds` counts, where `EnoughSets` turns the code's division into full sets.
`PaymentsCoverTotal` is inductive itself. The folds of the library are evaluated by lemmas of
their own (`SmallFolds`, `FoldExists`, `RunsOn`, `SumAt`).

**CatalogProofs.** `IInv`: `SeqInv` (the target is a sequence of rows) and, in `TypeOK`, that
what rows refer to is there; `ReadInv` (what a call has read of a product that was not edited
meanwhile is the product); `HoldInv` (ids that a call holds are there unless it has lost them);
`FillInv` (a call fills a row of its own, whose sizes are those made so far); `NameInv` (nothing
that a call has yet to create was there when it looked); `RowInv` (a finished row that nobody
edited is what was read). Each statement has a lemma that says what it does to the target.
`CopiesHaveNewNames` is part of `IInv`; `CopiesAreWholeHolds` and
`EverySizeHasItsIngredientsHolds` follow from `RowInv`.

**CustomersProofs.** `Shape`, `OneMoves` and `CodesMove` say once what any action does to the
calls and to the stored codes; every other lemma rests on them. `IInv` adds to the types:
`ControlInv` (which kinds of calls come to a statement), `HistoryInv` (who came before has
ended), `CodeInv` (a verification holds a row of its phone and, once it has deleted the rows,
the row it read is gone for good), `RegisterInv` (on its way to register it has a name, and its
phone is free unless an overlapping call took it) and `SentInv` (a stored code is the newest of
its phone until it is spoilt, and what has spoilt it stays). `CodesSignInOnce` follows from
`OnceInv`: a call that comes after a successful sign-in cannot read the row, because `CodeInv`
says it is gone and rows are numbered upwards. `LedgerExplainsBalance` follows from `LedgerInv`,
the same equation with the set of adjustments that owe a row, and `AdjustInv` (which
adjustments have moved a balance); a section of its own shows that the sum over a finite set
changes by the points of the one request that joins or leaves it.

**AdministrationProofs.** `Moves` says what every action does to its call and to what was
noted down for it, and `AllMove` that it leads to a statement that fits (`ControlInv`: the kinds
of calls that come to a statement, and what they carry and have read there); `RowsKept` gives
the columns and the keys of the database. `ActsWhereAllowed` rests on `ActsInv`: a call between
authentication and the guards holds the row of its user as it is (`Admitted`), a call past the
guards may act in the branch it was led to, or a call that may change either has come in or
gone on since (`Changed`). `LetThrough` shows that each way past the guards ends in a branch
the user may act in, `PlacesMove` that a step which changes a user, the user's branches or
which branches are open belongs to a call counted by `Changes`, and `ChangedStays` that this is
not forgotten. The token plays no part in the argument: whatever branch an old one names, the
guard decides from rows read anew.

Three more arguments stand on this `IInv`. Settings: `KeptInv` says that what an update has set
is in the row, `CopyInv` that it is in every copy that another update is about to write back,
both unless an update of the same row overlapped or set it anew; `DisplayInv` keeps the two
sources of the video apart. Accounts: `WriterInv` (what the calls that rewrite an account ask
for once it is validated), `RoleInv` (the role an edit has read is that of the account until
another call rewrites it) and `StaffInv` (an account whose calls were orderly so far has what
its role needs, or the call that will give it is under way). Sign-in: `SignInv` says what a
login or a switch knows at each of its five reads, unless something `Changed`.

Only model-checked: `EveryClientIsAnswered`, since liveness under fairness is out of the
prover's reach, and the three runs that show violations. The theorems of the library that
prove by induction take the predicate as a parameter, which the provers cannot instantiate.
Where the proofs need induction over data (sums over sets, loops over carts, free units) they
prove it in the form of sets: a set of natural numbers, or of finite sets, that is not empty has
a least element (`LeastNumber`, `MinimalSet`, `SeqInduction`), which is applied to the set of
counterexamples.

## 5. Not modelled

Promotions, addons, tiers, gifts, offers, favourites and held orders beyond their creation are
rows that a single statement writes and nothing else depends on between statements. Reports
(`transactions`, `analytics`, the listings of every service) only read. Uploads, events other
than `order.created`, the activity log, the encoding of WhatsApp messages, validation of DTOs
and the bootstrap are input and output. Row-level deadlocks inside PostgreSQL (crossing
transfers lock destination and source in opposite orders) show as an aborted call, which is a
failure at that statement. Orders and items disappear with their branch only; the deletion of a
branch is modelled where it meets accounts, tokens and settings, and not in the other modules.

## 6. Plan

Done, in order of importance: `OrderLifecycle`, `Checkout` with `ExactlyOnceSale`, `Shifts`,
`Inventory`, `OrderPricing`, `Catalog`, `Customers`, `Administration`, and the proofs of all
eight. What is left to prove or to state:

1. What the exceptions allow at most. Most theorems end at a race; that two overlapping
   awards give points twice and not three times, or that two overlapping deductions are the
   most there can be for two delivery rows, would bound the damage.
2. Abstract specifications of more components in the manner of `ExactlyOnceSale`: a one-time
   code as customers see it, and a book of shifts in which every sale is counted.
3. The safety half of `EveryClientIsAnswered`: a client without an answer can always repeat its
   call, and a call that has committed its sale never ends unanswered but by a failure.
