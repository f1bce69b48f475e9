# Verification of Welad Halal

This directory holds TLA+ models of the Welad Halal point-of-sale system, the
TLC configurations that check them on small instances, and theorems that TLAPS
checks for every value of the constants. Paths are relative to the repository
root, `orders.service.ts` is `apps/backend/src/orders/orders.service.ts`, and
so on for the other services.

## 1. The system

A NestJS backend over PostgreSQL (Prisma, READ COMMITTED, interactive
transactions), a React single-page application, and an Electron shell that
gives the checkout station a durable outbox. Nothing is queued in the backend:
every HTTP request is served at once, and requests meet only in the database.

| Component | State it keeps | Operations | What makes it correct |
| --- | --- | --- | --- |
| orders (`orders.service.ts`) | `Order`, `OrderItem`, `StockMovement`, `Inventory` | create, hold, confirm, cancel, return (at once, on approval, partial), reject | stock out ⇔ order sold; nothing restored twice; movements and quantities agree; a failed request leaves nothing |
| discounts (`discounts.service.ts`) | `timesUsed`, limits, window | preview, validate, consume, administration | the limit holds; uses are counted for sales and only for sales |
| idempotency keys (`orders.service.ts`, `IdempotencyKey`) | one claim row per key | claim or replay, complete, release | at most one order per key; replays are true; no key is stuck |
| desktop outbox and sync (`apps/desktop/src`) | SQLite table `outbox`, the `running` flag, a timer | enqueue, pass, mark done / failed / dead, token refresh, discard | a queued sale is not lost, is sent in order, is sent in the end |
| POS client towards the backend (`pages/POS.tsx` `submit`, `offline/bridge.ts`) | the post under way | submit, queue on no answer, ask for a flush | the cashier is told the truth; a sale is sold once |
| POS page (`pages/POS.tsx`, `store/cart.ts`, `hooks/useBarcodeScanner.ts`) | cart, discount code and its preview, busy flag, key handler, submits and lookups under way | scan, edit, resume an order, preview, press, print, clear | no line leaves the cart unsold; the discount shown is the one charged |
| shifts (`shifts.service.ts`, `components/shifts`) | `Shift` rows, the modals of a window | open, close, expected cash | one open shift per user; the drawer difference covers each sale once; a difference is alerted |
| inventory, stocktake, manufacturing, purchases | `Inventory`, `StockMovement`, `StockTake`, cost price | adjust, set, count, commit, cancel, produce, receive | movements explain quantities; stock is not negative; the average cost is an average |
| products, cache (`products.service.ts`, `cache.service.ts`) | `Product`, `ProductPrice`, entries with a 30 s life | create, edit, remove, look up by barcode | a product is whole after an edit; a cached answer is the product as it is |
| settings (`settings.service.ts`, `store/settings.ts`) | `SystemSetting` rows, a copy in memory, what windows show | read, write, gate of outside orders | what managers see is what outside orders meet |
| authentication and users, employees (`auth.service.ts`, `users.service.ts`, `employees.service.ts`, `Users.tsx`) | `User` rows, `LoginAttempt` rows | login with lockout, create, role, reset, activate, remove, seed | the owner is untouchable; guesses are bounded; pages and server agree on who may do what |
| web session (`store/auth.ts`, `api.ts`, `App.tsx`, `Login.tsx`) | token and user in `localStorage`, the store's user, the screen | login, start, forced password change, lock, refresh, logout, 401 | one identity; no shell behind a forced change or a dead session |
| alerts and push, stock watch, daily summary | `Alert`, sockets, badges, push subscriptions | scan, raise, emit, push, refresh, mark | a shortage is alerted, once at a time; a badge does not hide alerts |
| receipt printing, customer display | a busy flag, a broadcast snapshot | print, retry, show | one print at a time; the display shows the last cart |
| record keeping (customers, suppliers, categories, expenses), reports, audit | rows | single statements, read-only queries | nothing that interleaves |

How they interact: the POS page calls `POST /orders` online, or hands the cart
over IPC to the outbox, whose worker calls the same endpoint with an
idempotency key. `create` claims the key, runs one transaction (order, items,
inventory rows, movements), consumes the discount code *on another
connection*, commits, and completes the claim in a further statement.
`setStatus` (confirm, cancel), `requestReturn`, `approveReturn` and
`rejectReturn` read the order *before* their transaction. Inventory rows are
shared with adjustments, stocktakes, production and purchases. Screens ask the
backend over REST and hear of alerts over sockets; nothing orders the answers
to two requests of one window.

The hard behaviours are therefore: decisions on rows read before the
transaction; checks whose condition is not repeated in the UPDATE; answers that
come in another order than the requests; copies that outlive what they copy; statements
outside the transaction they belong to; requests whose client has gone;
restarts between two statements; retries that meet their predecessor; timers
and backoffs. `PROJECT.json` lists each one at its line under `hazards`.

## 2. Modules

| Module | Models |
| --- | --- |
| `Sales` | What the order component promises: each operation is one atomic step of one order. |
| `Orders` | The order handlers with their early reads, statements, row locks, rollbacks and commits, and the discount code as they use it. |
| `OrdersProofs` | Its theorems. |
| `Overtaking` | `Orders` with a history: which requests work from a row that another has changed since. |
| `Sums` | Lemmas on sums over finite sets, which the ledgers of `Orders` and `Shifts` need. |
| `Intake` | `create` around its transaction: claims, replays, completion, release, for any number of clients. |
| `IntakeProofs` | Its theorems. |
| `Checkout` | A station (the presses of the page and their posts, outbox, sync worker) in front of `Intake`, which it extends. |
| `Till` | The cashier's page between scan and receipt: cart, lookups, discount preview, buttons and keys. |
| `Accounts` | Users, roles, passwords, the lockout, and what the page of users offers. |
| `Session` | One window: token, user, screens and the six kinds of request it has under way. |
| `Settings` | The switch that pauses outside orders: row, copy in memory, gate, windows. |
| `Shifts` | Shifts of users, the drawer, and the sales and refunds that go through it. |
| `Stock` | Everything but orders that moves stock, beside sales: corrections, stocktakes, kits, purchases. |
| `Catalog` | Edits of products statement by statement, and the barcode cache. |
| `Notices` | Alerts from what raises them to badge and phone. |
| `CheckoutProofs`, `TillProofs`, `StockProofs` | Their theorems. |
| `StaffProofs` | Theorems about `Accounts`, `Session` and `Settings`. |
| `ShopProofs` | Theorems about `Shifts`, `Notices` and `Catalog`. |
| `MCOrders`, `MCOvertaking`, `MCIntake`, `MCCheckout`, `MCDrawer` | Values of the constants of one module for TLC. |
| `MCBills`, `MCStation`, `MCCounter`, `MCOffice`, `MCSettles` | Several modules in one run, see below. |

`Orders` implements the abstract `Sales` (`ImplementsSales`). `Checkout` is built
from the actions of `Intake`, one more client of it, so what is proved of the
intake for any clients holds for the station. The step `CommitOrder` of `Intake`
is a whole `create` of `Orders`.

The other modules keep no state in common: they touch different tables, or the
interaction is an action of the environment in the one that needs it (`Stock`
has a sale, `Shifts` has the bills with their transactions, `Session` has an
administration, `Notices` has stock that moves). The last five MC modules therefore follow one
module in each behaviour: the variable `part`, chosen in the initial state,
says which, and the others rest. Their reachable states are the sum of the
parts' and not the product; an invariant of a part is checked in all states of
that part; and `MCSettles` asks fairness of the part that is followed only.
Constants of different parts share model values (requests of the orders are
slots of the drawer, sales of the station are products of the catalogue), so
that one symmetry permutes them in every part at once; since only one part moves,
no value is ever used in two roles by one behaviour. The theorems are about each module by
itself.

### Orders

A *worker* is one HTTP request in flight; `req[w]` holds its local variables
(`op`, `seen`: the order as it was read, `amt`: the units to move) and its
uncommitted writes (`delta`, per inventory row). `Start…` actions are the part
of a handler before its transaction: the read and every early return, which is
a guard. The statements of the transaction follow one by one: `Reread`
(`finalizeReturn`), `Validate` and `Consume` (the discount code),
`StartLine`/`CheckRow`/`ApplyRow` (`deductLine` and `restoreLine`: read, check,
decrement under a row lock), then `Commit…` or `Fail`. Under READ COMMITTED a
statement sees what is committed plus its own writes (`Visible`); a row
written by another open transaction blocks the writer (`RowFree`). A bundle is
a line whose `Need` names several rows. `Fail` is every thrown exception, a
deadlock abort or a lost connection: the deltas vanish; `used`, incremented
outside the transaction, does not.

`StartLine` takes the lines in any order (the code takes them in item order),
and rows of a bundle likewise: more behaviours, never fewer. Quantities are
whole units. Audit rows, alerts and prices are left out, since no handler
reads them back to decide.

`SameOrderOverlap` says whether two requests may be at work on one order.
Nothing in the code excludes it, and the findings below show what happens
then. With it off, `OrderStock` and the refinement hold. With it on, `Overtaking`
says exactly how far they can fail: `outdated` are the requests under way whose
row another has changed since they read it, and by `PartsOnlyOvertaken` no step
but one of those ever parts an order from its stock. The history restrains
nothing.

### Intake

A *sale* is what one press of the confirm button or key submits, under a key of its
own if it is queued. A *call* is one request inside the
backend, at the phase `pc`: `sent`, `lookup` (after the failed INSERT of the
key), `check` (the store switch), `tx`, `stamp` (`.then`), `release`
(`.catch`), `answered`. `claim[s]` is the `IdempotencyKey` row, `made[s]` the
orders created, counted apart for requests with and without the key. `Faults`
chooses what the environment may do: `auth`, `closed` (the store switch),
`database` (a single statement outside the transaction fails; the code
swallows failures of the claim's update and delete), `lostAck` (a COMMIT that
succeeds and throws), `crash`. `TurnAway` is every refusal before the claim: a
401, and a guard or a validation that answers 4xx.

### Checkout

`CartOf[s]` is the cart that sale `s` is a press of. `MayPress`: the flag `busy` keeps
the buttons from a second post, but not the keys, whose handler is registered anew
with the next edit of the cart only and calls the `submit` of before the post
(POS.tsx:309-321); so a cart may be posted several times over, until one of its
posts is saved or queued and the cart is gone (`OnPage`). Whichever post returns
first clears the flag for all. `stage[s]` is what the cashier sees of a sale;
`post[s]` its online request while it is under way; `op[s]` the outbox row; `sync` the worker, `scan` while it
runs synchronously and `wait` while a fetch is pending; `asked` a flush
requested by the page. The actions of the page are the branches of `submit`;
those of the worker are the branches of `flushOnce`, each with the whole write
of its mark. A fetch that fails leaves its call running in `Intake`, where the
retry meets it. Time is abstracted to `due`: the backoff since the row's
`updatedAt` has elapsed; every write of `updatedAt` resets it. `429` and `5xx`
are one answer (`error`), since every client treats them alike.

### Till

`POSPage` is a React component, so what matters is when its closures were made.
`busy` is the state, `keys` the busy flag as the key handler knows it: the
effect that registers the handler lists the cart and the code but not `busy`
(POS.tsx:321), so the flag is refreshed by `KeyEffect` with the next edit.
`PreviewEffect` clears and restarts the timer when the code or the total on the
screen changes (`Basis`); `AskPreview` sends, `HearPreview` shows whatever
answer arrives. A submit goes through `posted` (the outcome is chosen where it
is heard: `Saved`, `Queued`, `NotSaved`), `print` (awaited, may fail) and
`clear` (the cart is emptied, whatever is in it by then). `unsold` records the
lines entered while no submit was under way. A held order is resumed only while
no submit is under way: the screen that resumes it is another page.

### Accounts

A request is served in three steps: the guard reads the actor's row, the
handler reads the target's row and decides (`Allowed` holds the rules of
`users.service.ts` and `employees.service.ts`, refusals included), and after
the password hash it writes. What the request asks is chosen where it is first
looked at. `Fold` is the alef folding of names: two users may be spelt alike.
`fails` counts `LoginAttempt` rows of the window of ten minutes; `Forget` lets
them leave it. The seed command runs beside the requests in three steps
(`SeedReads`, `SeedStores`, `SeedForgives`): it repairs the owner's row and reads
whether the password is still to be changed, hashes, and stores without another
look. `Offers` holds the rules of `Users.tsx`, which are written a
second time there. Contact data and permission sets are accepted and refused
as in the code and change nothing modelled.

### Session

`stored` is the token (and user) in `localStorage`, `me` the user of the store,
`call[k]` the one request of kind `k` under way: sent, served by the backend
(`ok` or refused, against the account as it then is), heard. A 401 also forgets the
session and leaves the page (`Left`, `Forgotten`), that of a logout or of the
start included. `Screen` is the
chain of early returns of `Shell`. `Opens` are the tabs. The interceptor of 401
leaves for `/login` unless the path is already that one (`slash`). `hasty`
records a login sent while a logout was unanswered.

### Settings

Rows carry a version, the number of writes, so that a property can tell an old
value from an equal new one. `get` is two steps (`GetMiss`, `GetFill`), `set` is
`Upsert` and `SetCopy`. The banner only opens the shop and shows it open at once;
the settings page waits for the reading. Both ask for one after the write;
readings may be lost and come in any order. `raced` records that an older version was put over a newer one.

### Shifts

Time is a counter that timestamps take (`MaxClock`). A bill is sold, confirmed or
refunded by a transaction: it stamps the row first (`StampBill`, held in `trans`),
and what it wrote is seen at `CommitBill`, or not at all (`RollBackBill`); any
number of steps may fall between. Of one bill, one transaction is open at a time;
several on one order are the subject of `Orders`. `close` is the time, the two sums
(`ReadSales`, `ReadRefunds`, by stamps of committed rows), the write, the audit row
and the alert beyond `Threshold`, with a failure possible after each. `shown` is the shift
a window shows, `request` are the requests under way, several of one user if need be:
Enter in the field of an amount asks again while the button waits
(`ShiftModals.tsx:48`), and a user may have two windows. `back` is the window whose
modal hears the answer; leaving the page takes it away.

Three histories: `flow`, the moves of bills as stamped and committed; `unsettled[s]`,
the bills that were under way when the close of `s` took its time, or were stamped
while it was summing; `doubled`, who had two requests to open under way at once.
Opening cash is zero, every amount is relative to it. The threshold is a constant,
though the setting may be changed: each close reads it once. A partial return pays
cash back and leaves no stamp and the same total (orders.service.ts:425-427), so it is
not a move here.

### Stock

A job is one request: `pc` says which statement is next, `pend` holds its
uncommitted writes, and a written row stays locked (`Free`) to the end of the
transaction. Each write carries the movement row beside it. `gap` is the
quantity minus the sum of the movements; `moved` are the rows others committed
since the job read them; from it the history `overwritten` (a correction or
stocktake put a value computed from an outdated read) and `overdrawn` (a sale
or kit drew from a row that changed after its check) follow. Quantities entered
are whole, and not negative as the DTOs require. The statements of one
transaction run in any order of the components. A receipt reads the quantity, then
the cost (`ReadStock`, `ReadCost`), as the two queries of `purchases.service.ts:26-29` do.

### Catalog

An edit is `create`, `update` or `remove` with its statements one by one and no
transaction, then the deletion of the cache entries under the old and the new
barcode (`Stale`). A scan that misses the cache reads, and stores what it read
later. Of a cached product the price and the active flag are kept; the stock that is
cached with it, which sales change without deleting the entry, is not.
`late` and `spoilt` record what the properties except.

### Notices

`low` counts the rows at or below their minimum, out of `Rows`. The watch reads
`ScanLimit` of them, in no order (500 in `stock-watch.cron.ts:18`), then the inbox, then
creates, emits, pushes; it surely sees a low row only when there are more of them
than it leaves out (`SurelyLow`). The same actions serve an event and the daily
summary. A window is connected or not, has a badge, and any number of refreshes
(`Fetches`) under way: each reads the count (`CountUnread`) and shows it
(`ShowInbox`) in whatever order they are answered, while alerts arrive. `behind`
records the windows that missed an alert, or where a refresh read earlier undid a
later alert, until a refresh that is not overtaken. A phone may lose its
subscription with the row still there.

## 3. Runs

| Run (cfg) | Question | Result |
| --- | --- | --- |
| `bills` (`MCBills`) | orders, no two requests on one of them: does stock follow status, is every request one step of `Sales`? the drawer: one open shift per user, expected cash equal to what the stamps say, differences alerted, with closes between a stamp and its COMMIT? | yes |
| `checkout` (`MCStation`) | one cart pressed twice, three requests, failures and restarts on both sides: order of sending, at most one order per key, true answers and receipts, no queued sale lost, no way of sending a press sells it twice? the catalogue: whole products, current cache entries? | yes |
| `counter` (`MCCounter`) | the page: does an unsold line stay in the cart, is the preview current? the keys: is the claim a lock whatever fails, lost acknowledgements of commits included? orders with overlap: do inventory and movements agree, by how much is a row oversold, are uses counted, who parts status from stock? | yes; by what one cart takes; only an overtaken request |
| `settles` (`MCSettles`) | does every queued operation settle? is stock that stays low alerted, and never twice unread? is a badge too low only after a missed alert or an overtaken refresh? | yes, under the fairness below |
| `office` (`MCOffice`) | stock: ledger, floor, costs and takes under interleaved jobs? accounts: is the owner untouchable, are guesses bounded, does the server accept what the page offers? one window: one identity, its gates? the store switch: do windows and the gate of orders agree? | yes |
| `oversell`, `double_confirm`, `orphan_claim`, `duplicate`, `double_press`, `dead_skipped`, `drawer` | does the code do what a comment or document of the repository says? | no; each finding of `PROJECT.json` quotes the sentence and the line |

The exceptions are histories, not guards: a property that holds "unless a
reader stored what it read before the edit" is as strong as the code, and the
state that would violate it without the exception is one the code can reach. Three
of them are bounds of a run at the same time (`NotDoubled`, `NotHasty`,
`NotReplaced`, below): what follows the excepted race is not followed further by
TLC, and left to the theorems.

Deadlock is not checked: every system here may come to rest (all orders
created, all sales settled, all bounded requests made).

### Bounds

- *Orders* (`bills`): two concurrent requests suffice for every pairwise race, and two
  orders for a race over shared rows. The carts are chosen so that a product
  and a bundle share the row `flour`, that one order has two lines on it, and
  that stock runs out.
- *Orders* (`counter`): two requests on one order, which has the discount code; `MaxUsed` bounds
  `timesUsed` above `UsageLimit`, so that exceeding it is reachable. `FewUnits` cuts
  where double deductions pile up. One order is enough for `OversellBounded`: two
  confirmations of it sell its cart twice, and one of the carts asks for more than there
  is, which the check must refuse both of them; and for `PartsOnlyOvertaken`, since a
  handler works on one order.
- *Shifts*: a cashier and a manager, two requests at a time, two shifts, a cash
  bill of one coin, four timestamps: an opening, a sale, a refund or a second opening
  with a close between any two, and two events at one time, which the closed
  intervals of the code make interesting. Counts are off by the threshold or one more.
  `OneAtLast` follows one request at a time once both shifts have been opened, and
  `NotDoubled` nothing after two requests to open of one user; the theorems have
  neither bound, and any number of bills and amounts.
- *Intake*: three calls on one key: an owner, one that missed the claim and one
  that overtakes both. Keys do not interact, so one is enough. `FewOrders` stops
  counting orders that can grow without bound (a client may post without a key for
  ever).
- *Checkout*: two presses of one cart and three calls, so that an online post, a
  forgotten attempt and its retry are inside the backend together, and a second
  sale is queued behind. `Followed` keeps the second sale untouched while the first has
  several requests inside, but for two posts of the two presses at once: what
  one sale does to another is in the page and the outbox, and these meet one
  request at a time. `MaxAttempts` is 2 or 3 instead of 10:
  the code compares with it in one place only, and 3 gives a first, a middle
  and a last attempt.
- *Till*: two products of at most two units, one voucher, one lookup, two
  previews and two submits at a time: the smallest numbers with a race of each
  kind.
- *Accounts*: the owner, a user, and a user spelt like the second; two requests
  at a time, which is every pairwise race; `MaxFails` 2 instead of 5, compared in one
  place. `LoginsApart` follows login failures only beside other logins, because a login
  reads nothing of an account but whether it is active. `SeedOverOne` runs the seed
  beside one request at a time, and `NotReplaced` does not follow what comes
  after a password it replaced.
- *Session*: two people at one window. `OneSession` starts the session from one
  initial state while another part is followed. `NotHasty` follows a window no further
  once a login overtook a logout, where two of the three properties say nothing;
  the theorems have no such bound.
- *Settings*: two windows, one order at the gate, two writes of the row: a value, a
  newer one, and the default below both.
- *Stock*: an item and a kit of it, two jobs at a time and four in all,
  quantities up to three from purchases and corrections: a stale read needs two
  jobs, a cancelled take beside a correction four.
- *Catalog*: two products, two barcodes, two prices, two edits at a time and
  three in all, one scan.
- *Notices*: two rows of which a scan reads one, one window with two refreshes, one
  phone, one unread event alert (`MaxUnread`), a badge counted to 2, one restart or
  failed statement (`MaxFaults`). `FewAtOnce` follows the phone while no refresh is under
  way, and two refreshes while no row is low: they meet the watch in the alerts only, of which
  the events have one too. What it leaves out concerns windows and phones together,
  on which the watch does not wait, and nothing of the station.

### Fairness

Safety needs none. `FairSpec` of `Checkout` assumes weak fairness of the 30 s
timer (`setInterval`), of the steps of a pass and of the end of a fetch (an
answer or an error, one of them in the end), of the delivery of a requested
flush, of the passing of time (`Elapse`), and of the backend's service of a
request it has. Cashiers, discards, restarts and failures are not fair.

`SettlesWhenQuiet` asks two things of the environment. The page stops asking for
flushes, because each one resets the backoff; in the program an operation is held back
so by a flush at least once per backoff (at most 30 s), as on a flapping network where
every `online` event asks for one, or in a busy hour where every successful sale does.
And the worker's token is good from some point on: a 401 ends the pass and burns no
attempt (`sync.js:63-67`), so with a token that stays expired the operation is sent
again for ever, until somebody logs in. The run has that fault, and the property says
`EveryOpSettles` under both premises; without either it fails under this fairness.
Restarts of the backend, refusals, lost answers and failing statements do not keep an
operation from settling.

`NoticesFairness` is weak fairness of the low-stock watch, scan to push: it runs
on a schedule (`stock-watch.cron.ts`) as long as the process does, and a scan
that fails is followed by the next one. That a scan finds a low row is fair only where
it cannot leave all of them out (`Watch`, `SurelyLow`): the database may return
the same 500 rows for ever. Managers, stock and events are not fair. Faults are bounded there,
because a database that fails for ever would keep any alert from being stored.

## 4. Proofs

All theorems hold for any number of requests, orders, lines, rows, sales,
attempts, users, shifts, bills, windows, products, editors, items and jobs.
TLAPS checks them to the last leaf. Together they state every property but liveness
that the passing runs check; the runs show it on a small instance, where the steps
that make it hard can be seen to happen.

| Theorem | Statement | Assumes |
| --- | --- | --- |
| `OrdersTypeOK` | `Spec => []TypeOK` | |
| `OrderStockHolds` | `Spec => []OrderStock` | `~SameOrderOverlap` |
| `OrdersImplementSales` | `Spec => ImplementsSales` | `~SameOrderOverlap` |
| `OrdersPartOnlyOvertaken` | `OvertakingSpec => PartsOnlyOvertaken` | |
| `LedgerAgreesWithStock` | `Spec => []StockLedger` | |
| `OversellIsBounded` | `Spec => []OversellBounded` | `Bounded`: finitely many requests, at least one, and carts |
| `UsesAreCounted` | `Spec => []EveryUseCounted` | finitely many requests |
| `SerialStockNonNegative` | `Spec => []StockNonNegative` | one worker |
| `ClaimIsALock` | `IntakeSpec => []OneOwner` | |
| `OneOrderPerKey` | `IntakeSpec => []AtMostOnce` | `"lostAck" \notin Faults` |
| `AnswersAreTrue` | `IntakeSpec => []AnswersTrue` | `"lostAck" \notin Faults` |
| `ClaimsAreReleased` | `IntakeSpec => []NoOrphanClaim` | `"closed"`, `"database"`, `"crash"` `\notin Faults` |
| `StationTyped` | `Spec => []TypeOK` (of `Checkout`) | |
| `ReceiptsAreTrue` | `Spec => []ReceiptsTrue` | `"lostAck" \notin Faults` |
| `QueuedIsNotLost` | `Spec => []QueuedNotLost` | `"lostAck" \notin Faults` |
| `PendingAreInOrder` | `Spec => []PendingInOrder` | |
| `EachPathSellsOnce` | `Spec => []OncePerPath` | `"lostAck" \notin Faults` |
| `CartKeepsUnsold` | `TillSpec => []UnsoldKept` | |
| `ShownDiscountIsCurrent` | `TillSpec => []ShownIsCurrent` | |
| `AccountsTyped` | `AccountsSpec => []AccountsTypeOK` | |
| `OwnerIsUntouched` | `AccountsSpec => OwnerUntouched` | |
| `GuessesAreBounded` | `AccountsSpec => []GuessesBounded` | |
| `OffersAreAccepted` | `AccountsSpec => []OfferedIsAccepted` | |
| `GateAlwaysHolds` | `SessionSpec => []GateHolds` | |
| `OneIdentityHolds` | `SessionSpec => []OneIdentity` | |
| `DeadShellsLeave` | `SessionSpec => []DeadShellLeaves` | |
| `GateAgreement` | `SettingsSpec => []GateAgrees` | |
| `LedgerIsExact` | `StockSpec => []LedgerExact` | |
| `StockAboveZero` | `StockSpec => []AboveZero` | |
| `AverageStaysBetween` | `StockSpec => []CostBetween` | |
| `CancelMovesNothing` | `StockSpec => []CancelledMovedNothing` | |
| `OneShiftIsOpen` | `ShiftsSpec => []OneOpenShift` | |
| `ExpectedCashIsDrawer` | `ShiftsSpec => []ExpectedIsDrawer` | |
| `DifferencesAreAlerted` | `ShiftsSpec => []AlertedOrTold` | |
| `WatchKeepsOneUnread` | `NoticesSpec => []OneUnreadLow` | |
| `BadgeIsNotUnder` | `NoticesSpec => []BadgeNotUnder` | |
| `ProductsStayWhole` | `CatalogSpec => []WholeProduct` | |
| `CacheIsCurrent` | `CatalogSpec => []CachedIsCurrent` | |

Beside these only the named assumptions of the modules on their constants are
used. `FiniteAssumption` of `Orders` is one of them (finitely many orders and
lines: the ledger is a sum over both).

*Orders.* `OrderStock` is not inductive: it says nothing of requests about to
commit. `IInv` adds `ReadsStayValid`: the row a handler read is still the row
when it commits (nobody else is on the order), and the amounts it will move
are those that row calls for. Without overlap a step of one request cannot
touch what another has read, so each commit changes status and units together.
The refinement uses the same invariant: every statement is a stutter of
`Sales`, and each commit is one of its steps. `SerialStockNonNegative` needs
`CoveredInv`: between the check and the write of a row its visible quantity
still covers the amount, which is false as soon as a second request writes.

`PartsOnlyOvertaken` holds with overlap. Its invariant, `KnownUnlessOvertaken`, says
that whoever is not `outdated` still knows its row (`Fresh`); a step changes the row of one
order at most, so it makes the others on that order outdated and leaves all else
as it was, and the commit of a request that knows its row keeps status and
units together whatever the two were before.

The other three hold with overlap too, and nothing may be said of what a handler
read. `StockLedger` needs only what a transaction has written: by `Balanced` its
change to a row is the sum of the units of the lines it has come to, and it
commits with no line left. `OversellBounded` is not about stock but about
promises: a request that has checked a row and not yet committed has a claim on
it, and by `ClaimsCovered` stock less all claims never falls below the carts of
the other n - 1 requests. That needs every request's amounts to come out of one
cart (`FromACart`), whichever order they were read from. `EveryUseCounted` counts
the requests that have consumed the code and not committed with the orders sold
with it; by `CodeKnown` a request that sells an order knows whether it carries
the code, since `coded` never changes once the order exists.

*Sums.* Totals are written with `SumFunctionOnSet`. That one value taken out of a
finite sum, or a larger summand, changes it as expected is proved from the
smallest counterexample among the subsets of the set, which exists because strict
inclusion is well founded there; no induction scheme is needed, and the existence
of the recursive function behind the sum is proved the same way.

*Intake.* `AtMostOnce` needs to know who may still commit. `Lock` says that a
request between the INSERT of the key and its completion or release finds its
claim `claimed`, and is alone there. `Counted` relates claim and orders: a free
key has no order, a completed one has one, and an owner has made its order
exactly when only the stamp is left. A crash leaves the claim behind with zero
or one order, which is why nothing is assumed of claims without an owner.
`Thrown` (who releases has failed) keeps the release from answering 201. A lost
acknowledgement breaks `Counted` at once, hence the assumption. `NoOrphanClaim`
is inductive once closing, restarts and failing single statements are left out:
every other way from the claim ends in the stamp or the release, a lost
acknowledgement included. The run of `MCOrphanClaim` shows the closed store.

*Checkout.* `Station` links page and worker to their calls: the call waited for
carries the sale it is waited for, or is dead; a row in flight is pending or
discarded; a pending row has an attempt left. `Truth` adds the invariants of
the intake, and that a 201 without a key has its order as well. `Queue` orders
the rows: each is older than the next number to be given, and a sale that was
not queued has none, so a row that is added goes last and one that is retried
keeps its place. `OncePerPath` fails once the acknowledgement of a commit is lost;
without that, `PostsOnce` says that a press has one post in progress and no order
before that post has delivered it, and `CartsFresh` that a press which can be
submitted (again, after a refusal) has neither a post in progress nor an order.
Nothing of the kind holds of two presses of one cart, as `double_press` shows.

*Till.* `UnsoldKept` is inductive once a submit is known to hold, while it is
posted, every unsold line there is: a line is entered into `unsold` only while
nothing is under way, so what an answer removes from `unsold` covers what the
clearing that follows takes from the cart. `ShownIsCurrent` gains, in `Replaced`,
the case between two answers: a discount shown for something else is about to be
replaced, because the timer runs or the right answer is awaited.

*Accounts.* The owner's step property rests on `OwnerKept`: no request that has
been decided aims at the owner, except the owner's own change of password. The
checks are made against rows read before the hash, which is why the invariant
speaks of decided requests and not of rows. It needs the owner's role never to
change, which the same invariant gives. The seed stores its password only from
`hashing`, which it enters while a change is due; a password the owner chose is not due to
be changed, so only a seed that was hashing before can replace it. `GuessesBounded` is not inductive: a
login that has counted may still fail. `GuessInv` adds the requests now comparing
(`Comparing`) to the failures; counting needs fewer than `MaxFails` and at most
all slots compare. `OfferedIsAccepted` compares two tables of rights and follows
from the types: roles and levels never part, and no state of the accounts makes
the tables disagree.

*Session.* Four invariants: `Loading` (before the session is revalidated
nothing else is under way), `OneByOne` (which kinds exclude each other),
`SameUser` (whose answers can still arrive), `Leaves` (why a dead shell is being
left). `OneIdentity` fails without `~hasty`: a login over an unanswered logout
lets the late refresh of one user replace the next.

*Settings.* Versions never go back: every copy, reading and page is of a past
version, and one that is of the current version has its value (`Past`). The
copy follows the row unless a write is on its way or `raced` (`CopyFollows`).

*Stock.* `Phase` says what a request at each statement has written and which
read it relies on; `Rows` that a written row is locked and its movement is what
it changes by, unless the write is a correction on an outdated read. Committing
then keeps `gap` zero. `Checked` and `Written` do the same for the floor: a row
that passed its check and was not moved since has a unit, and what is about to
be committed is not negative, or drawn late, or the row is overdrawn already.

`CostBetween` needs `Priced`: what a receipt is about to write lies between two
prices as well. A weighted average of two such values does while the old quantity
is not negative, which takes the floor of `StockAboveZero`. `CancelledMovedNothing`
needs `Ends`: two requests that end one take at once have crossed, and once one
has ended it without crossing no other can.

*Shifts.* `OneOpenShift` is not inductive: a request that is about to create a shift
has looked before. `OnlyShift` adds that such a user has none open, which holds
because such a user has no second request to open (`doubled`). `ExpectedIsDrawer`
compares what two queries summed at two moments with the moves as they are stamped
when all has ended. Four facts carry it. `History`: the committed row of a bill tells its last
move, and an open transaction has stamped it later than all of them. `Timely`: no
stamp is ahead of the clock. `Noted`: a transaction stamped before the close took its time
and not committed is among the `unsettled`, and so is a bill whose later move was
stamped before both sums were read. `Summed`: each sum read so far is that of the moves
of its kind in the shift, but for some of the unsettled (`Counts`); a move that
commits after a sum either came after the shift's end, or is unsettled and may
be left out, so the sum stays one of those allowed.
`Alerting`: a difference beyond the threshold that is neither alerted nor told is held
by a request about to write the alert, which knows it.

*Notices.* `NoPile`: the watch creates only while none is unread, and it is one
job. `BadgeNotUnder` needs the same of the count a window has read and not shown
by each of its refreshes (`Honest`), which is compared with the alerts already sent (`StillDue`): one that
is created and not yet sent will be added when its message comes.

*Catalog.* `Orderly`: edits of a product that is not spoilt do not overlap, and
each has brought the row to where its next statement expects it (`OnTrack`).
`SoleCode`, the unique index, makes what a scan reads unambiguous; with it every
statement that changes what a barcode stands for is one of an edit whose deletion
from the cache is still due.

Model-checked only is liveness (`SettlesWhenQuiet`, `LowIsAlerted`), which the
prover cannot do. The violation runs show what a theorem's assumption keeps out:
`DeductedOnce` with overlap, `StockNonNegative` with two requests, `NoOrphanClaim` with a
closed store; and, in `SalesLessRefunds`, what `ExpectedIsDrawer` leaves out (`Plain`).

## 5. What is not modelled

- Taxes, ratings, list filters, receipts' layout and ESC/POS bytes, labels,
  translations: data no decision of the modelled handlers depends on.
- Decimal quantities: the models use whole units. The average cost rounds in
  the model (`\div`), not in the code.
- A return selection that names one order item twice: each entry is compared
  with the whole line (`orders.service.ts:401`).
- The administration of discount codes, and the connection pool a handler needs
  a second connection from.
- In `Checkout`: a browser without the shell, and an outbox that fails to open,
  where an unanswered post is only shown as an error; token validity, which is a
  nondeterministic 401; rows the outbox cannot have written.
- In `Till`: customer, order type, payment method, pins and filters.
- In `Shifts`: opening cash, partial returns, transactions that overlap on one bill,
  changes of the threshold; in `Stock`: batches, purchases of several lines, the
  editor of compositions; in `Catalog`: tiers, sub-units, search lists, the stock in a
  cached product; in `Settings`: the other keys, which go the same way; in `Accounts`: contact
  data and permission sets as data.
- Screens not named above, the customer display (the last snapshot wins, nothing
  depends on it), reports, audit and record keeping: no state that interleaves.

### What the models show of the code beside the findings

No run expects these to be violated; properties name them as exceptions or leave
them out. The first seven disagree with a sentence of the repository, which is quoted; of
the others no sentence promises otherwise that we know of.

- `open` says "one open shift per cashier" (`shifts.service.ts:28`), but two
  requests of one user may both find none and create two: `OneOpenShift` excepts
  them (`doubled`). A sale meanwhile is in the expected cash of both.
- "re-seeding can never clobber a rotated production password" (`seed.ts:20-21`, and
  in other words `DEPLOY.md:53-54`), but the seed reads the flag, hashes, and stores without looking again
  (`seed.ts:64-66`): a password chosen in between is replaced. `OwnerUntouched`
  excepts a seed that was hashing.
- "two visually identical accounts ... can never coexist" (`users.service.ts:35-36`), but
  only a new name that is not folded is compared with its folded twin: the folded spelling may be
  created beside an existing other one, and `employees.service.ts:29` does not ask at all.
  `Accounts` has such twins, and no property excludes them.
- "expected_cash = opening_cash + confirmed sales during shift − refunds during shift"
  (`shifts.service.ts:17`), but beside the bill sold and refunded in one shift (finding `drawer`) a
  bill confirmed by another than its creator counts in the creator's drawer, which
  `Plain` excepts, and one whose transaction is open at the close may be in no
  shift at all: its stamp lies in this one, its COMMIT after the sums. `ExpectedIsDrawer` lets
  such a bill (`unsettled`) count or not.
- `README.md:56` answers insufficient stock with a "full transaction rollback", but the use of
  a discount code is counted on another connection than the sale (`orders.service.ts:311`): a
  confirmation that then fails keeps its use, which `EveryUseCounted` (at least as many uses as
  standing sales) allows. Two confirmations at once may both pass the limit, too.
- `Product.purchasePrice` "equals the quantity-weighted average" (`DEPLOY.md:87`, and
  `purchases.service.ts:21-25`), but of two receipts at once the later write computes from what it read before the
  other: one purchase is not in the average. `CostBetween` bounds the cost and
  does not notice.
- The head of the watch says "re-alerts only when the situation changed"
  (`stock-watch.cron.ts:7-8`); it alerts again whenever the last alert has been read, and a low
  row beyond the 500 it reads may never be alerted.
- Cancelling an order whose return awaits approval keeps the request stamped.
- After a submit that failed while a line was scanned, the key handler keeps the busy
  flag until the next edit: F12 does nothing.
- `cart.clear()` after an answer also clears what was scanned meanwhile.
- A preview answered late is shown for the code and the total of now.
- A reader that missed the cache, or the copy of a setting, may store an old
  value after the write that should have removed it.
- A stocktake or correction computed from an outdated quantity makes movements and
  quantity disagree; a commit and a cancellation of one take that cross both succeed.
- A login sent while a logout is unanswered may end in a window that shows one user
  and sends the token of another.
- A product edit that fails halfway leaves the statements before it.
- A shift closed by a request that then fails is answered as an error and its
  difference is not alerted.
- The daily summary is delivered outside before its alert is stored, and the
  WhatsApp request has no timeout (`summary-notifier.ts:26`).

## 6. What could follow

1. The pool of connections with the discount code, and its administration.
2. The editor of kits beside returns: `restoreLine` uses the components of today.
3. `ReturnSelection`: the algorithm of partial returns over sequences of entries.
4. The printer's single-flight check.
5. Abstract specifications beside `Sales` and `Intake`, as of the drawer, and the
   proof that `Shifts` implements it.
