# TLA+ models of SSTiPOS

SSTiPOS is a point-of-sale system for restaurants: a Next.js server
(`src/apps/backoffice-web`) that tills, the back office, guests' phones and the
INET payment gateway call, and a PostgreSQL database (Supabase) behind it
(`src/supabase/migrations`). The server keeps almost nothing between requests.
A handler is a list of database calls, most of them a statement of their own
without a transaction around them, so that **the interesting unit of
concurrency is the database call**: between any two calls of a handler every
other handler may act, the handler may give up (`withTimeout` answers 504 while
the call runs on), meet an error, or die with its process. What keeps the data
right is a handful of devices: unique indexes, filtered updates, row locks in a
few PL/pgSQL functions, two triggers, idempotency keys, and hand-written undo
code. The models are about these devices.

This directory holds eight models of the parts of the system, `OrderPayment`, `InetIntent`,
`StockSale`, `StockAdjust`, `TableBilling`, `ShiftLifecycle`, `PosLogin`, `PrintQueue`, and a ninth
of the browser's side, `TillOutbox`; two abstract specifications that two of
them implement; `Stock`, the shelves the two stock models share; their TLC instances (`MC*.tla`, `*.cfg`); and eight modules of
proofs (`*Proofs.tla`). `PROJECT.json` lists the runs, the source lines each definition stands
for, the hazards, the theorems, and for every checked property a mutant: a plausible
bug under which TLC finds that property violated.

    tlc -workers 2 -config OrderPayment_core.cfg MCOrderPayment
    tlapm OrderPaymentProofs.tla

Paths below are relative to `apps/backoffice-web/src` for the server and
`supabase/migrations` for SQL, unless they start with `docs/`.

## 1. Inventory

| Part | State | Operations | Talks to | What is hard | What makes it right |
|---|---|---|---|---|---|
| Bill payment | `orders.status`, totals, `payments` with `request_group_id` | `POST /api/pos/payments`, `POST /orders/[id]/pay`, `complete_pos_payment_tx` | tables, INET, shifts, printing | time-outs, retries, stale reads, two tills at once | a key settles a bill once, for its total, never a cancelled one |
| Queued bill edit, cancellation | `orders`, `order_items` | `POST /api/pos/sales` with `order_id`, `POST /orders/[id]/cancel` | payment | several statements with undo | no edit under a payment |
| INET QR payment | `pos_payment_intents` | `POST /payments/inet/qr`, `POST /api/payments/inet/callback` | INET, payment, printing | repeated and overlapping callbacks, a claim without expiry | one finalization at a time; a success is booked in the end |
| Sale creation and stock | `orders`, `order_items`, `ingredients`, `stock_movements` | `POST /api/pos/sales`, `create_pos_order_tx` | tables, shifts | direct path in separate calls, undo | one order per key, whole or not at all, stock = movements |
| Stock corrections | `ingredients`, `stock_movements` | `item-ingredient-deduct`, `add_ingredient_stock` | sales | read-modify-write without a lock | a correction is booked once; no more restored than taken |
| Tables and QR ordering | `dining_tables`, `table_bill_sessions`, `table_qr_sessions` | open bill, attach, move, release, issue QR, `submit_table_qr_order_tx` | sales, payment | five-statement moves, guests against tills, lock order | one bill per table, every unpaid bill reachable, links die with the bill |
| Cash shifts | `shifts`, `pos_sessions.shift_id`, cached session rows | open, join, close (three routes), `requireActiveShift` | sales, sessions | double opening, closing against late bills, stale rows | one open shift per device, nothing unpaid left behind, nobody locked out |
| Login and sessions | `pos_sessions`, `pos_login_contexts` | PIN and card login, choice of a device, log-out, administrative ends | shifts | revoke, insert and consume in separate calls; expiry that indexes do not know | one active session per user and device; nobody evicted without right; an expired session gives way |
| Print queue | `print_jobs`, `printer_profiles` | enqueue, `processPrintJob`, reprint | payment | jobs are processed without a claim | every copy has a reason; every job ends |
| Client outbox | React state, `localStorage` | checkout, held and delivery bills, payment windows, replay and retry of queued bills and transfers | sales, payment | reloads, timers, lost answers, flags in refs and state | nothing queued is lost, no two submits of one bill, no lock left behind |
| Rate limits | database counters, memory of one process | `enforceRateLimit` | login | fallback per process | no more than the limit |
| Manager approvals | `manager_pin_approvals` | `backoffice/approvals/pin` | cancel, payment, shift closing | expiry, reuse | each privileged change has an approval for it |
| Others | see `components` in `PROJECT.json` | catalog, settings, attendance, reports, customer display, subscriptions, caches, audit, IT administration, clean-up, screens | | single-row edits and reading | |

How they interact: a **sale** creates a queued bill (`orders`) under the open
**shift**, takes its recipe from the **stock**, and, for a dine-in bill, attaches
it to the **table**'s session. Guests add items through the session's **QR** link.
A till (or the INET **callback**) **pays** the bill: the payment function locks
the bill and completes it, and the handler then closes the session, frees the
table and queues a **print** job. The shift is closed when no dine-in bill of it is
unpaid. Everything a till asks for goes through its **session**, made by a login. In the till's
browser, bills and transfers that could not be sent wait in the **outbox** and are sent again
under their key, which is what the replay checks of sale and payment are for.
Nothing spans these steps but the code of the handlers.

## 2. Modules

**`OrderPayment`** (core). A slot `r` of `Requests` runs one handler of
`settle` (`POST /api/pos/payments`, and `finalizePosPayment`), `pay`
(`POST /orders/[id]/pay`) or `edit` (`updateQueuedPosOrder`), with the database
call it has out. `order[o]` is the bill with the sum of its lines, `payment[o][g]` the
`payments` rows under key `g`. `complete_pos_payment_tx` is two steps: the
replay check before its row lock (`TxReplay`, `TxNotSeen`) and the rest, which holds the
lock and either commits (`TxCommit`) or raises (`TxAbort`) for a reason that
`TxRefusal` names, the unique index on the request group among them. A handler may time out (the call goes on with nobody waiting) or die.
Cancellation and guests' orders are single guarded statements. `MaxTotal` bounds guests'
orders; `Amounts` are what a request may offer (nothing, the price, too much).

**`PaymentLedger`** (abstract). A bill without handlers: re-priced or cancelled
while queued, settled once per key for its total. `OrderPayment` implements it
(`LedgerSpec`), checked by TLC and proved.

**`InetIntent`**. Tills that ask for a QR, INET that decides and repeats its
callback until it is answered 200 (external), callback handlers that claim,
finalize, mark paid, or release. `complete_pos_payment_tx` is one step here, or two
when it times out and its orphan ends later. The claim is what it is in the
code: the handler's id in `failed_reason`, taken by a filtered update.

**`Stock`** declares what sales and corrections share: the stock of the ingredients, the recipe, and whether
stock may be negative. `StockSale` and `StockAdjust` extend it.

**`StockSale`**. Handlers of `POST /api/pos/sales`: replay check, queue guard,
shift, order, lines, reading of quantities, writing them back one by one, movements, and
every undo. A delivery first calls `create_pos_order_tx`, raced with its time-out. Without an
idempotency key (`NoKey`) that is one transaction, all or nothing (`TxSells`, `TxShort`, `TxRejects`). With a
key, which the till always sends, the function raises `column reference "order_no" is ambiguous` in its
look-up of the key (`202605220005`:85; `order_no` and `created_at` are output columns too) before
it writes anything, and `pos-sales-service.ts:1060` goes on with the direct path (`TxRaises`). There a
shortage is not bypassed but undone (`DeliveryShort`).

**`StockAdjust`**. Corrections of an item of a bill (`deduct`, `restore`) and
receipts of ingredients, each call a step, with the check constraint on negative
stock and the unique index on the request id of a movement.

**`TableBilling`**. Tables, bill sessions, QR links and the bills attached to
them, with eight handlers: open, sale (attach), edit, move, pay, cancel, issue, submit. The
locks that `submit_table_qr_order_tx` and the revoking trigger take are modelled, so that the
aborted side of a deadlock is. `submit_table_qr_order_tx` is taken with the
`table_id` of its session lookup qualified, as `context.md:313-328` says it was deployed; as
written in `202606070002` the name is ambiguous with the function's result column.

**`ShiftLifecycle`**. Opening (look, insert, conflict, look again), joining,
re-binding, the guard `requireActiveShift` on session rows that may be kept in
memory, closing from the till and from the back office with the trigger, and bills
that a sale puts on a shift it looked at before. One server process with
one cache is assumed.

**`PosLogin`**. Two ways to log in (PIN or card under a login context; the choice
of a device), each a list of calls: take over the device, revoke one's own sessions, insert, on a
conflict revoke what has expired and insert again, consume the context, or undo. The unique indexes
on user and device are the guards of `Insert`. Calls fail, handlers die, clients get a time-out and
do not know; sessions expire by the clock and are ended by log-outs and administrators.

**`PrintQueue`**. The jobs of one order: a payment, a guest's order, a Bluetooth receipt or a
reprint inserts rows and processes them, statement by statement and attempt by attempt.
Nothing is claimed and nobody resumes a job whose request died.

**`TillOutbox`**. The sales screen of a till: cart, held and delivery bills, payment
window, the two queues, the flags and refs that keep submits apart (`busy`), the timers that write
`localStorage` part by part, reload and hydration. The server is reduced to what the till can
observe of it: it carries out sales and payments under a key, possibly after the till
stopped waiting (`late`), possibly without the answer arriving.

Each module starts with the list of handlers it models; action names say which
step of which function they are, and `map` in `PROJECT.json` gives the lines.

### What the models abstract

Amounts, lines and recipes are small numbers; ids are model values; tenants and
branches are one; permissions, feature gates and validation that refuse a
request as a whole are left out because a refused request changes nothing. Fallbacks
for databases that lack a column or function are left out, except the
direct path of sales, which dine-in and take-away sales always take, and deliveries with a key as well.
Audit rows and logs are left out.

## 3. Runs

| Run | Question | Result | Distinct states |
|---|---|---|---|
| `payment_core` | two handlers of any kind and two keys on one bill | all hold; implements `PaymentLedger` | 365 188 |
| `inet_core` | two tills, two intents, two concurrent callbacks, errors and deaths | all hold | 152 614 |
| `inet_serial` | one callback at a time, no deaths, two time-outs | claims given back, successes booked | 19 782 |
| `stock_core` | a direct sale, its repetition, a delivery with a key and one without, two ingredients, failures | all hold | 760 080 |
| `stock_delivery` | one delivery with a key, no fault, an ingredient short | `RefusedSaleTookNothing` violated (section 5) | stops at the violation |
| `adjust_core` | a deduction and its repetition, two restores, a receipt | all hold | 1 050 014 |
| `table_core` | two concurrent handlers, two tables, bills and sessions | both hold | 1 869 754 |
| `table_serial` | one handler at a time, three sessions, two faults | all hold | 1 831 074 |
| `shift_core` | two requests of a till, two shifts, a bill | all hold | 192 351 |
| `login_core` | two logins at once of a cashier and a manager, one device, one context | all hold | 148 727 |
| `outbox_core` | a walk-in and a delivery basket, three keys and reloads in all | all hold | 756 988 |
| `print_core` | a payment, two reprints, one fault, two printers | all hold | 357 392 |

### Properties

* Payment. `GroupPaidOnce`: a key settles a bill once, though the replay check
  runs before the lock. `PaidNeverCancelled`, `PaidExactly`, `CompletedIsPaid`: status,
  total and payments agree, though `/pay` writes the status from a
  row it read first and edits run in several statements.
* INET. `ClaimExclusive`, `ReceiptOnce`, `PaidIntentIsSettled`, `LiveQrUnique`
  with everything going wrong; `ClaimHasHandler` and the liveness property
  `SuccessSettles` when nobody dies.
* Sales. `OneOrderPerKey`, `SoldOrderIsWhole`, `NeverOverdrawn` (lost updates
  never take more than the orders that drew). `RefusedSaleTookNothing` is what the documents promise
  and the code does not keep (section 5).
* Corrections. `BookedOncePerKey` and `StockIsExplained` always (lost updates lose no more than was written);
  `StockMatchesMovements` only while handlers do not overlap or fail
  (`Orderly`), which is where the code stops keeping it.
* Tables. `OneBillPerTable` and `FinishedBillFrozen` under concurrency;
  `BillIsShown` and `TableAgrees` for requests one after the other until
  something fails; `ClosedBillRevokesQr` for requests one after the other, also with failures.
* Logins. `OneSeat`, `ContextWinsOnce`, `EvictedByRight`, `SessionHasOwner` under
  overlapping, failing and dying logins, and the liveness property `ExpiredGivesWay`: the
  unique indexes do not know `expires_at`, and yet an expired session does not block its device.
  `SessionHasOwner`: an active session is one that a login won (under a context: that this login consumed), or that a
  handler is still at work on; so a login that is refused, fails half-way or is overtaken leaves none behind. Its exception are the sessions
  called "lost": the handler died or was timed out before it could answer, or its undo failed, which nobody looks at.
* Till. `AcceptedIsKept` (a queued bill or transfer is there until the server has carried it out,
  a conflict was reported, or a reload came before the timer), `OneSubmitAtATime`,
  `IdleIsFree`, `OneHome` (a basket is in one place from where it can be submitted) and
  `ClosedDeliveryIsPaid`.
* Printing. `CopiesAccounted` (each paper has a reason), `OpenJobHasWorker` and the liveness
  property `EveryJobEnds`.
* Shifts. `OneOpenShiftPerDevice`, `EndedShiftOwesNothing` (a bill left on a closed
  shift came from a sale that looked before the closing), and the liveness property `TillIsLetIn`.

Type invariants (`TypeOK`) are proved in eight of the nine modules (section 4), so only
`adjust_core`, whose module has no proofs, checks one by TLC.

Conditions such as `Orderly` or `faults = 0` are not decoration: without them the
property fails, and section 7 says how.

### Bounds, and why they are enough

* Two request slots. The devices under test are pairwise (a unique index, a
  filtered update, a lock), so two racing handlers show what they do; slots are reused without
  limit, so that long sequences of requests occur. `StockSale` and `StockAdjust` have a
  handler per request because each request is one-shot, four and five of them.
* Two keys on one bill: same key (replay, retry), other key (second till).
  Handlers of different bills share nothing in `OrderPayment`; the theorems
  hold for any number of bills, keys and slots.
* Two ingredients: the smallest number with a failure in the middle of a list. `Opening`
  is chosen so that the second or third order runs out of one of them.
* Two tables, two bills and two or three sessions: a move needs two tables; a table
  is reused after a release.
* `MaxTimeouts`, `MaxFaults`, `MaxItems`, `MaxTotal`, `MaxShifts`: each stops a counter, and
  each is large enough for the case to happen once and again afterwards (`inet_core`,
  `adjust_core`: once).
* `MaxEvents` in `outbox_core` bounds the keys drawn and the reloads together: three are a first
  submit, a second one or a payment, and a reload between any two steps, or two reloads. The
  run's `VIEW` leaves `localStorage` out of the state when no reload can come any more, because nothing
  reads it then.
* `MaxSessions = 2` rows in `login_core`: a session that is there, and the one that takes its
  place or loses to it. Logins themselves are not bounded. `MaxJobs = 3`, `MaxFaults = 1` and
  `QueueLimit = 1` in `print_core`: a receipt and a kitchen ticket of a payment, two reprints, the queue at its limit, and one thing that
  goes wrong. Guests' orders and Bluetooth receipts are kinds that `PrintQueue` has and this run does not: they go through the same
  steps with one job instead of two, and the theorems cover them.
* One till on one device in `shift_core`: its two requests are the double click. A
  second device would only add independent shifts.

`CHECK_DEADLOCK FALSE` stands where the instance really ends: every sale has been
answered, every intent or shift has been used. `OrderPayment` is
checked for deadlock.

Symmetry is used in the safety runs only, over sets whose members no action
distinguishes; in `stock_core` these are the two handlers of one request. Its `VIEW` leaves out what a handler has
read once it no longer deducts, and why it has sold nothing, which no step and no property of that run looks at.

### Fairness

`InetIntent`: weak fairness of each callback handler's next step (Node runs what
it has started, calls are answered or time out) and of INET's repetition of an
unacknowledged callback (`docs/INET-NOPS-UAT-TEST.md:35`). None for tills, customers or cancellations.
A handler that may die has no such promise, which is why `inet_serial` has `Faulty = FALSE`.

`ShiftLifecycle`: weak fairness of handlers and of the expiry of kept rows (a
clock), and strong fairness of the guard being reached (the people at the till go on trying;
strong, because other requests of the till may take the slots again and again). No fairness of opening,
joining or closing, so the property does not rest on anybody's goodwill.

`PosLogin`: weak fairness of each handler (it goes on, is answered or dies), and strong
fairness, per device, of somebody choosing it and of the calls that such a login makes: the database
does not fail each time. Choosing a device is what the property is about; nothing is promised about logins under a context.

`PrintQueue`: weak fairness of the next step of a request that was begun; none of beginning one. That a call of
the printer ends is the code's doing only for the ESC/POS network adapter, which sets a time-out
(`lib/printing/adapters/network-escpos-adapter.ts:29`); for the others it rests on `fetch` and the platform,
which end a request in time.

`OrderPayment`, `StockSale`, `TableBilling` and `TillOutbox` have safety properties only and state no fairness.

## 4. Proofs

Each `XProofs` module proves, for every value of the constants of `X` that satisfies its `ASSUME`
(which TLC evaluates in the runs), an inductive invariant `IInv` and from it the properties; `StockProofs` does so for
`StockSale` and for `StockAdjust` (`AdjustInv`). One lemma
stands for each action or group of actions; frame lemmas say once what a step may do
without harm, and the lemmas of the actions cite them.

| Module | Proved | What the invariant adds to the properties, and why it is needed |
|---|---|---|
| `OrderPaymentProofs` | `TypeOK`, `GroupPaidOnce`, `PaidNeverCancelled`, `PaidExactly`, `CompletedIsPaid`, `LedgerSpec` | `EmptySums`: a key without a row holds no money. `Shape`: what a slot looks like at each step. `Told`: a handler that was told "settled" or "replayed" acts on a bill that has a payment under its key; `/pay` marks a bill completed without looking, and is right only because of that |
| `InetIntentProofs` | `TypeOK`, `ClaimExclusive`, `ReceiptOnce`, `PaidIntentIsSettled`, `LiveQrUnique`, `ClaimHasHandler` | each intent is in one pair of hands at a time: the till that asks for its QR, the customer and INET, then the handler whose claim stands; a receipt is printed by the hands that settle |
| `StockProofs`, of `StockSale` | `TypeOK`, `OneOrderPerKey`, `SoldOrderIsWhole`, `NeverOverdrawn` | `Phases`: what a sale has written, from the step it is at. `ReadsCovered`: a quantity that a handler read and will write back is no lower than what those who drew up to now account for, so that writing it cannot overdraw |
| `StockProofs`, of `StockAdjust` | `AdjustTypeOK`, `BookedOncePerKey`, `StockIsExplained`, `StockMatchesMovements` | `HandlerPhase`: what a handler has written and booked, from its step. `Sober`: the quantity that a handler has read for what it will still write is within the bounds that the writes up to now explain, and later writes only widen them. `Alone`, `Balanced`: as long as no two handlers have overlapped, stock differs from the sum of the movements by what the one handler at work has written; from this it follows that no update of it misses and no key of it is in use |
| `TableBillingProofs` | `TypeOK`, `OneBillPerTable`, `FinishedBillFrozen`; `BillIsShown`, `TableAgrees` and `ClosedBillRevokesQr` if requests are served one at a time (`OneByOne`) | `Exclusive`: the unique index as a fact about rows. `Fits`: the session that a handler holds is still, or was, at the table it read; who holds the lock of a link sees an active session. `Working`: which table and which bill the request at work has still to put in order, from its step; `Tidy`: everything else agrees (`Neat`). `Linked`: a link that is about to be issued is for an active session |
| `ShiftLifecycleProofs` | `TypeOK`, `OneOpenShiftPerDevice`, `EndedShiftOwesNothing` | inductive as they are, given that the latest of a set of shifts exists (by well-foundedness) |
| `PosLoginProofs` | `TypeOK`, `OneSeat`, `ContextWinsOnce`, `EvictedByRight`, `SessionHasOwner` | `Fit`: the session that a handler holds is its user's and under its context. `Wins`: a successful login has consumed its context. `Held`: an active session whose login is not answered yet is held by a handler that will answer it or take it back; it is kept because a handler lets go of the row it inserted only when it answers, takes it back, or is lost. Rows change by `RowStep` only, and new ones pass the indexes. `EvictedByRight` is a property of steps; it follows from what `Fit` says of the handler whose step it is |
| `PrintQueueProofs` | `TypeOK`, `CopiesAccounted`, `OpenJobHasWorker` | `CopiesAccounted` is stated with reservations: who may still print a job, and a failed job itself, reserve one copy each |
| `TillOutboxProofs` | `TypeOK`, `AcceptedIsKept`, `OneSubmitAtATime`, `IdleIsFree`, `OneHome`, `ClosedDeliveryIsPaid` | `Locks`: the flags that are up are just those that the awaited requests hold, and no two hold the same. `Shapes`: queued payments are for orders that exist, in memory, in storage and on the way. `Drawn`: whatever the till holds names keys already drawn, so a new key is new everywhere. `InFlight`: a first-time bill finds no order under its key, and the transfer after it finds that order with its items and no late edit of it. `Homes`, `Delivered`: what `OneHome` and `ClosedDeliveryIsPaid` say of the memory holds of the storage before a reload has read it |

`OneByOne` is the assumption of the run `table_serial`: requests of all kinds follow each other in any
number, none overlaps. It is not an assumption about the code, which lets them overlap, and the three
properties do not hold without it (section 7); the other theorems of `TableBillingProofs` do not need it.
`StockMatchesMovements` says the same of itself (`Orderly`): corrections that overlap lose updates.

The sums of `StockAdjust` are folds over sets of handlers of any size. That a fold takes each handler
once, in whatever order (`SumWithout`, `SumAdd`), is induction over finite sets; the induction theorems
of the library take an operator that the provers cannot instantiate, so the lemmas
look at a smallest set for which the claim fails (`SmallestSet`, from the well-foundedness of the subset relation
on finite sets) and derive a contradiction. `SumExists` shows in the same way that the recursive function of the fold exists.

Only model-checked: the liveness properties (`SuccessSettles`, `TillIsLetIn`, `ExpiredGivesWay`,
`EveryJobEnds`), since liveness under fairness is out of the prover's reach. Every safety property that a passing run checks is
proved as well.

## 5. Findings

One, shown by the run `stock_delivery`. `docs/STOCK-ENGINE-ARCHITECTURE.md` wants "order creation + recipe deduction
atomic" (`:5`), "rollback safety when deduction fails" (`:8`), and says that if any step fails inside the transaction function
"Ingredient quantities are not partially updated" and "Stock movements are not partially inserted" (`:88-93`);
`docs/POS-SALES-FLOW.md:24` calls the sale "transaction-safe". As committed, no sale that the till makes is: dine-in
and take-away sales never call the function, and a delivery with a key calls it, is told of the ambiguous column
and goes on call by call. The undo (`lib/services/pos-sales-service.ts:719`) deletes lines and order, not the deductions. In the run, without any fault,
a delivery that is refused for its second ingredient keeps the first, with a movement for an order that does not exist.
Only a delivery without a key is one transaction.

Other places where the code does not keep what a
document or comment of the repository says are quoted in section 7; the models follow the code.

## 6. Plan for a continuation

In this order:

1. Compositions: `TillOutbox` over the replay rules of `StockSale` and `OrderPayment` in place of its
   reduced server; payments with shifts, for what a closing adds up; `PosLogin` with `ShiftLifecycle`,
   which takes sessions as given.
2. The creation that follows a refused edit, the delayed tax update, DELETE of a table.
3. Rate limits with server processes; tax and pricing arithmetic as operators; the catalog's
   replacement of a recipe while sales read it.

The number of runs stays small: instances of one module are merged where they
answer the same question before a new module gets its own.

## 7. Observations without a run

Met while modelling; the models follow the code in each case.

* A bill can be paid twice under two keys: the payment function looks for its own key only and pays a
  completed bill again (`202605180003_pos_sales_tx.sql:361`).
* A success of INET can be lost: a claim whose handler died, or whose release was lost, answers
  every later callback with 200 "duplicate" (`app/api/payments/inet/callback/route.ts:379`), and INET
  stops repeating (`docs/INET-NOPS-UAT-TEST.md:35`).
* Two direct sales lose a deduction; the guarded update that `docs/STOCK-ENGINE-ARCHITECTURE.md:42,48`
  promises is made by `create_pos_order_tx` only, so for deliveries without a key.
* A payment of two lines under one key is refused by the unique index on the
  request group (`202605180003_pos_sales_tx.sql:6`), so a split payment cannot be made.
* An edit replaces the lines of a bill before the update that is filtered on its
  status (`app/api/pos/sales/route.ts:583`), so lines of a bill paid meanwhile may have been touched;
  the total it was paid for has not.
* `finalizePosPayment` closes the session and frees the table inside the branch that prints, so an overloaded
  print queue or a printing error leaves a paid bill's table occupied (`lib/payments/pos-payment-finalize.ts:88`);
  `docs/INET-NOPS-QR-OPERATIONS-MANUAL.md:73` says the table is released. `InetIntent` has the step (`PrintSkipped`).
* A failed direct sale deletes its order but leaves the ingredients it had
  already taken, and its movements (`lib/services/pos-sales-service.ts:719`).
* A repeated sale answers with an order whose first attempt has not written its lines
  or deducted its stock yet, or never will (`:455`).
* A branch that allows negative stock meets the check constraint of
  `202605180001_stock_engine_hardening.sql:8`, which refuses it.
* The limit of queued bills is counted before and apart from the insertion (`sales/route.ts:1065`).
* A correction repeated while the first is at work, or after it failed, changes stock again before its
  movement is refused (`item-ingredient-deduct/route.ts:377`); two restores may together give back more
  than was taken (`:365`).
* Attaching a bill overwrites the session's `order_id` with no filter, so a bill that a guest
  opened meanwhile can no longer be reached from the table (`lib/services/table-service.ts:250`); a move
  writes the `order_id` it read at its beginning (`move-bill/route.ts:105`) and accepts a reserved target (`:49`).
* A QR link issued while the bill is being paid stays active (`lib/table-qr-ordering.ts:134`).
* The clean-up of a payment that is sent again closes the session of the next guests (`pos/payments/route.ts:443`).
* Payments made by `POST /api/pos/payments` carry no `shift_id`, by which the closing summary adds them up
  (`pos/shifts/close/route.ts:254`); `/pay` compares the bill's shift before it settles, and an edit may move the bill to another shift.
* The older routes and the back office rewrite the figures of a shift that is closed already
  (`backoffice/shifts/close/route.ts:70`, `pos/shift/route.ts:154`).
* A bill that arrived on a shift after its closing cannot be paid through `/pay` (`order_shift_mismatch`).
* A check-out overwrites the check-in time with null (`lib/services/attendance-service.ts:258`).
* `POST /api/pos/orders` always passes a request id (`app/api/pos/orders/route.ts:165`), so its call of
  `create_pos_order_tx` raises, and it has no other way: as committed it creates no order. The function's own replay
  (`202605220005_ingredient_grams_and_pos_deduction.sql:84`) is never reached.
* Till. Paths are in `components/pos`. A held delivery bill that is sent again while its first key is
  queued draws a new key, and the basket is sold twice (`services/pos-sales-service-module.ts:613,710`), while the
  screen says "You can retry safely." (`pos-sales-module.tsx:993`) and
  `docs/POS-SALES-FLOW.md:15` that submits are idempotent. After an error page of a gateway the cart stays
  and the next checkout draws a new key. A payment that fails puts a sent delivery bill back into the list.
* A checkout off line leaves the active order set, so that the next customer's basket is sent as an edit of
  the previous bill; an edit that waits in the queue until its bill is no longer queued is
  created as a new bill (`app/api/pos/sales/route.ts:1043`).
* The replay effects have no timer of their own: a queue whose attempt failed waits for a change of state. A
  transfer that the server refuses stays at the head of its queue. The cash window does not look
  whether a queued transfer of the same bill is on its way. Restoring or sending a held bill overwrites the
  cart; a reload between two of the timers keeps one list new and another old; held bills are cut at 50.
* Logins. Two clicks of one user under one context: the second revokes the first's session before it is
  refused itself, so that the user is told of success with a session that is revoked. Answers that arrive in the
  other order leave the revoked session's cookie. A choice of a device that times out leaves
  an active session nobody holds. A refused login has already logged its user out elsewhere. The
  choice of a device does not await its consumption of the context, and errors of revoking are ignored.
  `updateCachedPosSessionShift` renews the kept row of a revoked session (`lib/pos-session-guard.ts`).
* Printing. Two reprints that read the same failed receipt print it twice, and a late `failed` overwrites
  `printed`. Jobs of requests that died stay open for good, are never reprinted, and count against
  `printQueueHardLimit`. Failed kitchen tickets cannot be reprinted, though `lib/table-qr-ordering.ts`
  says "Printing can be retried from the POS print queue". A failed statement at the receipt skips the
  kitchen ticket. A printer whose adapter timed out may have printed.

## 8. Not modelled

`components` in `PROJECT.json` lists every part with its reason. In short: rate limits,
approvals and slip checks, which refuse a request before it changes anything; parts
that read only (lists, summaries, displays); parts that edit single rows by one person (catalog, settings,
IT administration, attendance); parts that refuse requests as a whole (permissions, feature gates); screens,
translations and types. Within modelled parts: the figures of a shift's closing, manager approvals, transfer-slip checks
before a payment, the payload validation of a callback, DELETE of a table, service requests of guests.
