----------------------------- MODULE StockSale -----------------------------
(***************************************************************************)
(* Creation of an order by POST /api/pos/sales and the deduction of its    *)
(* recipe from the ingredients.  Dine-in and take-away sales run           *)
(* executeCreatePosOrderDirectFallback, one database call after another.   *)
(* A delivery sale first calls create_pos_order_tx, raced against a        *)
(* time-out.  Without an idempotency key that is one transaction; with one *)
(* the function raises before it writes (its look-up of the key names      *)
(* columns that are output parameters too), and the handler goes on with   *)
(* the direct path.  A handler s serves one request; handlers with the     *)
(* same x-idempotency-key serve repetitions of one request.  The order     *)
(* that s inserts is called s as well.                                     *)
(***************************************************************************)
EXTENDS Stock

CONSTANTS Sales,          \* handlers of POST /api/pos/sales
          TxSales,        \* those of delivery sales
          RequestOf,      \* RequestOf[s]: the key that s serves, or NoKey
          NoKey,          \* of a request without x-idempotency-key
          QueueLimit,     \* POS_GUARDS.orderQueueHardLimit
          Faulty          \* whether handlers may die and database calls may error

ASSUME ConstantsAssumption ==
  /\ TxSales \subseteq Sales
  /\ RequestOf \in [Sales -> Keys \union {NoKey}]
  /\ NoKey \notin Keys
  /\ Need \in [Ingredients -> Nat \ {0}]
  /\ Opening \in [Ingredients -> Nat]
  /\ "none" \notin Ingredients
  /\ QueueLimit \in Nat
  /\ Faulty \in BOOLEAN

VARIABLES
  moved,    \* moved[s]: the ingredients with a stock_movements row for order s
  rows,     \* orders that have an orders row (all of them queued)
  lines,    \* orders that have their order_items
  handler   \* handler[s]: the state of s

vars == <<stock, moved, rows, lines, negative, handler>>

Init ==
  /\ stock = Opening
  /\ moved = [s \in Sales |-> {}]
  /\ rows = {}
  /\ lines = {}
  /\ negative = FALSE
  /\ handler = [s \in Sales |-> [pc |-> "arrived", allow |-> FALSE, seen |-> Opening, left |-> {},
                                 at |-> "none", answer |-> "none"]]

OrdersOf(k) == {s \in rows : RequestOf[s] = k}
Keyed(s) == RequestOf[s] # NoKey
\* There is an order with the key of s (of which idx_orders_tenant_branch_request_id allows one).
Taken(s) == Keyed(s) /\ OrdersOf(RequestOf[s]) # {}
Step(s, pc) == handler' = [handler EXCEPT ![s].pc = pc]
Answer(s, answer) == handler' = [handler EXCEPT ![s].pc = "ended", ![s].answer = answer]
\* The handler knows what it will answer, and starts to delete what it has written.
Undo(s, pc, answer) == handler' = [handler EXCEPT ![s].pc = pc, ![s].answer = answer]

-----------------------------------------------------------------------------
(* POST /api/pos/sales up to executeCreatePosOrderTransaction                 *)

Admit(s) ==
  /\ handler[s].pc = "arrived"
  /\ Cardinality(rows) < QueueLimit
  /\ Step(s, IF s \in TxSales THEN "tx" ELSE "lookup")
  /\ UNCHANGED <<stock, moved, rows, lines>>

\* No open shift, an invalid cart, or a full queue.
Reject(s) ==
  /\ handler[s].pc \in {"arrived", "insert"}
  /\ Answer(s, "rejected")
  /\ UNCHANGED <<stock, moved, rows, lines>>

-----------------------------------------------------------------------------
(* executeCreatePosOrderDirectFallback                                        *)

Lookup(s) ==
  /\ handler[s].pc = "lookup"
  /\ IF Taken(s) THEN Answer(s, "replayed") ELSE Step(s, "insert")
  /\ UNCHANGED <<stock, moved, rows, lines>>

\* Mutant: request_id is not unique.
InsertOrderUnindexed(s) ==
  /\ handler[s].pc = "insert"
  /\ rows' = rows \union {s}
  /\ Step(s, "items")
  /\ UNCHANGED <<stock, moved, lines>>

InsertOrder(s) ==
  /\ handler[s].pc = "insert"
  /\ ~Taken(s)
  /\ rows' = rows \union {s}
  /\ Step(s, "items")
  /\ UNCHANGED <<stock, moved, lines>>

\* The unique index refused the third attempt; a handler that waits at "insert" makes the others.
InsertRefused(s) ==
  /\ handler[s].pc = "insert"
  /\ Taken(s)
  /\ Answer(s, "failed")
  /\ UNCHANGED <<stock, moved, rows, lines>>

InsertItems(s) ==
  /\ handler[s].pc = "items"
  /\ lines' = lines \union {s}
  /\ Step(s, "setting")
  /\ UNCHANGED <<stock, moved, rows>>

-----------------------------------------------------------------------------
(* deductIngredientStockForOrderFallback                                      *)

Sufficient == \A i \in Ingredients : stock[i] >= Need[i]

\* resolveAllowNegativeStock
ReadSetting(s) ==
  /\ handler[s].pc = "setting"
  /\ handler' = [handler EXCEPT ![s].pc = "read", ![s].allow = negative]
  /\ UNCHANGED <<stock, moved, rows, lines>>

ReadStock(s) ==
  /\ handler[s].pc = "read"
  /\ Sufficient \/ handler[s].allow
  /\ handler' = [handler EXCEPT ![s].pc = "deduct", ![s].seen = stock, ![s].left = Ingredients]
  /\ UNCHANGED <<stock, moved, rows, lines>>

\* softBypassInsufficientStock: the order is kept and nothing is deducted.
BypassStock(s) ==
  /\ handler[s].pc = "read"
  /\ s \notin TxSales
  /\ ~Sufficient /\ ~handler[s].allow
  /\ Answer(s, "bypassed")
  /\ UNCHANGED <<stock, moved, rows, lines>>

\* A delivery that goes on after the function raised is not bypassed: it is refused and undone.
DeliveryShort(s) ==
  /\ handler[s].pc = "read"
  /\ s \in TxSales
  /\ ~Sufficient /\ ~handler[s].allow
  /\ Undo(s, "unlines", "short")
  /\ UNCHANGED <<stock, moved, rows, lines>>

\* The update is guarded by quantity_on_hand >= required, unless stock might be negative when
\* the handler looked.
Matches(s, i) == handler[s].allow \/ stock[i] >= Need[i]

Remaining(s, i) == handler[s].seen[i] - Need[i]

\* Writes what was read minus what is needed.  An update that matches no row is not an error.
Deduct(s, i) ==
  /\ handler[s].pc = "deduct"
  /\ i \in handler[s].left
  /\ Matches(s, i) => Remaining(s, i) >= 0
  /\ stock' = [stock EXCEPT ![i] = IF Matches(s, i) THEN Remaining(s, i) ELSE @]
  /\ handler' = [handler EXCEPT ![s].pc = "move", ![s].at = i, ![s].left = @ \ {i}]
  /\ UNCHANGED <<moved, rows, lines>>

\* chk_ingredients_quantity_non_negative refuses the update.
DeductRefused(s, i) ==
  /\ handler[s].pc = "deduct"
  /\ i \in handler[s].left
  /\ Matches(s, i) /\ Remaining(s, i) < 0
  /\ Undo(s, "unlines", "short")
  /\ UNCHANGED <<stock, moved, rows, lines>>

\* Mutant: the movement is not written.
RecordMovementLost(s) ==
  /\ handler[s].pc = "move"
  /\ IF handler[s].left = {} THEN Answer(s, "sold") ELSE Step(s, "deduct")
  /\ UNCHANGED <<stock, moved, rows, lines>>

RecordMovement(s) ==
  /\ handler[s].pc = "move"
  /\ moved' = [moved EXCEPT ![s] = @ \union {handler[s].at}]
  /\ IF handler[s].left = {} THEN Answer(s, "sold") ELSE Step(s, "deduct")
  /\ UNCHANGED <<stock, rows, lines>>

-----------------------------------------------------------------------------
(* What is undone when a step fails: items and order, never stock.            *)

DeleteItems(s) ==
  /\ handler[s].pc = "unlines"
  /\ lines' = lines \ {s}
  /\ Step(s, "unorder")
  /\ UNCHANGED <<stock, moved, rows>>

\* order_items and anything else that references the order goes with it; stock_movements does not.
DeleteOrder(s) ==
  /\ handler[s].pc = "unorder"
  /\ rows' = rows \ {s}
  /\ lines' = lines \ {s}
  /\ Step(s, "ended")
  /\ UNCHANGED <<stock, moved>>

-----------------------------------------------------------------------------
(* A database call of the direct path raises, or the handler dies.            *)

\* Mutant: an error of the movement insert is ignored.
CallFailsUnnoticed(s) ==
  /\ Faulty
  /\ handler[s].pc = "move"
  /\ IF handler[s].left = {} THEN Answer(s, "sold") ELSE Step(s, "deduct")
  /\ UNCHANGED <<stock, moved, rows, lines>>

\* The results of the two deletes are not looked at.
CallFails(s) ==
  /\ Faulty
  /\ handler[s].pc \in {"lookup", "insert", "items", "setting", "read", "deduct", "move", "unlines", "unorder"}
  /\ CASE handler[s].pc \in {"lookup", "insert"} -> Answer(s, "failed")
       [] handler[s].pc = "items" -> Undo(s, "unorder", "failed")
       [] handler[s].pc \in {"setting", "read", "deduct", "move"} -> Undo(s, "unlines", "failed")
       [] handler[s].pc = "unlines" -> Step(s, "unorder")
       [] handler[s].pc = "unorder" -> Step(s, "ended")
  /\ UNCHANGED <<stock, moved, rows, lines>>

HandlerDies(s) ==
  /\ Faulty
  /\ handler[s].pc \notin {"ended", "dead"}
  /\ Step(s, IF handler[s].pc \in {"tx", "orphan"} THEN "orphan" ELSE "dead")
  /\ UNCHANGED <<stock, moved, rows, lines>>

-----------------------------------------------------------------------------
(* create_pos_order_tx                                                        *)

InTx(s) == handler[s].pc \in {"tx", "orphan"}
\* The answer reaches the handler unless it gave up before.
TxAnswer(s, answer) ==
  Answer(s, IF handler[s].pc = "tx" THEN answer ELSE handler[s].answer)

\* With a key: "order_no" is ambiguous in the look-up of the key, and nothing is written.  A
\* handler that still waits takes the direct path.
TxRaises(s) ==
  /\ InTx(s) /\ Keyed(s)
  /\ Step(s, IF handler[s].pc = "tx" THEN "lookup" ELSE "ended")
  /\ UNCHANGED <<stock, moved, rows, lines>>

TxSells(s) ==
  /\ InTx(s) /\ ~Keyed(s)
  /\ Sufficient
  /\ stock' = [i \in Ingredients |-> stock[i] - Need[i]]
  /\ moved' = [moved EXCEPT ![s] = Ingredients]
  /\ rows' = rows \union {s}
  /\ lines' = lines \union {s}
  /\ TxAnswer(s, "sold")

\* INSUFFICIENT_STOCK, or the check constraint when stock may be negative: all is rolled back.
TxShort(s) ==
  /\ InTx(s) /\ ~Keyed(s)
  /\ ~Sufficient
  /\ TxAnswer(s, "short")
  /\ UNCHANGED <<stock, moved, rows, lines>>

\* SHIFT_NOT_OPEN, PRODUCT_NOT_FOUND, a deadlock with another sale: rolled back as well.  With a
\* key the function does not get that far, but its call may fail.
TxRejects(s) ==
  /\ InTx(s)
  /\ ~Keyed(s) \/ Faulty
  /\ TxAnswer(s, "rejected")
  /\ UNCHANGED <<stock, moved, rows, lines>>

\* withTimeout gives up; the transaction runs on.
TxTimesOut(s) ==
  /\ handler[s].pc = "tx"
  /\ Undo(s, "orphan", "timeout")
  /\ UNCHANGED <<stock, moved, rows, lines>>

-----------------------------------------------------------------------------
DirectStep(s) ==
  \/ Lookup(s) \/ InsertOrder(s) \/ InsertRefused(s) \/ InsertItems(s)
  \/ ReadSetting(s) \/ ReadStock(s) \/ BypassStock(s) \/ DeliveryShort(s)
  \/ \E i \in Ingredients : Deduct(s, i) \/ DeductRefused(s, i)
  \/ RecordMovement(s) \/ DeleteItems(s) \/ DeleteOrder(s)
  \/ CallFails(s)

TxStep(s) ==
  TxRaises(s) \/ TxSells(s) \/ TxShort(s) \/ TxRejects(s) \/ TxTimesOut(s)

\* POST /api/backoffice/stock/settings
SetNegativeStock ==
  /\ negative' = ~negative
  /\ UNCHANGED <<stock, moved, rows, lines, handler>>

Next ==
  \/ /\ \E s \in Sales :
          Admit(s) \/ Reject(s) \/ DirectStep(s) \/ TxStep(s) \/ HandlerDies(s)
     /\ UNCHANGED negative
  \/ SetNegativeStock

Spec == Init /\ [][Next]_vars

-----------------------------------------------------------------------------
Steps == {"arrived", "lookup", "insert", "items", "setting", "read", "deduct", "move", "unlines", "unorder",
          "tx", "orphan", "ended", "dead"}
Answers == {"none", "rejected", "replayed", "failed", "short", "bypassed", "sold", "timeout"}
HandlerState == [pc : Steps, allow : BOOLEAN, seen : [Ingredients -> Nat], left : SUBSET Ingredients,
                 at : Ingredients \union {"none"}, answer : Answers]

\* Stock is a natural number: no interleaving of sales, stale reads or errors makes it negative.
TypeOK ==
  /\ stock \in [Ingredients -> Nat]
  /\ moved \in [Sales -> SUBSET Ingredients]
  /\ rows \subseteq Sales
  /\ lines \subseteq Sales
  /\ negative \in BOOLEAN
  /\ handler \in [Sales -> HandlerState]

\* Repeating a request, also while the first attempt is at work or after it failed half-way,
\* never makes a second order.
OneOrderPerKey == \A k \in Keys : Cardinality(OrdersOf(k)) <= 1

\* An order reported as sold is whole: its items are there, and either all of its ingredients
\* were booked or the answer said that stock was bypassed.
SoldOrderIsWhole ==
  \A s \in Sales :
    /\ handler[s].answer = "sold" => s \in rows \intersect lines /\ moved[s] = Ingredients
    /\ handler[s].answer = "bypassed" => s \in rows \intersect lines /\ moved[s] = {}

\* Whatever is lost between concurrent sales is lost in one direction: stock never falls by more
\* than the sales that have come as far as writing to the ingredient can account for.
Drew(i) == {s \in Sales : i \in moved[s] \/ handler[s].at = i}
NeverOverdrawn == \A i \in Ingredients : Opening[i] - stock[i] <= Need[i] * Cardinality(Drew(i))

\* What the documentation promises of a sale that is refused (docs/STOCK-ENGINE-ARCHITECTURE.md:5,
\* "Keep order creation + recipe deduction atomic", and :8, "Ensure rollback safety when deduction
\* fails"): when the handler has answered, nothing was booked for the order.
RefusedSaleTookNothing ==
  \A s \in Sales : handler[s].pc = "ended" /\ handler[s].answer \in {"failed", "short"} => moved[s] = {}

=============================================================================
