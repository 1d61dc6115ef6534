---------------------------- MODULE OrderPayment ----------------------------
(***************************************************************************)
(* Payment of POS bills.  Every request slot r runs one HTTP handler of    *)
(* the Next.js server together with the database call it issues:           *)
(*                                                                         *)
(*   "settle"  POST /api/pos/payments and finalizePosPayment (the INET     *)
(*             callback): complete_pos_payment_tx through withTimeout,     *)
(*             then the order's receipt snapshot                           *)
(*   "pay"     POST /api/pos/orders/[orderId]/pay: reads the order first,  *)
(*             calls the same function, then stamps the order              *)
(*   "edit"    POST /api/pos/sales with an order_id: replaces the items of *)
(*             a queued order in separate statements                       *)
(*                                                                         *)
(* Handlers interleave between any two database statements.  A handler may *)
(* time out or die while its database call runs on; the call then finishes *)
(* with nobody waiting for it.  Amounts are counted in satang (0.01 baht). *)
(***************************************************************************)
EXTENDS Integers

CONSTANTS Orders,      \* bills of one branch
          Groups,      \* payment keys: x-idempotency-key, or a fresh UUID
          Requests,    \* request slots of the server
          Prices,      \* what one submission of items costs, in satang
          Amounts,     \* what a request may offer to pay, in satang
          MaxTotal,    \* bound: table-QR submissions stop at this bill total
          Tolerance    \* accepted difference between paid and due, in satang

ASSUME ConstantsAssumption ==
  /\ "none" \notin Orders \union Groups
  /\ Prices \subseteq Nat \ {0}
  /\ Amounts \subseteq Nat
  /\ MaxTotal \in Nat
  /\ Tolerance \in Nat

VARIABLES
  order,      \* order[o]: the orders row and the sum of its order_items
  payment,    \* payment[o][g]: payments rows of o that carry key g
  req         \* req[r]: the handler in slot r and its database call

vars == <<order, payment, req>>

Status == {"queued", "completed", "cancelled"}
NoRows == [rows |-> 0, sum |-> 0]

\* What a finished complete_pos_payment_tx told the handler.
Success == {"settled", "replayed"}
Refused == {"invalid_amount", "unique_violation", "total_mismatch", "order_cancelled"}

Idle == [pc |-> "idle", route |-> "none", alive |-> FALSE, order |-> "none",
         group |-> "none", lines |-> 0, amount |-> 0, before |-> 0, result |-> "none"]

\* A handler that has just parsed its request.
Begin(pc, route, o, g, lines, amount, before) ==
  [pc |-> pc, route |-> route, alive |-> TRUE, order |-> o, group |-> g,
   lines |-> lines, amount |-> amount, before |-> before, result |-> "none"]

Close(a, b) == a - b <= Tolerance /\ b - a <= Tolerance

-----------------------------------------------------------------------------
\* A queued order has been created with one item line; nothing is paid yet.
Init ==
  /\ order \in [Orders -> {[status |-> "queued", total |-> t, items |-> t,
                            paidTotal |-> 0, receipt |-> FALSE] : t \in Prices}]
  /\ payment = [o \in Orders |-> [g \in Groups |-> NoRows]]
  /\ req = [r \in Requests |-> Idle]

Goto(r, pc) == req' = [req EXCEPT ![r].pc = pc]
Answer(r) == req' = [req EXCEPT ![r] = Idle]

\* The database call of r ends with `result`; an orphaned call reports to nobody.
Reply(r, result) ==
  req' = [req EXCEPT ![r] = IF @.alive THEN [@ EXCEPT !.pc = "replied", !.result = result]
                                       ELSE Idle]

-----------------------------------------------------------------------------
(* POST /api/pos/payments, finalizePosPayment: no look at the order's status; *)
(* the client supplies the payment lines.                                     *)
SettleArrives(r, o, g, lines, amount) ==
  /\ req[r].pc = "idle"
  /\ req' = [req EXCEPT ![r] = Begin("sent", "settle", o, g, lines, amount, 0)]
  /\ UNCHANGED <<order, payment>>

(* POST /api/pos/orders/[orderId]/pay: the guards on the row it has read.     *)
PayArrives(r, o, g, amount) ==
  /\ req[r].pc = "idle"
  /\ order[o].status \notin {"cancelled", "completed"}
  /\ amount > 0
  /\ Close(amount, order[o].total - order[o].paidTotal)
  /\ req' = [req EXCEPT ![r] = Begin("sent", "pay", o, g, 1, amount, order[o].paidTotal)]
  /\ UNCHANGED <<order, payment>>

-----------------------------------------------------------------------------
(* complete_pos_payment_tx.  The replay check runs before the row lock.       *)
TxReplay(r) ==
  /\ req[r].pc = "sent"
  /\ payment[req[r].order][req[r].group].rows > 0
  /\ Reply(r, "replayed")
  /\ UNCHANGED <<order, payment>>

TxNotSeen(r) ==
  /\ req[r].pc = "sent"
  /\ payment[req[r].order][req[r].group].rows = 0
  /\ Goto(r, "checked")
  /\ UNCHANGED <<order, payment>>

\* Mutant: idx_payments_tenant_branch_order_request_group does not exist.
TxRefusalWithoutIndex(r) ==
  LET q == req[r] IN
  IF q.amount < q.lines THEN "invalid_amount"
  ELSE IF ~Close(q.amount, order[q.order].total) THEN "total_mismatch"
  ELSE IF order[q.order].status = "cancelled" THEN "order_cancelled"
  ELSE "none"

\* Mutant: the final update forgets "status <> 'cancelled'".
TxRefusalOfNoCancelled(r) ==
  LET q == req[r] IN
  IF q.amount < q.lines THEN "invalid_amount"
  ELSE IF payment[q.order][q.group].rows + q.lines > 1 THEN "unique_violation"
  ELSE IF ~Close(q.amount, order[q.order].total) THEN "total_mismatch"
  ELSE "none"

\* Why the rest of the function, which holds the order's row lock, raises.
TxRefusal(r) ==
  LET q == req[r] IN
  IF q.amount < q.lines THEN "invalid_amount"
  ELSE IF payment[q.order][q.group].rows + q.lines > 1 THEN "unique_violation"
  ELSE IF ~Close(q.amount, order[q.order].total) THEN "total_mismatch"
  ELSE IF order[q.order].status = "cancelled" THEN "order_cancelled"
  ELSE "none"

TxCommit(r) ==
  LET q == req[r] IN
  /\ q.pc = "checked"
  /\ TxRefusal(r) = "none"
  /\ payment' = [payment EXCEPT ![q.order][q.group] =
                   [rows |-> @.rows + q.lines, sum |-> @.sum + q.amount]]
  /\ order' = [order EXCEPT ![q.order].status = "completed"]
  /\ Reply(r, "settled")

TxAbort(r) ==
  /\ req[r].pc = "checked"
  /\ TxRefusal(r) # "none"
  /\ Reply(r, TxRefusal(r))
  /\ UNCHANGED <<order, payment>>

-----------------------------------------------------------------------------
(* The handlers after the call.                                               *)
RefusedAnswer(r) ==
  /\ req[r].pc = "replied"
  /\ req[r].result \in Refused
  /\ Answer(r)
  /\ UNCHANGED <<order, payment>>

SettleSnapshot(r) ==
  /\ req[r].pc = "replied"
  /\ req[r].route = "settle"
  /\ req[r].result \in Success
  /\ order' = [order EXCEPT ![req[r].order].receipt = TRUE]
  /\ Answer(r)
  /\ UNCHANGED payment

\* Mutant: /pay goes on although the function raised.
PayMarkRowsDespiteError(r) ==
  /\ req[r].pc = "replied"
  /\ req[r].route = "pay"
  /\ Goto(r, "marked")
  /\ UNCHANGED <<order, payment>>

\* /pay marks the payments rows it paid, then overwrites paid_total and status.
PayMarkRows(r) ==
  /\ req[r].pc = "replied"
  /\ req[r].route = "pay"
  /\ req[r].result \in Success
  /\ Goto(r, "marked")
  /\ UNCHANGED <<order, payment>>

PaidAmount(r) ==
  IF req[r].result = "replayed" THEN payment[req[r].order][req[r].group].sum ELSE req[r].amount

PayStampOrder(r) ==
  /\ req[r].pc = "marked"
  /\ order' = [order EXCEPT ![req[r].order].paidTotal = req[r].before + PaidAmount(r),
                            ![req[r].order].status = "completed"]
  /\ Answer(r)
  /\ UNCHANGED payment

-----------------------------------------------------------------------------
(* updateQueuedPosOrder: read the order, read and delete its items, insert    *)
(* the new ones, update the order where it is still queued.                   *)
EditArrives(r, o, amount) ==
  /\ req[r].pc = "idle"
  /\ order[o].status = "queued"
  /\ req' = [req EXCEPT ![r] = Begin("edit_read", "edit", o, "none", 0, amount, 0)]
  /\ UNCHANGED <<order, payment>>

EditReadItems(r) ==
  /\ req[r].pc = "edit_read"
  /\ order[req[r].order].items <= MaxTotal        \* bound: races pile items up
  /\ req' = [req EXCEPT ![r].pc = "edit_loaded", ![r].before = order[req[r].order].items]
  /\ UNCHANGED <<order, payment>>

EditDeleteItems(r) ==
  /\ req[r].pc = "edit_loaded"
  /\ order' = [order EXCEPT ![req[r].order].items = 0]
  /\ Goto(r, "edit_deleted")
  /\ UNCHANGED payment

EditInsertItems(r) ==
  /\ req[r].pc = "edit_deleted"
  /\ order' = [order EXCEPT ![req[r].order].items = @ + req[r].amount]
  /\ Goto(r, "edit_inserted")
  /\ UNCHANGED payment

EditInsertFails(r) ==
  /\ req[r].pc = "edit_deleted"
  /\ Goto(r, "edit_failed")
  /\ UNCHANGED <<order, payment>>

\* The update of the orders row failed: the new items are deleted again.
EditUpdateFails(r) ==
  /\ req[r].pc = "edit_inserted"
  /\ order' = [order EXCEPT ![req[r].order].items = 0]
  /\ Goto(r, "edit_failed")
  /\ UNCHANGED payment

\* The items read before the delete are put back.
EditRestoreItems(r) ==
  /\ req[r].pc = "edit_failed"
  /\ order' = [order EXCEPT ![req[r].order].items = @ + req[r].before]
  /\ Answer(r)
  /\ UNCHANGED payment

\* Mutant: the update forgets .eq("status", "queued").
EditUpdateOrderUnguarded(r) ==
  /\ req[r].pc = "edit_inserted"
  /\ order' = [order EXCEPT ![req[r].order].total = req[r].amount]
  /\ Answer(r)
  /\ UNCHANGED payment

EditUpdateOrder(r) ==
  /\ req[r].pc = "edit_inserted"
  /\ order' = IF order[req[r].order].status = "queued"
              THEN [order EXCEPT ![req[r].order].total = req[r].amount]
              ELSE order
  /\ Answer(r)
  /\ UNCHANGED payment

-----------------------------------------------------------------------------
(* withTimeout gives up on the call, or the server process dies: a database   *)
(* call already sent runs on, the remaining steps of the handler are lost.    *)
TimeOut(r) ==
  /\ req[r].pc \in {"sent", "checked"}
  /\ req[r].route = "settle"
  /\ req[r].alive
  /\ req' = [req EXCEPT ![r].alive = FALSE]
  /\ UNCHANGED <<order, payment>>

HandlerDies(r) ==
  /\ req[r].alive
  /\ req' = [req EXCEPT ![r] = IF @.pc \in {"sent", "checked"} THEN [@ EXCEPT !.alive = FALSE]
                                                               ELSE Idle]
  /\ UNCHANGED <<order, payment>>

-----------------------------------------------------------------------------
\* Mutant: the cancel route forgets .eq("status", "queued").
CancelOrderUnguarded(o) ==
  /\ order[o].status # "cancelled"
  /\ order' = [order EXCEPT ![o].status = "cancelled"]
  /\ UNCHANGED <<payment, req>>

(* Writers of an order that are a single statement or transaction.            *)
CancelOrder(o) ==
  /\ order[o].status = "queued"
  /\ order' = [order EXCEPT ![o].status = "cancelled"]
  /\ UNCHANGED <<payment, req>>

\* submit_table_qr_order_tx adds items to the queued order and re-totals it.
TableQrSubmit(o, amount) ==
  /\ order[o].status = "queued"
  /\ order[o].items + amount <= MaxTotal          \* bound
  /\ order' = [order EXCEPT ![o].items = @ + amount, ![o].total = order[o].items + amount]
  /\ UNCHANGED <<payment, req>>

Call(r) == TxReplay(r) \/ TxNotSeen(r) \/ TxCommit(r) \/ TxAbort(r)

Handler(r) ==
  \/ RefusedAnswer(r) \/ SettleSnapshot(r) \/ PayMarkRows(r) \/ PayStampOrder(r)
  \/ EditReadItems(r) \/ EditDeleteItems(r) \/ EditInsertItems(r) \/ EditUpdateOrder(r)
  \/ EditInsertFails(r) \/ EditUpdateFails(r) \/ EditRestoreItems(r)

Next ==
  \/ \E r \in Requests :
       \/ Call(r) \/ Handler(r) \/ TimeOut(r) \/ HandlerDies(r)
       \/ \E o \in Orders, g \in Groups, amount \in Amounts :
            \/ \E lines \in 1 .. 2 : SettleArrives(r, o, g, lines, amount)
            \/ PayArrives(r, o, g, amount)
       \/ \E o \in Orders, amount \in Prices : EditArrives(r, o, amount)
  \/ \E o \in Orders : CancelOrder(o) \/ \E amount \in Prices : TableQrSubmit(o, amount)

Spec == Init /\ [][Next]_vars

-----------------------------------------------------------------------------
OrderRow == [status : Status, total : Nat, items : Nat, paidTotal : Nat, receipt : BOOLEAN]
GroupRows == [rows : Nat, sum : Nat]
EditSteps == {"edit_read", "edit_loaded", "edit_deleted", "edit_inserted", "edit_failed"}
Request ==
  [pc : {"idle", "sent", "checked", "replied", "marked"} \union EditSteps,
   route : {"none", "settle", "pay", "edit"}, alive : BOOLEAN,
   order : Orders \union {"none"}, group : Groups \union {"none"},
   lines : 0 .. 2, amount : Nat, before : Nat,
   result : {"none"} \union Success \union Refused]

TypeOK ==
  /\ order \in [Orders -> OrderRow]
  /\ payment \in [Orders -> [Groups -> GroupRows]]
  /\ req \in [Requests -> Request]

\* A payment key settles an order at most once: a replay, a concurrent twin or a retry
\* after withTimeout's 504 never adds a second row for the same key, although the
\* replay check of complete_pos_payment_tx runs before it locks the order.
GroupPaidOnce == \A o \in Orders, g \in Groups : payment[o][g].rows <= 1

\* Whatever the order in which a payment, a cancellation and /pay's unconditional
\* overwrite of the status reach the row, money is never held for a cancelled bill.
PaidNeverCancelled ==
  \A o \in Orders, g \in Groups : payment[o][g].rows > 0 => order[o].status = "completed"

\* Every recorded settlement matches the total the bill ended with: no table-QR
\* submission or item edit re-prices a bill under a payment that was computed before.
PaidExactly ==
  \A o \in Orders, g \in Groups : payment[o][g].rows > 0 => Close(payment[o][g].sum, order[o].total)

\* No handler completes a bill that nobody paid: /pay sets the status without looking,
\* so the success it was told must imply a committed payment, also on a replay.
CompletedIsPaid ==
  \A o \in Orders : order[o].status = "completed" => \E g \in Groups : payment[o][g].rows > 0

-----------------------------------------------------------------------------
Ledger == INSTANCE PaymentLedger WITH
  status <- [o \in Orders |-> order[o].status],
  total  <- [o \in Orders |-> order[o].total],
  paid   <- payment

\* The three handlers and the function together keep the ledger's promise: one settlement
\* per key, of exactly the frozen total, on a bill that is not cancelled, and a status that
\* only moves from queued.
LedgerSpec == Ledger!Spec
=============================================================================
