----------------------------- MODULE TillOutbox -----------------------------
(***************************************************************************)
(* The sales screen of one till (components/pos/pos-sales-module.tsx) and  *)
(* its two queues: bills and transfers that could not be sent are kept in  *)
(* React state, copied to localStorage by timers, and sent again under     *)
(* their x-idempotency-key when the till believes to be online.  Requests  *)
(* travel to a server that is reduced to what the till can observe of it:  *)
(* POST /api/pos/sales and POST /api/pos/payments.  Answers may be lost,   *)
(* requests may be served after the till stopped waiting, and the tab may  *)
(* be reloaded at any moment.                                              *)
(***************************************************************************)
EXTENDS Naturals, Sequences, FiniteSets, SequencesExt

CONSTANTS Baskets,      \* what one customer buys
          Delivery,     \* those that come from a delivery app
          None,         \* no basket
          MaxEvents     \* bound: x-idempotency-keys that the till draws, and reloads of its tab

ASSUME ConstantsAssumption ==
  /\ Delivery \subseteq Baskets
  /\ None \notin Baskets
  /\ MaxEvents \in Nat

VARIABLES
  row,       \* row[k]: the basket of the order that the request with key k created
  settled,   \* settled[k]: keys of the payments of that order
  served,    \* keys of the requests the server has carried out
  cart, active, review,  \* the basket in the cart, the active order, the order in the payment window
  held,      \* heldBills: status of each basket, and the order it came from
  outbox,    \* pendingQueue
  payBox,    \* pendingPaymentQueue
  online,    \* isOnline
  hydrated,  \* isHydrated
  busy,      \* the flags submitting, transferSubmitting, cashSubmitting, and the refs that guard
  calls,     \* fetches the till awaits
  late,      \* requests it no longer awaits and that the server may still get
  disk,      \* localStorage
  issued,    \* keys drawn so far
  reloads,
  past       \* history: keys taken into a queue, dropped on a conflict, lost by a reload;
             \* baskets rung up or cancelled; whether a reload came between two writes

server == <<row, settled, served>>
screen == <<cart, active, review, held>>
queues == <<outbox, payBox>>
vars == <<row, settled, served, cart, active, review, held, outbox, payBox, online, hydrated,
          busy, calls, late, disk, issued, reloads, past>>

Keys == 1..MaxEvents
NoOrder == 0
Free == [status |-> "none", order |-> NoOrder]
Memory == [cart |-> cart, active |-> active, held |-> held, outbox |-> outbox, payBox |-> payBox]

Init ==
  /\ row = [k \in Keys |-> None]
  /\ settled = [k \in Keys |-> {}]
  /\ served = {}
  /\ cart = None /\ active = NoOrder /\ review = NoOrder
  /\ held = [b \in Baskets |-> Free]
  /\ outbox = <<>> /\ payBox = <<>>
  /\ online = TRUE
  /\ hydrated = TRUE
  /\ busy = {}
  /\ calls = {} /\ late = {}
  /\ disk = Memory
  /\ issued = 0 /\ reloads = 0
  /\ past = [kept |-> {}, dropped |-> {}, lost |-> {}, rung |-> {},
             cancelled |-> {}, torn |-> FALSE]

-----------------------------------------------------------------------------
(* features/pending-queue.ts                                                  *)

KeysOf(q) == {q[i].key : i \in DOMAIN q}
Enqueue(q, entry) == IF entry.key \in KeysOf(q) THEN q ELSE Append(q, entry)
\* A key is in a queue once at most.
Dequeue(q, key) ==
  IF key \in KeysOf(q) THEN RemoveAt(q, CHOOSE i \in DOMAIN q : q[i].key = key) ELSE q

\* An entry is a request: its key, the route it goes to and its payload.
Bill(key, basket, order) == [key |-> key, to |-> "sales", basket |-> basket, order |-> order]
Payment(key, order) == [key |-> key, to |-> "payments", basket |-> row[order], order |-> order]
Call(by, entry) == [by |-> by, entry |-> entry]

FreshKey == issued + 1
MoreToCome == issued + reloads < MaxEvents
DrawKey == MoreToCome /\ issued' = issued + 1
Keep(key) == past' = [past EXCEPT !.kept = @ \union {key}]

IsBusy == busy \intersect {"submitting", "transfer", "cash"} # {}

-----------------------------------------------------------------------------
(* The server, as the till sees it                                            *)

Editable(order) == order # NoOrder /\ row[order] # None /\ settled[order] = {}

\* POST /api/pos/sales: an edit of a queued bill, a repetition, or a new bill; an edit of a bill
\* that is no longer queued goes on as the creation of one under the same key.
Sold(entry) == IF Editable(entry.order) THEN entry.order ELSE entry.key

CarryOutSale(entry) ==
  /\ row' = [row EXCEPT ![Sold(entry)] =
               IF Editable(entry.order) \/ row[entry.key] = None THEN entry.basket ELSE @]
  /\ UNCHANGED settled

\* POST /api/pos/payments
CarryOutPayment(entry) ==
  /\ settled' = [settled EXCEPT ![entry.order] = @ \union {entry.key}]
  /\ UNCHANGED row

CarryOut(entry) ==
  /\ IF entry.to = "sales" THEN CarryOutSale(entry) ELSE CarryOutPayment(entry)
  /\ served' = served \union {entry.key}

\* A request reaches the server after the till stopped waiting for it, or its answer was lost.
ServeLate(entry) ==
  /\ CarryOut(entry)
  /\ late' = late \ {entry}
  /\ UNCHANGED <<screen, queues, online, hydrated, busy, calls, disk, issued, reloads, past>>

-----------------------------------------------------------------------------
(* How an awaited fetch ends                                                  *)

\* setIsOnline(true) after an answer, markConnectivityFromError after an error.
Answered(call) ==
  /\ CarryOut(call.entry)
  /\ calls' = calls \ {call}
  /\ online' = TRUE
  /\ UNCHANGED late

\* shift_not_open and the like: only the queue of bills knows conflicts.
Conflict(call) ==
  /\ call.entry.to = "sales"
  /\ calls' = calls \ {call}
  /\ UNCHANGED <<server, online, late>>

\* A time-out or no network (isConnectivityIssueMessage): what the server does is unknown.
Lost(call) ==
  /\ calls' = calls \ {call}
  /\ late' = late \union {call.entry}
  /\ online' = FALSE
  /\ UNCHANGED server

\* Any other error: a refusal, or an error page of the gateway while the server carries on.
Failed(call) ==
  /\ calls' = calls \ {call}
  /\ late' \in {late, late \union {call.entry}}
  /\ UNCHANGED <<server, online>>

Unsent(call) == Lost(call) \/ Failed(call)

Clear(flags) == busy' = busy \ flags
ClosedFor(order) == IF active = order THEN NoOrder ELSE active

-----------------------------------------------------------------------------
(* The cart and the held bills                                                *)

RingUp(b) ==
  /\ hydrated /\ ~IsBusy
  /\ cart = None /\ review = NoOrder
  /\ b \notin past.rung \union Delivery
  /\ cart' = b
  /\ past' = [past EXCEPT !.rung = @ \union {b}]
  /\ UNCHANGED <<server, active, review, held, queues, online, hydrated, busy, calls, late, disk,
                 issued, reloads>>

\* stageCurrentDeliveryOrder, after applyQuickMode has emptied the cart and the active order.
StageDelivery(b) ==
  /\ hydrated /\ ~IsBusy /\ "lock" \notin busy
  /\ cart = None /\ review = NoOrder
  /\ b \in Delivery \ past.rung
  /\ held' = [held EXCEPT ![b].status = "pending"]
  /\ active' = NoOrder
  /\ past' = [past EXCEPT !.rung = @ \union {b}]
  /\ UNCHANGED <<server, cart, review, queues, online, hydrated, busy, calls, late, disk, issued,
                 reloads>>

\* The actions of one held bill wait for each other (deliveryActionQueueByBillRef).
CancelDelivery(b) ==
  /\ hydrated /\ b \in Delivery
  /\ held[b].status \in {"pending", "sending"}
  /\ \A call \in calls : call.by \in {"send", "sendPay"} => call.entry.basket # b
  /\ held' = [held EXCEPT ![b] = Free]
  /\ past' = [past EXCEPT !.cancelled = @ \union {b}]
  /\ UNCHANGED <<server, cart, active, review, queues, online, hydrated, busy, calls, late, disk,
                 issued, reloads>>

\* The panel disables its buttons while isBusy.
HoldBill ==
  /\ hydrated /\ ~IsBusy
  /\ cart # None /\ review = NoOrder
  /\ held' = [held EXCEPT ![cart] = [status |-> "held", order |-> active]]
  /\ cart' = None
  /\ active' = NoOrder
  /\ UNCHANGED <<server, review, queues, online, hydrated, busy, calls, late, disk, issued,
                 reloads, past>>

\* What the cart held before is gone.
RestoreHeldBill(b) ==
  /\ hydrated /\ ~IsBusy
  /\ held[b].status = "held" /\ review = NoOrder
  /\ cart' = b
  /\ active' = held[b].order
  /\ held' = [held EXCEPT ![b] = Free]
  /\ UNCHANGED <<server, review, queues, online, hydrated, busy, calls, late, disk, issued,
                 reloads, past>>

CloseReview ==
  /\ review # NoOrder
  /\ review' = NoOrder
  /\ UNCHANGED <<server, cart, active, held, queues, online, hydrated, busy, calls, late, disk,
                 issued, reloads, past>>

-----------------------------------------------------------------------------
(* handleCheckout                                                             *)

CanCheckout == hydrated /\ ~IsBusy /\ "lock" \notin busy /\ cart # None /\ review = NoOrder

\* The active order stays: the next basket of this till is sent as an edit of it.
CheckoutOffline ==
  /\ CanCheckout /\ ~online
  /\ DrawKey
  /\ outbox' = Enqueue(outbox, Bill(FreshKey, cart, active))
  /\ Keep(FreshKey)
  /\ cart' = None
  /\ UNCHANGED <<server, active, review, held, payBox, online, hydrated, busy, calls, late, disk,
                 reloads>>

CheckoutOnline ==
  /\ CanCheckout /\ online
  /\ DrawKey
  /\ calls' = calls \union {Call("checkout", Bill(FreshKey, cart, active))}
  /\ busy' = busy \union {"submitting", "lock"}
  /\ UNCHANGED <<server, screen, queues, online, hydrated, late, disk, reloads, past>>

\* submitOrderWithEffects: a take-away keeps its cart until it is paid.
CheckoutSold(call) ==
  /\ Answered(call)
  /\ outbox' = Dequeue(outbox, call.entry.key)
  /\ active' = Sold(call.entry) /\ review' = Sold(call.entry)
  /\ Clear({"submitting", "lock"})
  /\ UNCHANGED <<cart, held, payBox, hydrated, disk, issued, reloads, past>>

\* Mutant: the early returns skip setSubmitting(false).
CheckoutRefusedStaysBusy(call) ==
  /\ Conflict(call) \/ Failed(call)
  /\ Clear({"lock"})
  /\ UNCHANGED <<screen, queues, hydrated, disk, issued, reloads, past>>

\* A conflict or an error that is not about the network: the cart stays, the key is forgotten.
\* The active order stays as well.  handleCheckout clears it for three codes, but the route answers
\* table_not_available to dine-in requests only, and never the other two: after order_not_found
\* and order_not_updatable it goes on and creates a bill (sales/route.ts:1043-1050).
CheckoutRefused(call) ==
  /\ Conflict(call) \/ Failed(call)
  /\ Clear({"submitting", "lock"})
  /\ UNCHANGED <<screen, queues, hydrated, disk, issued, reloads, past>>

\* Mutant: the bill is queued and stays in the cart.
CheckoutLostKeepsCart(call) ==
  /\ Lost(call)
  /\ outbox' = Enqueue(outbox, call.entry)
  /\ Keep(call.entry.key)
  /\ Clear({"submitting", "lock"})
  /\ UNCHANGED <<screen, payBox, hydrated, disk, issued, reloads>>

CheckoutLost(call) ==
  /\ Lost(call)
  /\ outbox' = Enqueue(outbox, call.entry)
  /\ Keep(call.entry.key)
  /\ cart' = None
  /\ Clear({"submitting", "lock"})
  /\ UNCHANGED <<active, review, held, payBox, hydrated, disk, issued, reloads>>

Checkout(call) ==
  /\ call.by = "checkout"
  /\ CheckoutSold(call) \/ CheckoutRefused(call) \/ CheckoutLost(call)

-----------------------------------------------------------------------------
(* The outbox: sent again by an effect ("replay") or by a click ("retry")     *)

\* Mutant: the effect does not look at submitting.
ReplayDespiteCheckout ==
  /\ hydrated /\ online /\ outbox # <<>>
  /\ {"replay", "cash"} \intersect busy = {}
  /\ calls' = calls \union {Call("replay", Head(outbox))}
  /\ busy' = busy \union {"replay", "submitting"}
  /\ UNCHANGED <<server, screen, queues, online, hydrated, late, disk, issued, reloads, past>>

Replay ==
  /\ hydrated /\ online /\ outbox # <<>>
  /\ {"replay", "submitting", "cash"} \intersect busy = {}
  /\ calls' = calls \union {Call("replay", Head(outbox))}
  /\ busy' = busy \union {"replay", "submitting"}
  /\ UNCHANGED <<server, screen, queues, online, hydrated, late, disk, issued, reloads, past>>

\* retryPendingSubmit; handleEmergencyRetry takes payments first.
Retry ==
  /\ hydrated /\ online /\ outbox # <<>> /\ ~IsBusy
  /\ calls' = calls \union {Call("retry", Head(outbox))}
  /\ busy' = busy \union {"submitting"}
  /\ UNCHANGED <<server, screen, queues, online, hydrated, late, disk, issued, reloads, past>>

\* Mutant: any error takes the bill from the queue.
ResentDropsErrors(call) ==
  /\ call.by \in {"replay", "retry"}
  /\ \/ (Answered(call) \/ Unsent(call)) /\ past' = past
     \/ Conflict(call) /\ past' = [past EXCEPT !.dropped = @ \union {call.entry.key}]
  /\ outbox' = Dequeue(outbox, call.entry.key)
  /\ Clear({"submitting", "replay"})
  /\ UNCHANGED <<screen, payBox, hydrated, disk, issued, reloads>>

\* A bill leaves the queue when it is sold, or dropped for a conflict; after any other error it
\* waits for its next turn (markPendingItemFailed).
Resent(call) ==
  /\ call.by \in {"replay", "retry"}
  /\ \/ /\ Answered(call)
        /\ outbox' = Dequeue(outbox, call.entry.key)
        /\ past' = past
     \/ /\ Conflict(call)
        /\ outbox' = Dequeue(outbox, call.entry.key)
        /\ past' = [past EXCEPT !.dropped = @ \union {call.entry.key}]
     \/ /\ Unsent(call)
        /\ UNCHANGED <<outbox, past>>
  /\ Clear({"submitting", "replay"})
  /\ UNCHANGED <<screen, payBox, hydrated, disk, issued, reloads>>

-----------------------------------------------------------------------------
(* sendPendingDeliveryBillNowWithEffects                                      *)

CanSend(b) ==
  /\ hydrated /\ ~IsBusy /\ "lock" \notin busy
  /\ cart = None /\ review = NoOrder
  /\ b \in Delivery /\ held[b].status \in {"pending", "sending"}

\* The bill is in the queue and back in the list of pending bills, from where it can be sent again.
SendOffline(b) ==
  /\ CanSend(b) /\ ~online
  /\ DrawKey
  /\ outbox' = Enqueue(outbox, Bill(FreshKey, b, NoOrder))
  /\ Keep(FreshKey)
  /\ held' = [held EXCEPT ![b].status = "pending"]
  /\ active' = NoOrder
  /\ UNCHANGED <<server, cart, review, payBox, online, hydrated, busy, calls, late, disk, reloads>>

SendOnline(b) ==
  /\ CanSend(b) /\ online
  /\ DrawKey
  /\ calls' = calls \union {Call("send", Bill(FreshKey, b, NoOrder))}
  /\ busy' = busy \union {"submitting", "lock"}
  /\ held' = [held EXCEPT ![b].status = "sending"]
  /\ cart' = b
  /\ active' = NoOrder
  /\ UNCHANGED <<server, review, queues, online, hydrated, late, disk, reloads, past>>

\* Sold: the transfer of the delivery app is queued and sent at once.
SendSold(call) ==
  LET payment == [Payment(FreshKey, Sold(call.entry)) EXCEPT !.basket = call.entry.basket] IN
  /\ CarryOut(call.entry)
  /\ DrawKey
  /\ online' = TRUE
  /\ outbox' = Dequeue(outbox, call.entry.key)
  /\ payBox' = Enqueue(payBox, payment)
  /\ Keep(FreshKey)
  /\ held' = [held EXCEPT ![call.entry.basket].status = "sent"]
  /\ active' = Sold(call.entry) /\ cart' = None
  /\ calls' = (calls \ {call}) \union {Call("sendPay", payment)}
  /\ busy' = busy \union {"transfer"}
  /\ UNCHANGED <<review, hydrated, late, disk, reloads>>

\* Whatever the error was, the bill is queued and pending.
SendFails(call) ==
  /\ Conflict(call) \/ Unsent(call)
  /\ outbox' = Enqueue(outbox, call.entry)
  /\ Keep(call.entry.key)
  /\ held' = [held EXCEPT ![call.entry.basket].status = "pending"]
  /\ cart' = None
  /\ Clear({"submitting", "lock"})
  /\ UNCHANGED <<active, review, payBox, hydrated, disk, issued, reloads>>

Send(call) == call.by = "send" /\ (SendSold(call) \/ SendFails(call))

\* Mutant: the bill leaves the list when its transfer fails, too.
SendPayFailsAndForgets(call) ==
  /\ Unsent(call)
  /\ held' = [held EXCEPT ![call.entry.basket] = Free]
  /\ Clear({"submitting", "lock", "transfer"})
  /\ UNCHANGED <<cart, active, review, queues, hydrated, disk, issued, reloads, past>>

SendPayFails(call) ==
  /\ Unsent(call)
  /\ held' = [held EXCEPT ![call.entry.basket].status = "pending"]
  /\ Clear({"submitting", "lock", "transfer"})
  /\ UNCHANGED <<cart, active, review, queues, hydrated, disk, issued, reloads, past>>

SendPaid(call) ==
  /\ Answered(call)
  /\ payBox' = Dequeue(payBox, call.entry.key)
  /\ active' = ClosedFor(call.entry.order) /\ cart' = None /\ review' = NoOrder
  /\ held' = [held EXCEPT ![call.entry.basket] = Free]
  /\ Clear({"submitting", "lock", "transfer"})
  /\ UNCHANGED <<outbox, hydrated, disk, issued, reloads, past>>

SendPay(call) == call.by = "sendPay" /\ (SendPaid(call) \/ SendPayFails(call))

-----------------------------------------------------------------------------
(* Payments                                                                   *)

\* The transfer is queued and the screen is ready for the next customer.
TransferOffline ==
  /\ hydrated /\ ~online
  /\ review # NoOrder /\ {"transfer", "cash"} \intersect busy = {}
  /\ DrawKey
  /\ payBox' = Enqueue(payBox, Payment(FreshKey, review))
  /\ Keep(FreshKey)
  /\ active' = ClosedFor(review) /\ cart' = None /\ review' = NoOrder
  /\ UNCHANGED <<server, held, outbox, online, hydrated, busy, calls, late, disk, reloads>>

\* Queued first, then sent.
TransferOnline ==
  LET payment == Payment(FreshKey, review) IN
  /\ hydrated /\ online
  /\ review # NoOrder /\ {"transfer", "cash"} \intersect busy = {}
  /\ DrawKey
  /\ payBox' = Enqueue(payBox, payment)
  /\ Keep(FreshKey)
  /\ calls' = calls \union {Call("transfer", payment)}
  /\ busy' = busy \union {"transfer"}
  /\ UNCHANGED <<server, screen, outbox, online, hydrated, late, disk, reloads>>

\* submitTransferPaymentWithEffects
TransferPaid(call) ==
  /\ Answered(call)
  /\ payBox' = Dequeue(payBox, call.entry.key)
  /\ active' = ClosedFor(call.entry.order) /\ cart' = None /\ review' = NoOrder
  /\ Clear({"transfer"})
  /\ UNCHANGED <<held, outbox, hydrated, disk, issued, reloads, past>>

\* The entry stays queued and the window stays open: a second click draws a second key.
TransferFails(call) ==
  /\ Unsent(call)
  /\ Clear({"transfer"})
  /\ UNCHANGED <<screen, queues, hydrated, disk, issued, reloads, past>>

Transfer(call) == call.by = "transfer" /\ (TransferPaid(call) \/ TransferFails(call))

\* Cash is never queued, and each click draws a key.
ConfirmCash ==
  /\ hydrated /\ online
  /\ review # NoOrder /\ "cash" \notin busy
  /\ DrawKey
  /\ calls' = calls \union {Call("cash", Payment(FreshKey, review))}
  /\ busy' = busy \union {"cash"}
  /\ review' = NoOrder
  /\ UNCHANGED <<server, cart, active, held, queues, online, hydrated, late, disk, reloads, past>>

CashPaid(call) ==
  /\ Answered(call)
  /\ active' = ClosedFor(call.entry.order) /\ cart' = None /\ review' = NoOrder
  /\ Clear({"cash"})
  /\ UNCHANGED <<held, queues, hydrated, disk, issued, reloads, past>>

CashFails(call) ==
  /\ Unsent(call)
  /\ review' = call.entry.order
  /\ Clear({"cash"})
  /\ UNCHANGED <<cart, active, held, queues, hydrated, disk, issued, reloads, past>>

Cash(call) == call.by = "cash" /\ (CashPaid(call) \/ CashFails(call))

\* The effect does not look whether cash for the same order has just been asked for, nor the cash
\* window whether a queued transfer is on its way.
PayReplay ==
  /\ hydrated /\ online /\ payBox # <<>>
  /\ {"payReplay", "submitting", "cash", "transfer"} \intersect busy = {}
  /\ calls' = calls \union {Call("payReplay", Head(payBox))}
  /\ busy' = busy \union {"payReplay", "transfer"}
  /\ UNCHANGED <<server, screen, queues, online, hydrated, late, disk, issued, reloads, past>>

PayRetry ==
  /\ hydrated /\ online /\ payBox # <<>> /\ ~IsBusy
  /\ calls' = calls \union {Call("payRetry", Head(payBox))}
  /\ busy' = busy \union {"transfer"}
  /\ UNCHANGED <<server, screen, queues, online, hydrated, late, disk, issued, reloads, past>>

\* A transfer that the server refuses stays at the head of the queue.
PayResent(call) ==
  /\ call.by \in {"payReplay", "payRetry"}
  /\ \/ Answered(call) /\ payBox' = Dequeue(payBox, call.entry.key)
     \/ Unsent(call) /\ payBox' = payBox
  /\ Clear({"transfer", "payReplay"})
  /\ UNCHANGED <<screen, outbox, hydrated, disk, issued, reloads, past>>

-----------------------------------------------------------------------------
(* Connectivity, localStorage and reloads                                     *)

\* The browser's online and offline events, and every other call that got an answer.
BrowserSaysOnline ==
  /\ hydrated
  /\ online' \in BOOLEAN \ {online}
  /\ UNCHANGED <<server, screen, queues, hydrated, busy, calls, late, disk, issued, reloads, past>>

\* Mutant: the timers run before the queues have been read back.
PersistUnhydrated(part) ==
  /\ disk[part] # Memory[part]
  /\ disk' = [disk EXCEPT ![part] = Memory[part]]
  /\ UNCHANGED <<server, screen, queues, online, hydrated, busy, calls, late, issued, reloads, past>>

\* One timer per key of localStorage, 120 to 180 ms after the last change.  (What is written when
\* no reload can come any more is of no consequence.)
Persist(part) ==
  /\ hydrated /\ MoreToCome
  /\ disk[part] # Memory[part]
  /\ disk' = [disk EXCEPT ![part] = Memory[part]]
  /\ UNCHANGED <<server, screen, queues, online, hydrated, busy, calls, late, issued, reloads, past>>

\* The tab goes: what no timer has written yet is lost, fetches are abandoned.
Reload ==
  /\ hydrated
  /\ MoreToCome /\ reloads' = reloads + 1
  /\ past' = [past EXCEPT
       !.lost = @ \union ((KeysOf(outbox) \ KeysOf(disk.outbox))
                          \union (KeysOf(payBox) \ KeysOf(disk.payBox))),
       !.torn = @ \/ disk # Memory \/ calls # {}]
  /\ cart' = None /\ active' = NoOrder /\ review' = NoOrder
  /\ held' = [b \in Baskets |-> Free]
  /\ outbox' = <<>> /\ payBox' = <<>>
  /\ hydrated' = FALSE
  /\ busy' = {}
  /\ calls' = {}
  /\ late' = late \union {call.entry : call \in calls}
  /\ UNCHANGED <<server, online, disk, issued>>

Hydrate ==
  /\ ~hydrated /\ hydrated' = TRUE
  /\ cart' = disk.cart /\ active' = disk.active
  /\ held' = disk.held
  /\ outbox' = disk.outbox /\ payBox' = disk.payBox
  /\ online' \in BOOLEAN
  /\ UNCHANGED <<server, review, busy, calls, late, disk, issued, reloads, past>>

-----------------------------------------------------------------------------

Cashier ==
  \/ \E b \in Baskets :
       \/ RingUp(b) \/ StageDelivery(b) \/ CancelDelivery(b) \/ RestoreHeldBill(b)
       \/ SendOffline(b) \/ SendOnline(b)
  \/ HoldBill \/ CloseReview
  \/ CheckoutOffline \/ CheckoutOnline \/ Retry
  \/ TransferOffline \/ TransferOnline \/ ConfirmCash \/ PayRetry

TillStep ==
  \/ \E call \in calls :
       Checkout(call) \/ Resent(call) \/ Send(call) \/ SendPay(call) \/ Transfer(call)
         \/ Cash(call) \/ PayResent(call)
  \/ Replay \/ PayReplay
  \/ \E entry \in late : ServeLate(entry)
  \/ BrowserSaysOnline
  \/ \E part \in DOMAIN Memory : Persist(part)
  \/ Reload \/ Hydrate

Next == Cashier \/ TillStep

Spec == Init /\ [][Next]_vars

-----------------------------------------------------------------------------
(* Properties                                                                 *)

Entry == [key : Keys, to : {"sales", "payments"}, basket : Baskets, order : Keys \union {NoOrder}]
HeldBill == [status : {"none", "held", "pending", "sending", "sent"}, order : Keys \union {NoOrder}]
Flags == {"submitting", "lock", "transfer", "cash", "replay", "payReplay"}

\* The shape of the state.
TypeOK ==
  /\ row \in [Keys -> Baskets \union {None}]
  /\ settled \in [Keys -> SUBSET Keys]
  /\ cart \in Baskets \union {None}
  /\ {active, review} \subseteq Keys \union {NoOrder}
  /\ held \in [Baskets -> HeldBill]
  /\ outbox \in Seq(Entry) /\ payBox \in Seq(Entry)
  /\ busy \subseteq Flags
  /\ \A call \in calls : call.entry \in Entry
  /\ late \subseteq Entry
  /\ \A k \in Keys : settled[k] # {} => row[k] # None

\* A bill or a transfer that the till has taken into a queue is there until the server has carried
\* it out, a conflict has been reported to the cashier, or a reload came before it was written.
AcceptedIsKept ==
  \A k \in past.kept \ (served \union past.dropped \union past.lost) :
    IF hydrated THEN k \in KeysOf(outbox) \union KeysOf(payBox)
                ELSE k \in KeysOf(disk.outbox) \union KeysOf(disk.payBox)

\* Checkout, replay, retry and sending of a held bill exclude each other, and so do the ways to
\* send a transfer: two of them never race with requests for the same entry.
OneSubmitAtATime ==
  /\ Cardinality({call \in calls : call.entry.to = "sales"}) <= 1
  /\ Cardinality({call \in calls : call.by \in {"sendPay", "transfer", "payReplay", "payRetry"}}) <= 1

\* When nothing is awaited every flag is down: no path leaves the till unable to sell.  (An effect
\* at pos-sales-module.tsx:3426 gives the lock back when the flags are down; none brings those down.)
IdleIsFree == calls = {} => busy = {}

\* A basket that a cashier rang up is in one place, the cart, the held bills or the queue, from where
\* it can be submitted: submitting two of them would sell it twice.  (A delivery bill is not: it
\* is queued and pending at once; nor is it after a reload that came between two writes.)
OneHome ==
  past.torn \/
  \A b \in Baskets \ Delivery :
    Cardinality({i \in DOMAIN outbox : outbox[i].basket = b})
      + (IF cart = b THEN 1 ELSE 0) + (IF held[b].status = "held" THEN 1 ELSE 0) <= 1

\* A delivery bill leaves the list of pending bills only when an order with its items is paid, or
\* when the cashier cancels it.
ClosedDeliveryIsPaid ==
  past.torn \/ ~hydrated \/
  \A b \in (Delivery \intersect past.rung) \ past.cancelled :
    held[b] = Free => \E k \in Keys : row[k] = b /\ settled[k] # {}
=============================================================================
