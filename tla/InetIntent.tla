----------------------------- MODULE InetIntent -----------------------------
(***************************************************************************)
(* QR payments through INET.  A till h asks for a QR (POST                 *)
(* /api/pos/payments/inet/qr), which creates a payment intent; INET calls  *)
(* back (POST /api/payments/inet/callback) with its verdict and repeats    *)
(* the call until it is answered 200.  A callback handler c claims the     *)
(* intent by writing its id into failed_reason, finalizes the bill through *)
(* finalizePosPayment and marks the intent paid; the claim is released     *)
(* when finalization fails.                                                *)
(*                                                                         *)
(* complete_pos_payment_tx is one step here; OrderPayment models its       *)
(* insides.  An intent is its own payment key (request_group_id).          *)
(***************************************************************************)
EXTENDS Naturals

CONSTANTS Orders,       \* bills, each of a dine-in table
          Intents,      \* rows of pos_payment_intents
          Callbacks,    \* slots for callback handlers
          Tills,        \* slots for QR requests
          Totals,       \* what a bill may cost
          Faulty,       \* whether handlers may die and database calls may error
          MaxTimeouts   \* bound: how often withTimeout gives up on the payment call

ASSUME ConstantsAssumption ==
  /\ {"none", "cash"} \intersect (Orders \union Intents) = {}
  /\ {"null", "reason"} \intersect Callbacks = {}
  /\ Faulty \in BOOLEAN
  /\ MaxTimeouts \in Nat

VARIABLES
  bill,       \* bill[o]: the orders row, the keys of its payments, its table session
  intent,     \* intent[i]: the pos_payment_intents row and the receipts printed for it
  inet,       \* inet[i]: what INET knows of the transaction (external)
  callback,   \* callback[c]: the callback handler in slot c
  till,       \* till[h]: the QR request in slot h
  orphans,    \* intents whose payment call runs on after its handler gave up
  timeouts    \* how often withTimeout has given up

vars == <<bill, intent, inet, callback, till, orphans, timeouts>>

NoIntent == [status |-> "none", order |-> "none", amount |-> 0, qr |-> FALSE,
             claim |-> "null", receipts |-> 0]
IdleTill == [pc |-> "idle", order |-> "none", amount |-> 0, intent |-> "none"]
IdleCallback == [pc |-> "idle", intent |-> "none"]

Init ==
  /\ bill \in [Orders -> {[status |-> "queued", total |-> t, keys |-> {}, tableOpen |-> TRUE] :
                            t \in Totals}]
  /\ intent = [i \in Intents |-> NoIntent]
  /\ inet = [i \in Intents |-> [verdict |-> "unknown", acked |-> FALSE]]
  /\ callback = [c \in Callbacks |-> IdleCallback]
  /\ till = [h \in Tills |-> IdleTill]
  /\ orphans = {}
  /\ timeouts = 0

-----------------------------------------------------------------------------
(* POST /api/pos/payments/inet/qr                                             *)

Pending(o) == {i \in Intents : intent[i].status = "pending" /\ intent[i].order = o}
Step(h, pc) == till' = [till EXCEPT ![h].pc = pc]

QrReadOrder(h, o) ==
  /\ till[h].pc = "idle"
  /\ bill[o].status \notin {"completed", "cancelled"}
  /\ till' = [till EXCEPT ![h] = [pc |-> "order_read", order |-> o, amount |-> bill[o].total,
                                  intent |-> "none"]]
  /\ UNCHANGED <<bill, intent, inet, callback, orphans, timeouts>>

\* A pending intent that has a QR is handed out again, with the amount it was made for.
QrReuse(h) ==
  /\ till[h].pc = "order_read"
  /\ \E i \in Pending(till[h].order) : intent[i].qr
  /\ till' = [till EXCEPT ![h] = IdleTill]
  /\ UNCHANGED <<bill, intent, inet, callback, orphans, timeouts>>

QrLookup(h) ==
  /\ till[h].pc = "order_read"
  /\ \A i \in Pending(till[h].order) : ~intent[i].qr
  /\ Step(h, "looked_up")
  /\ UNCHANGED <<bill, intent, inet, callback, orphans, timeouts>>

\* Mutant: the unique index on pending intents is missing.
QrInsertUnindexed(h, i) ==
  /\ till[h].pc = "looked_up"
  /\ intent[i].status = "none"
  /\ intent' = [intent EXCEPT ![i] = [NoIntent EXCEPT !.status = "pending", !.order = till[h].order,
                                                      !.amount = till[h].amount]]
  /\ till' = [till EXCEPT ![h].pc = "created", ![h].intent = i]
  /\ UNCHANGED <<bill, inet, callback, orphans, timeouts>>

QrInsert(h, i) ==
  /\ till[h].pc = "looked_up"
  /\ intent[i].status = "none"
  /\ Pending(till[h].order) = {}            \* pos_payment_intents_pending_order_provider_uidx
  /\ intent' = [intent EXCEPT ![i] = [NoIntent EXCEPT !.status = "pending", !.order = till[h].order,
                                                      !.amount = till[h].amount]]
  /\ till' = [till EXCEPT ![h].pc = "created", ![h].intent = i]
  /\ UNCHANGED <<bill, inet, callback, orphans, timeouts>>

QrInsertRefused(h) ==
  /\ till[h].pc = "looked_up"
  /\ Pending(till[h].order) # {}
  /\ till' = [till EXCEPT ![h] = IdleTill]
  /\ UNCHANGED <<bill, intent, inet, callback, orphans, timeouts>>

QrProviderAnswers(h) ==
  /\ till[h].pc = "created"
  /\ inet' = [inet EXCEPT ![till[h].intent].verdict = "open"]
  /\ Step(h, "answered")
  /\ UNCHANGED <<bill, intent, callback, orphans, timeouts>>

\* The request failed, timed out or its answer was lost: nobody ever sees the QR.
QrProviderFails(h) ==
  /\ till[h].pc = "created"
  /\ Step(h, "provider_failed")
  /\ UNCHANGED <<bill, intent, inet, callback, orphans, timeouts>>

QrStore(h) ==
  /\ till[h].pc = "answered"
  /\ intent' = [intent EXCEPT ![till[h].intent].qr = TRUE]
  /\ till' = [till EXCEPT ![h] = IdleTill]
  /\ UNCHANGED <<bill, inet, callback, orphans, timeouts>>

\* The update to 'failed' has no condition on the intent's status.
QrMarkFailed(h) ==
  /\ till[h].pc = "provider_failed"
  /\ intent' = [intent EXCEPT ![till[h].intent].status = "failed", ![till[h].intent].claim = "reason"]
  /\ till' = [till EXCEPT ![h] = IdleTill]
  /\ UNCHANGED <<bill, inet, callback, orphans, timeouts>>

TillFails(h) ==
  /\ Faulty
  /\ till[h].pc # "idle"
  /\ till' = [till EXCEPT ![h] = IdleTill]
  /\ UNCHANGED <<bill, intent, inet, callback, orphans, timeouts>>

-----------------------------------------------------------------------------
(* INET and its customer: a QR that was shown is paid or refused, once.       *)
CustomerActs(i, verdict) ==
  /\ inet[i].verdict = "open"
  /\ intent[i].qr
  /\ inet' = [inet EXCEPT ![i].verdict = verdict]
  /\ UNCHANGED <<bill, intent, callback, till, orphans, timeouts>>

-----------------------------------------------------------------------------
(* POST /api/payments/inet/callback                                           *)

Advance(c, pc) == callback' = [callback EXCEPT ![c].pc = pc]
Ends(c) == callback' = [callback EXCEPT ![c] = IdleCallback]
Ack(i) == inet' = [inet EXCEPT ![i].acked = TRUE]
Claimable(i) == intent[i].status = "pending" /\ intent[i].claim = "null"
HasClaim(c, i) == intent[i].status = "pending" /\ intent[i].claim = c

\* INET calls, for the first time or again; an intent that is not pending is a duplicate.
Deliver(c, i) ==
  /\ callback[c].pc = "idle"
  /\ inet[i].verdict \in {"success", "failure"}
  /\ IF intent[i].status = "pending"
     THEN callback' = [callback EXCEPT ![c] = [pc |-> "read", intent |-> i]] /\ UNCHANGED inet
     ELSE Ack(i) /\ UNCHANGED callback
  /\ UNCHANGED <<bill, intent, till, orphans, timeouts>>

\* response_code 1: the guarded update, answered 200 whether it matched or not.
RecordFailure(c) ==
  LET i == callback[c].intent IN
  /\ callback[c].pc = "read"
  /\ inet[i].verdict = "failure"
  /\ intent' = IF Claimable(i)
               THEN [intent EXCEPT ![i].status = "failed", ![i].claim = "reason"]
               ELSE intent
  /\ Ack(i)
  /\ Ends(c)
  /\ UNCHANGED <<bill, till, orphans, timeouts>>

\* Mutant: the claim forgets .is("failed_reason", null).
ClaimIntentTaken(c) ==
  LET i == callback[c].intent IN
  /\ callback[c].pc = "read"
  /\ inet[i].verdict = "success"
  /\ intent[i].status = "pending"
  /\ intent' = [intent EXCEPT ![i].claim = c]
  /\ Advance(c, "claimed")
  /\ UNCHANGED <<bill, inet, till, orphans, timeouts>>

\* Mutant: the claim forgets .eq("status", "pending").
ClaimIntentSettled(c) ==
  LET i == callback[c].intent IN
  /\ callback[c].pc = "read"
  /\ inet[i].verdict = "success"
  /\ intent[i].claim = "null"
  /\ intent' = [intent EXCEPT ![i].claim = c]
  /\ Advance(c, "claimed")
  /\ UNCHANGED <<bill, inet, till, orphans, timeouts>>

ClaimIntent(c) ==
  LET i == callback[c].intent IN
  /\ callback[c].pc = "read"
  /\ inet[i].verdict = "success"
  /\ Claimable(i)
  /\ intent' = [intent EXCEPT ![i].claim = c]
  /\ Advance(c, "claimed")
  /\ UNCHANGED <<bill, inet, till, orphans, timeouts>>

\* Somebody else is processing the intent or has processed it: answered 200 as duplicate.
ClaimLost(c) ==
  LET i == callback[c].intent IN
  /\ callback[c].pc = "read"
  /\ inet[i].verdict = "success"
  /\ ~Claimable(i)
  /\ Ack(i)
  /\ Ends(c)
  /\ UNCHANGED <<bill, intent, till, orphans, timeouts>>

CallPayment(c) ==
  /\ callback[c].pc = "claimed"
  /\ Advance(c, "sent")
  /\ UNCHANGED <<bill, intent, inet, till, orphans, timeouts>>

-----------------------------------------------------------------------------
(* complete_pos_payment_tx for intent i: a replay succeeds whatever has       *)
(* become of the bill.                                                        *)
Settles(i) ==
  LET b == bill[intent[i].order]
  IN  i \in b.keys \/ (b.total = intent[i].amount /\ b.status # "cancelled")

Settled(i) ==
  LET o == intent[i].order
  IN  bill' = IF i \in bill[o].keys THEN bill
              ELSE [bill EXCEPT ![o].status = "completed", ![o].keys = @ \union {i}]

TxSettles(c) ==
  LET i == callback[c].intent IN
  /\ callback[c].pc = "sent"
  /\ Settles(i)
  /\ Settled(i)
  /\ Advance(c, "settled")
  /\ UNCHANGED <<intent, inet, till, orphans, timeouts>>

TxRefuses(c) ==
  /\ callback[c].pc = "sent"
  /\ ~Settles(callback[c].intent)
  /\ Advance(c, "failed")
  /\ UNCHANGED <<bill, intent, inet, till, orphans, timeouts>>

\* A call left over from a time-out commits between this call's replay check and its
\* insert, which the unique index then refuses.
TxCollides(c) ==
  LET i == callback[c].intent IN
  /\ callback[c].pc = "sent"
  /\ i \in orphans
  /\ Settles(i)
  /\ Settled(i)
  /\ orphans' = orphans \ {i}
  /\ Advance(c, "failed")
  /\ UNCHANGED <<intent, inet, till, timeouts>>

OrphanEnds(i) ==
  /\ i \in orphans
  /\ IF Settles(i) THEN Settled(i) ELSE UNCHANGED bill
  /\ orphans' = orphans \ {i}
  /\ UNCHANGED <<intent, inet, callback, till, timeouts>>

\* Mutant: the handler takes a time-out for a success.
TimeOutAsSuccess(c) ==
  /\ callback[c].pc = "sent"
  /\ timeouts < MaxTimeouts
  /\ timeouts' = timeouts + 1
  /\ orphans' = orphans \union {callback[c].intent}
  /\ Advance(c, "settled")
  /\ UNCHANGED <<bill, intent, inet, till>>

TimeOut(c) ==
  /\ callback[c].pc = "sent"
  /\ timeouts < MaxTimeouts
  /\ timeouts' = timeouts + 1
  /\ orphans' = orphans \union {callback[c].intent}
  /\ Advance(c, "failed")
  /\ UNCHANGED <<bill, intent, inet, till>>

SnapshotFails(c) ==
  /\ Faulty
  /\ callback[c].pc = "settled"
  /\ Advance(c, "failed")
  /\ UNCHANGED <<bill, intent, inet, till, orphans, timeouts>>

-----------------------------------------------------------------------------
(* The rest of finalizePosPayment and of the callback handler.                *)

PrintAndCloseTable(c) ==
  LET i == callback[c].intent IN
  /\ callback[c].pc = "settled"
  /\ intent' = [intent EXCEPT ![i].receipts = @ + 1]
  /\ bill' = [bill EXCEPT ![intent[i].order].tableOpen = FALSE]
  /\ Advance(c, "finalized")
  /\ UNCHANGED <<inet, till, orphans, timeouts>>

\* The print queue is full or printing raises: the table is not closed either.
PrintSkipped(c) ==
  /\ callback[c].pc = "settled"
  /\ Advance(c, "finalized")
  /\ UNCHANGED <<bill, intent, inet, till, orphans, timeouts>>

MarkPaid(c) ==
  LET i == callback[c].intent IN
  /\ callback[c].pc = "finalized"
  /\ HasClaim(c, i)
  /\ intent' = [intent EXCEPT ![i].status = "paid", ![i].claim = "null"]
  /\ Ack(i)
  /\ Ends(c)
  /\ UNCHANGED <<bill, till, orphans, timeouts>>

\* Mutant: the release is forgotten.
ReleaseClaimForgotten(c) ==
  /\ callback[c].pc = "failed"
  /\ Ends(c)
  /\ UNCHANGED <<bill, intent, inet, till, orphans, timeouts>>

\* The claim is released and INET is answered 500.
ReleaseClaim(c) ==
  LET i == callback[c].intent IN
  /\ callback[c].pc = "failed"
  /\ intent' = IF HasClaim(c, i) THEN [intent EXCEPT ![i].claim = "null"] ELSE intent
  /\ Ends(c)
  /\ UNCHANGED <<bill, inet, till, orphans, timeouts>>

\* The process dies, or a database call of the handler errors and it answers 500 at once.
CallbackFails(c) ==
  /\ Faulty
  /\ callback[c].pc # "idle"
  /\ orphans' = IF callback[c].pc = "sent" THEN orphans \union {callback[c].intent} ELSE orphans
  /\ Ends(c)
  /\ UNCHANGED <<bill, intent, inet, till, timeouts>>

-----------------------------------------------------------------------------
(* What else happens to the bill.                                             *)
\* The cancel and payment routes close the table in statements of their own; here with the bill.
CancelBill(o) ==
  /\ bill[o].status = "queued"
  /\ bill' = [bill EXCEPT ![o].status = "cancelled", ![o].tableOpen = FALSE]
  /\ UNCHANGED <<intent, inet, callback, till, orphans, timeouts>>

CashPays(o) ==
  /\ bill[o].status # "cancelled"
  /\ "cash" \notin bill[o].keys
  /\ bill' = [bill EXCEPT ![o].status = "completed", ![o].keys = @ \union {"cash"},
                          ![o].tableOpen = FALSE]
  /\ UNCHANGED <<intent, inet, callback, till, orphans, timeouts>>

Reprice(o, t) ==
  /\ bill[o].status = "queued"
  /\ t # bill[o].total
  /\ bill' = [bill EXCEPT ![o].total = t]
  /\ UNCHANGED <<intent, inet, callback, till, orphans, timeouts>>

TillStep(h) ==
  \/ QrReuse(h) \/ QrLookup(h) \/ QrInsertRefused(h) \/ QrProviderAnswers(h) \/ QrProviderFails(h)
  \/ QrStore(h) \/ QrMarkFailed(h)
  \/ \E i \in Intents : QrInsert(h, i)

CallbackStep(c) ==
  \/ RecordFailure(c) \/ ClaimIntent(c) \/ ClaimLost(c) \/ CallPayment(c)
  \/ TxSettles(c) \/ TxRefuses(c) \/ TxCollides(c)
  \/ PrintAndCloseTable(c) \/ PrintSkipped(c) \/ MarkPaid(c) \/ ReleaseClaim(c)

Next ==
  \/ \E h \in Tills : TillStep(h) \/ TillFails(h) \/ \E o \in Orders : QrReadOrder(h, o)
  \/ \E c \in Callbacks :
       \/ CallbackStep(c) \/ TimeOut(c) \/ SnapshotFails(c) \/ CallbackFails(c)
       \/ \E i \in Intents : Deliver(c, i)
  \/ \E i \in Intents : OrphanEnds(i) \/ \E v \in {"success", "failure"} : CustomerActs(i, v)
  \/ \E o \in Orders : CancelBill(o) \/ CashPays(o) \/ \E t \in Totals : Reprice(o, t)

Spec == Init /\ [][Next]_vars

(* Node runs every handler it has started, and INET repeats a verdict until   *)
(* it is acknowledged.                                                        *)
Fairness ==
  /\ \A c \in Callbacks : WF_vars(CallbackStep(c))
  /\ \A i \in Intents : WF_vars(~inet[i].acked /\ \E c \in Callbacks : Deliver(c, i))

FairSpec == Spec /\ Fairness

-----------------------------------------------------------------------------
BillRow == [status : {"queued", "completed", "cancelled"}, total : Totals,
            keys : SUBSET (Intents \union {"cash"}), tableOpen : BOOLEAN]
IntentRow == [status : {"none", "pending", "paid", "failed"}, order : Orders \union {"none"},
              amount : Totals \union {0}, qr : BOOLEAN,
              claim : Callbacks \union {"null", "reason"}, receipts : Nat]
InetRow == [verdict : {"unknown", "open", "success", "failure"}, acked : BOOLEAN]
CallbackSteps == {"read", "claimed", "sent", "settled", "finalized", "failed"}
CallbackState == [pc : {"idle"} \union CallbackSteps, intent : Intents \union {"none"}]
TillState == [pc : {"idle", "order_read", "looked_up", "created", "answered", "provider_failed"},
              order : Orders \union {"none"}, amount : Totals \union {0},
              intent : Intents \union {"none"}]

TypeOK ==
  /\ bill \in [Orders -> BillRow]
  /\ intent \in [Intents -> IntentRow]
  /\ inet \in [Intents -> InetRow]
  /\ callback \in [Callbacks -> CallbackState]
  /\ till \in [Tills -> TillState]
  /\ orphans \subseteq Intents
  /\ timeouts \in 0 .. MaxTimeouts

Processing(c, i) == callback[c].intent = i /\ callback[c].pc \in CallbackSteps \ {"read"}

\* Concurrent and repeated callbacks never finalize the same intent side by side, although a
\* claim is only a text in failed_reason and each of them has read the intent as pending.
ClaimExclusive ==
  \A c, d \in Callbacks, i \in Intents : Processing(c, i) /\ Processing(d, i) => c = d

\* Repeating a callback, before or after settlement, prints no second receipt for an intent.
ReceiptOnce == \A i \in Intents : intent[i].receipts <= 1

\* An intent that polling tills see as paid has a committed payment on a completed bill, also
\* when the payment call timed out or another request replaced the intent.
PaidIntentIsSettled ==
  \A i \in Intents : intent[i].status = "paid" =>
    i \in bill[intent[i].order].keys /\ bill[intent[i].order].status = "completed"

\* Two tills that ask for a QR at once, or a till that asks again, never leave the customer with
\* two QRs of one bill that can both be paid.
LiveQrUnique ==
  \A i, j \in Intents :
    /\ inet[i].verdict = "open" /\ intent[i].qr
    /\ inet[j].verdict = "open" /\ intent[j].qr
    /\ intent[i].order = intent[j].order
    => i = j

\* As long as no handler dies, a claim belongs to a handler that still works on the intent:
\* every failed finalization gives it back, whatever failed.
ClaimHasHandler ==
  \A i \in Intents, c \in Callbacks :
    ~Faulty /\ intent[i].claim = c => Processing(c, i)

\* The bill is no longer what the QR was made for.
BillMoved(i) ==
  \E o \in Orders : /\ o = intent[i].order
                    /\ bill[o].status = "cancelled" \/ bill[o].total # intent[i].amount

\* When callbacks arrive one at a time and no handler dies, a customer's payment is eventually
\* booked in spite of time-outs, unless the bill is cancelled or re-priced meanwhile.
SuccessSettles ==
  \A i \in Intents : inet[i].verdict = "success" ~> intent[i].status = "paid" \/ BillMoved(i)

=============================================================================
