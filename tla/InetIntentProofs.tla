-------------------------- MODULE InetIntentProofs --------------------------
(***************************************************************************)
(* Proofs about InetIntent for every number of bills, intents, tills and   *)
(* callbacks.  An intent is in one pair of hands at a time: of the till    *)
(* that asked INET for its QR, until the QR is stored; of the customer     *)
(* while INET waits; and from the claim on of one callback handler, whose  *)
(* claim nobody else takes or clears.                                      *)
(***************************************************************************)
EXTENDS InetIntent, TLAPS

Asking   == {"created", "answered", "provider_failed"}
Claimed  == CallbackSteps \ {"read"}
Verdicts == {"success", "failure"}

IntentFit(i) ==
  /\ intent[i].status = "none" => intent[i].claim = "null" /\ inet[i].verdict = "unknown" /\ ~intent[i].qr
  /\ intent[i].status # "none" => intent[i].order \in Orders
  /\ inet[i].verdict = "open" => intent[i].status = "pending" /\ intent[i].claim = "null"
  /\ inet[i].verdict \in Verdicts => intent[i].qr
  /\ intent[i].receipts <= 1
  /\ intent[i].receipts # 0 => ~Claimable(i)
  /\ intent[i].status = "paid" => i \in bill[intent[i].order].keys
  /\ intent[i].status # "pending" => intent[i].claim \notin Callbacks

BillFit(o) == bill[o].keys # {} => bill[o].status = "completed"

TillFit(q) ==
  /\ q.pc \in {"order_read", "looked_up"} => q.order \in Orders
  /\ q.pc \in Asking =>
       /\ q.intent \in Intents
       /\ intent[q.intent].status = "pending" /\ intent[q.intent].claim = "null"
       /\ ~intent[q.intent].qr
       /\ inet[q.intent].verdict = IF q.pc = "answered" THEN "open" ELSE "unknown"

CallbackFit(c, q) ==
  /\ q.pc # "idle" => q.intent \in Intents /\ inet[q.intent].verdict \in Verdicts
  /\ q.pc \in Claimed => HasClaim(c, q.intent)
  /\ q.pc \in Claimed \ {"finalized"} => intent[q.intent].receipts = 0
  /\ q.pc \in {"settled", "finalized"} => q.intent \in bill[intent[q.intent].order].keys

\* One pending intent per bill, and one till that asks for its QR.
OnePending == \A i, j \in Intents :
  intent[i].status = "pending" /\ intent[j].status = "pending" /\ intent[i].order = intent[j].order => i = j
OneAsking == \A g, h \in Tills :
  till[g].pc \in Asking /\ till[h].pc \in Asking /\ till[g].intent = till[h].intent => g = h

Sound ==
  /\ TypeOK
  /\ \A i \in Intents : IntentFit(i)
  /\ \A o \in Orders : BillFit(o)
  /\ \A h \in Tills : TillFit(till[h])
  /\ \A c \in Callbacks : CallbackFit(c, callback[c])
  /\ OnePending /\ OneAsking
  /\ \A i \in orphans : intent[i].status # "none"

IInv == Sound /\ ClaimHasHandler

-----------------------------------------------------------------------------
(* Steps of one till                                                          *)

LEMMA Values == /\ "null" \notin Callbacks /\ "reason" \notin Callbacks
                /\ "none" \notin Orders /\ "none" \notin Intents
<1> QED BY ConstantsAssumption

\* A till that moves without touching an intent.
LEMMA TillMoves ==
  ASSUME IInv, NEW h \in Tills, NEW q \in TillState, till' = [till EXCEPT ![h] = q], TillFit(q)',
         q.pc \in Asking => till[h].pc \in Asking /\ q.intent = till[h].intent,
         UNCHANGED <<bill, intent, callback, orphans, timeouts>>,
         inet' \in [Intents -> InetRow],
         \A i \in Intents : IntentFit(i)',
         \A g \in Tills \ {h} : TillFit(till[g])',
         \A c \in Callbacks : CallbackFit(c, callback[c])'
  PROVE  IInv'
<1>1. \A g \in Tills : till'[g] = IF g = h THEN q ELSE till[g]
  BY DEF IInv, Sound, TypeOK
<1>2. TypeOK'
  BY DEF IInv, Sound, TypeOK
<1>3. \A g \in Tills : TillFit(till[g])'
  <2> SUFFICES ASSUME NEW g \in Tills PROVE TillFit(till[g])'
    OBVIOUS
  <2>1. CASE g = h
    BY <1>1, <2>1 DEF TillFit
  <2>2. CASE g # h
    BY <1>1, <2>2 DEF TillFit
  <2> QED BY <2>1, <2>2
<1>4. OneAsking'
  BY <1>1 DEF IInv, Sound, OneAsking
<1>5. OnePending' /\ ClaimHasHandler' /\ \A o \in Orders : BillFit(o)'
  BY DEF IInv, Sound, OnePending, ClaimHasHandler, Processing, BillFit
<1>6. \A i \in orphans' : intent'[i].status # "none"
  BY DEF IInv, Sound
<1> QED BY <1>2, <1>3, <1>4, <1>5, <1>6 DEF IInv, Sound

\* ... and tells INET nothing either.
LEMMA TillOnly ==
  ASSUME IInv, NEW h \in Tills, NEW q \in TillState, till' = [till EXCEPT ![h] = q], TillFit(q),
         q.pc \in Asking => till[h].pc \in Asking /\ q.intent = till[h].intent,
         UNCHANGED <<bill, intent, inet, callback, orphans, timeouts>>
  PROVE  IInv'
<1>1. TillFit(q)' /\ inet' \in [Intents -> InetRow]
  BY DEF TillFit, IInv, Sound, TypeOK
<1>2. \A i \in Intents : IntentFit(i)'
  BY DEF IInv, Sound, IntentFit, Claimable
<1>3. \A g \in Tills \ {h} : TillFit(till[g])'
  BY DEF IInv, Sound, TillFit
<1>4. \A c \in Callbacks : CallbackFit(c, callback[c])'
  BY DEF IInv, Sound, CallbackFit, HasClaim
<1> QED BY <1>1, <1>2, <1>3, <1>4, TillMoves

LEMMA TillFits == ASSUME IInv, NEW h \in Tills PROVE till[h] \in TillState /\ TillFit(till[h])
<1> QED BY DEF IInv, Sound, TypeOK

LEMMA IdleTillFits == IdleTill \in TillState /\ IdleTill.pc = "idle" /\ TillFit(IdleTill)
<1> QED BY DEF IdleTill, TillState, TillFit, Asking

LEMMA TillGoes ==
  ASSUME IInv, NEW h \in Tills, NEW pc \in {"looked_up", "answered", "provider_failed"}, Step(h, pc)
  PROVE  \E q \in TillState : /\ till' = [till EXCEPT ![h] = q]
                              /\ q.pc = pc /\ q.intent = till[h].intent /\ q.order = till[h].order
<1> DEFINE q == [till[h] EXCEPT !.pc = pc]
<1>1. q \in TillState /\ q.pc = pc /\ q.intent = till[h].intent /\ q.order = till[h].order
  BY TillFits DEF TillState
<1>2. till' = [till EXCEPT ![h] = q]
  BY DEF Step
<1> HIDE DEF q
<1> QED BY <1>1, <1>2

LEMMA QrReadOrderStep == ASSUME IInv, NEW h \in Tills, NEW o \in Orders, QrReadOrder(h, o) PROVE IInv'
<1> DEFINE q == [pc |-> "order_read", order |-> o, amount |-> bill[o].total, intent |-> "none"]
<1>1. bill[o].total \in Totals
  BY DEF IInv, Sound, TypeOK, BillRow
<1>2. q \in TillState /\ TillFit(q) /\ q.pc \notin Asking
  BY <1>1 DEF TillState, TillFit, Asking
<1>3. till' = [till EXCEPT ![h] = q] /\ UNCHANGED <<bill, intent, inet, callback, orphans, timeouts>>
  BY DEF QrReadOrder
<1> HIDE DEF q
<1> QED BY <1>2, <1>3, TillOnly

LEMMA TillStopStep ==
  ASSUME IInv, NEW h \in Tills, QrReuse(h) \/ QrInsertRefused(h) \/ TillFails(h) PROVE IInv'
<1>1. till' = [till EXCEPT ![h] = IdleTill] /\ UNCHANGED <<bill, intent, inet, callback, orphans, timeouts>>
  BY DEF QrReuse, QrInsertRefused, TillFails
<1> QED BY <1>1, IdleTillFits, TillOnly DEF Asking

LEMMA TillGoesStep ==
  ASSUME IInv, NEW h \in Tills, QrLookup(h) \/ QrProviderFails(h) PROVE IInv'
<1>1. CASE QrLookup(h)
  <2>1. PICK q \in TillState : /\ till' = [till EXCEPT ![h] = q]
                               /\ q.pc = "looked_up" /\ q.order = till[h].order
    BY <1>1, TillGoes DEF QrLookup
  <2>2. TillFit(q) /\ q.pc \notin Asking
    BY <1>1, <2>1, TillFits DEF TillFit, Asking, QrLookup
  <2> QED BY <1>1, <2>1, <2>2, TillOnly DEF QrLookup
<1>2. CASE QrProviderFails(h)
  <2>1. PICK q \in TillState : /\ till' = [till EXCEPT ![h] = q]
                               /\ q.pc = "provider_failed" /\ q.intent = till[h].intent
    BY <1>2, TillGoes DEF QrProviderFails
  <2>2. TillFit(q) /\ till[h].pc \in Asking
    BY <1>2, <2>1, TillFits DEF TillFit, Asking, QrProviderFails
  <2> QED BY <1>2, <2>1, <2>2, TillOnly DEF QrProviderFails
<1> QED BY <1>1, <1>2

\* INET opens the transaction of the one till that asked for it.
LEMMA QrProviderAnswersStep == ASSUME IInv, NEW h \in Tills, QrProviderAnswers(h) PROVE IInv'
<1> DEFINE i == till[h].intent
<1>1. i \in Intents /\ intent[i].status = "pending" /\ intent[i].claim = "null"
      /\ ~intent[i].qr /\ inet[i].verdict = "unknown" /\ till[h].pc = "created"
  BY TillFits DEF TillFit, Asking, QrProviderAnswers
<1>2. inet' \in [Intents -> InetRow]
      /\ \A j \in Intents : inet'[j].verdict = IF j = i THEN "open" ELSE inet[j].verdict
  BY <1>1 DEF QrProviderAnswers, IInv, Sound, TypeOK, InetRow
<1>3. PICK q \in TillState : /\ till' = [till EXCEPT ![h] = q] /\ q.pc = "answered" /\ q.intent = i
  BY TillGoes DEF QrProviderAnswers
<1>4. UNCHANGED <<bill, intent, callback, orphans, timeouts>>
  BY DEF QrProviderAnswers
<1> HIDE DEF i
<1>5. TillFit(q)'
  BY <1>1, <1>2, <1>3, <1>4 DEF TillFit
<1>6. \A j \in Intents : IntentFit(j)'
  BY <1>1, <1>2, <1>4 DEF IInv, Sound, IntentFit, Claimable, Verdicts
<1>7. ASSUME NEW g \in Tills \ {h} PROVE TillFit(till[g])'
  <2>1. till[g].pc \in Asking => till[g].intent # i
    BY <1>1 DEF IInv, Sound, OneAsking, Asking, i
  <2>2. till'[g] = till[g]
    BY <1>3 DEF IInv, Sound, TypeOK
  <2> QED BY <1>2, <1>4, <2>1, <2>2, TillFits DEF TillFit
<1>8. ASSUME NEW c \in Callbacks PROVE CallbackFit(c, callback[c])'
  <2>1. callback[c].pc # "idle" => callback[c].intent # i
    BY <1>1 DEF IInv, Sound, CallbackFit, Verdicts
  <2> QED BY <1>2, <1>4, <2>1 DEF IInv, Sound, CallbackFit, HasClaim, Claimed, CallbackSteps
<1> QED BY <1>1, <1>2, <1>3, <1>4, <1>5, <1>6, <1>7, <1>8, TillMoves DEF Asking, i

-----------------------------------------------------------------------------
(* Steps that write an intent                                                 *)

\* The update of one intent's row: the others keep theirs.
LEMMA RowFacts ==
  ASSUME TypeOK, NEW i \in Intents, NEW row \in IntentRow, intent' = [intent EXCEPT ![i] = row]
  PROVE  intent' \in [Intents -> IntentRow]
         /\ \A j \in Intents : intent'[j] = IF j = i THEN row ELSE intent[j]
<1> QED BY DEF TypeOK

\* The new intent is the only pending one of its bill, and its till's alone.
LEMMA QrInsertStep ==
  ASSUME IInv, NEW h \in Tills, NEW i \in Intents, QrInsert(h, i) PROVE IInv'
<1> DEFINE row == [NoIntent EXCEPT !.status = "pending", !.order = till[h].order, !.amount = till[h].amount]
           q == [till[h] EXCEPT !.pc = "created", !.intent = i]
<1>1. till[h] \in TillState /\ till[h].order \in Orders /\ till[h].pc = "looked_up"
  BY TillFits DEF TillFit, QrInsert
<1>2. intent[i].status = "none" /\ Pending(till[h].order) = {}
      /\ UNCHANGED <<bill, inet, callback, orphans, timeouts>>
  BY DEF QrInsert
<1>3. row \in IntentRow /\ row.status = "pending" /\ row.order = till[h].order
      /\ row.claim = "null" /\ row.qr = FALSE /\ row.receipts = 0
  BY <1>1 DEF NoIntent, IntentRow, TillState
<1>4. intent' = [intent EXCEPT ![i] = row]
  BY DEF QrInsert
<1>5. q \in TillState /\ q.pc = "created" /\ q.intent = i
  BY <1>1 DEF TillState
<1>6. till' = [till EXCEPT ![h] = q]
  BY DEF QrInsert
<1> HIDE DEF row, q
<1>7. intent' \in [Intents -> IntentRow] /\ \A j \in Intents : intent'[j] = IF j = i THEN row ELSE intent[j]
  BY <1>3, <1>4, RowFacts DEF IInv, Sound
<1>8. \A g \in Tills : till'[g] = IF g = h THEN q ELSE till[g]
  BY <1>5, <1>6 DEF IInv, Sound, TypeOK
<1>9. inet[i].verdict = "unknown"
  BY <1>2 DEF IInv, Sound, IntentFit
<1>10. TypeOK'
  BY <1>2, <1>5, <1>6, <1>7 DEF IInv, Sound, TypeOK
<1>11. \A j \in Intents : IntentFit(j)'
  BY <1>1, <1>2, <1>3, <1>7, <1>9, Values DEF IInv, Sound, IntentFit, Claimable, Verdicts
<1>12. \A g \in Tills : TillFit(till[g])'
  <2> SUFFICES ASSUME NEW g \in Tills PROVE TillFit(till[g])'
    OBVIOUS
  <2>1. CASE g = h
    BY <1>2, <1>3, <1>5, <1>7, <1>8, <1>9, <2>1 DEF TillFit, Asking
  <2>2. CASE g # h
    <3>1. till[g].pc \in Asking => till[g].intent # i
      BY <1>2, TillFits DEF TillFit
    <3> QED BY <1>2, <1>7, <1>8, <2>2, <3>1, TillFits DEF TillFit
  <2> QED BY <2>1, <2>2
<1>13. \A c \in Callbacks : CallbackFit(c, callback[c])'
  <2> SUFFICES ASSUME NEW c \in Callbacks PROVE CallbackFit(c, callback[c])'
    OBVIOUS
  <2>1. callback[c].pc # "idle" => callback[c].intent # i
    BY <1>9 DEF IInv, Sound, CallbackFit, Verdicts
  <2> QED BY <1>2, <1>7, <2>1 DEF IInv, Sound, CallbackFit, HasClaim, Claimed, CallbackSteps
<1>14. OnePending'
  BY <1>2, <1>3, <1>7 DEF IInv, Sound, OnePending, Pending
<1>15. OneAsking'
  <2>1. \A g \in Tills : till[g].pc \in Asking => till[g].intent # i
    BY <1>2, TillFits DEF TillFit
  <2> QED BY <1>5, <1>8, <2>1 DEF IInv, Sound, OneAsking
<1>16. ClaimHasHandler'
  BY <1>2, <1>3, <1>7, Values DEF IInv, ClaimHasHandler, Processing
<1>17. (\A o \in Orders : BillFit(o)') /\ \A j \in orphans' : intent'[j].status # "none"
  BY <1>2, <1>3, <1>7 DEF IInv, Sound, BillFit, TypeOK
<1> QED BY <1>10, <1>11, <1>12, <1>13, <1>14, <1>15, <1>16, <1>17 DEF IInv, Sound

\* The till that asked writes the row of its intent, which nobody else has in hand: the QR, or
\* that INET failed.
LEMMA AskingWrites ==
  ASSUME IInv, NEW h \in Tills, till[h].pc \in Asking, till' = [till EXCEPT ![h] = IdleTill],
         NEW row \in IntentRow, intent' = [intent EXCEPT ![till[h].intent] = row],
         row.order = intent[till[h].intent].order, row.receipts = intent[till[h].intent].receipts,
         \/ till[h].pc = "answered" /\ row.status = "pending" /\ row.claim = "null" /\ row.qr = TRUE
         \/ till[h].pc = "provider_failed" /\ row.status = "failed" /\ row.claim = "reason" /\ row.qr = FALSE,
         UNCHANGED <<bill, inet, callback, orphans, timeouts>>
  PROVE  IInv'
<1> DEFINE i == till[h].intent
<1>1. i \in Intents /\ intent[i].status = "pending" /\ intent[i].claim = "null" /\ ~intent[i].qr
      /\ inet[i].verdict = IF till[h].pc = "answered" THEN "open" ELSE "unknown"
  BY TillFits DEF TillFit
<1> HIDE DEF i
<1>2. intent' \in [Intents -> IntentRow] /\ \A j \in Intents : intent'[j] = IF j = i THEN row ELSE intent[j]
  BY <1>1, RowFacts DEF IInv, Sound, i
<1>3. \A g \in Tills : till'[g] = IF g = h THEN IdleTill ELSE till[g]
  BY IdleTillFits DEF IInv, Sound, TypeOK
<1>4. TypeOK'
  BY <1>2, IdleTillFits DEF IInv, Sound, TypeOK
<1>5. intent[i].order \in Orders /\ intent[i].receipts = 0 /\ intent[i].receipts <= 1
  BY <1>1 DEF IInv, Sound, IntentFit, Claimable, TypeOK, IntentRow
<1>6. \A j \in Intents : IntentFit(j)'
  <2> SUFFICES ASSUME NEW j \in Intents PROVE IntentFit(j)'
    OBVIOUS
  <2>1. CASE j = i
    BY <1>1, <1>2, <1>5, <2>1, Values DEF IntentFit, Claimable, Verdicts, i
  <2>2. CASE j # i
    BY <1>2, <2>2 DEF IInv, Sound, IntentFit, Claimable
  <2> QED BY <2>1, <2>2
<1>7. \A g \in Tills : TillFit(till[g])'
  <2> SUFFICES ASSUME NEW g \in Tills PROVE TillFit(till[g])'
    OBVIOUS
  <2>1. CASE g = h
    BY <1>3, <2>1, IdleTillFits DEF TillFit, Asking
  <2>2. CASE g # h
    <3>1. till[g].pc \in Asking => till[g].intent # i
      BY <2>2 DEF IInv, Sound, OneAsking, i
    <3> QED BY <1>2, <1>3, <2>2, <3>1, TillFits DEF TillFit
  <2> QED BY <2>1, <2>2
<1>8. \A c \in Callbacks : CallbackFit(c, callback[c])'
  <2> SUFFICES ASSUME NEW c \in Callbacks PROVE CallbackFit(c, callback[c])'
    OBVIOUS
  <2>1. callback[c].pc # "idle" => callback[c].intent # i
    BY <1>1 DEF IInv, Sound, CallbackFit, Verdicts
  <2> QED BY <1>2, <2>1 DEF IInv, Sound, CallbackFit, HasClaim, Claimed, CallbackSteps
<1>9. OnePending'
  BY <1>1, <1>2 DEF IInv, Sound, OnePending, i
<1>10. OneAsking'
  BY <1>3, IdleTillFits DEF IInv, Sound, OneAsking, Asking
<1>11. ClaimHasHandler'
  BY <1>2, Values DEF IInv, ClaimHasHandler, Processing
<1>12. (\A o \in Orders : BillFit(o)') /\ \A j \in orphans' : intent'[j].status # "none"
  BY <1>2 DEF IInv, Sound, BillFit, TypeOK
<1> QED BY <1>4, <1>6, <1>7, <1>8, <1>9, <1>10, <1>11, <1>12 DEF IInv, Sound

LEMMA QrStoreStep == ASSUME IInv, NEW h \in Tills, QrStore(h) \/ QrMarkFailed(h) PROVE IInv'
<1> DEFINE i == till[h].intent
<1>1. till[h].pc \in Asking /\ i \in Intents /\ intent[i] \in IntentRow
      /\ intent[i].status = "pending" /\ intent[i].claim = "null" /\ ~intent[i].qr
  BY TillFits DEF TillFit, Asking, QrStore, QrMarkFailed, IInv, Sound, TypeOK
<1>2. CASE QrStore(h)
  <2> DEFINE row == [intent[i] EXCEPT !.qr = TRUE]
  <2>1. row \in IntentRow /\ row.status = "pending" /\ row.claim = "null" /\ row.qr = TRUE
        /\ row.order = intent[i].order /\ row.receipts = intent[i].receipts
    BY <1>1 DEF IntentRow
  <2>2. intent' = [intent EXCEPT ![i] = row] /\ till' = [till EXCEPT ![h] = IdleTill]
        /\ till[h].pc = "answered" /\ UNCHANGED <<bill, inet, callback, orphans, timeouts>>
    BY <1>2 DEF QrStore
  <2> HIDE DEF row
  <2> QED BY <1>1, <2>1, <2>2, AskingWrites
<1>3. CASE QrMarkFailed(h)
  <2> DEFINE row == [intent[i] EXCEPT !.status = "failed", !.claim = "reason"]
  <2>1. row \in IntentRow /\ row.status = "failed" /\ row.claim = "reason" /\ row.qr = intent[i].qr
        /\ row.order = intent[i].order /\ row.receipts = intent[i].receipts
    BY <1>1 DEF IntentRow
  <2>2. row.qr = FALSE
    BY <1>1, <2>1 DEF IntentRow
  <2>3. intent' = [intent EXCEPT ![i] = row] /\ till' = [till EXCEPT ![h] = IdleTill]
        /\ till[h].pc = "provider_failed" /\ UNCHANGED <<bill, inet, callback, orphans, timeouts>>
    BY <1>3 DEF QrMarkFailed
  <2> HIDE DEF row
  <2> QED BY <1>1, <2>1, <2>2, <2>3, AskingWrites
<1> QED BY <1>2, <1>3

-----------------------------------------------------------------------------
(* Steps of one callback handler                                              *)

LEMMA CallbackFits ==
  ASSUME IInv, NEW c \in Callbacks
  PROVE  /\ callback[c] \in CallbackState /\ CallbackFit(c, callback[c])
         /\ callback[c].pc # "idle" =>
              intent[callback[c].intent].status # "none" /\ intent[callback[c].intent].order \in Orders
<1> QED BY DEF IInv, Sound, TypeOK, CallbackFit, IntentFit, Verdicts

LEMMA IdleCallbackFits ==
  ASSUME NEW c \in Callbacks
  PROVE  IdleCallback \in CallbackState /\ IdleCallback.pc = "idle" /\ CallbackFit(c, IdleCallback)'
<1> QED BY DEF IdleCallback, CallbackState, CallbackFit, Claimed, CallbackSteps

LEMMA Advances ==
  ASSUME IInv, NEW c \in Callbacks, NEW pc \in CallbackSteps, Advance(c, pc)
  PROVE  \E q \in CallbackState : /\ callback' = [callback EXCEPT ![c] = q]
                                  /\ q.pc = pc /\ q.intent = callback[c].intent
<1> DEFINE q == [callback[c] EXCEPT !.pc = pc]
<1>1. q \in CallbackState /\ q.pc = pc /\ q.intent = callback[c].intent
  BY CallbackFits DEF CallbackState
<1>2. callback' = [callback EXCEPT ![c] = q]
  BY DEF Advance
<1> HIDE DEF q
<1> QED BY <1>1, <1>2

\* Payments are only ever added to a bill.
BillsGrow == /\ bill' \in [Orders -> BillRow]
             /\ \A o \in Orders : bill[o].keys \subseteq bill'[o].keys /\ BillFit(o)'

LEMMA BillsStay == ASSUME IInv, UNCHANGED bill PROVE BillsGrow
<1> QED BY DEF IInv, Sound, TypeOK, BillsGrow, BillFit

\* What depends on the rows of the bills and on INET's verdicts survives steps that write
\* neither an intent nor a till.
LEMMA Frame ==
  ASSUME IInv, BillsGrow, UNCHANGED <<intent, till>>,
         inet' \in [Intents -> InetRow], \A i \in Intents : inet'[i].verdict = inet[i].verdict
  PROVE  /\ \A i \in Intents : IntentFit(i)'
         /\ \A h \in Tills : TillFit(till[h])'
         /\ \A d \in Callbacks : CallbackFit(d, callback[d]) /\ callback'[d] = callback[d]
                                   => CallbackFit(d, callback[d])'
         /\ OnePending' /\ OneAsking'
<1>1. \A i \in Intents : IntentFit(i)'
  <2> SUFFICES ASSUME NEW i \in Intents PROVE IntentFit(i)'
    OBVIOUS
  <2>1. IntentFit(i)
    BY DEF IInv, Sound
  <2> QED BY <2>1 DEF IntentFit, BillsGrow, Claimable
<1>2. \A h \in Tills : TillFit(till[h])'
  BY DEF IInv, Sound, TillFit
<1>3. \A d \in Callbacks : CallbackFit(d, callback[d]) /\ callback'[d] = callback[d]
                             => CallbackFit(d, callback[d])'
  <2> SUFFICES ASSUME NEW d \in Callbacks, CallbackFit(d, callback[d]), callback'[d] = callback[d]
               PROVE  CallbackFit(d, callback[d])'
    OBVIOUS
  <2>1. callback[d].pc # "idle" => intent[callback[d].intent].order \in Orders
    BY CallbackFits
  <2> QED BY <2>1 DEF CallbackFit, BillsGrow, HasClaim, Claimed, CallbackSteps
<1>4. OnePending' /\ OneAsking'
  BY DEF IInv, Sound, OnePending, OneAsking
<1> QED BY <1>1, <1>2, <1>3, <1>4

\* A handler that moves on without writing its intent.
LEMMA CallbackMoves ==
  ASSUME IInv, NEW c \in Callbacks, NEW q \in CallbackState, callback' = [callback EXCEPT ![c] = q],
         CallbackFit(c, q)', BillsGrow, UNCHANGED <<intent, till>>,
         inet' \in [Intents -> InetRow], \A i \in Intents : inet'[i].verdict = inet[i].verdict,
         orphans' \subseteq Intents, \A i \in orphans' : intent[i].status # "none",
         timeouts' \in 0 .. MaxTimeouts,
         \A i \in Intents : ~Faulty /\ intent[i].claim = c => q.intent = i /\ q.pc \in Claimed
  PROVE  IInv'
<1>1. \A d \in Callbacks : callback'[d] = IF d = c THEN q ELSE callback[d]
  BY DEF IInv, Sound, TypeOK
<1>2. TypeOK'
  BY DEF IInv, Sound, TypeOK, BillsGrow
<1>3. \A d \in Callbacks : CallbackFit(d, callback[d])'
  <2> SUFFICES ASSUME NEW d \in Callbacks PROVE CallbackFit(d, callback[d])'
    OBVIOUS
  <2>1. CASE d = c
    BY <1>1, <2>1 DEF CallbackFit
  <2>2. CASE d # c
    BY <1>1, <2>2, CallbackFits, Frame
  <2> QED BY <2>1, <2>2
<1>4. ClaimHasHandler'
  BY <1>1 DEF IInv, ClaimHasHandler, Processing, Claimed
<1>5. \A o \in Orders : BillFit(o)'
  BY DEF BillsGrow
<1> QED BY <1>2, <1>3, <1>4, <1>5, Frame DEF IInv, Sound

\* As long as no handler dies, a handler that processes nothing has no claim.
LEMMA NoClaim ==
  ASSUME IInv, NEW c \in Callbacks, callback[c].pc \notin Claimed
  PROVE  \A i \in Intents : ~Faulty => intent[i].claim # c
<1> QED BY DEF IInv, ClaimHasHandler, Processing, Claimed

\* ... and a handler that goes on processing keeps it.
LEMMA KeepsClaim ==
  ASSUME IInv, NEW c \in Callbacks, NEW q, q.pc \in Claimed, q.intent = callback[c].intent
  PROVE  \A i \in Intents : ~Faulty /\ intent[i].claim = c => q.intent = i /\ q.pc \in Claimed
<1> QED BY DEF IInv, ClaimHasHandler, Processing, Claimed

LEMMA Acked ==
  ASSUME IInv, NEW i \in Intents, Ack(i)
  PROVE  inet' \in [Intents -> InetRow] /\ \A j \in Intents : inet'[j].verdict = inet[j].verdict
<1> QED BY DEF Ack, IInv, Sound, TypeOK, InetRow

LEMMA Rest ==
  ASSUME IInv
  PROVE  /\ orphans \subseteq Intents /\ timeouts \in 0 .. MaxTimeouts /\ inet \in [Intents -> InetRow]
         /\ \A i \in orphans : intent[i].status # "none"
<1> QED BY DEF IInv, Sound, TypeOK

LEMMA DeliverStep ==
  ASSUME IInv, NEW c \in Callbacks, NEW i \in Intents, Deliver(c, i) PROVE IInv'
<1>1. callback[c].pc = "idle" /\ inet[i].verdict \in Verdicts /\ UNCHANGED <<bill, intent, till, orphans, timeouts>>
  BY DEF Deliver, Verdicts
<1>2. CASE intent[i].status = "pending"
  <2> DEFINE q == [pc |-> "read", intent |-> i]
  <2>1. q \in CallbackState /\ q.pc = "read" /\ q.intent = i
    BY DEF CallbackState, CallbackSteps
  <2>2. callback' = [callback EXCEPT ![c] = q] /\ UNCHANGED inet
    BY <1>2 DEF Deliver
  <2> HIDE DEF q
  <2>3. PICK p \in CallbackState : p = q
    BY <2>1
  <2>4. CallbackFit(c, p)'
    BY <1>1, <2>1, <2>2, <2>3 DEF CallbackFit, Claimed
  <2>5. callback[c].pc \notin Claimed
    BY <1>1 DEF Claimed, CallbackSteps
  <2> QED BY <1>1, <2>2, <2>3, <2>4, <2>5, BillsStay, Rest, NoClaim, CallbackMoves
<1>3. CASE intent[i].status # "pending"
  <2>1. Ack(i) /\ UNCHANGED callback
    BY <1>3 DEF Deliver
  <2>2. inet' \in [Intents -> InetRow] /\ \A j \in Intents : inet'[j].verdict = inet[j].verdict
    BY <2>1, Acked
  <2>3. \A d \in Callbacks : CallbackFit(d, callback[d])'
    BY <1>1, <2>1, <2>2, BillsStay, CallbackFits, Frame
  <2>4. TypeOK' /\ ClaimHasHandler' /\ \A o \in Orders : BillFit(o)'
    BY <1>1, <2>1, <2>2 DEF IInv, Sound, TypeOK, ClaimHasHandler, Processing, BillFit
  <2>5. \A j \in orphans' : intent'[j].status # "none"
    BY <1>1 DEF IInv, Sound
  <2> QED BY <1>1, <2>2, <2>3, <2>4, <2>5, BillsStay, Frame DEF IInv, Sound
<1> QED BY <1>2, <1>3

\* A handler ends without a claim of its own, or dies.
LEMMA EndStep ==
  ASSUME IInv, NEW c \in Callbacks, Ends(c), UNCHANGED <<bill, intent, till, timeouts>>,
         callback[c].pc \notin Claimed \/ Faulty,
         inet' \in [Intents -> InetRow], \A i \in Intents : inet'[i].verdict = inet[i].verdict,
         orphans' \subseteq Intents, \A i \in orphans' : intent[i].status # "none"
  PROVE  IInv'
<1>1. callback' = [callback EXCEPT ![c] = IdleCallback]
  BY DEF Ends
<1>2. \A i \in Intents : ~Faulty => intent[i].claim # c
  BY NoClaim
<1> QED BY <1>1, <1>2, IdleCallbackFits, BillsStay, Rest, CallbackMoves

LEMMA CallbackFailsStep == ASSUME IInv, NEW c \in Callbacks, CallbackFails(c) PROVE IInv'
<1>1. callback[c].pc # "idle" /\ Faulty /\ Ends(c) /\ UNCHANGED <<bill, intent, inet, till, timeouts>>
  BY DEF CallbackFails
<1>2. callback[c].intent \in Intents /\ intent[callback[c].intent].status # "none"
  BY <1>1, CallbackFits DEF CallbackFit
<1>3. orphans' \subseteq Intents /\ \A i \in orphans' : intent[i].status # "none"
  BY <1>2, Rest DEF CallbackFails
<1> QED BY <1>1, <1>3, Rest, EndStep

LEMMA ClaimLostStep == ASSUME IInv, NEW c \in Callbacks, ClaimLost(c) PROVE IInv'
<1>1. callback[c].pc = "read" /\ Ack(callback[c].intent) /\ Ends(c)
      /\ UNCHANGED <<bill, intent, till, orphans, timeouts>>
  BY DEF ClaimLost
<1>2. callback[c].intent \in Intents
  BY <1>1, CallbackFits DEF CallbackFit
<1>3. callback[c].pc \notin Claimed
  BY <1>1 DEF Claimed
<1> QED BY <1>1, <1>2, <1>3, Acked, Rest, EndStep

\* The steps of a claimed handler that write nothing: the payment is sent, refused or given
\* up, the snapshot fails, nothing is printed.
LEMMA QuietStep ==
  ASSUME IInv, NEW c \in Callbacks,
         CallPayment(c) \/ TxRefuses(c) \/ TimeOut(c) \/ SnapshotFails(c) \/ PrintSkipped(c)
  PROVE  IInv'
<1> DEFINE i == callback[c].intent
<1>1. callback[c].pc \in {"claimed", "sent", "settled"} /\ UNCHANGED <<bill, intent, inet, till>>
  BY DEF CallPayment, TxRefuses, TimeOut, SnapshotFails, PrintSkipped
<1>2. PICK pc \in {"sent", "failed", "finalized"} :
        Advance(c, pc) /\ (pc = "finalized" => callback[c].pc = "settled")
  BY DEF CallPayment, TxRefuses, TimeOut, SnapshotFails, PrintSkipped
<1>3. pc \in CallbackSteps /\ pc \in Claimed /\ callback[c].pc \in Claimed
      /\ callback[c].pc \in Claimed \ {"finalized"} /\ callback[c].pc # "idle"
  BY <1>1, <1>2 DEF CallbackSteps, Claimed
<1>4. PICK q \in CallbackState : /\ callback' = [callback EXCEPT ![c] = q]
                                 /\ q.pc = pc /\ q.intent = i
  BY <1>2, <1>3, Advances
<1>5. i \in Intents /\ intent[i].status # "none" /\ CallbackFit(c, callback[c])
  BY <1>3, CallbackFits DEF CallbackFit
<1>6. CallbackFit(c, q)'
  BY <1>1, <1>2, <1>3, <1>4, <1>5 DEF CallbackFit, HasClaim
<1>7. timeouts' \in 0 .. MaxTimeouts /\ orphans' \subseteq Intents /\ \A j \in orphans' : intent[j].status # "none"
  <2>1. CASE TimeOut(c)
    <3>1. timeouts \in Nat /\ MaxTimeouts \in Nat
      BY Rest, ConstantsAssumption
    <3>2. timeouts' \in 0 .. MaxTimeouts
      BY <2>1, <3>1 DEF TimeOut
    <3> QED BY <1>5, <2>1, <3>2, Rest DEF TimeOut
  <2>2. CASE UNCHANGED <<orphans, timeouts>>
    BY <2>2, Rest
  <2> QED BY <2>1, <2>2 DEF CallPayment, TxRefuses, SnapshotFails, PrintSkipped
<1> QED BY <1>1, <1>3, <1>4, <1>6, <1>7, BillsStay, Rest, KeepsClaim, CallbackMoves

-----------------------------------------------------------------------------
(* The payment                                                                *)

LEMMA SettledFacts ==
  ASSUME IInv, NEW i \in Intents, intent[i].status # "none", Settles(i), Settled(i)
  PROVE  BillsGrow /\ i \in bill'[intent[i].order].keys
<1> DEFINE o == intent[i].order
<1>1. o \in Orders /\ bill \in [Orders -> BillRow] /\ bill[o] \in BillRow /\ BillFit(o)
  BY DEF IInv, Sound, IntentFit, TypeOK
<1>2. PICK row \in BillRow : /\ bill[o].keys \subseteq row.keys /\ i \in row.keys /\ row.status = "completed"
                             /\ bill' = [bill EXCEPT ![o] = row]
  <2>1. CASE i \in bill[o].keys
    <3>1. bill' = bill
      BY <2>1 DEF Settled
    <3>2. bill' = [bill EXCEPT ![o] = bill[o]]
      BY <1>1, <3>1
    <3> QED BY <1>1, <2>1, <3>2 DEF BillFit
  <2>2. CASE i \notin bill[o].keys
    <3> DEFINE row == [bill[o] EXCEPT !.status = "completed", !.keys = @ \union {i}]
    <3>1. row \in BillRow /\ row.keys = bill[o].keys \union {i} /\ row.status = "completed"
      BY <1>1 DEF BillRow
    <3>2. bill' = [bill EXCEPT ![o] = row]
      BY <2>2 DEF Settled
    <3> HIDE DEF row
    <3> QED BY <3>1, <3>2
  <2> QED BY <2>1, <2>2
<1> HIDE DEF o
<1>4. bill' \in [Orders -> BillRow] /\ \A p \in Orders : bill'[p] = IF p = o THEN row ELSE bill[p]
  BY <1>1, <1>2
<1>5. ASSUME NEW p \in Orders PROVE bill[p].keys \subseteq bill'[p].keys /\ BillFit(p)'
  BY <1>2, <1>4 DEF IInv, Sound, BillFit
<1> QED BY <1>1, <1>2, <1>4, <1>5 DEF BillsGrow, o

LEMMA TxStep == ASSUME IInv, NEW c \in Callbacks, TxSettles(c) \/ TxCollides(c) PROVE IInv'
<1> DEFINE i == callback[c].intent
<1>1. callback[c].pc = "sent" /\ Settles(i) /\ Settled(i) /\ UNCHANGED <<intent, inet, till, timeouts>>
  BY DEF TxSettles, TxCollides
<1>2. orphans' \subseteq orphans
  BY DEF TxSettles, TxCollides
<1>3. PICK pc \in {"settled", "failed"} : Advance(c, pc)
  BY DEF TxSettles, TxCollides
<1>4. pc \in CallbackSteps /\ pc \in Claimed /\ callback[c].pc \in Claimed \ {"finalized"}
  BY <1>1 DEF CallbackSteps, Claimed
<1>5. PICK q \in CallbackState : /\ callback' = [callback EXCEPT ![c] = q]
                                 /\ q.pc = pc /\ q.intent = i
  BY <1>3, <1>4, Advances
<1>6. i \in Intents /\ intent[i].status # "none" /\ CallbackFit(c, callback[c])
  BY <1>1, CallbackFits DEF CallbackFit
<1>7. BillsGrow /\ i \in bill'[intent[i].order].keys
  BY <1>1, <1>6, SettledFacts
<1>8. CallbackFit(c, q)'
  BY <1>1, <1>4, <1>5, <1>6, <1>7 DEF CallbackFit, HasClaim
<1>9. /\ orphans' \subseteq Intents /\ \A j \in orphans' : intent[j].status # "none"
      /\ timeouts' \in 0 .. MaxTimeouts /\ inet' \in [Intents -> InetRow]
  BY <1>1, <1>2, Rest
<1>10. \A j \in Intents : ~Faulty /\ intent[j].claim = c => q.intent = j /\ q.pc \in Claimed
  BY <1>4, <1>5, KeepsClaim
<1> QED BY <1>1, <1>5, <1>7, <1>8, <1>9, <1>10, CallbackMoves

\* What happens to bills while no till and no callback moves.
LEMMA BillStep ==
  ASSUME IInv, BillsGrow, UNCHANGED <<intent, inet, callback, till, timeouts>>, orphans' \subseteq orphans
  PROVE  IInv'
<1>1. \A d \in Callbacks : CallbackFit(d, callback[d])'
  BY CallbackFits, Rest, Frame
<1>2. TypeOK' /\ ClaimHasHandler' /\ \A o \in Orders : BillFit(o)'
  BY DEF IInv, Sound, TypeOK, ClaimHasHandler, Processing, BillsGrow
<1>3. \A j \in orphans' : intent'[j].status # "none"
  BY DEF IInv, Sound
<1> QED BY <1>1, <1>2, <1>3, Rest, Frame DEF IInv, Sound

LEMMA OrphanEndsStep == ASSUME IInv, NEW i \in Intents, OrphanEnds(i) PROVE IInv'
<1>1. intent[i].status # "none" /\ UNCHANGED <<intent, inet, callback, till, timeouts>> /\ orphans' \subseteq orphans
  BY Rest DEF OrphanEnds
<1>2. BillsGrow
  BY <1>1, SettledFacts, BillsStay DEF OrphanEnds
<1> QED BY <1>1, <1>2, BillStep

LEMMA OtherBillStep ==
  ASSUME IInv, NEW o \in Orders, NEW t \in Totals, CancelBill(o) \/ CashPays(o) \/ Reprice(o, t) PROVE IInv'
<1>1. bill \in [Orders -> BillRow] /\ bill[o] \in BillRow /\ BillFit(o)
  BY DEF IInv, Sound, TypeOK
<1>2. PICK row \in BillRow : /\ bill' = [bill EXCEPT ![o] = row]
                             /\ bill[o].keys \subseteq row.keys
                             /\ row.keys # {} => row.status = "completed"
  <2>1. CASE CancelBill(o)
    <3> DEFINE row == [bill[o] EXCEPT !.status = "cancelled", !.tableOpen = FALSE]
    <3>1. row \in BillRow /\ row.keys = bill[o].keys
      BY <1>1 DEF BillRow
    <3>2. bill[o].keys = {}
      BY <1>1, <2>1 DEF BillFit, CancelBill
    <3>3. bill' = [bill EXCEPT ![o] = row]
      BY <2>1 DEF CancelBill
    <3> HIDE DEF row
    <3> QED BY <3>1, <3>2, <3>3
  <2>2. CASE CashPays(o)
    <3> DEFINE row == [bill[o] EXCEPT !.status = "completed", !.keys = @ \union {"cash"}, !.tableOpen = FALSE]
    <3>1. row \in BillRow /\ row.keys = bill[o].keys \union {"cash"} /\ row.status = "completed"
      BY <1>1 DEF BillRow
    <3>2. bill' = [bill EXCEPT ![o] = row]
      BY <2>2 DEF CashPays
    <3> HIDE DEF row
    <3> QED BY <3>1, <3>2
  <2>3. CASE Reprice(o, t)
    <3> DEFINE row == [bill[o] EXCEPT !.total = t]
    <3>1. row \in BillRow /\ row.keys = bill[o].keys /\ row.status = bill[o].status
      BY <1>1 DEF BillRow
    <3>2. bill' = [bill EXCEPT ![o] = row]
      BY <2>3 DEF Reprice
    <3> HIDE DEF row
    <3> QED BY <1>1, <3>1, <3>2 DEF BillFit
  <2> QED BY <2>1, <2>2, <2>3
<1>3. bill' \in [Orders -> BillRow] /\ \A p \in Orders : bill'[p] = IF p = o THEN row ELSE bill[p]
  BY <1>1, <1>2
<1>4. BillsGrow
  BY <1>2, <1>3 DEF IInv, Sound, BillsGrow, BillFit
<1>5. UNCHANGED <<intent, inet, callback, till, orphans, timeouts>>
  BY DEF CancelBill, CashPays, Reprice
<1> QED BY <1>4, <1>5, BillStep

-----------------------------------------------------------------------------
(* A handler writes its intent                                                *)

\* Nobody else processes an intent that is unclaimed or claimed by the handler itself, and the
\* tills are done with it.
LEMMA CallbackWrites ==
  ASSUME IInv, NEW c \in Callbacks, callback[c].pc # "idle",
         NEW i \in Intents, i = callback[c].intent,
         NEW q \in CallbackState, callback' = [callback EXCEPT ![c] = q], CallbackFit(c, q)',
         NEW row \in IntentRow, intent' = [intent EXCEPT ![i] = row],
         row.order = intent[i].order, row.qr = intent[i].qr,
         row.status \in {"pending", "paid", "failed"}, IntentFit(i)',
         intent[i].status = "pending", intent[i].claim \in {"null", c}, row.claim \in {"null", "reason", c},
         bill' \in [Orders -> BillRow],
         \A o \in Orders : bill'[o].keys = bill[o].keys /\ bill'[o].status = bill[o].status,
         inet' \in [Intents -> InetRow], \A j \in Intents : inet'[j].verdict = inet[j].verdict,
         UNCHANGED <<till, orphans, timeouts>>,
         ~Faulty /\ row.claim = c => q.intent = i /\ q.pc \in Claimed
  PROVE  IInv'
<1>1. intent' \in [Intents -> IntentRow] /\ \A j \in Intents : intent'[j] = IF j = i THEN row ELSE intent[j]
  BY RowFacts DEF IInv, Sound
<1>2. \A d \in Callbacks : callback'[d] = IF d = c THEN q ELSE callback[d]
  BY DEF IInv, Sound, TypeOK
<1>3. TypeOK'
  BY <1>1 DEF IInv, Sound, TypeOK
<1>4. inet[i].verdict \in Verdicts /\ CallbackFit(c, callback[c])
  BY CallbackFits DEF CallbackFit
<1>5. \A j \in Intents : IntentFit(j)'
  <2> SUFFICES ASSUME NEW j \in Intents, j # i PROVE IntentFit(j)'
    OBVIOUS
  <2>1. IntentFit(j) /\ intent'[j] = intent[j]
    BY <1>1 DEF IInv, Sound
  <2> QED BY <2>1 DEF IntentFit, Claimable
<1>6. \A h \in Tills : TillFit(till[h])'
  <2> SUFFICES ASSUME NEW h \in Tills PROVE TillFit(till[h])'
    OBVIOUS
  <2>1. till[h].pc \in Asking => till[h].intent # i
    BY <1>4, TillFits DEF TillFit, Verdicts
  <2> QED BY <1>1, <2>1, TillFits DEF TillFit
<1>7. \A d \in Callbacks : CallbackFit(d, callback[d])'
  <2> SUFFICES ASSUME NEW d \in Callbacks PROVE CallbackFit(d, callback[d])'
    OBVIOUS
  <2>1. CASE d = c
    BY <1>2, <2>1 DEF CallbackFit
  <2>2. CASE d # c
    <3>1. CallbackFit(d, callback[d]) /\ callback'[d] = callback[d]
      BY <1>2, <2>2, CallbackFits
    <3>2. callback[d].pc \in Claimed => callback[d].intent # i
      BY <2>2, <3>1, Values DEF CallbackFit, HasClaim
    <3>3. callback[d].pc # "idle" => intent[callback[d].intent].order \in Orders
      BY CallbackFits
    <3> QED BY <1>1, <3>1, <3>2, <3>3 DEF CallbackFit, HasClaim, Claimed, CallbackSteps
  <2> QED BY <2>1, <2>2
<1>8. OnePending'
  BY <1>1 DEF IInv, Sound, OnePending
<1>9. OneAsking'
  BY DEF IInv, Sound, OneAsking
<1>10. ClaimHasHandler'
  <2> SUFFICES ASSUME NEW j \in Intents, NEW d \in Callbacks, ~Faulty, intent'[j].claim = d
               PROVE  Processing(d, j)'
    BY DEF ClaimHasHandler
  <2>1. CASE j = i
    BY <1>1, <1>2, <2>1, Values DEF Processing, Claimed
  <2>2. CASE j # i
    <3>1. intent[j].claim = d /\ Processing(d, j)
      BY <1>1, <2>2 DEF IInv, ClaimHasHandler
    <3>2. d # c
      BY <2>2, <3>1 DEF Processing
    <3> QED BY <1>2, <3>1, <3>2 DEF Processing
  <2> QED BY <2>1, <2>2
<1>11. (\A o \in Orders : BillFit(o)') /\ \A j \in orphans' : intent'[j].status # "none"
  BY <1>1, Rest DEF IInv, Sound, BillFit
<1> QED BY <1>3, <1>5, <1>6, <1>7, <1>8, <1>9, <1>10, <1>11 DEF IInv, Sound

\* What a handler knows of the intent it works on.
LEMMA Held ==
  ASSUME IInv, NEW c \in Callbacks, NEW i, i = callback[c].intent, callback[c].pc # "idle"
  PROVE  /\ i \in Intents /\ intent[i] \in IntentRow /\ IntentFit(i) /\ inet[i].verdict \in Verdicts
         /\ intent[i].status # "none" /\ intent[i].order \in Orders
         /\ callback[c].pc \in Claimed => HasClaim(c, i)
         /\ bill \in [Orders -> BillRow]
<1> QED BY CallbackFits DEF CallbackFit, IInv, Sound, TypeOK

LEMMA ClaimIntentStep == ASSUME IInv, NEW c \in Callbacks, ClaimIntent(c) PROVE IInv'
<1>1. PICK i : i = callback[c].intent
  OBVIOUS
<1>2. callback[c].pc = "read" /\ inet[i].verdict = "success" /\ Claimable(i)
      /\ UNCHANGED <<bill, inet, till, orphans, timeouts>>
  BY <1>1 DEF ClaimIntent
<1>3. /\ i \in Intents /\ intent[i] \in IntentRow /\ IntentFit(i) /\ inet[i].verdict \in Verdicts
      /\ intent[i].status = "pending" /\ intent[i].claim = "null" /\ intent[i].order \in Orders
      /\ bill \in [Orders -> BillRow]
  BY <1>1, <1>2, Held DEF Claimable
<1>4. intent[i].receipts = 0
  BY <1>2, <1>3 DEF IntentFit
<1>5. PICK row \in IntentRow : /\ intent' = [intent EXCEPT ![i] = row]
                               /\ row.claim = c /\ row.status = "pending" /\ row.receipts = 0
                               /\ row.order = intent[i].order /\ row.qr = intent[i].qr
  <2> DEFINE row == [intent[i] EXCEPT !.claim = c]
  <2>1. row \in IntentRow /\ row.claim = c /\ row.status = "pending" /\ row.receipts = 0
        /\ row.order = intent[i].order /\ row.qr = intent[i].qr
    BY <1>3, <1>4 DEF IntentRow
  <2>2. intent' = [intent EXCEPT ![i] = row]
    BY <1>1 DEF ClaimIntent
  <2> HIDE DEF row
  <2> QED BY <2>1, <2>2
<1>6. PICK q \in CallbackState : callback' = [callback EXCEPT ![c] = q] /\ q.pc = "claimed" /\ q.intent = i
  BY <1>1, Advances DEF ClaimIntent, CallbackSteps
<1>7. intent'[i] = row /\ "claimed" \in Claimed
  BY <1>3, <1>5, RowFacts DEF IInv, Sound, Claimed, CallbackSteps
<1>8. IntentFit(i)'
  BY <1>2, <1>3, <1>5, <1>7, Values DEF IntentFit, Claimable, Verdicts
<1>9. CallbackFit(c, q)'
  BY <1>2, <1>3, <1>5, <1>6, <1>7 DEF CallbackFit, HasClaim
<1>10. inet' \in [Intents -> InetRow]
  BY <1>2, Rest
<1> QED BY <1>1, <1>2, <1>3, <1>5, <1>6, <1>7, <1>8, <1>9, <1>10, CallbackWrites

\* A refused payment is recorded on an intent that nobody has claimed.
LEMMA RecordFailureStep == ASSUME IInv, NEW c \in Callbacks, RecordFailure(c) PROVE IInv'
<1>1. PICK i : i = callback[c].intent
  OBVIOUS
<1>2. callback[c].pc = "read" /\ callback[c].pc \notin Claimed /\ inet[i].verdict = "failure"
      /\ Ack(i) /\ Ends(c) /\ UNCHANGED <<bill, till, orphans, timeouts>>
  BY <1>1 DEF RecordFailure, Claimed
<1>3. /\ i \in Intents /\ intent[i] \in IntentRow /\ IntentFit(i) /\ inet[i].verdict \in Verdicts
      /\ intent[i].order \in Orders /\ bill \in [Orders -> BillRow]
  BY <1>1, <1>2, Held
<1>4. inet' \in [Intents -> InetRow] /\ \A j \in Intents : inet'[j].verdict = inet[j].verdict
  BY <1>2, <1>3, Acked
<1>5. CASE ~Claimable(i)
  BY <1>1, <1>2, <1>4, <1>5, Rest, EndStep DEF RecordFailure
<1>6. CASE Claimable(i)
  <2>1. intent[i].receipts = 0 /\ intent[i].status = "pending" /\ intent[i].claim = "null"
    BY <1>3, <1>6 DEF IntentFit, Claimable
  <2>2. PICK row \in IntentRow : /\ intent' = [intent EXCEPT ![i] = row]
                                 /\ row.claim = "reason" /\ row.status = "failed" /\ row.receipts = 0
                                 /\ row.order = intent[i].order /\ row.qr = intent[i].qr
    <3> DEFINE row == [intent[i] EXCEPT !.status = "failed", !.claim = "reason"]
    <3>1. row \in IntentRow /\ row.claim = "reason" /\ row.status = "failed" /\ row.receipts = 0
          /\ row.order = intent[i].order /\ row.qr = intent[i].qr
      BY <1>3, <2>1 DEF IntentRow
    <3>2. intent' = [intent EXCEPT ![i] = row]
      BY <1>1, <1>6 DEF RecordFailure
    <3> HIDE DEF row
    <3> QED BY <3>1, <3>2
  <2>3. callback' = [callback EXCEPT ![c] = IdleCallback] /\ "reason" # c
    BY <1>2, Values DEF Ends
  <2>4. intent'[i] = row
    BY <1>3, <2>2, RowFacts DEF IInv, Sound
  <2>5. IntentFit(i)'
    BY <1>3, <1>4, <2>1, <2>2, <2>4, Values DEF IntentFit, Claimable, Verdicts
  <2> QED BY <1>1, <1>2, <1>3, <1>4, <2>1, <2>2, <2>3, <2>5, IdleCallbackFits, CallbackWrites
<1> QED BY <1>5, <1>6

\* The receipt is printed once: the claim is kept until the intent is paid.
LEMMA PrintStep == ASSUME IInv, NEW c \in Callbacks, PrintAndCloseTable(c) PROVE IInv'
<1>1. PICK i : i = callback[c].intent
  OBVIOUS
<1>2. callback[c].pc = "settled" /\ callback[c].pc \in Claimed \ {"finalized"} /\ callback[c].pc # "idle"
      /\ UNCHANGED <<inet, till, orphans, timeouts>>
  BY <1>1 DEF PrintAndCloseTable, Claimed, CallbackSteps
<1>3. /\ i \in Intents /\ intent[i] \in IntentRow /\ IntentFit(i) /\ inet[i].verdict \in Verdicts
      /\ intent[i].status = "pending" /\ intent[i].claim = c /\ intent[i].order \in Orders
      /\ bill \in [Orders -> BillRow]
  BY <1>1, <1>2, Held DEF HasClaim
<1>4. intent[i].receipts = 0 /\ i \in bill[intent[i].order].keys
  BY <1>1, <1>2, CallbackFits DEF CallbackFit
<1>5. PICK row \in IntentRow : /\ intent' = [intent EXCEPT ![i] = row]
                               /\ row.claim = c /\ row.status = "pending" /\ row.receipts = 1
                               /\ row.order = intent[i].order /\ row.qr = intent[i].qr
  <2> DEFINE row == [intent[i] EXCEPT !.receipts = @ + 1]
  <2>1. row \in IntentRow /\ row.claim = c /\ row.status = "pending" /\ row.receipts = 1
        /\ row.order = intent[i].order /\ row.qr = intent[i].qr
    BY <1>3, <1>4 DEF IntentRow
  <2>2. intent' = [intent EXCEPT ![i] = row]
    BY <1>1 DEF PrintAndCloseTable
  <2> HIDE DEF row
  <2> QED BY <2>1, <2>2
<1>6. PICK q \in CallbackState : callback' = [callback EXCEPT ![c] = q] /\ q.pc = "finalized" /\ q.intent = i
  BY <1>1, Advances DEF PrintAndCloseTable, CallbackSteps
<1>7. intent'[i] = row /\ "finalized" \in Claimed
  BY <1>3, <1>5, RowFacts DEF IInv, Sound, Claimed, CallbackSteps
<1>8. bill' \in [Orders -> BillRow]
      /\ \A o \in Orders : bill'[o].keys = bill[o].keys /\ bill'[o].status = bill[o].status
  <2> DEFINE o == intent[i].order
             b == [bill[o] EXCEPT !.tableOpen = FALSE]
  <2>1. bill' = [bill EXCEPT ![o] = b]
    BY <1>1 DEF PrintAndCloseTable
  <2>2. o \in Orders
    BY <1>3
  <2> HIDE DEF o
  <2>3. bill[o] \in BillRow
    BY <1>3, <2>2
  <2>4. b \in BillRow /\ b.keys = bill[o].keys /\ b.status = bill[o].status
    BY <2>3 DEF BillRow
  <2> HIDE DEF b
  <2> QED BY <1>3, <2>1, <2>2, <2>4
<1>9. IntentFit(i)'
  BY <1>2, <1>3, <1>4, <1>5, <1>7, <1>8, Values DEF IntentFit, Claimable, Verdicts
<1>10. CallbackFit(c, q)'
  BY <1>2, <1>3, <1>4, <1>5, <1>6, <1>7, <1>8 DEF CallbackFit, HasClaim
<1>11. inet' \in [Intents -> InetRow]
  BY <1>2, Rest
<1> QED BY <1>1, <1>2, <1>3, <1>5, <1>6, <1>7, <1>8, <1>9, <1>10, <1>11, CallbackWrites

LEMMA MarkPaidStep == ASSUME IInv, NEW c \in Callbacks, MarkPaid(c) PROVE IInv'
<1>1. PICK i : i = callback[c].intent
  OBVIOUS
<1>2. callback[c].pc = "finalized" /\ callback[c].pc \in Claimed /\ callback[c].pc # "idle"
      /\ Ack(i) /\ Ends(c) /\ UNCHANGED <<bill, till, orphans, timeouts>>
  BY <1>1 DEF MarkPaid, Claimed, CallbackSteps
<1>3. /\ i \in Intents /\ intent[i] \in IntentRow /\ IntentFit(i) /\ inet[i].verdict \in Verdicts
      /\ intent[i].status = "pending" /\ intent[i].claim = c /\ intent[i].order \in Orders
      /\ bill \in [Orders -> BillRow]
  BY <1>1, <1>2, Held DEF HasClaim
<1>4. i \in bill[intent[i].order].keys
  BY <1>1, <1>2, CallbackFits DEF CallbackFit
<1>5. PICK row \in IntentRow : /\ intent' = [intent EXCEPT ![i] = row]
                               /\ row.claim = "null" /\ row.status = "paid"
                               /\ row.receipts = intent[i].receipts
                               /\ row.order = intent[i].order /\ row.qr = intent[i].qr
  <2> DEFINE row == [intent[i] EXCEPT !.status = "paid", !.claim = "null"]
  <2>1. row \in IntentRow /\ row.claim = "null" /\ row.status = "paid"
        /\ row.receipts = intent[i].receipts
        /\ row.order = intent[i].order /\ row.qr = intent[i].qr
    BY <1>3 DEF IntentRow
  <2>2. intent' = [intent EXCEPT ![i] = row]
    BY <1>1 DEF MarkPaid
  <2> HIDE DEF row
  <2> QED BY <2>1, <2>2
<1>6. callback' = [callback EXCEPT ![c] = IdleCallback] /\ "null" # c
  BY <1>2, Values DEF Ends
<1>7. intent'[i] = row
  BY <1>3, <1>5, RowFacts DEF IInv, Sound
<1>8. inet' \in [Intents -> InetRow] /\ \A j \in Intents : inet'[j].verdict = inet[j].verdict
  BY <1>2, <1>3, Acked
<1>9. IntentFit(i)'
  BY <1>2, <1>3, <1>4, <1>5, <1>7, <1>8, Values DEF IntentFit, Claimable, Verdicts
<1> QED BY <1>1, <1>2, <1>3, <1>5, <1>6, <1>8, <1>9, IdleCallbackFits, CallbackWrites

\* A claim that is given back has printed nothing.
LEMMA ReleaseClaimStep == ASSUME IInv, NEW c \in Callbacks, ReleaseClaim(c) PROVE IInv'
<1>1. PICK i : i = callback[c].intent
  OBVIOUS
<1>2. callback[c].pc = "failed" /\ callback[c].pc \in Claimed \ {"finalized"} /\ callback[c].pc # "idle"
      /\ Ends(c) /\ UNCHANGED <<bill, inet, till, orphans, timeouts>>
  BY <1>1 DEF ReleaseClaim, Claimed, CallbackSteps
<1>3. /\ i \in Intents /\ intent[i] \in IntentRow /\ IntentFit(i) /\ inet[i].verdict \in Verdicts
      /\ HasClaim(c, i) /\ intent[i].status = "pending" /\ intent[i].claim = c /\ intent[i].order \in Orders
      /\ bill \in [Orders -> BillRow]
  BY <1>1, <1>2, Held DEF HasClaim
<1>4. intent[i].receipts = 0
  BY <1>1, <1>2, CallbackFits DEF CallbackFit
<1>5. PICK row \in IntentRow : /\ intent' = [intent EXCEPT ![i] = row]
                               /\ row.claim = "null" /\ row.status = "pending" /\ row.receipts = 0
                               /\ row.order = intent[i].order /\ row.qr = intent[i].qr
  <2> DEFINE row == [intent[i] EXCEPT !.claim = "null"]
  <2>1. row \in IntentRow /\ row.claim = "null" /\ row.status = "pending" /\ row.receipts = 0
        /\ row.order = intent[i].order /\ row.qr = intent[i].qr
    BY <1>3, <1>4 DEF IntentRow
  <2>2. intent' = [intent EXCEPT ![i] = row]
    BY <1>1, <1>3 DEF ReleaseClaim
  <2> HIDE DEF row
  <2> QED BY <2>1, <2>2
<1>6. callback' = [callback EXCEPT ![c] = IdleCallback] /\ "null" # c
  BY <1>2, Values DEF Ends
<1>7. intent'[i] = row
  BY <1>3, <1>5, RowFacts DEF IInv, Sound
<1>8. IntentFit(i)'
  BY <1>2, <1>3, <1>4, <1>5, <1>7, Values DEF IntentFit, Claimable, Verdicts
<1>9. inet' \in [Intents -> InetRow]
  BY <1>2, Rest
<1> QED BY <1>1, <1>2, <1>3, <1>5, <1>6, <1>8, <1>9, IdleCallbackFits, CallbackWrites

\* INET's customer decides once, on a QR that was shown.
LEMMA CustomerActsStep ==
  ASSUME IInv, NEW i \in Intents, NEW v \in Verdicts, CustomerActs(i, v) PROVE IInv'
<1>1. inet[i].verdict = "open" /\ intent[i].qr /\ UNCHANGED <<bill, intent, callback, till, orphans, timeouts>>
  BY DEF CustomerActs
<1>2. inet' \in [Intents -> InetRow]
      /\ \A j \in Intents : inet'[j].verdict = IF j = i THEN v ELSE inet[j].verdict
  BY DEF CustomerActs, IInv, Sound, TypeOK, InetRow, Verdicts
<1>3. \A j \in Intents : IntentFit(j)'
  BY <1>1, <1>2 DEF IInv, Sound, IntentFit, Claimable, Verdicts
<1>4. \A h \in Tills : TillFit(till[h])'
  <2> SUFFICES ASSUME NEW h \in Tills PROVE TillFit(till[h])'
    OBVIOUS
  <2>1. till[h].pc \in Asking => till[h].intent # i
    BY <1>1, TillFits DEF TillFit
  <2> QED BY <1>1, <1>2, <2>1, TillFits DEF TillFit
<1>5. \A c \in Callbacks : CallbackFit(c, callback[c])'
  BY <1>1, <1>2 DEF IInv, Sound, CallbackFit, HasClaim, Verdicts
<1>6. TypeOK' /\ OnePending' /\ OneAsking' /\ ClaimHasHandler' /\ \A o \in Orders : BillFit(o)'
  BY <1>1, <1>2 DEF IInv, Sound, TypeOK, OnePending, OneAsking, ClaimHasHandler, Processing, BillFit
<1>7. \A j \in orphans' : intent'[j].status # "none"
  BY <1>1, Rest
<1> QED BY <1>3, <1>4, <1>5, <1>6, <1>7 DEF IInv, Sound

-----------------------------------------------------------------------------
(* The invariant and the theorems                                             *)

LEMMA InitIInv == Init => IInv
<1> SUFFICES ASSUME Init PROVE IInv
  OBVIOUS
<1>1. /\ intent = [i \in Intents |-> NoIntent]
      /\ inet = [i \in Intents |-> [verdict |-> "unknown", acked |-> FALSE]]
      /\ callback = [c \in Callbacks |-> IdleCallback] /\ till = [h \in Tills |-> IdleTill]
      /\ orphans = {} /\ timeouts = 0
  BY DEF Init
<1>2. bill \in [Orders -> BillRow] /\ \A o \in Orders : bill[o].keys = {}
  <2> DEFINE Fresh == {[status |-> "queued", total |-> t, keys |-> {}, tableOpen |-> TRUE] : t \in Totals}
  <2>1. ASSUME NEW b \in Fresh PROVE b \in BillRow /\ b.keys = {}
    <3>1. PICK t \in Totals : b = [status |-> "queued", total |-> t, keys |-> {}, tableOpen |-> TRUE]
      OBVIOUS
    <3>2. {} \in SUBSET (Intents \union {"cash"})
      OBVIOUS
    <3> QED BY <3>1, <3>2 DEF BillRow
  <2>2. bill \in [Orders -> Fresh]
    BY DEF Init
  <2> HIDE DEF Fresh
  <2> QED BY <2>1, <2>2
<1>3. NoIntent \in IntentRow /\ NoIntent.status = "none" /\ NoIntent.claim = "null" /\ NoIntent.qr = FALSE
      /\ NoIntent.receipts = 0
  BY DEF NoIntent, IntentRow
<1>4. IdleCallback \in CallbackState /\ IdleCallback.pc = "idle"
  BY DEF IdleCallback, CallbackState
<1>5. TypeOK
  BY <1>1, <1>2, <1>3, <1>4, IdleTillFits, ConstantsAssumption DEF TypeOK, InetRow
<1>6. \A i \in Intents : IntentFit(i)
  BY <1>1, <1>3, Values DEF IntentFit, Verdicts
<1>7. \A h \in Tills : TillFit(till[h])
  BY <1>1, IdleTillFits DEF TillFit, Asking
<1>8. \A c \in Callbacks : CallbackFit(c, callback[c])
  BY <1>1, <1>4 DEF CallbackFit, Claimed, CallbackSteps
<1>9. OnePending /\ OneAsking /\ ClaimHasHandler /\ \A o \in Orders : BillFit(o)
  BY <1>1, <1>2, <1>3, IdleTillFits, Values DEF OnePending, OneAsking, Asking, ClaimHasHandler, BillFit
<1> QED BY <1>1, <1>5, <1>6, <1>7, <1>8, <1>9 DEF IInv, Sound

LEMMA NextIInv == IInv /\ [Next]_vars => IInv'
<1> SUFFICES ASSUME IInv, [Next]_vars PROVE IInv'
  OBVIOUS
<1>1. ASSUME NEW h \in Tills, TillStep(h) PROVE IInv'
  BY <1>1, TillStopStep, TillGoesStep, QrProviderAnswersStep, QrStoreStep, QrInsertStep DEF TillStep
<1>2. ASSUME NEW c \in Callbacks, CallbackStep(c) PROVE IInv'
  BY <1>2, RecordFailureStep, ClaimIntentStep, ClaimLostStep, QuietStep, TxStep, PrintStep,
     MarkPaidStep, ReleaseClaimStep DEF CallbackStep
<1>3. CASE UNCHANGED vars
  <2>1. BillsGrow
    BY <1>3, BillsStay DEF vars
  <2> QED BY <1>3, <2>1, BillStep DEF vars
<1>4. ASSUME NEW i \in Intents, NEW v \in {"success", "failure"}, CustomerActs(i, v) PROVE IInv'
  BY <1>4, CustomerActsStep DEF Verdicts
<1>5. ASSUME NEW o \in Orders, CancelBill(o) \/ CashPays(o) PROVE IInv'
  <2>1. bill[o].total \in Totals
    BY DEF IInv, Sound, TypeOK, BillRow
  <2> QED BY <1>5, <2>1, OtherBillStep
<1> QED BY <1>1, <1>2, <1>3, <1>4, <1>5, TillStopStep, QrReadOrderStep, QuietStep, CallbackFailsStep,
           DeliverStep, OrphanEndsStep, OtherBillStep DEF Next

LEMMA Invariance == Spec => []IInv
<1> QED BY InitIInv, NextIInv, PTL DEF Spec

\* The rows, the handlers and the tills keep their types.
THEOREM IntentTypes == Spec => []TypeOK
<1>1. IInv => TypeOK
  BY DEF IInv, Sound
<1> QED BY <1>1, Invariance, PTL

\* However often and at however many processes INET calls back: one handler at a time
\* finalizes an intent.
THEOREM ClaimsAreExclusive == Spec => []ClaimExclusive
<1>1. IInv => ClaimExclusive
  BY Values DEF IInv, Sound, CallbackFit, HasClaim, ClaimExclusive, Processing, Claimed
<1> QED BY <1>1, Invariance, PTL

\* Repeated callbacks, time-outs and crashes print no second receipt for an intent.
THEOREM ReceiptsPrintOnce == Spec => []ReceiptOnce
<1>1. IInv => ReceiptOnce
  BY DEF IInv, Sound, IntentFit, ReceiptOnce
<1> QED BY <1>1, Invariance, PTL

\* A paid intent has its payment on a completed bill.
THEOREM PaidIntentsAreSettled == Spec => []PaidIntentIsSettled
<1>1. IInv => PaidIntentIsSettled
  BY DEF IInv, Sound, IntentFit, BillFit, PaidIntentIsSettled
<1> QED BY <1>1, Invariance, PTL

\* Of two QRs of one bill, one at most can be paid.
THEOREM LiveQrsAreUnique == Spec => []LiveQrUnique
<1>1. IInv => LiveQrUnique
  BY DEF IInv, Sound, IntentFit, OnePending, LiveQrUnique
<1> QED BY <1>1, Invariance, PTL

\* Unless a handler dies, every claim belongs to a handler at work.
THEOREM ClaimsHaveHandlers == Spec => []ClaimHasHandler
<1>1. IInv => ClaimHasHandler
  BY DEF IInv
<1> QED BY <1>1, Invariance, PTL
=============================================================================
