------------------------- MODULE OrderPaymentProofs -------------------------
(***************************************************************************)
(* Proofs about OrderPayment for every set of bills, keys and request      *)
(* slots.  The inductive invariant IInv adds to the safety properties what *)
(* a handler may rely on between its steps: Shape says which fields a      *)
(* running handler has filled in, Told that a handler that was told of a   *)
(* success works on a bill its key has paid.                               *)
(***************************************************************************)
EXTENDS OrderPayment, TLAPS

WellFormed(q) ==
  /\ q.pc \in {"sent", "checked"} =>
       q.order \in Orders /\ q.group \in Groups /\ q.lines \in 1 .. 2 /\ q.result = "none"
  /\ q.pc \in EditSteps => q.order \in Orders /\ q.result = "none"
  /\ q.pc = "marked" => q.result \in Success
  /\ q.pc = "idle" => q.result = "none"

Informed(q) ==
  q.result \in Success => /\ q.order \in Orders /\ q.group \in Groups
                          /\ payment[q.order][q.group].rows > 0

\* A key without rows has no money.
EmptySums == \A o \in Orders, g \in Groups : payment[o][g].rows = 0 => payment[o][g].sum = 0

Shape == \A r \in Requests : WellFormed(req[r])
Told == \A r \in Requests : Informed(req[r])

IInv == /\ TypeOK /\ GroupPaidOnce /\ PaidNeverCancelled /\ PaidExactly /\ CompletedIsPaid
        /\ EmptySums /\ Shape /\ Told

-----------------------------------------------------------------------------
\* A free slot is a well-formed request that was told nothing.
LEMMA IdleFacts == Idle \in Request /\ WellFormed(Idle) /\ Idle.result = "none"
  BY DEF Idle, Request, WellFormed, EditSteps, Success

\* A request that has just been parsed is well-formed and was told nothing.
LEMMA BeginFacts ==
  ASSUME NEW pc \in {"sent", "edit_read"}, NEW route \in {"settle", "pay", "edit"},
         NEW o \in Orders, NEW g \in Groups \union {"none"}, NEW lines \in 0 .. 2,
         NEW amount \in Nat, NEW before \in Nat,
         pc = "sent" => g \in Groups /\ lines \in 1 .. 2
  PROVE  LET q == Begin(pc, route, o, g, lines, amount, before)
         IN  q \in Request /\ WellFormed(q) /\ q.result = "none"
  BY DEF Begin, Request, WellFormed, EditSteps, Success

\* Moving a handler to another step changes nothing else of its slot.
LEMMA GotoFacts ==
  ASSUME TypeOK, NEW r \in Requests, NEW pc, Goto(r, pc),
         pc \in {"idle", "sent", "checked", "replied", "marked"} \union EditSteps
  PROVE  \E q \in Request :
           /\ req' = [req EXCEPT ![r] = q]
           /\ q.pc = pc /\ q.order = req[r].order /\ q.group = req[r].group
           /\ q.lines = req[r].lines /\ q.amount = req[r].amount
           /\ q.before = req[r].before /\ q.result = req[r].result
<1> DEFINE q == [req[r] EXCEPT !.pc = pc]
<1>1. req[r] \in Request
  BY DEF TypeOK
<1>2. q \in Request /\ q.pc = pc /\ q.order = req[r].order /\ q.group = req[r].group
      /\ q.lines = req[r].lines /\ q.amount = req[r].amount
      /\ q.before = req[r].before /\ q.result = req[r].result
  BY <1>1 DEF Request
<1>3. req' = [req EXCEPT ![r] = q]
  BY DEF Goto
<1> HIDE DEF q
<1> QED BY <1>2, <1>3

\* A database call that ends frees an orphaned slot and informs a live handler.
LEMMA ReplyFacts ==
  ASSUME TypeOK, NEW r \in Requests, NEW result \in Success \union Refused, Reply(r, result),
         req[r].order \in Orders, req[r].group \in Groups
  PROVE  \E q \in Request :
           /\ req' = [req EXCEPT ![r] = q]
           /\ WellFormed(q)
           /\ q.result \in {result, "none"}
           /\ q.result # "none" => q.order = req[r].order /\ q.group = req[r].group
<1> DEFINE p == [req[r] EXCEPT !.pc = "replied", !.result = result]
<1>1. req[r] \in Request
  BY DEF TypeOK
<1>2. p \in Request /\ WellFormed(p) /\ p.result = result
      /\ p.order = req[r].order /\ p.group = req[r].group
  BY <1>1 DEF Request, WellFormed, EditSteps
<1>3. req' = [req EXCEPT ![r] = IF req[r].alive THEN p ELSE Idle]
  BY DEF Reply
<1> HIDE DEF p
<1>4. CASE req[r].alive
  BY <1>2, <1>3, <1>4
<1>5. CASE ~req[r].alive
  BY <1>3, <1>5, IdleFacts
<1> QED BY <1>4, <1>5

\* Initially nothing is paid and no handler runs.
LEMMA InitIInv == Init => IInv
<1> SUFFICES ASSUME Init PROVE IInv
  OBVIOUS
<1> USE ConstantsAssumption
<1>1. order \in [Orders -> OrderRow] /\ \A o \in Orders : order[o].status = "queued"
  <2>1. ASSUME NEW o \in Orders
        PROVE  order[o] \in OrderRow /\ order[o].status = "queued"
    <3>1. PICK t \in Prices : order[o] = [status |-> "queued", total |-> t, items |-> t,
                                          paidTotal |-> 0, receipt |-> FALSE]
      BY DEF Init
    <3>2. t \in Nat
      OBVIOUS
    <3> QED BY <3>1, <3>2 DEF OrderRow, Status
  <2> QED BY <2>1 DEF Init
<1>2. payment \in [Orders -> [Groups -> GroupRows]]
  BY DEF Init, NoRows, GroupRows
<1>3. \A o \in Orders, g \in Groups : payment[o][g].rows = 0 /\ payment[o][g].sum = 0
  BY DEF Init, NoRows
<1>4. req \in [Requests -> Request] /\ \A r \in Requests : req[r] = Idle
  BY IdleFacts DEF Init
<1>5. TypeOK
  BY <1>1, <1>2, <1>4 DEF TypeOK
<1>6. GroupPaidOnce /\ PaidNeverCancelled /\ PaidExactly
  BY <1>3 DEF GroupPaidOnce, PaidNeverCancelled, PaidExactly
<1>7. CompletedIsPaid
  BY <1>1 DEF CompletedIsPaid
<1>8. EmptySums /\ Shape /\ Told
  BY <1>3, <1>4, IdleFacts DEF EmptySums, Shape, Told, Informed, Success
<1> QED BY <1>5, <1>6, <1>7, <1>8 DEF IInv

-----------------------------------------------------------------------------
(* A step that leaves payment alone, keeps the total of every completed bill  *)
(* and completes no bill keeps the properties of the bills.                   *)
LEMMA BillsKept ==
  ASSUME IInv, UNCHANGED payment,
         \A o \in Orders :
           /\ order[o].status = "completed" =>
                order'[o].status = "completed" /\ order'[o].total = order[o].total
           /\ order'[o].status = "completed" => order[o].status = "completed"
  PROVE  GroupPaidOnce' /\ PaidNeverCancelled' /\ PaidExactly' /\ CompletedIsPaid' /\ EmptySums'
<1>1. GroupPaidOnce'
  BY DEF IInv, GroupPaidOnce
<1>2. PaidNeverCancelled'
  BY DEF IInv, PaidNeverCancelled
<1>3. PaidExactly'
  BY DEF IInv, PaidNeverCancelled, PaidExactly, Close
<1>4. CompletedIsPaid'
  BY DEF IInv, CompletedIsPaid
<1>5. EmptySums'
  BY DEF IInv, EmptySums
<1> QED BY <1>1, <1>2, <1>3, <1>4, <1>5

\* A step that leaves slot r at a well-formed request q keeps what is said of the requests.
LEMMA RequestsKept ==
  ASSUME IInv, NEW r \in Requests, NEW q \in Request, WellFormed(q),
         q.result \in Success => /\ q.order \in Orders /\ q.group \in Groups
                                 /\ payment'[q.order][q.group].rows > 0,
         \A o \in Orders, g \in Groups : payment[o][g].rows > 0 => payment'[o][g].rows > 0,
         req' = [req EXCEPT ![r] = q]
  PROVE  req' \in [Requests -> Request] /\ Shape' /\ Told'
<1>1. req' \in [Requests -> Request]
  BY DEF IInv, TypeOK
<1>2. \A s \in Requests : req'[s] = IF s = r THEN q ELSE req[s]
  BY DEF IInv, TypeOK
<1>3. Shape'
  BY <1>2 DEF IInv, Shape, WellFormed
<1>4. Told'
  BY <1>2 DEF IInv, Told, Informed
<1> QED BY <1>1, <1>3, <1>4

\* The same for a step that changes slot r only.
LEMMA OnlyRequest ==
  ASSUME IInv, NEW r \in Requests, NEW q \in Request, WellFormed(q), Informed(q),
         req' = [req EXCEPT ![r] = q], UNCHANGED <<order, payment>>
  PROVE  IInv'
<1>1. req' \in [Requests -> Request] /\ Shape' /\ Told'
  BY RequestsKept DEF Informed
<1>2. TypeOK'
  BY <1>1 DEF TypeOK, IInv
<1>3. GroupPaidOnce' /\ PaidNeverCancelled' /\ PaidExactly' /\ CompletedIsPaid' /\ EmptySums'
  BY BillsKept
<1> QED BY <1>1, <1>2, <1>3 DEF IInv

\* And for a step that rewrites the row of bill o as well, without completing it, and
\* without touching status and total of a completed bill.
LEMMA RequestAndBill ==
  ASSUME IInv, NEW r \in Requests, NEW q \in Request, WellFormed(q), Informed(q),
         req' = [req EXCEPT ![r] = q], UNCHANGED payment,
         NEW o \in Orders, NEW row \in OrderRow, order' = [order EXCEPT ![o] = row],
         order[o].status = "completed" => row.status = "completed" /\ row.total = order[o].total,
         row.status = "completed" => order[o].status = "completed"
  PROVE  IInv'
<1>1. req' \in [Requests -> Request] /\ Shape' /\ Told'
  BY RequestsKept DEF Informed
<1>2. order \in [Orders -> OrderRow]
  BY DEF IInv, TypeOK
<1>3. order' \in [Orders -> OrderRow]
  BY <1>2
<1>4. \A p \in Orders : order'[p] = IF p = o THEN row ELSE order[p]
  BY <1>2
<1>5. TypeOK'
  BY <1>1, <1>3 DEF TypeOK, IInv
<1>6. GroupPaidOnce' /\ PaidNeverCancelled' /\ PaidExactly' /\ CompletedIsPaid' /\ EmptySums'
  BY <1>4, BillsKept
<1> QED BY <1>1, <1>5, <1>6 DEF IInv

\* And for a single statement on bill o that no handler issues.
LEMMA OnlyBill ==
  ASSUME IInv, UNCHANGED <<payment, req>>,
         NEW o \in Orders, NEW row \in OrderRow, order' = [order EXCEPT ![o] = row],
         order[o].status = "queued", row.status # "completed"
  PROVE  IInv'
<1>1. order \in [Orders -> OrderRow]
  BY DEF IInv, TypeOK
<1>2. order' \in [Orders -> OrderRow]
  BY <1>1
<1>3. \A p \in Orders : order'[p] = IF p = o THEN row ELSE order[p]
  BY <1>1
<1>4. TypeOK'
  BY <1>2 DEF TypeOK, IInv
<1>5. GroupPaidOnce' /\ PaidNeverCancelled' /\ PaidExactly' /\ CompletedIsPaid' /\ EmptySums'
  BY <1>3, BillsKept
<1>6. Shape' /\ Told'
  BY DEF IInv, Shape, Told, Informed
<1> QED BY <1>4, <1>5, <1>6 DEF IInv

-----------------------------------------------------------------------------
\* Every step keeps the inductive invariant: one step per action.
LEMMA NextIInv == IInv /\ [Next]_vars => IInv'
<1> SUFFICES ASSUME IInv, [Next]_vars PROVE IInv'
  OBVIOUS
<1> USE ConstantsAssumption
<1>0. TypeOK /\ Shape /\ Told
  BY DEF IInv
<1>a. ASSUME NEW r \in Requests, NEW o \in Orders, NEW g \in Groups, NEW amount \in Amounts,
             NEW lines \in 1 .. 2, SettleArrives(r, o, g, lines, amount)
      PROVE  IInv'
  <2> DEFINE q == Begin("sent", "settle", o, g, lines, amount, 0)
  <2>1. req' = [req EXCEPT ![r] = q] /\ UNCHANGED <<order, payment>>
    BY <1>a DEF SettleArrives
  <2>2. q \in Request /\ WellFormed(q) /\ q.result = "none"
    BY BeginFacts
  <2> HIDE DEF q
  <2> QED BY <2>1, <2>2, OnlyRequest DEF Informed, Success
<1>b. ASSUME NEW r \in Requests, NEW o \in Orders, NEW g \in Groups, NEW amount \in Amounts,
             PayArrives(r, o, g, amount)
      PROVE  IInv'
  <2> DEFINE before == order[o].paidTotal
             q == Begin("sent", "pay", o, g, 1, amount, before)
  <2>1. req' = [req EXCEPT ![r] = q] /\ UNCHANGED <<order, payment>>
    BY <1>b DEF PayArrives
  <2>2. before \in Nat /\ amount \in Nat /\ 1 \in 1 .. 2 /\ 1 \in 0 .. 2
    BY <1>0 DEF TypeOK, OrderRow
  <2> HIDE DEF before
  <2>3. q \in Request /\ WellFormed(q) /\ q.result = "none"
    BY <2>2, BeginFacts
  <2> HIDE DEF q
  <2> QED BY <2>1, <2>3, OnlyRequest DEF Informed, Success
<1>c. ASSUME NEW r \in Requests, NEW o \in Orders, NEW amount \in Prices, EditArrives(r, o, amount)
      PROVE  IInv'
  <2> DEFINE q == Begin("edit_read", "edit", o, "none", 0, amount, 0)
  <2>1. req' = [req EXCEPT ![r] = q] /\ UNCHANGED <<order, payment>>
    BY <1>c DEF EditArrives
  <2>2. amount \in Nat
    OBVIOUS
  <2>3. q \in Request /\ WellFormed(q) /\ q.result = "none"
    BY <2>2, BeginFacts
  <2> HIDE DEF q
  <2> QED BY <2>1, <2>3, OnlyRequest DEF Informed, Success
<1>d. ASSUME NEW r \in Requests, TxReplay(r) PROVE IInv'
  <2>1. req[r].order \in Orders /\ req[r].group \in Groups
    BY <1>0, <1>d DEF TxReplay, Shape, WellFormed
  <2>2. PICK q \in Request : /\ req' = [req EXCEPT ![r] = q] /\ WellFormed(q)
                             /\ q.result \in {"replayed", "none"}
                             /\ q.result # "none" => q.order = req[r].order /\ q.group = req[r].group
    BY <1>0, <1>d, <2>1, ReplyFacts DEF TxReplay, Success
  <2>3. Informed(q)
    BY <1>d, <2>1, <2>2 DEF TxReplay, Informed, Success
  <2> QED BY <1>d, <2>2, <2>3, OnlyRequest DEF TxReplay
<1>e. ASSUME NEW r \in Requests, TxNotSeen(r) PROVE IInv'
  <2>1. PICK q \in Request : /\ req' = [req EXCEPT ![r] = q] /\ q.pc = "checked"
                             /\ q.order = req[r].order /\ q.group = req[r].group
                             /\ q.lines = req[r].lines /\ q.result = req[r].result
    BY <1>0, <1>e, GotoFacts DEF TxNotSeen
  <2>2. WellFormed(q) /\ Informed(q)
    BY <1>0, <1>e, <2>1 DEF TxNotSeen, Shape, WellFormed, Informed, EditSteps, Success
  <2> QED BY <1>e, <2>1, <2>2, OnlyRequest DEF TxNotSeen
<1>f. ASSUME NEW r \in Requests, TxCommit(r) PROVE IInv'
  <2> DEFINE o == req[r].order
             g == req[r].group
  <2>1. o \in Orders /\ g \in Groups /\ req[r].lines \in 1 .. 2 /\ req[r].amount \in Nat
    BY <1>0, <1>f DEF TxCommit, Shape, WellFormed, TypeOK, Request
  <2>2. /\ ~(payment[o][g].rows + req[r].lines > 1)
        /\ Close(req[r].amount, order[o].total)
    <3>1. TxRefusal(r) = "none"
      BY <1>f DEF TxCommit
    <3> QED BY <3>1 DEF TxRefusal
  <2>3. order[o] \in OrderRow /\ payment[o][g] \in GroupRows
    BY <1>0, <2>1 DEF TypeOK
  <2>4. payment[o][g].rows = 0 /\ req[r].lines = 1
    BY <2>1, <2>2, <2>3 DEF GroupRows
  <2> DEFINE rows == [rows |-> payment[o][g].rows + req[r].lines,
                      sum |-> payment[o][g].sum + req[r].amount]
  <2>5. rows \in GroupRows /\ rows.rows = 1 /\ rows.sum = req[r].amount
    BY <1>0, <2>1, <2>3, <2>4 DEF IInv, EmptySums, GroupRows
  <2>6. payment' = [payment EXCEPT ![o][g] = rows]
    BY <1>f DEF TxCommit
  <2> HIDE DEF rows
  <2>7. payment' \in [Orders -> [Groups -> GroupRows]]
    BY <1>0, <2>1, <2>5, <2>6 DEF TypeOK
  <2>8. \A p \in Orders, h \in Groups :
          payment'[p][h] = IF p = o /\ h = g THEN rows ELSE payment[p][h]
    BY <1>0, <2>1, <2>6 DEF TypeOK
  <2> DEFINE row == [order[o] EXCEPT !.status = "completed"]
  <2>9. row \in OrderRow /\ row.status = "completed" /\ row.total = order[o].total
    BY <2>3 DEF OrderRow, Status
  <2>10. order' = [order EXCEPT ![o] = row]
    BY <1>f DEF TxCommit
  <2> HIDE DEF row
  <2>11. /\ order' \in [Orders -> OrderRow]
         /\ \A p \in Orders : order'[p] = IF p = o THEN row ELSE order[p]
    BY <1>0, <2>1, <2>9, <2>10 DEF TypeOK
  <2>12. PICK q \in Request : /\ req' = [req EXCEPT ![r] = q] /\ WellFormed(q)
                              /\ q.result \in {"settled", "none"}
                              /\ q.result # "none" => q.order = o /\ q.group = g
    BY <1>0, <1>f, <2>1, ReplyFacts DEF TxCommit, Success
  <2>13. req' \in [Requests -> Request] /\ Shape' /\ Told'
    <3>1. q.result \in Success => /\ q.order \in Orders /\ q.group \in Groups
                                  /\ payment'[q.order][q.group].rows > 0
      BY <2>1, <2>5, <2>8, <2>12 DEF Success
    <3>2. \A p \in Orders, h \in Groups : payment[p][h].rows > 0 => payment'[p][h].rows > 0
      BY <2>5, <2>8
    <3> QED BY <2>12, <3>1, <3>2, RequestsKept
  <2>14. TypeOK'
    BY <2>7, <2>11, <2>13 DEF TypeOK
  <2>15. GroupPaidOnce' /\ EmptySums'
    BY <2>5, <2>8 DEF IInv, GroupPaidOnce, EmptySums
  <2>16. PaidNeverCancelled'
    BY <2>8, <2>9, <2>11 DEF IInv, PaidNeverCancelled
  <2>17. PaidExactly'
    <3>1. ASSUME NEW p \in Orders, NEW h \in Groups, payment'[p][h].rows > 0
          PROVE  Close(payment'[p][h].sum, order'[p].total)
      <4>1. CASE p = o /\ h = g
        BY <4>1, <2>2, <2>5, <2>8, <2>9, <2>11
      <4>2. CASE ~(p = o /\ h = g)
        BY <3>1, <4>2, <2>8, <2>9, <2>11 DEF IInv, PaidExactly
      <4> QED BY <4>1, <4>2
    <3> QED BY <3>1 DEF PaidExactly
  <2>18. CompletedIsPaid'
    <3>1. ASSUME NEW p \in Orders, order'[p].status = "completed"
          PROVE  \E h \in Groups : payment'[p][h].rows > 0
      <4>1. CASE p = o
        BY <4>1, <2>1, <2>5, <2>8
      <4>2. CASE p # o
        BY <3>1, <4>2, <2>8, <2>11 DEF IInv, CompletedIsPaid
      <4> QED BY <4>1, <4>2
    <3> QED BY <3>1 DEF CompletedIsPaid
  <2> QED BY <2>13, <2>14, <2>15, <2>16, <2>17, <2>18 DEF IInv
<1>g. ASSUME NEW r \in Requests, TxAbort(r) PROVE IInv'
  <2>1. req[r].order \in Orders /\ req[r].group \in Groups
    BY <1>0, <1>g DEF TxAbort, Shape, WellFormed
  <2>2. TxRefusal(r) \in Refused
    BY <1>g DEF TxAbort, TxRefusal, Refused
  <2>3. PICK q \in Request : /\ req' = [req EXCEPT ![r] = q] /\ WellFormed(q)
                             /\ q.result \in {TxRefusal(r), "none"}
    BY <1>0, <1>g, <2>1, <2>2, ReplyFacts DEF TxAbort
  <2>4. Informed(q)
    BY <2>2, <2>3 DEF Informed, Success, Refused
  <2> QED BY <1>g, <2>3, <2>4, OnlyRequest DEF TxAbort
<1>h. ASSUME NEW r \in Requests, RefusedAnswer(r) PROVE IInv'
  BY <1>h, IdleFacts, OnlyRequest DEF RefusedAnswer, Answer, Informed, Success
<1>i. ASSUME NEW r \in Requests, SettleSnapshot(r) PROVE IInv'
  <2> DEFINE o == req[r].order
             row == [order[o] EXCEPT !.receipt = TRUE]
  <2>1. o \in Orders
    BY <1>0, <1>i DEF SettleSnapshot, Told, Informed
  <2>2. row \in OrderRow /\ row.status = order[o].status /\ row.total = order[o].total
    <3>1. order[o] \in OrderRow
      BY <1>0, <2>1 DEF TypeOK
    <3> QED BY <3>1 DEF OrderRow
  <2>3. order' = [order EXCEPT ![o] = row] /\ req' = [req EXCEPT ![r] = Idle] /\ UNCHANGED payment
    BY <1>i DEF SettleSnapshot, Answer
  <2> HIDE DEF row, o
  <2> QED BY <2>1, <2>2, <2>3, IdleFacts, RequestAndBill DEF Informed, Success
<1>j. ASSUME NEW r \in Requests, PayMarkRows(r) PROVE IInv'
  <2>1. PICK q \in Request : /\ req' = [req EXCEPT ![r] = q] /\ q.pc = "marked"
                             /\ q.order = req[r].order /\ q.group = req[r].group
                             /\ q.result = req[r].result
    BY <1>0, <1>j, GotoFacts DEF PayMarkRows
  <2>2. WellFormed(q) /\ Informed(q)
    BY <1>0, <1>j, <2>1 DEF PayMarkRows, Told, WellFormed, Informed, EditSteps
  <2> QED BY <1>j, <2>1, <2>2, OnlyRequest DEF PayMarkRows
<1>k. ASSUME NEW r \in Requests, PayStampOrder(r) PROVE IInv'
  <2> DEFINE o == req[r].order
             g == req[r].group
             row == [order[o] EXCEPT !.paidTotal = req[r].before + PaidAmount(r),
                                     !.status = "completed"]
  <2>1. o \in Orders /\ g \in Groups /\ payment[o][g].rows > 0
    BY <1>0, <1>k DEF PayStampOrder, Shape, WellFormed, Told, Informed
  <2>2. order[o].status = "completed"
    BY <2>1 DEF IInv, PaidNeverCancelled
  <2>3. PaidAmount(r) \in Nat /\ req[r].before \in Nat
    BY <1>0, <2>1 DEF PaidAmount, TypeOK, Request, GroupRows
  <2>4. req[r].before + PaidAmount(r) \in Nat
    BY <2>3
  <2>5. row \in OrderRow /\ row.status = "completed" /\ row.total = order[o].total
    <3>1. order[o] \in OrderRow
      BY <1>0, <2>1 DEF TypeOK
    <3> QED BY <2>4, <3>1 DEF OrderRow, Status
  <2>6. order' = [order EXCEPT ![o] = row] /\ req' = [req EXCEPT ![r] = Idle] /\ UNCHANGED payment
    BY <1>k DEF PayStampOrder, Answer
  <2> HIDE DEF row, o, g
  <2> QED BY <2>1, <2>2, <2>5, <2>6, IdleFacts, RequestAndBill DEF Informed, Success
<1>l. ASSUME NEW r \in Requests, EditReadItems(r) PROVE IInv'
  <2> DEFINE q == [req[r] EXCEPT !.pc = "edit_loaded", !.before = order[req[r].order].items]
  <2>1. req[r].order \in Orders /\ req[r].result = "none"
    BY <1>0, <1>l DEF EditReadItems, Shape, WellFormed, EditSteps
  <2>2. order[req[r].order].items \in Nat
    BY <1>0, <2>1 DEF TypeOK, OrderRow
  <2>3. req[r] \in Request
    BY <1>0 DEF TypeOK
  <2>4. q \in Request /\ q.pc = "edit_loaded" /\ q.order = req[r].order /\ q.result = "none"
    BY <2>1, <2>2, <2>3 DEF Request, EditSteps
  <2>5. req' = [req EXCEPT ![r] = q] /\ UNCHANGED <<order, payment>>
    BY <1>l DEF EditReadItems
  <2> HIDE DEF q
  <2>6. WellFormed(q) /\ Informed(q)
    BY <2>1, <2>4 DEF WellFormed, Informed, EditSteps, Success
  <2> QED BY <2>4, <2>5, <2>6, OnlyRequest
<1>m. ASSUME NEW r \in Requests, EditDeleteItems(r) PROVE IInv'
  <2> DEFINE o == req[r].order
             row == [order[o] EXCEPT !.items = 0]
  <2>1. o \in Orders /\ req[r].result = "none"
    BY <1>0, <1>m DEF EditDeleteItems, Shape, WellFormed, EditSteps
  <2>2. order[o] \in OrderRow /\ req[r] \in Request
    BY <1>0, <2>1 DEF TypeOK
  <2>3. row \in OrderRow /\ row.status = order[o].status /\ row.total = order[o].total
    BY <2>2 DEF OrderRow, Request
  <2>4. order' = [order EXCEPT ![o] = row] /\ UNCHANGED payment
    BY <1>m DEF EditDeleteItems
  <2>5. PICK q \in Request : /\ req' = [req EXCEPT ![r] = q] /\ q.pc = "edit_deleted"
                             /\ q.order = o /\ q.result = req[r].result
    BY <1>0, <1>m, GotoFacts DEF EditDeleteItems, EditSteps
  <2>6. WellFormed(q) /\ Informed(q)
    BY <2>1, <2>5 DEF WellFormed, Informed, EditSteps, Success
  <2> HIDE DEF row, o
  <2> QED BY <2>1, <2>3, <2>4, <2>5, <2>6, RequestAndBill
<1>n. ASSUME NEW r \in Requests, EditInsertItems(r) PROVE IInv'
  <2> DEFINE o == req[r].order
             row == [order[o] EXCEPT !.items = @ + req[r].amount]
  <2>1. o \in Orders /\ req[r].result = "none"
    BY <1>0, <1>n DEF EditInsertItems, Shape, WellFormed, EditSteps
  <2>2. order[o] \in OrderRow /\ req[r] \in Request
    BY <1>0, <2>1 DEF TypeOK
  <2>3. row \in OrderRow /\ row.status = order[o].status /\ row.total = order[o].total
    BY <2>2 DEF OrderRow, Request
  <2>4. order' = [order EXCEPT ![o] = row] /\ UNCHANGED payment
    BY <1>n DEF EditInsertItems
  <2>5. PICK q \in Request : /\ req' = [req EXCEPT ![r] = q] /\ q.pc = "edit_inserted"
                             /\ q.order = o /\ q.result = req[r].result
    BY <1>0, <1>n, GotoFacts DEF EditInsertItems, EditSteps
  <2>6. WellFormed(q) /\ Informed(q)
    BY <2>1, <2>5 DEF WellFormed, Informed, EditSteps, Success
  <2> HIDE DEF row, o
  <2> QED BY <2>1, <2>3, <2>4, <2>5, <2>6, RequestAndBill
<1>o. ASSUME NEW r \in Requests, EditInsertFails(r) PROVE IInv'
  <2>1. PICK q \in Request : /\ req' = [req EXCEPT ![r] = q] /\ q.pc = "edit_failed"
                             /\ q.order = req[r].order /\ q.result = req[r].result
    BY <1>0, <1>o, GotoFacts DEF EditInsertFails, EditSteps
  <2>2. WellFormed(q) /\ Informed(q)
    BY <1>0, <1>o, <2>1 DEF EditInsertFails, Shape, WellFormed, Informed, EditSteps, Success
  <2> QED BY <1>o, <2>1, <2>2, OnlyRequest DEF EditInsertFails
<1>p. ASSUME NEW r \in Requests, EditUpdateFails(r) PROVE IInv'
  <2> DEFINE o == req[r].order
             row == [order[o] EXCEPT !.items = 0]
  <2>1. o \in Orders /\ req[r].result = "none"
    BY <1>0, <1>p DEF EditUpdateFails, Shape, WellFormed, EditSteps
  <2>2. order[o] \in OrderRow /\ req[r] \in Request
    BY <1>0, <2>1 DEF TypeOK
  <2>3. row \in OrderRow /\ row.status = order[o].status /\ row.total = order[o].total
    BY <2>2 DEF OrderRow, Request
  <2>4. order' = [order EXCEPT ![o] = row] /\ UNCHANGED payment
    BY <1>p DEF EditUpdateFails
  <2>5. PICK q \in Request : /\ req' = [req EXCEPT ![r] = q] /\ q.pc = "edit_failed"
                             /\ q.order = o /\ q.result = req[r].result
    BY <1>0, <1>p, GotoFacts DEF EditUpdateFails, EditSteps
  <2>6. WellFormed(q) /\ Informed(q)
    BY <2>1, <2>5 DEF WellFormed, Informed, EditSteps, Success
  <2> HIDE DEF row, o
  <2> QED BY <2>1, <2>3, <2>4, <2>5, <2>6, RequestAndBill
<1>q. ASSUME NEW r \in Requests, EditRestoreItems(r) PROVE IInv'
  <2> DEFINE o == req[r].order
             row == [order[o] EXCEPT !.items = @ + req[r].before]
  <2>1. o \in Orders /\ req[r].result = "none"
    BY <1>0, <1>q DEF EditRestoreItems, Shape, WellFormed, EditSteps
  <2>2. order[o] \in OrderRow /\ req[r] \in Request
    BY <1>0, <2>1 DEF TypeOK
  <2>3. row \in OrderRow /\ row.status = order[o].status /\ row.total = order[o].total
    BY <2>2 DEF OrderRow, Request
  <2>4. order' = [order EXCEPT ![o] = row] /\ UNCHANGED payment
    BY <1>q DEF EditRestoreItems
  <2>5. req' = [req EXCEPT ![r] = Idle]
    BY <1>q DEF EditRestoreItems, Answer
  <2> HIDE DEF row, o
  <2> QED BY <2>1, <2>3, <2>4, <2>5, IdleFacts, RequestAndBill DEF Informed, Success
<1>r. ASSUME NEW r \in Requests, EditUpdateOrder(r) PROVE IInv'
  <2> DEFINE o == req[r].order
             row == IF order[o].status = "queued" THEN [order[o] EXCEPT !.total = req[r].amount]
                                                  ELSE order[o]
  <2>1. o \in Orders
    BY <1>0, <1>r DEF EditUpdateOrder, Shape, WellFormed, EditSteps
  <2>2. order[o] \in OrderRow /\ req[r] \in Request /\ order \in [Orders -> OrderRow]
    BY <1>0, <2>1 DEF TypeOK
  <2>3. /\ row \in OrderRow /\ row.status = order[o].status
        /\ order[o].status = "completed" => row.total = order[o].total
    BY <2>2 DEF OrderRow, Request
  <2>4. order' = [order EXCEPT ![o] = row]
    BY <1>r, <2>1, <2>2 DEF EditUpdateOrder
  <2>5. req' = [req EXCEPT ![r] = Idle] /\ UNCHANGED payment
    BY <1>r DEF EditUpdateOrder, Answer
  <2> HIDE DEF row, o
  <2> QED BY <2>1, <2>3, <2>4, <2>5, IdleFacts, RequestAndBill DEF Informed, Success
<1>s. ASSUME NEW r \in Requests, TimeOut(r) \/ HandlerDies(r) PROVE IInv'
  <2> DEFINE p == [req[r] EXCEPT !.alive = FALSE]
             q == IF req[r].pc \in {"sent", "checked"} THEN p ELSE Idle
  <2>1. req[r] \in Request /\ WellFormed(req[r]) /\ Informed(req[r])
    BY <1>0 DEF TypeOK, Shape, Told
  <2>2. p \in Request /\ p.pc = req[r].pc /\ p.order = req[r].order /\ p.group = req[r].group
        /\ p.lines = req[r].lines /\ p.result = req[r].result
    BY <2>1 DEF Request
  <2>3. req' = [req EXCEPT ![r] = q] /\ UNCHANGED <<order, payment>>
    BY <1>s DEF TimeOut, HandlerDies
  <2> HIDE DEF p
  <2>4. q \in Request /\ WellFormed(q) /\ Informed(q)
    BY <2>1, <2>2, IdleFacts DEF WellFormed, Informed, Success
  <2> HIDE DEF q
  <2> QED BY <2>3, <2>4, OnlyRequest
<1>t. ASSUME NEW o \in Orders, CancelOrder(o) PROVE IInv'
  <2> DEFINE row == [order[o] EXCEPT !.status = "cancelled"]
  <2>1. order[o] \in OrderRow
    BY <1>0 DEF TypeOK
  <2>2. row \in OrderRow /\ row.status = "cancelled" /\ order[o].status = "queued"
    BY <1>t, <2>1 DEF CancelOrder, OrderRow, Status
  <2>3. order' = [order EXCEPT ![o] = row] /\ UNCHANGED <<payment, req>>
    BY <1>t DEF CancelOrder
  <2> HIDE DEF row
  <2> QED BY <2>2, <2>3, OnlyBill
<1>u. ASSUME NEW o \in Orders, NEW amount \in Prices, TableQrSubmit(o, amount) PROVE IInv'
  <2> DEFINE sum == order[o].items + amount
             row == [order[o] EXCEPT !.items = sum, !.total = sum]
  <2>1. order[o] \in OrderRow /\ sum \in Nat
    BY <1>0 DEF TypeOK, OrderRow
  <2>2. order[o].status = "queued"
    BY <1>u DEF TableQrSubmit
  <2>3. order' = [order EXCEPT ![o] = row] /\ UNCHANGED <<payment, req>>
    BY <1>u DEF TableQrSubmit
  <2> HIDE DEF sum
  <2>4. row.status = "queued" /\ row \in OrderRow
    BY <2>1, <2>2 DEF OrderRow
  <2> HIDE DEF row
  <2> QED BY <2>2, <2>3, <2>4, OnlyBill
<1>v. ASSUME UNCHANGED vars PROVE IInv'
  BY <1>v DEF vars, IInv, TypeOK, GroupPaidOnce, PaidNeverCancelled, PaidExactly, CompletedIsPaid,
              EmptySums, Shape, Told, Informed
<1> QED
  BY <1>a, <1>b, <1>c, <1>d, <1>e, <1>f, <1>g, <1>h, <1>i, <1>j, <1>k, <1>l, <1>m, <1>n, <1>o,
     <1>p, <1>q, <1>r, <1>s, <1>t, <1>u, <1>v DEF Next, Call, Handler

-----------------------------------------------------------------------------
\* IInv is an invariant of the specification.
THEOREM Invariance == Spec => []IInv
  BY InitIInv, NextIInv, PTL DEF Spec

\* Every row keeps its type while handlers, time-outs and dying processes interleave.
THEOREM PaymentTypes == Spec => []TypeOK
<1>1. IInv => TypeOK
  BY DEF IInv
<1> QED BY <1>1, Invariance, PTL

\* For every number of tills and keys: a key never settles a bill twice.
THEOREM PaidOncePerGroup == Spec => []GroupPaidOnce
<1>1. IInv => GroupPaidOnce
  BY DEF IInv
<1> QED BY <1>1, Invariance, PTL

\* A bill that holds money is never cancelled, also when /pay overwrites its status.
THEOREM PaidStaysCompleted == Spec => []PaidNeverCancelled
<1>1. IInv => PaidNeverCancelled
  BY DEF IInv
<1> QED BY <1>1, Invariance, PTL

\* Each settlement is within the tolerance of the total its bill keeps.
THEOREM PaidWithinTolerance == Spec => []PaidExactly
<1>1. IInv => PaidExactly
  BY DEF IInv
<1> QED BY <1>1, Invariance, PTL

\* A bill is completed only when some key has paid it.
THEOREM CompletedByPayment == Spec => []CompletedIsPaid
<1>1. IInv => CompletedIsPaid
  BY DEF IInv
<1> QED BY <1>1, Invariance, PTL

-----------------------------------------------------------------------------
(* The detailed specification implements the ledger.                          *)

\* A step that keeps payment and every bill's status and total is a stutter of the ledger.
LEMMA LedgerStutter ==
  ASSUME UNCHANGED payment,
         \A o \in Orders : order'[o].status = order[o].status /\ order'[o].total = order[o].total
  PROVE  UNCHANGED Ledger!lvars
  BY DEF Ledger!lvars

\* A step that writes one bill without touching its status and total is a stutter.
LEMMA BillStutter ==
  ASSUME TypeOK, UNCHANGED payment, NEW o \in Orders, NEW row,
         order' = [order EXCEPT ![o] = row],
         row.status = order[o].status, row.total = order[o].total
  PROVE  UNCHANGED Ledger!lvars
<1>1. \A p \in Orders : order'[p] = IF p = o THEN row ELSE order[p]
  BY DEF TypeOK
<1> QED BY <1>1, LedgerStutter

\* A step that re-prices a queued bill is the ledger's Reprice.
LEMMA BillReprice ==
  ASSUME TypeOK, UNCHANGED payment, NEW o \in Orders, NEW row \in OrderRow,
         order' = [order EXCEPT ![o] = row],
         order[o].status = "queued", row.status = "queued"
  PROVE  Ledger!Next
<1>1. \A p \in Orders : order'[p] = IF p = o THEN row ELSE order[p]
  BY DEF TypeOK
<1>2. row.total \in Nat
  BY DEF OrderRow
<1>3. Ledger!Reprice(o)
  <2>1. [p \in Orders |-> order'[p].total]
          = [[p \in Orders |-> order[p].total] EXCEPT ![o] = order'[o].total]
    <3>1. \A p \in Orders : order'[p].total = IF p = o THEN order'[o].total ELSE order[p].total
      BY <1>1
    <3> QED BY <3>1
  <2>2. [p \in Orders |-> order'[p].status] = [p \in Orders |-> order[p].status]
    BY <1>1
  <2>3. order'[o].total \in Nat
    BY <1>1, <1>2
  <2> QED BY <2>1, <2>2, <2>3 DEF Ledger!Reprice
<1> QED BY <1>3 DEF Ledger!Next

\* Every initial state is an initial state of the ledger.
LEMMA LedgerInit == Init => Ledger!Init
<1> SUFFICES ASSUME Init PROVE Ledger!Init
  OBVIOUS
<1>1. ASSUME NEW o \in Orders PROVE order[o].status = "queued" /\ order[o].total \in Nat
  <2>1. PICK t \in Prices : order[o] = [status |-> "queued", total |-> t, items |-> t,
                                        paidTotal |-> 0, receipt |-> FALSE]
    BY DEF Init
  <2>2. t \in Nat
    BY ConstantsAssumption
  <2> QED BY <2>1, <2>2
<1>2. payment = [o \in Orders |-> [g \in Groups |-> [rows |-> 0, sum |-> 0]]]
  BY DEF Init, NoRows
<1> QED BY <1>1, <1>2 DEF Ledger!Init

\* A committed payment is the ledger's Settle.
LEMMA LedgerSettle ==
  ASSUME IInv, NEW r \in Requests, TxCommit(r),
         NEW o \in Orders, NEW g \in Groups, o = req[r].order, g = req[r].group
  PROVE  Ledger!Next
<1> DEFINE amount == req[r].amount
           lines == req[r].lines
<1>0. TypeOK /\ Shape /\ req[r].pc = "checked" /\ TxRefusal(r) = "none"
  BY DEF IInv, TxCommit
<1>1. lines \in 1 .. 2 /\ amount \in Nat
  BY <1>0 DEF Shape, WellFormed, TypeOK, Request
<1>2. order[o] \in OrderRow /\ payment[o][g] \in GroupRows
  BY <1>0, <1>1 DEF TypeOK
<1>3. /\ ~(payment[o][g].rows + lines > 1) /\ Close(amount, order[o].total)
      /\ order[o].status # "cancelled"
  BY <1>0 DEF TxRefusal
<1>4. payment[o][g].rows = 0 /\ lines = 1 /\ order[o].total \in Nat
  BY <1>1, <1>2, <1>3 DEF GroupRows, OrderRow
<1>5. payment[o][g].sum = 0
  BY <1>1, <1>4 DEF IInv, EmptySums
<1>6. payment' = [payment EXCEPT ![o][g] = [rows |-> 1, sum |-> amount]]
  <2>1. payment' = [payment EXCEPT ![o][g] = [rows |-> payment[o][g].rows + lines,
                                              sum |-> payment[o][g].sum + amount]]
    BY DEF TxCommit
  <2>2. payment[o][g].rows + lines = 1 /\ payment[o][g].sum + amount = amount
    BY <1>1, <1>4, <1>5
  <2> QED BY <2>1, <2>2
<1>7. order' = [order EXCEPT ![o].status = "completed"]
  BY DEF TxCommit
<1> HIDE DEF amount, lines
<1>8. \A p \in Orders : /\ order'[p].status = IF p = o THEN "completed" ELSE order[p].status
                        /\ order'[p].total = order[p].total
  BY <1>0, <1>1, <1>2, <1>7 DEF TypeOK, OrderRow
<1>9. payment'[o][g] = [rows |-> 1, sum |-> amount]
  BY <1>0, <1>1, <1>6 DEF TypeOK
<1>10. amount \in (order[o].total - Tolerance) .. (order[o].total + Tolerance)
  BY <1>1, <1>3, <1>4, ConstantsAssumption DEF Close
<1>11. Ledger!Settle(o, g)
  <2>1. [p \in Orders |-> order[p].status][o] # "cancelled" /\ payment[o][g].rows = 0
    BY <1>1, <1>3, <1>4
  <2>2. payment'[o][g].sum = amount
    BY <1>9
  <2>3. payment' = [payment EXCEPT ![o][g] = [rows |-> 1, sum |-> payment'[o][g].sum]]
    BY <1>6, <2>2
  <2>4. payment'[o][g].sum \in ([p \in Orders |-> order[p].total][o] - Tolerance)
                               .. ([p \in Orders |-> order[p].total][o] + Tolerance)
    BY <1>1, <1>10, <2>2
  <2>5. [p \in Orders |-> order'[p].status]
          = [[p \in Orders |-> order[p].status] EXCEPT ![o] = "completed"]
    BY <1>1, <1>8
  <2>6. [p \in Orders |-> order'[p].total] = [p \in Orders |-> order[p].total]
    BY <1>8
  <2> QED BY <2>1, <2>3, <2>4, <2>5, <2>6 DEF Ledger!Settle
<1> QED BY <1>11 DEF Ledger!Next

\* Every step of a handler or of the database is a step of the ledger or leaves it alone.
LEMMA LedgerNext == IInv /\ [Next]_vars => [Ledger!Next]_(Ledger!lvars)
<1> SUFFICES ASSUME IInv, [Next]_vars PROVE Ledger!Next \/ UNCHANGED Ledger!lvars
  OBVIOUS
<1>0. TypeOK /\ Shape /\ Told
  BY DEF IInv
<1>1. ASSUME UNCHANGED <<order, payment>> PROVE UNCHANGED Ledger!lvars
  BY <1>1, LedgerStutter
<1>2. ASSUME NEW r \in Requests, TxCommit(r) PROVE Ledger!Next
  <2>1. PICK o \in Orders, g \in Groups : o = req[r].order /\ g = req[r].group
    BY <1>0, <1>2 DEF TxCommit, Shape, WellFormed
  <2> QED BY <1>2, <2>1, LedgerSettle
<1>3. ASSUME NEW r \in Requests, SettleSnapshot(r) PROVE UNCHANGED Ledger!lvars
  <2>1. PICK o \in Orders : o = req[r].order
    BY <1>0, <1>3 DEF SettleSnapshot, Told, Informed
  <2> DEFINE row == [order[o] EXCEPT !.receipt = TRUE]
  <2>2. row.status = order[o].status /\ row.total = order[o].total
    BY <1>0, <2>1 DEF TypeOK, OrderRow
  <2>3. order' = [order EXCEPT ![o] = row] /\ UNCHANGED payment
    BY <1>3, <2>1 DEF SettleSnapshot
  <2> HIDE DEF row
  <2> QED BY <1>0, <2>2, <2>3, BillStutter
<1>4. ASSUME NEW r \in Requests, PayStampOrder(r) PROVE UNCHANGED Ledger!lvars
  <2>1. PICK o \in Orders, g \in Groups : /\ o = req[r].order /\ g = req[r].group
                                         /\ payment[o][g].rows > 0
    BY <1>0, <1>4 DEF PayStampOrder, Shape, WellFormed, Told, Informed
  <2> DEFINE sum == req[r].before + PaidAmount(r)
             row == [order[o] EXCEPT !.paidTotal = sum, !.status = "completed"]
  <2>2. order[o].status = "completed"
    BY <2>1 DEF IInv, PaidNeverCancelled
  <2>3. order' = [order EXCEPT ![o] = row] /\ UNCHANGED payment
    BY <1>4, <2>1 DEF PayStampOrder
  <2> HIDE DEF sum
  <2>4. row.status = order[o].status /\ row.total = order[o].total
    BY <1>0, <2>1, <2>2 DEF TypeOK, OrderRow
  <2> HIDE DEF row
  <2> QED BY <1>0, <2>3, <2>4, BillStutter
<1>5. ASSUME NEW r \in Requests,
             EditDeleteItems(r) \/ EditInsertItems(r) \/ EditUpdateFails(r) \/ EditRestoreItems(r)
      PROVE  UNCHANGED Ledger!lvars
  <2>1. PICK o \in Orders : o = req[r].order
    BY <1>0, <1>5 DEF EditDeleteItems, EditInsertItems, EditUpdateFails, EditRestoreItems,
                      Shape, WellFormed, EditSteps
  <2>2. PICK items : order' = [order EXCEPT ![o].items = items] /\ UNCHANGED payment
    BY <1>5, <2>1 DEF EditDeleteItems, EditInsertItems, EditUpdateFails, EditRestoreItems
  <2> DEFINE row == [order[o] EXCEPT !.items = items]
  <2>3. row.status = order[o].status /\ row.total = order[o].total
    BY <1>0, <2>1 DEF TypeOK, OrderRow
  <2>4. order' = [order EXCEPT ![o] = row]
    BY <2>2
  <2> HIDE DEF row
  <2> QED BY <1>0, <2>2, <2>3, <2>4, BillStutter
<1>6. ASSUME NEW r \in Requests, EditUpdateOrder(r) PROVE Ledger!Next \/ UNCHANGED Ledger!lvars
  <2>1. PICK o \in Orders : o = req[r].order
    BY <1>0, <1>6 DEF EditUpdateOrder, Shape, WellFormed, EditSteps
  <2>2. UNCHANGED payment
    BY <1>6 DEF EditUpdateOrder
  <2>3. CASE order[o].status # "queued"
    BY <1>6, <2>1, <2>3, <1>1 DEF EditUpdateOrder
  <2>4. CASE order[o].status = "queued"
    <3> DEFINE row == [order[o] EXCEPT !.total = req[r].amount]
    <3>1. order' = [order EXCEPT ![o] = row]
      BY <1>6, <2>1, <2>4 DEF EditUpdateOrder
    <3>2. row \in OrderRow /\ row.status = "queued"
      BY <1>0, <2>4 DEF TypeOK, OrderRow, Request
    <3> HIDE DEF row
    <3> QED BY <1>0, <2>2, <2>4, <3>1, <3>2, BillReprice
  <2> QED BY <2>3, <2>4
<1>7. ASSUME NEW o \in Orders, CancelOrder(o) PROVE Ledger!Next
  <2>1. order' = [order EXCEPT ![o].status = "cancelled"] /\ UNCHANGED payment
        /\ order[o].status = "queued"
    BY <1>7 DEF CancelOrder
  <2>2. \A p \in Orders : /\ order'[p].status = IF p = o THEN "cancelled" ELSE order[p].status
                          /\ order'[p].total = order[p].total
    BY <1>0, <2>1 DEF TypeOK, OrderRow
  <2>3. Ledger!Cancel(o)
    BY <2>1, <2>2 DEF Ledger!Cancel
  <2> QED BY <2>3 DEF Ledger!Next
<1>8. ASSUME NEW o \in Orders, NEW amount \in Prices, TableQrSubmit(o, amount) PROVE Ledger!Next
  <2> DEFINE sum == order[o].items + amount
             row == [order[o] EXCEPT !.items = sum, !.total = sum]
  <2>1. order[o] \in OrderRow /\ sum \in Nat
    BY <1>0, ConstantsAssumption DEF TypeOK, OrderRow
  <2>2. order[o].status = "queued"
    BY <1>8 DEF TableQrSubmit
  <2>3. order' = [order EXCEPT ![o] = row] /\ UNCHANGED payment
    BY <1>8 DEF TableQrSubmit
  <2> HIDE DEF sum
  <2>4. row.status = "queued" /\ row \in OrderRow
    BY <2>1, <2>2 DEF OrderRow
  <2> HIDE DEF row
  <2> QED BY <1>0, <2>2, <2>3, <2>4, BillReprice
<1>9. ASSUME NEW r \in Requests,
             \/ TxReplay(r) \/ TxNotSeen(r) \/ TxAbort(r) \/ RefusedAnswer(r) \/ PayMarkRows(r)
             \/ EditReadItems(r) \/ EditInsertFails(r) \/ TimeOut(r) \/ HandlerDies(r)
      PROVE  UNCHANGED <<order, payment>>
  BY <1>9 DEF TxReplay, TxNotSeen, TxAbort, RefusedAnswer, PayMarkRows, EditReadItems,
              EditInsertFails, TimeOut, HandlerDies
<1>10. ASSUME NEW r \in Requests, NEW o \in Orders, NEW g, NEW amount, NEW lines,
              \/ SettleArrives(r, o, g, lines, amount) \/ PayArrives(r, o, g, amount)
              \/ EditArrives(r, o, amount)
       PROVE  UNCHANGED <<order, payment>>
  BY <1>10 DEF SettleArrives, PayArrives, EditArrives
<1> QED
  BY <1>1, <1>2, <1>3, <1>4, <1>5, <1>6, <1>7, <1>8, <1>9, <1>10 DEF Next, Call, Handler, vars

\* OrderPayment implements PaymentLedger: whatever handlers, time-outs and crashes do, a bill
\* is settled under each key at most once, for its total, and its status only leaves queued.
THEOREM LedgerRefinement == Spec => LedgerSpec
<1>1. Init => Ledger!Init
  BY LedgerInit
<1>2. IInv /\ [Next]_vars => [Ledger!Next]_(Ledger!lvars)
  BY LedgerNext
<1> QED BY <1>1, <1>2, Invariance, PTL DEF Spec, LedgerSpec, Ledger!Spec
=============================================================================
