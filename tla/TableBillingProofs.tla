------------------------ MODULE TableBillingProofs ------------------------
(***************************************************************************)
(* Proofs about TableBilling for every number of tables, bills, sessions   *)
(* and concurrent requests.  A session becomes active only by an insertion *)
(* or a reactivation that the unique index admits, and is never moved to   *)
(* another table; a guest's order goes to a bill that was looked at under  *)
(* the lock that a settlement does not need, but in the same step.         *)
(*                                                                         *)
(* The second half is about requests that are served one after the other.  *)
(* Then tables, sessions and bills are in order but for what the request   *)
(* at work has begun, and what that is follows from its step (Working).    *)
(***************************************************************************)
EXTENDS TableBilling, FiniteSetTheorems, TLAPS

PCs == {"idle", "openCheck", "openInsert", "openMark", "saleInsert", "attachRead", "attachWrite", "attachMark",
        "editWrite", "moveCheck", "moveOrder", "moveClose", "moveInsert", "moveFree", "moveMark",
        "pay", "release", "issueExpire", "issueInsert", "submit"}
Moving == {"moveCheck", "moveOrder", "moveClose", "moveInsert", "moveFree", "moveMark"}
Row == [pc : PCs, table : Maybe(Tables), target : Maybe(Tables), order : Maybe(Orders),
        session : Maybe(Sessions), status : {"none", "closed", "cancelled"} \union ActiveStates,
        todo : SUBSET {"session", "table"}]
SessionRow == [state : {"none", "deleted", "closed", "cancelled"} \union ActiveStates,
               table : Maybe(Tables), order : Maybe(Orders), stamped : BOOLEAN]
OrderRow == [status : {"none", "queued", "completed", "cancelled"},
             table : Maybe(Tables), items : 0..MaxItems]
QrStates == {"none", "live", "stale", "off"}

\* What a handler q knows of the sessions S.
Fits(q, S) ==
  /\ q.pc \in Moving => q.status \in ActiveStates
  /\ q.pc = "release" => q.status \in {"closed", "cancelled"}
  /\ q.pc = "submit" => q.session \in Sessions
  /\ q.pc = "attachWrite" => /\ q.session \in Sessions
                             /\ S[q.session].state # "none"
                             /\ S[q.session].state = "deleted" \/ S[q.session].table = q.table

\* A row of table_bill_sessions, once written, stays at its table until it is deleted for good.
Evolves(old, new) ==
  old.state # "none" =>
    /\ new.state # "none"
    /\ new.state = "deleted" \/ (old.state # "deleted" /\ new.table = old.table)

\* idx_table_bill_sessions_table_active
Exclusive(S) ==
  \A s, u \in Sessions : S[s].state \in ActiveStates /\ S[u].state \in ActiveStates
                           /\ S[s].table = S[u].table => s = u

Types ==
  /\ table \in [Tables -> TableStatus]
  /\ sess \in [Sessions -> SessionRow]
  /\ qr \in [Sessions -> QrStates]
  /\ order \in [Orders -> OrderRow]
  /\ req \in [Requests -> Row]
IInv ==
  /\ Types
  /\ \A r \in Requests : Fits(req[r], sess)
  /\ Exclusive(sess)

-----------------------------------------------------------------------------
(* Steps of one handler                                                       *)

LEMMA Facts ==
  ASSUME IInv, NEW r \in Requests
  PROVE  /\ req[r] \in Row /\ Fits(req[r], sess)
         /\ table \in [Tables -> TableStatus] /\ sess \in [Sessions -> SessionRow]
         /\ qr \in [Sessions -> QrStates] /\ order \in [Orders -> OrderRow]
         /\ req \in [Requests -> Row] /\ Exclusive(sess)
BY DEF IInv, Types

\* A handler's step that writes its own row of req, and sessions that only evolve.
LEMMA HandlerStep ==
  ASSUME IInv, NEW r \in Requests, NEW q \in Row, req' = [req EXCEPT ![r] = q],
         table' \in [Tables -> TableStatus],
         sess' \in [Sessions -> SessionRow],
         qr' \in [Sessions -> QrStates],
         order' \in [Orders -> OrderRow],
         Fits(q, sess'),
         \A s \in Sessions : Evolves(sess[s], sess'[s]),
         Exclusive(sess')
  PROVE  IInv'
<1>1. req \in [Requests -> Row]
  BY DEF IInv, Types
<1>2. Types'
  BY <1>1 DEF Types
<1>3. ASSUME NEW x \in Requests PROVE Fits(req'[x], sess')
  <2>1. CASE x = r
    BY <1>1, <2>1
  <2>2. CASE x # r
    <3>1. req'[x] = req[x]
      BY <1>1, <2>2
    <3>2. Fits(req[x], sess)
      BY DEF IInv
    <3>3. Fits(req[x], sess')
      BY <3>2 DEF Fits, Evolves
    <3> QED BY <3>1, <3>3
  <2> QED BY <2>1, <2>2
<1> QED BY <1>2, <1>3 DEF IInv

\* The same with the sessions left alone.
LEMMA RowStep ==
  ASSUME IInv, NEW r \in Requests, NEW q \in Row, req' = [req EXCEPT ![r] = q],
         table' \in [Tables -> TableStatus], sess' = sess,
         qr' \in [Sessions -> QrStates], order' \in [Orders -> OrderRow],
         Fits(q, sess)
  PROVE  IInv'
<1>1. \A s \in Sessions : Evolves(sess[s], sess'[s])
  BY DEF Evolves
<1>2. sess' \in [Sessions -> SessionRow] /\ Exclusive(sess') /\ Fits(q, sess')
  BY Facts
<1> QED BY <1>1, <1>2, HandlerStep

LEMMA IdleFacts == Idle \in Row /\ \A S : Fits(Idle, S)
BY DEF Idle, Row, PCs, Maybe, Fits, Moving

\* A handler answers; the sessions are left alone.
LEMMA Answered ==
  ASSUME IInv, NEW r \in Requests, Answer(r),
         table' \in [Tables -> TableStatus], sess' = sess,
         qr' \in [Sessions -> QrStates], order' \in [Orders -> OrderRow]
  PROVE  IInv'
BY IdleFacts, RowStep DEF Answer

\* The same when sessions are written.
LEMMA AnsweredWriting ==
  ASSUME IInv, NEW r \in Requests, Answer(r),
         table' \in [Tables -> TableStatus], sess' \in [Sessions -> SessionRow],
         qr' \in [Sessions -> QrStates], order' \in [Orders -> OrderRow],
         \A s \in Sessions : Evolves(sess[s], sess'[s]), Exclusive(sess')
  PROVE  IInv'
BY IdleFacts, HandlerStep DEF Answer

\* A handler goes on to a step that asks nothing new of its row.
LEMMA GoneTo ==
  ASSUME IInv, NEW r \in Requests, NEW pc \in PCs \ {"release", "submit", "attachWrite"}, Goto(r, pc),
         pc \in Moving => req[r].pc \in Moving
  PROVE  \E q \in Row : req' = [req EXCEPT ![r] = q] /\ \A S : Fits(q, S)
<1>1. PICK q : q = [req[r] EXCEPT !.pc = pc]
  OBVIOUS
<1>2. req[r] \in Row /\ Fits(req[r], sess) /\ req \in [Requests -> Row]
  BY Facts
<1>3. q \in Row /\ q.pc = pc /\ q.status = req[r].status
  BY <1>1, <1>2 DEF Row
<1>4. \A S : Fits(q, S)
  BY <1>2, <1>3 DEF Fits
<1>5. req' = [req EXCEPT ![r] = q]
  BY <1>1, <1>2 DEF Goto
<1> QED BY <1>3, <1>4, <1>5

LEMMA WentOn ==
  ASSUME IInv, NEW r \in Requests, NEW pc \in PCs \ {"release", "submit", "attachWrite"}, Goto(r, pc),
         pc \in Moving => req[r].pc \in Moving,
         table' \in [Tables -> TableStatus], sess' = sess,
         qr' \in [Sessions -> QrStates], order' \in [Orders -> OrderRow]
  PROVE  IInv'
BY GoneTo, RowStep

LEMMA WentOnWriting ==
  ASSUME IInv, NEW r \in Requests, NEW pc \in PCs \ {"release", "submit", "attachWrite"}, Goto(r, pc),
         pc \in Moving => req[r].pc \in Moving,
         table' \in [Tables -> TableStatus], sess' \in [Sessions -> SessionRow],
         qr' \in [Sessions -> QrStates], order' \in [Orders -> OrderRow],
         \A s \in Sessions : Evolves(sess[s], sess'[s]), Exclusive(sess')
  PROVE  IInv'
BY GoneTo, HandlerStep

LEMMA TableSet ==
  ASSUME IInv, NEW t, NEW v \in TableStatus, SetTable(t, v)
  PROVE  table' \in [Tables -> TableStatus]
BY DEF IInv, Types, SetTable

-----------------------------------------------------------------------------
(* What is done to the sessions                                               *)

LEMMA Inserted ==
  ASSUME IInv, NEW s \in Sessions, NEW t \in Maybe(Tables), NEW state \in ActiveStates,
         NEW o \in Maybe(Orders), NewSession(s, t, state, o)
  PROVE  /\ sess' \in [Sessions -> SessionRow]
         /\ \A u \in Sessions : Evolves(sess[u], sess'[u])
         /\ Exclusive(sess')
<1>1. PICK row : row = [state |-> state, table |-> t, order |-> o, stamped |-> FALSE]
  OBVIOUS
<1>2. row \in SessionRow /\ row.table = t
  BY <1>1 DEF SessionRow
<1>3. sess \in [Sessions -> SessionRow] /\ sess' = [sess EXCEPT ![s] = row]
  BY <1>1 DEF IInv, Types, NewSession
<1>4. \A u \in Sessions : ~(sess[u].state \in ActiveStates /\ sess[u].table = t)
  BY DEF NewSession, Active
<1>5. sess'[s] = row /\ \A u \in Sessions \ {s} : sess'[u] = sess[u]
  BY <1>3
<1>6. Exclusive(sess')
  BY <1>2, <1>4, <1>5 DEF IInv, Exclusive
<1>7. \A u \in Sessions : Evolves(sess[u], sess'[u])
  BY <1>5 DEF NewSession, Evolves
<1> QED BY <1>2, <1>3, <1>6, <1>7

LEMMA Ended ==
  ASSUME IInv, NEW S \in SUBSET Sessions, NEW state \in {"closed", "cancelled"}, EndSessions(S, state),
         \A s \in S : sess[s].state # "deleted"
  PROVE  /\ sess' \in [Sessions -> SessionRow] /\ qr' \in [Sessions -> QrStates]
         /\ \A u \in Sessions : Evolves(sess[u], sess'[u])
         /\ Exclusive(sess')
<1>1. sess \in [Sessions -> SessionRow] /\ qr \in [Sessions -> QrStates] /\ Exclusive(sess)
  BY DEF IInv, Types
<1>2. ASSUME NEW u \in Sessions
      PROVE  /\ sess'[u] \in SessionRow
             /\ u \in S => sess'[u].state = state /\ sess'[u].table = sess[u].table
             /\ u \notin S => sess'[u] = sess[u]
  BY <1>1 DEF EndSessions, SessionRow
<1>3. sess' \in [Sessions -> SessionRow] /\ qr' \in [Sessions -> QrStates]
  BY <1>1, <1>2 DEF EndSessions, QrStates
<1>4. state \notin ActiveStates /\ state # "none" /\ state # "deleted"
  BY DEF ActiveStates
<1>5. Exclusive(sess')
  BY <1>1, <1>2, <1>4 DEF Exclusive
<1>6. \A u \in Sessions : Evolves(sess[u], sess'[u])
  BY <1>2, <1>4 DEF Evolves
<1> QED BY <1>3, <1>5, <1>6

\* A session is written by its id, and the index admits it at its table.
LEMMA Reactivated ==
  ASSUME IInv, NEW s \in Sessions, NEW o \in Maybe(Orders),
         sess[s].state \notin {"none", "deleted"},
         Active(sess[s].table) \subseteq {s},
         sess' = [sess EXCEPT ![s].state = "ordering", ![s].order = o]
  PROVE  /\ sess' \in [Sessions -> SessionRow]
         /\ \A u \in Sessions : Evolves(sess[u], sess'[u])
         /\ Exclusive(sess')
<1>1. PICK row : row = [sess[s] EXCEPT !.state = "ordering", !.order = o]
  OBVIOUS
<1>2. sess \in [Sessions -> SessionRow] /\ Exclusive(sess)
  BY DEF IInv, Types
<1>3. row \in SessionRow /\ row.table = sess[s].table /\ row.state = "ordering"
  BY <1>1, <1>2 DEF SessionRow, ActiveStates
<1>4. sess' = [sess EXCEPT ![s] = row]
  BY <1>1, <1>2 DEF SessionRow
<1>5. sess'[s] = row /\ \A u \in Sessions \ {s} : sess'[u] = sess[u]
  BY <1>2, <1>4
<1>6. \A u \in Sessions : sess[u].state \in ActiveStates /\ sess[u].table = sess[s].table => u = s
  BY DEF Active
<1>7. Exclusive(sess')
  BY <1>2, <1>3, <1>5, <1>6 DEF Exclusive
<1>8. \A u \in Sessions : Evolves(sess[u], sess'[u])
  BY <1>3, <1>5 DEF Evolves
<1> QED BY <1>2, <1>3, <1>4, <1>7, <1>8

LEMMA Deleted ==
  ASSUME IInv, NEW s, sess' = [sess EXCEPT ![s] = [NoSession EXCEPT !.state = "deleted"]]
  PROVE  /\ sess' \in [Sessions -> SessionRow]
         /\ \A u \in Sessions : Evolves(sess[u], sess'[u])
         /\ Exclusive(sess')
<1>1. PICK row : row = [NoSession EXCEPT !.state = "deleted"]
  OBVIOUS
<1>2. row \in SessionRow /\ row.state = "deleted"
  BY <1>1 DEF NoSession, SessionRow, Maybe
<1>3. sess \in [Sessions -> SessionRow] /\ Exclusive(sess) /\ sess' = [sess EXCEPT ![s] = row]
  BY <1>1 DEF IInv, Types
<1>4. \A u \in Sessions : sess'[u] = sess[u] \/ sess'[u] = row
  BY <1>3
<1>5. Exclusive(sess')
  BY <1>2, <1>3, <1>4 DEF Exclusive, ActiveStates
<1>6. \A u \in Sessions : Evolves(sess[u], sess'[u])
  BY <1>2, <1>4 DEF Evolves
<1> QED BY <1>2, <1>3, <1>5, <1>6

-----------------------------------------------------------------------------
(* The actions                                                                *)

\* A handler arrives with a row q and writes nothing else.
LEMMA Arrived ==
  ASSUME IInv, NEW r \in Requests, NEW q \in Row, Begin(r, q), Fits(q, sess),
         table' = table, sess' = sess, qr' = qr, order' \in [Orders -> OrderRow]
  PROVE  IInv'
<1>1. table' \in [Tables -> TableStatus] /\ qr' \in [Sessions -> QrStates]
  BY DEF IInv, Types
<1> QED BY <1>1, RowStep DEF Begin

LEMMA OrderWritten ==
  ASSUME IInv, NEW o, NEW t \in Maybe(Tables),
         NEW st \in {"none", "queued", "completed", "cancelled"}
  PROVE  /\ [order EXCEPT ![o].table = t] \in [Orders -> OrderRow]
         /\ [order EXCEPT ![o].status = st] \in [Orders -> OrderRow]
BY DEF IInv, Types, OrderRow

LEMMA PayArrivesStep == ASSUME IInv, NEW r \in Requests, NEW o \in Orders, NEW status, PayArrives(r, o, status) PROVE IInv'
<1>1. PICK q : q = [Idle EXCEPT !.pc = "pay", !.order = o, !.table = order[o].table]
  OBVIOUS
<1>2. order[o].table \in Maybe(Tables)
  BY Facts DEF OrderRow
<1>3. q \in Row /\ Fits(q, sess)
  BY <1>1, <1>2 DEF Fits, Moving, Idle, Row, PCs, Maybe
<1>9. Begin(r, q) /\ UNCHANGED <<table, sess, qr>>
  BY <1>1, <1>2 DEF PayArrives
<1> QED BY Facts, <1>1, <1>3, <1>9, Arrived DEF PayArrives

LEMMA ArrivalStep == ASSUME IInv, NEW r \in Requests, Arrival(r) PROVE IInv'
<1>1. order \in [Orders -> OrderRow] /\ sess \in [Sessions -> SessionRow]
  BY Facts
<1>2. ASSUME NEW t \in Tables, OpenArrives(r, t) PROVE IInv'
  <2>1. PICK q : q = [Idle EXCEPT !.pc = "openCheck", !.table = t]
    OBVIOUS
  <2>2. q \in Row /\ Fits(q, sess)
    BY <2>1 DEF Fits, Moving, Idle, Row, PCs, Maybe
  <2>9. Begin(r, q) /\ UNCHANGED <<table, sess, qr>>
    BY <1>2, <2>1, <2>2 DEF OpenArrives
  <2> QED BY <1>1, <1>2, <2>1, <2>2, <2>9, Arrived DEF OpenArrives
<1>3. ASSUME NEW t \in Tables, SaleArrives(r, t) PROVE IInv'
  <2>1. PICK q : q = [Idle EXCEPT !.pc = "saleInsert", !.table = t]
    OBVIOUS
  <2>2. q \in Row /\ Fits(q, sess)
    BY <2>1 DEF Fits, Moving, Idle, Row, PCs, Maybe
  <2>9. Begin(r, q) /\ UNCHANGED <<table, sess, qr>>
    BY <1>3, <2>1, <2>2 DEF SaleArrives
  <2> QED BY <1>1, <1>3, <2>1, <2>2, <2>9, Arrived DEF SaleArrives
<1>4. ASSUME NEW t \in Tables, IssueArrives(r, t) PROVE IInv'
  <2>1. PICK s \in Sessions : Begin(r, [Idle EXCEPT !.pc = "issueExpire", !.session = s])
    BY <1>4 DEF IssueArrives, Active
  <2>2. PICK q : q = [Idle EXCEPT !.pc = "issueExpire", !.session = s]
    OBVIOUS
  <2>3. q \in Row /\ Fits(q, sess)
    BY <2>2 DEF Fits, Moving, Idle, Row, PCs, Maybe
  <2>9. Begin(r, q) /\ UNCHANGED <<table, sess, qr>>
    BY <1>4, <2>1, <2>2 DEF IssueArrives
  <2> QED BY <1>1, <1>4, <2>1, <2>2, <2>3, <2>9, Arrived DEF IssueArrives
<1>5. ASSUME NEW t \in Tables, NEW o \in Orders, EditArrives(r, t, o) PROVE IInv'
  <2>1. PICK q : q = [Idle EXCEPT !.pc = "editWrite", !.table = t, !.order = o]
    OBVIOUS
  <2>2. q \in Row /\ Fits(q, sess)
    BY <2>1 DEF Fits, Moving, Idle, Row, PCs, Maybe
  <2>9. Begin(r, q) /\ UNCHANGED <<table, sess, qr>>
    BY <1>5, <2>1, <2>2 DEF EditArrives
  <2> QED BY <1>1, <1>5, <2>1, <2>2, <2>9, Arrived DEF EditArrives
<1>6. ASSUME NEW t \in Tables, NEW u \in Tables, MoveArrives(r, t, u) PROVE IInv'
  <2>1. PICK s \in Active(t) :
          Begin(r, [Idle EXCEPT !.pc = "moveCheck", !.table = t, !.target = u, !.session = s,
                    !.order = sess[s].order, !.status = sess[s].state])
    BY <1>6 DEF MoveArrives
  <2>2. s \in Sessions /\ sess[s].state \in ActiveStates /\ sess[s].order \in Maybe(Orders)
    BY <1>1 DEF Active, SessionRow
  <2>3. PICK q : q = [Idle EXCEPT !.pc = "moveCheck", !.table = t, !.target = u, !.session = s,
                      !.order = sess[s].order, !.status = sess[s].state]
    OBVIOUS
  <2>4. q \in Row /\ Fits(q, sess)
    BY <2>2, <2>3 DEF Fits, Moving, Idle, Row, PCs, Maybe
  <2>9. Begin(r, q) /\ UNCHANGED <<table, sess, qr>>
    BY <1>6, <2>1, <2>3 DEF MoveArrives
  <2> QED BY <1>1, <1>6, <2>1, <2>3, <2>4, <2>9, Arrived DEF MoveArrives
<1>7. ASSUME NEW o \in Orders, NEW status, PayArrives(r, o, status) PROVE IInv'
  BY <1>7, PayArrivesStep
<1>8. ASSUME NEW o \in Orders, CancelArrives(r, o) PROVE IInv'
  <2>1. PICK q : q = [Idle EXCEPT !.pc = "release", !.order = o, !.table = order[o].table,
                      !.status = "cancelled", !.todo = {"session", "table"}]
    OBVIOUS
  <2>2. order[o].table \in Maybe(Tables)
    BY <1>1 DEF OrderRow
  <2>3. q \in Row /\ Fits(q, sess)
    BY <2>1, <2>2 DEF Fits, Moving, Idle, Row, PCs, Maybe
  <2>4. order' \in [Orders -> OrderRow]
    BY <1>8, <2>2, OrderWritten DEF CancelArrives
  <2>9. Begin(r, q) /\ UNCHANGED <<table, sess, qr>>
    BY <1>8, <2>1, <2>2 DEF CancelArrives
  <2> QED BY <1>8, <2>1, <2>3, <2>4, <2>9, Arrived DEF CancelArrives
<1>9. ASSUME NEW s \in Sessions, SubmitArrives(r, s) PROVE IInv'
  <2>1. PICK q : q = [Idle EXCEPT !.pc = "submit", !.session = s]
    OBVIOUS
  <2>2. q \in Row /\ Fits(q, sess)
    BY <2>1 DEF Fits, Moving, Idle, Row, PCs, Maybe
  <2>9. Begin(r, q) /\ UNCHANGED <<table, sess, qr>>
    BY <1>9, <2>1, <2>2 DEF SubmitArrives
  <2> QED BY <1>1, <1>9, <2>1, <2>2, <2>9, Arrived DEF SubmitArrives
<1> QED BY <1>2, <1>3, <1>4, <1>5, <1>6, <1>7, <1>8, <1>9 DEF Arrival

LEMMA OpenStep ==
  ASSUME IInv, NEW r \in Requests,
         OpenChecks(r) \/ OpenRefused(r) \/ OpenMarks(r) \/ (\E s \in Sessions : OpenInserts(r, s))
  PROVE  IInv'
<1>1. CASE OpenChecks(r)
  BY <1>1, Facts, Answered, WentOn DEF OpenChecks, PCs, Moving
<1>2. CASE OpenRefused(r)
  BY <1>2, Facts, Answered DEF OpenRefused
<1>3. CASE OpenMarks(r)
  <2>1. table' \in [Tables -> TableStatus]
    BY <1>3, TableSet DEF OpenMarks, TableStatus
  <2> QED BY <1>3, <2>1, Facts, Answered DEF OpenMarks
<1>4. ASSUME NEW s \in Sessions, OpenInserts(r, s) PROVE IInv'
  <2>1. req[r].table \in Maybe(Tables) /\ "none" \in Maybe(Orders) /\ "open" \in ActiveStates
    BY Facts DEF Row, Maybe, ActiveStates
  <2>2. /\ sess' \in [Sessions -> SessionRow]
        /\ \A u \in Sessions : Evolves(sess[u], sess'[u])
        /\ Exclusive(sess')
    BY <1>4, <2>1, Inserted DEF OpenInserts
  <2>3. PICK q : q = [req[r] EXCEPT !.pc = "openMark", !.session = s]
    OBVIOUS
  <2>4. q \in Row /\ q.pc = "openMark"
    BY <2>3, Facts DEF Row, PCs, Maybe
  <2>5. Fits(q, sess')
    BY <2>4 DEF Fits, Moving
  <2>6. req' = [req EXCEPT ![r] = q]
    BY <1>4, <2>3, Facts DEF OpenInserts, Row
  <2> QED BY <1>4, <2>2, <2>4, <2>5, <2>6, Facts, HandlerStep DEF OpenInserts
<1> QED BY <1>1, <1>2, <1>3, <1>4

LEMMA AttachStep ==
  ASSUME IInv, NEW r \in Requests,
         AttachReads(r) \/ AttachWrites(r) \/ AttachMarks(r) \/ (\E o \in Orders : SaleInserts(r, o))
  PROVE  IInv'
<1>1. CASE AttachReads(r)
  <2>1. CASE Answer(r)
    BY <1>1, <2>1, Facts, Answered DEF AttachReads
  <2>2. CASE \E s \in Active(req[r].table) : req' = [req EXCEPT ![r].pc = "attachWrite", ![r].session = s]
    <3>1. PICK s \in Active(req[r].table) : req' = [req EXCEPT ![r].pc = "attachWrite", ![r].session = s]
      BY <2>2
    <3>2. s \in Sessions /\ sess[s].state \in ActiveStates /\ sess[s].table = req[r].table
      BY DEF Active
    <3>3. PICK q : q = [req[r] EXCEPT !.pc = "attachWrite", !.session = s]
      OBVIOUS
    <3>4. q \in Row /\ q.pc = "attachWrite" /\ q.session = s /\ q.table = req[r].table
      <4>1. req[r] \in Row /\ s \in Maybe(Sessions) /\ "attachWrite" \in PCs
        BY <3>2, Facts DEF PCs, Maybe
      <4> QED BY <3>3, <4>1 DEF Row
    <3>5. Fits(q, sess)
      BY <3>2, <3>4 DEF Fits, Moving, ActiveStates
    <3>6. req' = [req EXCEPT ![r] = q]
      BY <3>1, <3>3, Facts DEF Row
    <3> QED BY <1>1, <3>4, <3>5, <3>6, Facts, RowStep DEF AttachReads
  <2> QED BY <1>1, <2>1, <2>2 DEF AttachReads
<1>2. CASE AttachWrites(r)
  <2> DEFINE s == req[r].session
  <2>1. /\ s \in Sessions /\ sess[s].state # "none"
        /\ sess[s].state = "deleted" \/ sess[s].table = req[r].table
        /\ req[r].order \in Maybe(Orders)
    BY <1>2, Facts DEF AttachWrites, At, Fits, Row
  <2>2. table' \in [Tables -> TableStatus] /\ qr' \in [Sessions -> QrStates] /\ order' \in [Orders -> OrderRow]
    BY <1>2, Facts DEF AttachWrites
  <2>3. CASE sess[s].state # "deleted" /\ Active(req[r].table) \subseteq {s} /\ Goto(r, "attachMark")
             /\ sess' = [sess EXCEPT ![s].state = "ordering", ![s].order = req[r].order]
    <3>1. /\ sess' \in [Sessions -> SessionRow]
          /\ \A u \in Sessions : Evolves(sess[u], sess'[u])
          /\ Exclusive(sess')
      <4> HIDE DEF s
      <4> QED BY <2>1, <2>3, Reactivated
    <3> QED BY <2>2, <2>3, <3>1, WentOnWriting DEF PCs, Moving
  <2>4. CASE Goto(r, "attachMark") /\ UNCHANGED sess
    BY <2>2, <2>4, WentOn DEF PCs, Moving
  <2>5. CASE Answer(r) /\ UNCHANGED sess
    BY <2>2, <2>5, Answered
  <2> QED BY <1>2, <2>3, <2>4, <2>5 DEF AttachWrites
<1>3. CASE AttachMarks(r)
  <2>1. table' \in [Tables -> TableStatus]
    BY <1>3, TableSet DEF AttachMarks, TableStatus
  <2> QED BY <1>3, <2>1, Facts, Answered DEF AttachMarks
<1>4. ASSUME NEW o \in Orders, SaleInserts(r, o) PROVE IInv'
  <2>1. PICK row : row = [status |-> "queued", table |-> req[r].table, items |-> 0]
    OBVIOUS
  <2>2. row \in OrderRow
    BY <2>1, Facts, ConstantsAssumption DEF OrderRow, Row
  <2>3. order' \in [Orders -> OrderRow]
    BY <1>4, <2>1, <2>2, Facts DEF SaleInserts
  <2>4. PICK q : q = [req[r] EXCEPT !.pc = "attachRead", !.order = o]
    OBVIOUS
  <2>5. q \in Row /\ q.pc = "attachRead"
    BY <2>4, Facts DEF Row, PCs, Maybe
  <2>6. Fits(q, sess)
    BY <2>5 DEF Fits, Moving
  <2>7. req' = [req EXCEPT ![r] = q]
    BY <1>4, <2>4, Facts DEF SaleInserts, Row
  <2> QED BY <1>4, <2>3, <2>5, <2>6, <2>7, Facts, RowStep DEF SaleInserts
<1> QED BY <1>1, <1>2, <1>3, <1>4

LEMMA MoveStep ==
  ASSUME IInv, NEW r \in Requests,
         \/ MoveChecks(r) \/ MoveOrder(r) \/ MoveCloses(r) \/ MoveInsertRefused(r) \/ MoveFrees(r) \/ MoveMarks(r)
         \/ \E s \in Sessions : MoveInserts(r, s)
  PROVE  IInv'
<1>0. "moveClose" \in PCs \ {"release", "submit", "attachWrite"} /\ "moveOrder" \in PCs \ {"release", "submit", "attachWrite"}
      /\ "moveInsert" \in PCs \ {"release", "submit", "attachWrite"} /\ "moveFree" \in PCs \ {"release", "submit", "attachWrite"}
      /\ "moveMark" \in PCs \ {"release", "submit", "attachWrite"}
  BY DEF PCs
<1>1. CASE MoveChecks(r)
  <2>1. req[r].pc \in Moving
    BY <1>1 DEF MoveChecks, At, Moving
  <2>2. Answer(r) \/ Goto(r, "moveClose") \/ Goto(r, "moveOrder")
    BY <1>1 DEF MoveChecks
  <2> QED BY <1>0, <1>1, <2>1, <2>2, Facts, Answered, WentOn DEF MoveChecks
<1>2. CASE MoveOrder(r)
  <2>1. req[r].pc \in Moving
    BY <1>2 DEF MoveOrder, At, Moving
  <2>2. req[r].target \in Maybe(Tables)
    BY Facts DEF Row
  <2>3. order' \in [Orders -> OrderRow]
    BY <1>2, <2>2, OrderWritten DEF MoveOrder
  <2> QED BY <1>0, <1>2, <2>1, <2>3, Facts, WentOn DEF MoveOrder
<1>3. CASE MoveCloses(r)
  <2>1. req[r].pc \in Moving
    BY <1>3 DEF MoveCloses, At, Moving
  <2> DEFINE S == {req[r].session} \ {x \in Sessions : sess[x].state = "deleted"}
  <2>2. EndSessions(S \intersect Sessions, "closed")
    BY <1>3 DEF MoveCloses, EndSessions
  <2>3. \A x \in S \intersect Sessions : sess[x].state # "deleted"
    OBVIOUS
  <2>4. /\ sess' \in [Sessions -> SessionRow] /\ qr' \in [Sessions -> QrStates]
        /\ \A u \in Sessions : Evolves(sess[u], sess'[u])
        /\ Exclusive(sess')
    <3> HIDE DEF S
    <3> QED BY <2>2, <2>3, Ended
  <2> QED BY <1>0, <1>3, <2>1, <2>4, Facts, WentOnWriting DEF MoveCloses
<1>4. CASE MoveInsertRefused(r)
  BY <1>4, Facts, Answered DEF MoveInsertRefused
<1>5. CASE MoveFrees(r)
  <2>1. req[r].pc \in Moving
    BY <1>5 DEF MoveFrees, At, Moving
  <2>2. table' \in [Tables -> TableStatus]
    BY <1>5, TableSet DEF MoveFrees, TableStatus
  <2> QED BY <1>0, <1>5, <2>1, <2>2, Facts, WentOn DEF MoveFrees
<1>6. CASE MoveMarks(r)
  <2>1. table' \in [Tables -> TableStatus]
    BY <1>6, TableSet DEF MoveMarks, TableStatus
  <2> QED BY <1>6, <2>1, Facts, Answered DEF MoveMarks
<1>7. ASSUME NEW s \in Sessions, MoveInserts(r, s) PROVE IInv'
  <2>1. req[r].pc \in Moving
    BY <1>7 DEF MoveInserts, At, Moving
  <2>2. req[r].target \in Maybe(Tables) /\ req[r].order \in Maybe(Orders) /\ req[r].status \in ActiveStates
    BY <2>1, Facts DEF Row, Fits
  <2>3. /\ sess' \in [Sessions -> SessionRow]
        /\ \A u \in Sessions : Evolves(sess[u], sess'[u])
        /\ Exclusive(sess')
    BY <1>7, <2>2, Inserted DEF MoveInserts
  <2> QED BY <1>0, <1>7, <2>1, <2>3, Facts, WentOnWriting DEF MoveInserts
<1> QED BY <1>1, <1>2, <1>3, <1>4, <1>5, <1>6, <1>7

LEMMA DoneStep ==
  ASSUME IInv, NEW r \in Requests, At(r, "release"), NEW x, Done(r, x),
         table' \in [Tables -> TableStatus], sess' \in [Sessions -> SessionRow],
         qr' \in [Sessions -> QrStates], order' \in [Orders -> OrderRow],
         \A s \in Sessions : Evolves(sess[s], sess'[s]), Exclusive(sess')
  PROVE  IInv'
<1>1. CASE Answer(r)
  BY <1>1, AnsweredWriting
<1>2. CASE req' = [req EXCEPT ![r].todo = @ \ {x}]
  <2>1. PICK q : q = [req[r] EXCEPT !.todo = @ \ {x}]
    OBVIOUS
  <2>2. q \in Row /\ q.pc = "release" /\ q.status = req[r].status
    BY <2>1, Facts DEF Row, At
  <2>3. Fits(q, sess')
    BY <2>2, Facts DEF Fits, Moving, At
  <2>4. req' = [req EXCEPT ![r] = q]
    BY <1>2, <2>1, Facts DEF Row
  <2> QED BY <2>2, <2>3, <2>4, HandlerStep
<1> QED BY <1>1, <1>2 DEF Done

LEMMA SameSessions ==
  ASSUME IInv, sess' = sess
  PROVE  /\ sess' \in [Sessions -> SessionRow]
         /\ \A s \in Sessions : Evolves(sess[s], sess'[s])
         /\ Exclusive(sess')
BY Facts DEF Evolves, IInv, Types

LEMMA SettleStep ==
  ASSUME IInv, NEW r \in Requests,
         \/ PaySettles(r) \/ PayRefused(r) \/ ReleaseSession(r) \/ ReleaseTable(r)
         \/ \E x \in {"session", "table"} : ReleaseLost(r, x)
  PROVE  IInv'
<1>1. CASE PaySettles(r)
  <2>1. "none" \in Maybe(Tables)
    BY DEF Maybe
  <2>2. order' \in [Orders -> OrderRow]
    BY <1>1, <2>1, OrderWritten DEF PaySettles
  <2>3. PICK q : q = [req[r] EXCEPT !.pc = "release", !.status = "closed", !.todo = {"session", "table"}]
    OBVIOUS
  <2>4. q \in Row /\ q.pc = "release" /\ q.status = "closed"
    BY <2>3, Facts DEF Row, PCs
  <2>5. Fits(q, sess)
    BY <2>4 DEF Fits, Moving
  <2>6. req' = [req EXCEPT ![r] = q]
    BY <1>1, <2>3, Facts DEF PaySettles, Row
  <2> QED BY <1>1, <2>2, <2>4, <2>5, <2>6, Facts, RowStep DEF PaySettles
<1>2. CASE PayRefused(r)
  BY <1>2, Facts, Answered DEF PayRefused
<1>3. CASE ReleaseSession(r)
  <2> DEFINE S == Active(req[r].table)
  <2>1. S \in SUBSET Sessions /\ \A s \in S : sess[s].state # "deleted"
    BY DEF Active, ActiveStates
  <2>2. req[r].status \in {"closed", "cancelled"}
    BY <1>3, Facts DEF ReleaseSession, At, Fits
  <2>3. EndSessions(S, req[r].status) /\ At(r, "release") /\ Done(r, "session")
    BY <1>3 DEF ReleaseSession
  <2>4. /\ sess' \in [Sessions -> SessionRow] /\ qr' \in [Sessions -> QrStates]
        /\ \A u \in Sessions : Evolves(sess[u], sess'[u])
        /\ Exclusive(sess')
    <3> HIDE DEF S
    <3> QED BY <2>1, <2>2, <2>3, Ended
  <2> QED BY <1>3, <2>3, <2>4, Facts, DoneStep DEF ReleaseSession
<1>4. CASE ReleaseTable(r)
  <2>1. table' \in [Tables -> TableStatus]
    BY <1>4, TableSet DEF ReleaseTable, TableStatus
  <2> QED BY <1>4, <2>1, Facts, SameSessions, DoneStep DEF ReleaseTable
<1>5. ASSUME NEW x, ReleaseLost(r, x) PROVE IInv'
  BY <1>5, Facts, SameSessions, DoneStep DEF ReleaseLost
<1> QED BY <1>1, <1>2, <1>3, <1>4, <1>5

LEMMA IssueStep == ASSUME IInv, NEW r \in Requests, IssueExpires(r) \/ IssueInserts(r) PROVE IInv'
<1>1. qr' \in [Sessions -> QrStates]
  BY Facts DEF IssueExpires, IssueInserts, QrStates
<1>2. CASE IssueExpires(r)
  BY <1>1, <1>2, Facts, WentOn DEF IssueExpires, PCs, Moving
<1>3. CASE IssueInserts(r)
  BY <1>1, <1>3, Facts, Answered DEF IssueInserts
<1> QED BY <1>2, <1>3

\* The bill that a submission may write to.
LEMMA UpdatableFacts ==
  ASSUME IInv, NEW s \in Sessions, NEW o \in Updatable(s)
  PROVE  o \in Orders /\ order[o].status \in {"none", "queued"}
<1>1. sess[s].order \in Maybe(Orders)
  BY Facts DEF IInv, Types, SessionRow
<1> QED BY <1>1 DEF Updatable, Maybe

LEMMA SubmitStep ==
  ASSUME IInv, NEW r \in Requests, SubmitFails(r) \/ \E o \in Orders : SubmitWrites(r, o)
  PROVE  IInv'
<1>1. CASE SubmitFails(r)
  BY <1>1, Facts, Answered DEF SubmitFails
<1>2. ASSUME NEW o \in Orders, SubmitWrites(r, o) PROVE IInv'
  <2> DEFINE s == req[r].session
  <2>1. s \in Sessions
    BY <1>2, Facts DEF SubmitWrites, At, Fits
  <2>2. /\ sess[s] \in SessionRow /\ sess[s].state \in ActiveStates
        /\ sess' = [sess EXCEPT ![s].state = "ordering", ![s].order = o]
    BY <1>2, <2>1, Facts DEF SubmitWrites, Open
  <2>3. Active(sess[s].table) \subseteq {s}
    BY <2>1, <2>2 DEF IInv, Exclusive, Active
  <2>4. o \in Maybe(Orders) /\ sess[s].state \notin {"none", "deleted"}
    BY <2>2 DEF Maybe, ActiveStates
  <2>5. /\ sess' \in [Sessions -> SessionRow]
        /\ \A u \in Sessions : Evolves(sess[u], sess'[u])
        /\ Exclusive(sess')
    <3> HIDE DEF s
    <3> QED BY <2>1, <2>2, <2>3, <2>4, Reactivated
  <2>6. PICK row : row = [status |-> "queued", table |-> sess[s].table, items |-> order[o].items + 1]
    OBVIOUS
  <2>7. row \in OrderRow
    <3>1. order[o].items \in 0..MaxItems /\ order[o].items < MaxItems
      BY <1>2, Facts DEF SubmitWrites, OrderRow
    <3>2. sess[s].table \in Maybe(Tables)
      BY <2>2 DEF SessionRow
    <3> QED BY <2>6, <3>1, <3>2, ConstantsAssumption DEF OrderRow
  <2>8. order' \in [Orders -> OrderRow]
    BY <1>2, <2>6, <2>7, Facts DEF SubmitWrites
  <2>9. table' \in [Tables -> TableStatus]
    BY <1>2, TableSet DEF SubmitWrites, TableStatus
  <2> QED BY <1>2, <2>5, <2>8, <2>9, Facts, AnsweredWriting DEF SubmitWrites
<1> QED BY <1>1, <1>2

LEMMA OtherStep ==
  ASSUME IInv, NEW r \in Requests, EditWrites(r) \/ CloseDeadlocks(r) \/ OpenMarkFails(r) \/ Dies(r)
  PROVE  IInv'
<1>1. CASE EditWrites(r)
  <2>1. req[r].table \in Maybe(Tables)
    BY Facts DEF Row
  <2>2. order' = [order EXCEPT ![req[r].order].table = req[r].table] \/ order' = order
    BY <1>1 DEF EditWrites
  <2>3. "queued" \in {"none", "queued", "completed", "cancelled"}
    OBVIOUS
  <2>4. [order EXCEPT ![req[r].order].table = req[r].table] \in [Orders -> OrderRow]
    BY <2>1, <2>3, OrderWritten
  <2>5. order' \in [Orders -> OrderRow]
    BY <2>2, <2>4, Facts
  <2> QED BY <1>1, <2>5, Facts, Answered, WentOn DEF EditWrites, PCs, Moving
<1>2. CASE CloseDeadlocks(r)
  BY <1>2, Facts, SameSessions, Answered, DoneStep DEF CloseDeadlocks
<1>3. CASE OpenMarkFails(r)
  <2>1. qr' \in [Sessions -> QrStates]
    BY <1>3, Facts DEF OpenMarkFails, QrStates
  <2> QED BY <1>3, <2>1, Facts, Deleted, AnsweredWriting DEF OpenMarkFails
<1>4. CASE Dies(r)
  BY <1>4, Facts, Answered DEF Dies
<1> QED BY <1>1, <1>2, <1>3, <1>4

\* Steps of nobody's handler.
LEMMA WorldStep ==
  ASSUME IInv, UNCHANGED <<sess, order, req>>,
         table' \in [Tables -> TableStatus], qr' \in [Sessions -> QrStates]
  PROVE  IInv'
<1>1. Types'
  BY DEF IInv, Types
<1> QED BY <1>1 DEF IInv

-----------------------------------------------------------------------------
LEMMA InitIInv == Init => IInv
<1> SUFFICES ASSUME Init PROVE IInv
  OBVIOUS
<1>1. NoSession \in SessionRow /\ NoOrder \in OrderRow /\ NoSession.state = "none"
  BY ConstantsAssumption DEF NoSession, SessionRow, NoOrder, OrderRow, Maybe
<1>2. Types
  BY <1>1, IdleFacts DEF Init, Types, TableStatus, QrStates
<1>3. \A r \in Requests : Fits(req[r], sess)
  BY IdleFacts DEF Init
<1>4. Exclusive(sess)
  BY <1>1 DEF Init, Exclusive, ActiveStates
<1> QED BY <1>2, <1>3, <1>4 DEF IInv

LEMMA NextIInv == IInv /\ [Next]_vars => IInv'
<1> SUFFICES ASSUME IInv, [Next]_vars PROVE IInv'
  OBVIOUS
<1>1. ASSUME NEW r \in Requests, Arrival(r) \/ Step(r) PROVE IInv'
  BY <1>1, ArrivalStep, OpenStep, AttachStep, MoveStep, SettleStep, IssueStep, SubmitStep, OtherStep DEF Step
<1>2. ASSUME NEW r \in Requests, Fault(r) PROVE IInv'
  <2>1. ASSUME NEW o \in Orders, PayArrives(r, o, "completed") PROVE IInv'
    BY <2>1, PayArrivesStep
  <2> QED BY <1>2, <2>1, OtherStep, SettleStep DEF Fault
<1>3. ASSUME NEW s \in Sessions, QrLapses(s) PROVE IInv'
  <2>1. qr' \in [Sessions -> QrStates] /\ table' \in [Tables -> TableStatus]
    BY <1>3 DEF QrLapses, IInv, Types, QrStates
  <2> QED BY <1>3, <2>1, WorldStep DEF QrLapses
<1>4. ASSUME NEW t \in Tables, NEW v \in TableEdits, EditTable(t, v) PROVE IInv'
  <2>1. v \in TableStatus
    BY ConstantsAssumption DEF TableStatus
  <2>2. table' \in [Tables -> TableStatus] /\ qr' \in [Sessions -> QrStates]
    BY <1>4, <2>1, TableSet DEF EditTable, IInv, Types
  <2> QED BY <1>4, <2>2, WorldStep DEF EditTable
<1>5. CASE UNCHANGED vars
  BY <1>5, WorldStep DEF vars, IInv, Types
<1> QED BY <1>1, <1>2, <1>3, <1>4, <1>5 DEF Next

\* The inductive invariant holds in every reachable state.
THEOREM Invariance == Spec => []IInv
<1> QED BY InitIInv, NextIInv, PTL DEF Spec

\* Rows hold what their columns may hold, and handlers write only to rows they have read.
THEOREM TableTypes == Spec => []TypeOK
<1>1. IInv => TypeOK
  BY DEF IInv, Types, TypeOK, Row, SessionRow, OrderRow, QrStates
<1> QED BY <1>1, Invariance, PTL

\* A table never has two active bills, however many tills open, attach, move and release at once:
\* sessions come back to life only at the table they were opened on, and past the unique index.
THEOREM TablesHaveOneBill == Spec => []OneBillPerTable
<1>1. IInv => OneBillPerTable
  <2> SUFFICES ASSUME IInv, NEW t \in Tables PROVE Cardinality(Active(t)) <= 1
    BY DEF OneBillPerTable
  <2>1. \A s, u \in Active(t) : s = u
    BY DEF IInv, Exclusive, Active
  <2>2. CASE Active(t) = {}
    BY <2>2, FS_EmptySet
  <2>3. CASE Active(t) # {}
    <3>1. PICK s : Active(t) = {s}
      BY <2>1, <2>3
    <3> QED BY <3>1, FS_Singleton
  <2> QED BY <2>2, <2>3
<1> QED BY <1>1, Invariance, PTL

-----------------------------------------------------------------------------
(* Finished bills                                                             *)

Finished == {"completed", "cancelled"}

\* Every statement on an order but a guest's submission keeps the number of submissions; a sale
\* takes a row that does not exist yet, and a submission one that is queued or does not exist.
LEMMA FinishedStep ==
  ASSUME IInv, [Next]_vars, NEW o \in Orders, order[o].status \in Finished
  PROVE  order'[o].items = order[o].items
<1>1. order \in [Orders -> OrderRow]
  BY DEF IInv, Types
<1>2. ASSUME NEW r \in Requests, Arrival(r) PROVE order'[o].items = order[o].items
  <2>1. ASSUME NEW x \in Orders, CancelArrives(r, x) PROVE order'[o].items = order[o].items
    BY <1>1, <2>1 DEF CancelArrives, OrderRow
  <2>2. order' = order \/ \E x \in Orders : CancelArrives(r, x)
    BY <1>2 DEF Arrival, OpenArrives, SaleArrives, IssueArrives, EditArrives, MoveArrives, PayArrives, SubmitArrives
  <2> QED BY <2>1, <2>2
<1>3. ASSUME NEW r \in Requests, Step(r) PROVE order'[o].items = order[o].items
  <2>1. CASE EditWrites(r)
    BY <1>1, <2>1 DEF EditWrites, OrderRow
  <2>2. CASE MoveOrder(r)
    BY <1>1, <2>2 DEF MoveOrder, OrderRow
  <2>3. CASE PaySettles(r)
    BY <1>1, <2>3 DEF PaySettles, OrderRow
  <2>4. ASSUME NEW x \in Orders, SaleInserts(r, x) PROVE order'[o].items = order[o].items
    BY <1>1, <2>4 DEF SaleInserts, Finished
  <2>5. ASSUME NEW x \in Orders, SubmitWrites(r, x) PROVE order'[o].items = order[o].items
    <3>1. PICK s \in Sessions : s = req[r].session
      BY <2>5, Facts DEF SubmitWrites, At, Fits
    <3>2. order[x].status \in {"none", "queued"}
      BY <2>5, <3>1, UpdatableFacts DEF SubmitWrites
    <3>3. x # o
      BY <3>2 DEF Finished
    <3> QED BY <1>1, <2>5, <3>3 DEF SubmitWrites
  <2>6. CASE order' = order
    BY <2>6
  <2>7. \/ EditWrites(r) \/ MoveOrder(r) \/ PaySettles(r) \/ order' = order
        \/ \E x \in Orders : SaleInserts(r, x) \/ SubmitWrites(r, x)
    BY <1>3 DEF Step, OpenChecks, OpenRefused, OpenMarks, AttachReads, AttachWrites, AttachMarks, MoveChecks,
                MoveCloses, MoveInsertRefused, MoveFrees, MoveMarks, PayRefused, ReleaseSession, ReleaseTable,
                IssueExpires, IssueInserts, SubmitFails, CloseDeadlocks, OpenInserts, MoveInserts
  <2> QED BY <2>1, <2>2, <2>3, <2>4, <2>5, <2>6, <2>7
<1>4. ASSUME NEW r \in Requests, Fault(r) PROVE order' = order
  BY <1>4 DEF Fault, OpenMarkFails, Dies, ReleaseLost, PayArrives
<1>5. ASSUME NEW s \in Sessions, QrLapses(s) PROVE order' = order
  BY <1>5 DEF QrLapses
<1>6. ASSUME NEW t \in Tables, NEW v \in TableEdits, EditTable(t, v) PROVE order' = order
  BY <1>6 DEF EditTable
<1>7. CASE UNCHANGED vars
  BY <1>7 DEF vars
<1> QED BY <1>2, <1>3, <1>4, <1>5, <1>6, <1>7 DEF Next

\* A bill that is paid or cancelled takes no more of its guests' orders, whatever has become of its
\* session, its table and its QR link in the meantime.
THEOREM FinishedBillsAreFrozen == Spec => FinishedBillFrozen
<1>1. IInv /\ [Next]_vars => [\A o \in Orders : order[o].status \in {"completed", "cancelled"}
                                => order'[o].items = order[o].items]_vars
  BY FinishedStep DEF Finished
<1> QED BY <1>1, Invariance, PTL DEF Spec, FinishedBillFrozen

-----------------------------------------------------------------------------
(* Requests one after the other                                               *)

\* At most one request is served at a time, as when one till works on its own.  That its slot serves
\* any number of requests, of any kind, one after the other, is left to the steps.
OneByOne == \A q, r \in Requests : q = r

Agrees(t) == table[t] \in Seated <=> Active(t) # {}
Queued(o) == order[o].status = "queued"
\* The tables of T and the bills of O are being written; all others are in order.
Neat(T, O) ==
  /\ \A t \in Tables \ T : Agrees(t)
  /\ \A o \in Orders \ O : Queued(o) => Shown(o)

Holds(s, t, o) == s \in Active(t) /\ sess[s].order = o

\* What is left to do at each step of a handler q that nothing has disturbed.
WhileOpening(q) ==
  /\ q.pc \in {"openCheck", "openInsert"} => Active(q.table) = {}
  /\ q.pc = "openMark" => Active(q.table) # {}
  /\ q.pc \in {"openCheck", "openInsert", "openMark"} =>
       q.table \in Tables /\ Neat(IF q.pc = "openMark" THEN {q.table} ELSE {}, {})
WhileSelling(q) ==
  /\ q.pc = "saleInsert" => Neat({}, {}) /\ \E s \in Sessions : Holds(s, q.table, "none")
  /\ q.pc \in {"attachRead", "attachWrite"} =>
       /\ Neat({}, {q.order})
       /\ q.order \in Orders /\ order[q.order].table = q.table
       /\ \E s \in Sessions : Holds(s, q.table, "none")
  /\ q.pc = "attachWrite" => Holds(q.session, q.table, "none")
  /\ q.pc = "attachMark" => Neat({}, {}) /\ Active(q.table) # {}
  /\ q.pc = "editWrite" =>
       /\ Neat({}, {})
       /\ q.order \in Orders /\ Queued(q.order)
       /\ \E s \in Sessions : Holds(s, q.table, q.order)
WhileMoving(q) ==
  /\ q.pc \in Moving => q.table \in Tables /\ q.target \in Tables /\ q.table # q.target
  /\ q.pc \in {"moveCheck", "moveOrder", "moveClose"} => Holds(q.session, q.table, q.order)
  /\ q.pc \in {"moveCheck", "moveOrder"} => Neat({}, {})
  /\ q.pc \in {"moveOrder", "moveClose", "moveInsert"} => Active(q.target) = {}
  /\ q.pc = "moveOrder" => q.order \in Orders
  /\ q.pc \in {"moveClose", "moveInsert"} /\ q.order \in Orders => order[q.order].table = q.target
  /\ q.pc = "moveClose" => Neat({}, {q.order})
  /\ q.pc = "moveInsert" => Neat({q.table}, {q.order})
  /\ q.pc \in {"moveInsert", "moveFree"} => Active(q.table) = {}
  /\ q.pc \in {"moveFree", "moveMark"} => Active(q.target) # {}
  /\ q.pc = "moveFree" => Neat({q.table, q.target}, {})
  /\ q.pc = "moveMark" => Neat({q.target}, {})
WhileEnding(q) ==
  /\ q.pc = "pay" => /\ Neat({}, {})
                     /\ q.order \in Orders /\ Queued(q.order) /\ order[q.order].table = q.table
  /\ q.pc = "release" =>
       /\ Neat({q.table}, {})
       /\ q.todo # {}
       /\ \A o \in Orders : order[o].table = q.table => ~Queued(o)
       /\ "session" \notin q.todo => Active(q.table) = {}
       /\ "table" \notin q.todo /\ q.table \in Tables => table[q.table] \notin Seated
\* A QR link is issued for, and an order submitted to, an active session.
Elsewhere == {"idle", "issueExpire", "issueInsert", "submit"}
Working(q) ==
  /\ q.pc \in Elsewhere => Neat({}, {})
  /\ WhileOpening(q) /\ WhileSelling(q) /\ WhileMoving(q) /\ WhileEnding(q)

Tidy ==
  faults = 0 => /\ Quiet => Neat({}, {})
                /\ \A r \in Requests : Working(req[r])

Issues(q) == q.pc \in {"issueExpire", "issueInsert"} => sess[q.session].state \in ActiveStates
Linked == ClosedBillRevokesQr /\ \A r \in Requests : Issues(req[r])

SerialInv == IInv /\ faults \in Nat /\ Tidy /\ Linked
-----------------------------------------------------------------------------
(* Lemmas for requests one after the other                                    *)

LEMMA ActiveFacts ==
  ASSUME NEW s, NEW t
  PROVE  s \in Active(t) <=> s \in Sessions /\ sess[s].state \in ActiveStates /\ sess[s].table = t
BY DEF Active

\* The index leaves a table one bill, and so at most one queued order whose bill is shown.
LEMMA OnlyBill ==
  ASSUME IInv, NEW T, NEW O, Neat(T, O), NEW s, NEW t, NEW x, Holds(s, t, x),
         NEW o \in Orders \ O, Queued(o), order[o].table = t
  PROVE  o = x
<1>1. PICK u \in Active(t) : sess[u].order = o
  BY DEF Neat, Shown
<1>2. u = s
  BY <1>1, ActiveFacts DEF IInv, Exclusive, Holds
<1> QED BY <1>1, <1>2 DEF Holds

LEMMA SameNeat ==
  ASSUME NEW T, NEW O, Neat(T, O), UNCHANGED <<table, sess, order>>
  PROVE  Neat(T, O)'
BY DEF Neat, Agrees, Queued, Shown, Active

LEMMA SameWorking ==
  ASSUME NEW q, Working(q), UNCHANGED <<table, sess, order>>
  PROVE  Working(q)'
<1>1. \A T, O : Neat(T, O) => Neat(T, O)'
  BY SameNeat
<1>2. \A t : Active(t)' = Active(t)
  BY DEF Active
<1>3. \A o : Queued(o)' = Queued(o)
  BY DEF Queued
<1>4. \A s, t, o : Holds(s, t, o)' = Holds(s, t, o)
  BY <1>2 DEF Holds
<1> QED BY <1>1, <1>2, <1>3, <1>4 DEF Working, WhileOpening, WhileSelling, WhileMoving, WhileEnding

\* The only handler at work goes on with the row q.
LEMMA OnlyHandler ==
  ASSUME IInv, OneByOne, NEW r \in Requests, NEW q \in Row, req' = [req EXCEPT ![r] = q], Working(q)'
  PROVE  Tidy'
<1>1. req'[r] = q
  BY Facts
<1>2. \A x \in Requests : req'[x] = q
  BY <1>1 DEF OneByOne
<1>3. ASSUME NEW x \in Requests PROVE Working(req[x])'
  BY <1>2 DEF Working, WhileOpening, WhileSelling, WhileMoving, WhileEnding
<1>4. ASSUME Quiet' PROVE Neat({}, {})'
  <2>1. q.pc = "idle"
    BY <1>1, <1>4 DEF Quiet, At
  <2> QED BY <2>1 DEF Working, Elsewhere
<1> QED BY <1>3, <1>4 DEF Tidy

LEMMA Answers ==
  ASSUME IInv, OneByOne, NEW r \in Requests, Answer(r), Neat({}, {})'
  PROVE  Tidy'
<1>1. Idle \in Row /\ Idle.pc = "idle"
  BY IdleFacts DEF Idle
<1>2. PICK q : q = Idle
  OBVIOUS
<1>3. Working(q)'
  BY <1>1, <1>2 DEF Working, WhileOpening, WhileSelling, WhileMoving, WhileEnding, Moving
<1> QED BY <1>1, <1>2, <1>3, OnlyHandler DEF Answer

\* A handler that reads goes on with the row q.
LEMMA ReadsOn ==
  ASSUME IInv, OneByOne, NEW r \in Requests, NEW q \in Row, req' = [req EXCEPT ![r] = q], Working(q),
         UNCHANGED <<table, sess, order>>
  PROVE  Tidy'
BY SameWorking, OnlyHandler

LEMMA NextPc ==
  ASSUME IInv, NEW r \in Requests, NEW pc \in PCs, Goto(r, pc)
  PROVE  \E q \in Row : /\ req' = [req EXCEPT ![r] = q] /\ q.pc = pc
                        /\ q.table = req[r].table /\ q.target = req[r].target /\ q.order = req[r].order
                        /\ q.session = req[r].session /\ q.status = req[r].status /\ q.todo = req[r].todo
<1>1. PICK q : q = [req[r] EXCEPT !.pc = pc]
  OBVIOUS
<1>2. req[r] \in Row /\ req \in [Requests -> Row]
  BY Facts
<1>3. q \in Row /\ q.pc = pc
  BY <1>1, <1>2 DEF Row
<1>4. /\ q.table = req[r].table /\ q.target = req[r].target /\ q.order = req[r].order
      /\ q.session = req[r].session /\ q.status = req[r].status /\ q.todo = req[r].todo
  BY <1>1, <1>2 DEF Row
<1>5. req' = [req EXCEPT ![r] = q]
  BY <1>1, <1>2 DEF Goto
<1> QED BY <1>3, <1>4, <1>5

\* What the statements on sessions do to the active ones.
LEMMA NewActive ==
  ASSUME IInv, NEW s \in Sessions, NEW t, NEW state \in ActiveStates, NEW o, NewSession(s, t, state, o)
  PROVE  /\ Active(t) = {} /\ Active(t)' = {s} /\ sess'[s].order = o
         /\ \A u : u # t => Active(u)' = Active(u)
         /\ \A x \in Sessions \ {s} : sess'[x] = sess[x]
         /\ \A u : s \notin Active(u)
<1>1. PICK row : row = [state |-> state, table |-> t, order |-> o, stamped |-> FALSE]
  OBVIOUS
<1>2. sess' = [sess EXCEPT ![s] = row] /\ sess \in [Sessions -> SessionRow]
  BY <1>1, Facts DEF NewSession, IInv, Types
<1>3. sess'[s] = row /\ \A x \in Sessions \ {s} : sess'[x] = sess[x]
  BY <1>2
<1>4. row.state = state /\ row.table = t /\ row.order = o
  BY <1>1
<1>5. Active(t) = {} /\ sess[s].state \notin ActiveStates
  BY DEF NewSession, ActiveStates
<1> QED BY <1>3, <1>4, <1>5 DEF Active

LEMMA EndedActive ==
  ASSUME IInv, NEW S \in SUBSET Sessions, NEW state \in {"closed", "cancelled"}, EndSessions(S, state)
  PROVE  /\ \A u : Active(u)' = Active(u) \ S
         /\ \A x \in Sessions : sess'[x].order = sess[x].order
<1>1. sess \in [Sessions -> SessionRow]
  BY DEF IInv, Types
<1>2. state \notin ActiveStates
  BY DEF ActiveStates
<1>3. ASSUME NEW x \in Sessions
      PROVE  /\ x \in S => sess'[x].state = state
             /\ sess'[x].order = sess[x].order /\ sess'[x].table = sess[x].table
             /\ x \notin S => sess'[x] = sess[x]
  BY <1>1 DEF EndSessions, SessionRow
<1> QED BY <1>2, <1>3 DEF Active

LEMMA AttachedActive ==
  ASSUME IInv, NEW s, NEW t, s \in Active(t), NEW o,
         sess' = [sess EXCEPT ![s].state = "ordering", ![s].order = o]
  PROVE  /\ \A u : Active(u)' = Active(u)
         /\ sess'[s].order = o
         /\ \A x \in Sessions \ {s} : sess'[x] = sess[x]
<1>1. sess \in [Sessions -> SessionRow] /\ s \in Sessions /\ sess[s].state \in ActiveStates
  BY ActiveFacts DEF IInv, Types
<1>2. /\ sess'[s].state = "ordering" /\ sess'[s].order = o /\ sess'[s].table = sess[s].table
      /\ \A x \in Sessions \ {s} : sess'[x] = sess[x]
  BY <1>1 DEF SessionRow
<1>3. "ordering" \in ActiveStates
  BY DEF ActiveStates
<1> QED BY <1>1, <1>2, <1>3 DEF Active

-----------------------------------------------------------------------------
(* The steps of the only handler at work, before anything fails               *)

LEMMA TidyArrival ==
  ASSUME IInv, Tidy, OneByOne, faults = 0, NEW r \in Requests, Arrival(r)
  PROVE  Tidy'
<1> DEFINE Reads(q) == req' = [req EXCEPT ![r] = q] /\ UNCHANGED <<table, sess, order>>
<1>1. At(r, "idle")
  BY DEF Arrival, OpenArrives, SaleArrives, IssueArrives, EditArrives, MoveArrives, PayArrives, CancelArrives,
         SubmitArrives, Arrives
<1>2. Neat({}, {})
  BY <1>1 DEF Tidy, Working, At, Elsewhere
<1>3. ASSUME NEW t \in Tables, OpenArrives(r, t) PROVE Tidy'
  <2>1. PICK q : q = [Idle EXCEPT !.pc = "openCheck", !.table = t]
    OBVIOUS
  <2>2. q \in Row /\ q.pc = "openCheck" /\ q.table = t
    BY <2>1 DEF Idle, Row, PCs, Maybe
  <2>3. Active(t) = {}
    BY <1>2, <1>3 DEF OpenArrives, Neat, Agrees, Seated
  <2>4. Working(q)
    BY <1>2, <2>2, <2>3 DEF Working, WhileOpening, WhileSelling, WhileMoving, WhileEnding, Moving, Elsewhere
  <2> QED BY <1>3, <2>1, <2>2, <2>4, ReadsOn DEF OpenArrives, Begin
<1>4. ASSUME NEW t \in Tables, SaleArrives(r, t) PROVE Tidy'
  <2>1. PICK q : q = [Idle EXCEPT !.pc = "saleInsert", !.table = t]
    OBVIOUS
  <2>2. q \in Row /\ q.pc = "saleInsert" /\ q.table = t
    BY <2>1 DEF Idle, Row, PCs, Maybe
  <2>3. \E s \in Sessions : Holds(s, t, "none")
    BY <1>4, ActiveFacts DEF SaleArrives, Holds
  <2>4. Working(q)
    BY <1>2, <2>2, <2>3 DEF Working, WhileOpening, WhileSelling, WhileMoving, WhileEnding, Moving, Elsewhere
  <2> QED BY <1>4, <2>1, <2>2, <2>4, ReadsOn DEF SaleArrives, Begin
<1>5. ASSUME NEW t \in Tables, IssueArrives(r, t) PROVE Tidy'
  <2>1. PICK s \in Sessions : Begin(r, [Idle EXCEPT !.pc = "issueExpire", !.session = s])
    BY <1>5 DEF IssueArrives, Active
  <2>2. PICK q : q = [Idle EXCEPT !.pc = "issueExpire", !.session = s]
    OBVIOUS
  <2>3. q \in Row /\ q.pc = "issueExpire"
    BY <2>2 DEF Idle, Row, PCs, Maybe
  <2>4. Working(q)
    BY <1>2, <2>3 DEF Working, WhileOpening, WhileSelling, WhileMoving, WhileEnding, Moving, Elsewhere
  <2> QED BY <1>5, <2>1, <2>2, <2>3, <2>4, ReadsOn DEF IssueArrives, Begin
<1>6. ASSUME NEW t \in Tables, NEW o \in Orders, EditArrives(r, t, o) PROVE Tidy'
  <2>1. PICK q : q = [Idle EXCEPT !.pc = "editWrite", !.table = t, !.order = o]
    OBVIOUS
  <2>2. q \in Row /\ q.pc = "editWrite" /\ q.table = t /\ q.order = o
    BY <2>1 DEF Idle, Row, PCs, Maybe
  <2>3. Queued(o) /\ \E s \in Sessions : Holds(s, t, o)
    BY <1>6, ActiveFacts DEF EditArrives, Holds, Queued
  <2>4. Working(q)
    BY <1>2, <2>2, <2>3 DEF Working, WhileOpening, WhileSelling, WhileMoving, WhileEnding, Moving, Elsewhere
  <2> QED BY <1>6, <2>1, <2>2, <2>4, ReadsOn DEF EditArrives, Begin
<1>7. ASSUME NEW t \in Tables, NEW u \in Tables, MoveArrives(r, t, u) PROVE Tidy'
  <2>1. PICK s \in Active(t) :
          Begin(r, [Idle EXCEPT !.pc = "moveCheck", !.table = t, !.target = u, !.session = s,
                    !.order = sess[s].order, !.status = sess[s].state])
    BY <1>7 DEF MoveArrives
  <2>2. s \in Sessions /\ sess[s].state \in ActiveStates /\ sess[s].order \in Maybe(Orders)
    BY ActiveFacts, Facts DEF SessionRow
  <2>3. PICK q : q = [Idle EXCEPT !.pc = "moveCheck", !.table = t, !.target = u, !.session = s,
                      !.order = sess[s].order, !.status = sess[s].state]
    OBVIOUS
  <2>4. /\ q \in Row /\ q.pc = "moveCheck" /\ q.table = t /\ q.target = u /\ q.session = s
        /\ q.order = sess[s].order
    BY <2>2, <2>3 DEF Idle, Row, PCs, Maybe
  <2>5. t # u /\ Holds(s, t, sess[s].order)
    BY <1>7 DEF MoveArrives, Holds
  <2>6. Working(q)
    BY <1>2, <2>4, <2>5 DEF Working, WhileOpening, WhileSelling, WhileMoving, WhileEnding, Moving, Elsewhere
  <2> QED BY <1>7, <2>1, <2>3, <2>4, <2>6, ReadsOn DEF MoveArrives, Begin
<1>8. ASSUME NEW o \in Orders, PayArrives(r, o, "queued") PROVE Tidy'
  <2>1. PICK q : q = [Idle EXCEPT !.pc = "pay", !.order = o, !.table = order[o].table]
    OBVIOUS
  <2>2. order[o].table \in Maybe(Tables)
    BY Facts DEF OrderRow
  <2>3. q \in Row /\ q.pc = "pay" /\ q.order = o /\ q.table = order[o].table
    BY <2>1, <2>2 DEF Idle, Row, PCs, Maybe
  <2>4. Working(q)
    BY <1>2, <1>8, <2>3 DEF Working, WhileOpening, WhileSelling, WhileMoving, WhileEnding, Moving, Elsewhere,
                            PayArrives, Queued
  <2> QED BY <1>8, <2>1, <2>3, <2>4, ReadsOn DEF PayArrives, Begin
<1>9. ASSUME NEW o \in Orders, CancelArrives(r, o) PROVE Tidy'
  <2>1. PICK q : q = [Idle EXCEPT !.pc = "release", !.order = o, !.table = order[o].table,
                      !.status = "cancelled", !.todo = {"session", "table"}]
    OBVIOUS
  <2>2. order[o].table \in Maybe(Tables) /\ order \in [Orders -> OrderRow]
    BY Facts DEF OrderRow
  <2>3. q \in Row /\ q.pc = "release" /\ q.table = order[o].table /\ q.todo = {"session", "table"}
    BY <2>1, <2>2 DEF Idle, Row, PCs, Maybe
  <2>4. /\ Queued(o) /\ ~Queued(o)' /\ order'[o].table = order[o].table
        /\ \A x \in Orders \ {o} : order'[x] = order[x]
    BY <1>9, <2>2 DEF CancelArrives, Queued, OrderRow
  <2>5. ASSUME NEW x \in Orders, order[x].table = q.table, Queued(x) PROVE x = o
    <3>1. PICK s : Holds(s, q.table, o)
      BY <1>2, <2>3, <2>4 DEF Neat, Shown, Holds
    <3> QED BY <1>2, <2>5, <3>1, OnlyBill
  <2>6. Neat({q.table}, {})'
    BY <1>2, <1>9, <2>4 DEF CancelArrives, Neat, Agrees, Shown, Queued, Active
  <2>7. \A x \in Orders : order'[x].table = q.table => ~Queued(x)'
    BY <2>4, <2>5 DEF Queued
  <2>8. Working(q)'
    BY <2>3, <2>6, <2>7 DEF Working, WhileOpening, WhileSelling, WhileMoving, WhileEnding, Moving, Elsewhere
  <2> QED BY <1>9, <2>1, <2>3, <2>8, OnlyHandler DEF CancelArrives, Begin
<1>10. ASSUME NEW s \in Sessions, SubmitArrives(r, s) PROVE Tidy'
  <2>1. PICK q : q = [Idle EXCEPT !.pc = "submit", !.session = s]
    OBVIOUS
  <2>2. q \in Row /\ q.pc = "submit"
    BY <2>1 DEF Idle, Row, PCs, Maybe
  <2>3. Working(q)
    BY <1>2, <2>2 DEF Working, WhileOpening, WhileSelling, WhileMoving, WhileEnding, Moving, Elsewhere
  <2> QED BY <1>10, <2>1, <2>2, <2>3, ReadsOn DEF SubmitArrives, Begin
<1> QED BY <1>3, <1>4, <1>5, <1>6, <1>7, <1>8, <1>9, <1>10 DEF Arrival

LEMMA TidyOpen ==
  ASSUME IInv, Tidy, OneByOne, faults = 0, NEW r \in Requests,
         OpenChecks(r) \/ OpenRefused(r) \/ OpenMarks(r) \/ (\E s \in Sessions : OpenInserts(r, s))
  PROVE  Tidy'
<1>0. Working(req[r]) /\ req[r] \in Row /\ table \in [Tables -> TableStatus]
  BY Facts DEF Tidy
<1>t. PICK t : t = req[r].table
  OBVIOUS
<1>1. req[r].pc \in {"openCheck", "openInsert", "openMark"}
  BY DEF OpenChecks, OpenRefused, OpenMarks, OpenInserts, At
<1>2. t \in Tables
  BY <1>0, <1>1, <1>t DEF Working, WhileOpening
<1>3. CASE OpenChecks(r)
  <2>1. Active(t) = {} /\ Neat({}, {}) /\ UNCHANGED <<table, sess, order>> /\ Goto(r, "openInsert")
    BY <1>0, <1>3, <1>t DEF Working, WhileOpening, OpenChecks, At
  <2>2. PICK q \in Row : req' = [req EXCEPT ![r] = q] /\ q.pc = "openInsert" /\ q.table = t
    BY <1>t, <2>1, NextPc DEF PCs
  <2>3. Working(q)
    BY <1>2, <2>1, <2>2 DEF Working, WhileOpening, WhileSelling, WhileMoving, WhileEnding, Moving, Elsewhere
  <2> QED BY <2>1, <2>2, <2>3, ReadsOn
<1>4. CASE OpenRefused(r)
  BY <1>0, <1>4, <1>t DEF Working, WhileOpening, OpenRefused, At
<1>5. CASE OpenMarks(r)
  <2>1. Active(t) # {} /\ Neat({t}, {}) /\ UNCHANGED <<sess, order>>
    BY <1>0, <1>5, <1>t DEF Working, WhileOpening, OpenMarks, At
  <2>2. table'[t] \in Seated /\ \A u \in Tables \ {t} : table'[u] = table[u]
    BY <1>0, <1>2, <1>5, <1>t DEF OpenMarks, SetTable, Seated
  <2>3. Neat({}, {})'
    BY <1>2, <2>1, <2>2 DEF Neat, Agrees, Shown, Queued, Active
  <2> QED BY <1>5, <2>3, Answers DEF OpenMarks
<1>6. ASSUME NEW s \in Sessions, OpenInserts(r, s) PROVE Tidy'
  <2>1. Active(t) = {} /\ Neat({}, {}) /\ UNCHANGED <<table, order>> /\ NewSession(s, t, "open", "none")
    BY <1>0, <1>6, <1>t DEF Working, WhileOpening, OpenInserts, At
  <2>2. "open" \in ActiveStates
    BY DEF ActiveStates
  <2>3. /\ Active(t)' = {s} /\ \A u : u # t => Active(u)' = Active(u)
        /\ \A x \in Sessions \ {s} : sess'[x] = sess[x]
    BY <2>1, <2>2, NewActive
  <2>4. PICK q : q = [req[r] EXCEPT !.pc = "openMark", !.session = s]
    OBVIOUS
  <2>5. q \in Row /\ q.pc = "openMark" /\ q.table = t /\ req' = [req EXCEPT ![r] = q]
    BY <1>0, <1>6, <1>t, <2>4, Facts DEF Row, PCs, Maybe, OpenInserts
  <2>6. \A u \in Tables \ {t} : Agrees(u)'
    BY <2>1, <2>3 DEF Neat, Agrees
  <2>7. ASSUME NEW o \in Orders, Queued(o)' PROVE Shown(o)'
    <3>1. PICK x \in Active(order[o].table) : sess[x].order = o
      BY <2>1, <2>7 DEF Neat, Shown, Queued
    <3>2. x # s /\ order[o].table # t /\ x \in Sessions
      BY <2>1, <2>2, <3>1, ActiveFacts DEF NewSession, ActiveStates
    <3> QED BY <2>1, <2>3, <3>1, <3>2 DEF Shown
  <2>8. Neat({t}, {})'
    BY <2>6, <2>7 DEF Neat
  <2>9. Working(q)'
    BY <1>2, <2>3, <2>5, <2>8 DEF Working, WhileOpening, WhileSelling, WhileMoving, WhileEnding, Moving, Elsewhere
  <2> QED BY <2>5, <2>9, OnlyHandler
<1> QED BY <1>3, <1>4, <1>5, <1>6

LEMMA TidySale ==
  ASSUME IInv, Tidy, OneByOne, faults = 0, NEW r \in Requests,
         EditWrites(r) \/ AttachReads(r) \/ AttachWrites(r) \/ AttachMarks(r) \/ (\E o \in Orders : SaleInserts(r, o))
  PROVE  Tidy'
<1>0. Working(req[r]) /\ req[r] \in Row
  BY Facts DEF Tidy
<1>t. PICK t : t = req[r].table
  OBVIOUS
<1>o. PICK o : o = req[r].order
  OBVIOUS
<1>1. CASE EditWrites(r)
  <2>1. /\ Neat({}, {}) /\ o \in Orders /\ Queued(o) /\ UNCHANGED <<table, sess>>
        /\ \E s \in Sessions : Holds(s, t, o)
    BY <1>0, <1>1, <1>t, <1>o DEF Working, WhileSelling, EditWrites, At
  <2>2. Answer(r) /\ order' = [order EXCEPT ![o].table = t] /\ order \in [Orders -> OrderRow]
    BY <1>1, <1>t, <1>o, <2>1, Facts DEF EditWrites, Queued
  <2>3. /\ order'[o].table = t /\ \A x \in Orders : order'[x].status = order[x].status
        /\ \A x \in Orders \ {o} : order'[x] = order[x]
    BY <2>1, <2>2 DEF OrderRow
  <2>4. ASSUME NEW x \in Orders, Queued(x)' PROVE Shown(x)'
    <3>1. CASE x = o
      BY <2>1, <2>3, <3>1 DEF Holds, Shown, Active
    <3>2. CASE x # o
      BY <2>1, <2>3, <2>4, <3>2 DEF Neat, Queued, Shown, Active
    <3> QED BY <3>1, <3>2
  <2>5. Neat({}, {})'
    BY <2>1, <2>4 DEF Neat, Agrees, Active
  <2> QED BY <2>2, <2>5, Answers
<1>2. ASSUME NEW x \in Orders, SaleInserts(r, x) PROVE Tidy'
  <2>1. Neat({}, {}) /\ UNCHANGED <<table, sess>> /\ \E s \in Sessions : Holds(s, t, "none")
    BY <1>0, <1>2, <1>t DEF Working, WhileSelling, SaleInserts, At
  <2>2. PICK q : q = [req[r] EXCEPT !.pc = "attachRead", !.order = x]
    OBVIOUS
  <2>3. q \in Row /\ q.pc = "attachRead" /\ q.table = t /\ q.order = x /\ req' = [req EXCEPT ![r] = q]
    BY <1>0, <1>2, <1>t, <2>2, Facts DEF Row, PCs, Maybe, SaleInserts
  <2>4. order'[x].table = t /\ \A y \in Orders \ {x} : order'[y] = order[y]
    BY <1>2, <1>t, Facts DEF SaleInserts
  <2>5. Neat({}, {x})'
    BY <2>1, <2>4 DEF Neat, Agrees, Queued, Shown, Active
  <2>6. \E s \in Sessions : Holds(s, t, "none")'
    BY <2>1 DEF Holds, Active
  <2>7. Working(q)'
    BY <2>3, <2>4, <2>5, <2>6 DEF Working, WhileOpening, WhileSelling, WhileMoving, WhileEnding, Moving, Elsewhere
  <2> QED BY <2>3, <2>7, OnlyHandler
<1>3. CASE AttachReads(r)
  <2>1. /\ Neat({}, {o}) /\ o \in Orders /\ order[o].table = t /\ UNCHANGED <<table, sess, order>>
        /\ \E s \in Sessions : Holds(s, t, "none")
    BY <1>0, <1>3, <1>t, <1>o DEF Working, WhileSelling, AttachReads, At
  <2>2. PICK u \in Sessions : Holds(u, t, "none")
    BY <2>1
  <2>3. PICK s \in Active(t) : req' = [req EXCEPT ![r].pc = "attachWrite", ![r].session = s]
    BY <1>3, <1>t, <2>2 DEF AttachReads, Holds
  <2>4. s = u
    BY <2>2, ActiveFacts DEF Holds, IInv, Exclusive
  <2>5. PICK q : q = [req[r] EXCEPT !.pc = "attachWrite", !.session = s]
    OBVIOUS
  <2>6. "attachWrite" \in PCs /\ s \in Maybe(Sessions)
    BY <2>4 DEF PCs, Maybe
  <2>7. /\ q \in Row /\ q.pc = "attachWrite" /\ q.table = t /\ q.order = o /\ q.session = s
        /\ req' = [req EXCEPT ![r] = q]
    BY <1>0, <1>t, <1>o, <2>3, <2>5, <2>6, Facts DEF Row
  <2>8. Working(q)
    BY <2>1, <2>2, <2>4, <2>7 DEF Working, WhileOpening, WhileSelling, WhileMoving, WhileEnding, Moving, Elsewhere
  <2> QED BY <2>1, <2>7, <2>8, ReadsOn
<1>4. CASE AttachWrites(r)
  <2>s. PICK s : s = req[r].session
    OBVIOUS
  <2>1. /\ Neat({}, {o}) /\ o \in Orders /\ order[o].table = t /\ UNCHANGED <<table, order>>
        /\ Holds(s, t, "none")
    BY <1>0, <1>4, <1>t, <1>o, <2>s DEF Working, WhileSelling, AttachWrites, At
  <2>2. s \in Sessions /\ sess[s].state \in ActiveStates /\ Active(t) \subseteq {s}
    BY <2>1, ActiveFacts DEF Holds, IInv, Exclusive
  <2>3. Goto(r, "attachMark") /\ sess' = [sess EXCEPT ![s].state = "ordering", ![s].order = o]
    BY <1>4, <1>t, <1>o, <2>s, <2>2 DEF AttachWrites, ActiveStates
  <2>4. /\ \A u : Active(u)' = Active(u)
        /\ sess'[s].order = o /\ \A x \in Sessions \ {s} : sess'[x] = sess[x]
    BY <2>1, <2>3, AttachedActive DEF Holds
  <2>5. PICK q \in Row : req' = [req EXCEPT ![r] = q] /\ q.pc = "attachMark" /\ q.table = t
    BY <1>t, <2>3, NextPc DEF PCs
  <2>6. ASSUME NEW x \in Orders, Queued(x)' PROVE Shown(x)'
    <3>1. CASE x = o
      BY <2>1, <2>4, <3>1 DEF Shown, Holds
    <3>2. CASE x # o
      <4>1. PICK u \in Active(order[x].table) : sess[u].order = x
        BY <2>1, <2>6, <3>2 DEF Neat, Queued, Shown
      <4>2. u # s
        <5>1. "none" # x
          BY ConstantsAssumption
        <5> QED BY <2>1, <4>1, <5>1 DEF Holds
      <4>3. u \in Sessions
        BY ActiveFacts
      <4> QED BY <2>1, <2>4, <4>1, <4>2, <4>3 DEF Shown
    <3> QED BY <3>1, <3>2
  <2>7. Neat({}, {})'
    BY <2>1, <2>4, <2>6 DEF Neat, Agrees
  <2>8. Active(t)' # {}
    BY <2>1, <2>4 DEF Holds
  <2>9. Working(q)'
    BY <2>5, <2>7, <2>8 DEF Working, WhileOpening, WhileSelling, WhileMoving, WhileEnding, Moving, Elsewhere
  <2> QED BY <2>5, <2>9, OnlyHandler
<1>5. CASE AttachMarks(r)
  <2>1. Neat({}, {}) /\ Active(t) # {} /\ UNCHANGED <<sess, order>> /\ SetTable(t, "ordering")
    BY <1>0, <1>5, <1>t DEF Working, WhileSelling, AttachMarks, At
  <2>2. \A u \in Tables : table'[u] = IF u = t THEN "ordering" ELSE table[u]
    BY <2>1, Facts DEF SetTable
  <2>3. Neat({}, {})'
    BY <2>1, <2>2 DEF Neat, Agrees, Seated, Queued, Shown, Active
  <2> QED BY <1>5, <2>3, Answers DEF AttachMarks
<1> QED BY <1>1, <1>2, <1>3, <1>4, <1>5

LEMMA TidyMove ==
  ASSUME IInv, Tidy, OneByOne, faults = 0, NEW r \in Requests,
         \/ MoveChecks(r) \/ MoveOrder(r) \/ MoveCloses(r) \/ MoveInsertRefused(r) \/ MoveFrees(r) \/ MoveMarks(r)
         \/ \E s \in Sessions : MoveInserts(r, s)
  PROVE  Tidy'
<1>0. Working(req[r]) /\ req[r] \in Row /\ Fits(req[r], sess) /\ table \in [Tables -> TableStatus]
  BY Facts DEF Tidy
<1>q. PICK p : p = req[r]
  OBVIOUS
<1>a. p.pc \in Moving
  BY <1>q DEF MoveChecks, MoveOrder, MoveCloses, MoveInsertRefused, MoveFrees, MoveMarks, MoveInserts, At, Moving
<1>b. /\ p.table \in Tables /\ p.target \in Tables /\ p.table # p.target
      /\ p.order \in Maybe(Orders) /\ p.status \in ActiveStates
  BY <1>0, <1>q, <1>a DEF Working, WhileMoving, Fits, Row
<1>1. CASE MoveChecks(r)
  <2>1. Neat({}, {}) /\ Holds(p.session, p.table, p.order) /\ UNCHANGED <<table, sess, order>>
    BY <1>0, <1>1, <1>q DEF Working, WhileMoving, MoveChecks, At
  <2>2. CASE Active(p.target) # {}
    <3>1. Answer(r) /\ Neat({}, {})'
      BY <1>1, <1>q, <2>1, <2>2, SameNeat DEF MoveChecks
    <3> QED BY <3>1, Answers
  <2>3. CASE Active(p.target) = {}
    <3>1. PICK pc : pc = IF p.order = "none" THEN "moveClose" ELSE "moveOrder"
      OBVIOUS
    <3>2. Goto(r, pc) /\ pc \in PCs
      BY <1>1, <1>q, <2>3, <3>1 DEF MoveChecks, PCs
    <3>3. PICK q \in Row : /\ req' = [req EXCEPT ![r] = q] /\ q.pc = pc /\ q.table = p.table
                           /\ q.target = p.target /\ q.order = p.order /\ q.session = p.session
      BY <1>q, <3>2, NextPc
    <3>4. CASE p.order = "none"
      <4>1. q.order \notin Orders
        BY <3>3, <3>4, ConstantsAssumption
      <4>2. Neat({}, {q.order})
        BY <2>1 DEF Neat
      <4> QED BY <1>b, <2>1, <2>3, <3>1, <3>3, <3>4, <4>1, <4>2, ReadsOn
              DEF Working, WhileOpening, WhileSelling, WhileMoving, WhileEnding, Moving, Elsewhere
    <3>5. CASE p.order # "none"
      <4>1. q.order \in Orders
        BY <1>b, <3>3, <3>5 DEF Maybe
      <4> QED BY <1>b, <2>1, <2>3, <3>1, <3>3, <3>5, <4>1, ReadsOn
              DEF Working, WhileOpening, WhileSelling, WhileMoving, WhileEnding, Moving, Elsewhere
    <3> QED BY <3>4, <3>5
  <2> QED BY <2>2, <2>3
<1>2. CASE MoveOrder(r)
  <2>1. /\ Neat({}, {}) /\ Holds(p.session, p.table, p.order) /\ p.order \in Orders /\ Active(p.target) = {}
        /\ UNCHANGED <<table, sess>> /\ Goto(r, "moveClose") /\ order' = [order EXCEPT ![p.order].table = p.target]
    BY <1>0, <1>2, <1>q DEF Working, WhileMoving, MoveOrder, At
  <2>2. PICK q \in Row : /\ req' = [req EXCEPT ![r] = q] /\ q.pc = "moveClose" /\ q.table = p.table
                         /\ q.target = p.target /\ q.order = p.order /\ q.session = p.session
    BY <1>q, <2>1, NextPc DEF PCs
  <2>3. order'[p.order].table = p.target /\ \A x \in Orders \ {p.order} : order'[x] = order[x]
    BY <2>1, Facts DEF OrderRow
  <2>4. Neat({}, {p.order})'
    BY <2>1, <2>3 DEF Neat, Agrees, Queued, Shown, Active
  <2>5. Holds(p.session, p.table, p.order)' /\ Active(p.target)' = {}
    BY <2>1 DEF Holds, Active
  <2>6. Working(q)'
    BY <1>b, <2>2, <2>3, <2>4, <2>5 DEF Working, WhileOpening, WhileSelling, WhileMoving, WhileEnding, Moving, Elsewhere
  <2> QED BY <2>2, <2>6, OnlyHandler
<1>3. CASE MoveCloses(r)
  <2>1. /\ Neat({}, {p.order}) /\ Holds(p.session, p.table, p.order) /\ Active(p.target) = {}
        /\ p.order \in Orders => order[p.order].table = p.target
        /\ UNCHANGED <<table, order>> /\ Goto(r, "moveInsert")
        /\ EndSessions({p.session} \ {x \in Sessions : sess[x].state = "deleted"}, "closed")
    BY <1>0, <1>3, <1>q DEF Working, WhileMoving, MoveCloses, At
  <2>2. p.session \in Sessions /\ sess[p.session].state # "deleted"
    BY <2>1, ActiveFacts DEF Holds, ActiveStates
  <2>3. EndSessions({p.session}, "closed") /\ {p.session} \in SUBSET Sessions
    <3>1. {p.session} \ {x \in Sessions : sess[x].state = "deleted"} = {p.session}
      BY <2>2
    <3> QED BY <2>1, <2>2, <3>1
  <2>4. (\A u : Active(u)' = Active(u) \ {p.session}) /\ \A x \in Sessions : sess'[x].order = sess[x].order
    BY <2>3, EndedActive
  <2>5. PICK q \in Row : /\ req' = [req EXCEPT ![r] = q] /\ q.pc = "moveInsert" /\ q.table = p.table
                         /\ q.target = p.target /\ q.order = p.order
    BY <1>q, <2>1, NextPc DEF PCs
  <2>6. Active(p.table)' = {}
    BY <2>1, <2>4, ActiveFacts DEF Holds, IInv, Exclusive
  <2>7. ASSUME NEW u, u # p.table PROVE Active(u)' = Active(u)
    <3>1. p.session \notin Active(u)
      BY <2>1, <2>7, ActiveFacts DEF Holds
    <3> QED BY <2>4, <3>1
  <2>8. ASSUME NEW x \in Orders \ {p.order}, Queued(x)' PROVE Shown(x)'
    <3>1. Queued(x) /\ Shown(x) /\ order'[x] = order[x]
      BY <2>1, <2>8 DEF Neat, Queued
    <3>2. order[x].table # p.table
      BY <2>1, <3>1, OnlyBill
    <3> QED BY <2>4, <2>7, <3>1, <3>2, ActiveFacts DEF Shown
  <2>9. Neat({p.table}, {p.order})'
    BY <2>1, <2>7, <2>8 DEF Neat, Agrees
  <2>10. Active(p.target)' = {} /\ (p.order \in Orders => order'[p.order].table = p.target)
    BY <1>b, <2>1, <2>7
  <2>11. Working(q)'
    BY <1>b, <2>5, <2>6, <2>9, <2>10 DEF Working, WhileOpening, WhileSelling, WhileMoving, WhileEnding, Moving, Elsewhere
  <2> QED BY <2>5, <2>11, OnlyHandler
<1>4. CASE MoveInsertRefused(r)
  BY <1>0, <1>4 DEF Working, WhileMoving, MoveInsertRefused, At
<1>5. ASSUME NEW s \in Sessions, MoveInserts(r, s) PROVE Tidy'
  <2>1. /\ Neat({p.table}, {p.order}) /\ Active(p.table) = {}
        /\ p.order \in Orders => order[p.order].table = p.target
        /\ UNCHANGED <<table, order>> /\ Goto(r, "moveFree") /\ NewSession(s, p.target, p.status, p.order)
    BY <1>0, <1>5, <1>q DEF Working, WhileMoving, MoveInserts, At
  <2>2. /\ Active(p.target) = {} /\ Active(p.target)' = {s} /\ sess'[s].order = p.order
        /\ \A u : u # p.target => Active(u)' = Active(u)
        /\ \A x \in Sessions \ {s} : sess'[x] = sess[x]
        /\ \A u : s \notin Active(u)
    <3>1. PICK t, st, o : t = p.target /\ st = p.status /\ o = p.order
      OBVIOUS
    <3>2. st \in ActiveStates /\ NewSession(s, t, st, o)
      BY <1>b, <2>1, <3>1
    <3> QED BY <3>1, <3>2, NewActive
  <2>3. PICK q \in Row : req' = [req EXCEPT ![r] = q] /\ q.pc = "moveFree" /\ q.table = p.table /\ q.target = p.target
    BY <1>q, <2>1, NextPc DEF PCs
  <2>4. ASSUME NEW x \in Orders, Queued(x)' PROVE Shown(x)'
    <3>1. CASE x = p.order
      BY <2>1, <2>2, <3>1 DEF Shown
    <3>2. CASE x # p.order
      <4>1. PICK u \in Active(order[x].table) : sess[u].order = x
        BY <2>1, <2>4, <3>2 DEF Neat, Queued, Shown
      <4>2. u # s /\ u \in Sessions /\ order[x].table # p.target
        BY <2>2, <4>1, ActiveFacts
      <4> QED BY <2>1, <2>2, <4>1, <4>2 DEF Shown
    <3> QED BY <3>1, <3>2
  <2>5. Neat({p.table, p.target}, {})'
    BY <2>1, <2>2, <2>4 DEF Neat, Agrees
  <2>6. Active(p.table)' = {} /\ Active(p.target)' # {}
    BY <1>b, <2>1, <2>2
  <2>7. Working(q)'
    BY <1>b, <2>3, <2>5, <2>6 DEF Working, WhileOpening, WhileSelling, WhileMoving, WhileEnding, Moving, Elsewhere
  <2> QED BY <2>3, <2>7, OnlyHandler
<1>6. CASE MoveFrees(r)
  <2>1. /\ Neat({p.table, p.target}, {}) /\ Active(p.table) = {} /\ Active(p.target) # {}
        /\ UNCHANGED <<sess, order>> /\ SetTable(p.table, "available") /\ Goto(r, "moveMark")
    BY <1>0, <1>6, <1>q DEF Working, WhileMoving, MoveFrees, At
  <2>2. PICK q \in Row : req' = [req EXCEPT ![r] = q] /\ q.pc = "moveMark" /\ q.table = p.table /\ q.target = p.target
    BY <1>q, <2>1, NextPc DEF PCs
  <2>3. \A u \in Tables : table'[u] = IF u = p.table THEN "available" ELSE table[u]
    BY <1>0, <2>1 DEF SetTable
  <2>4. Neat({p.target}, {})'
    BY <2>1, <2>3 DEF Neat, Agrees, Seated, Queued, Shown, Active
  <2>5. Active(p.target)' # {}
    BY <2>1 DEF Active
  <2>6. Working(q)'
    BY <1>b, <2>2, <2>4, <2>5 DEF Working, WhileOpening, WhileSelling, WhileMoving, WhileEnding, Moving, Elsewhere
  <2> QED BY <2>2, <2>6, OnlyHandler
<1>7. CASE MoveMarks(r)
  <2>1. Neat({p.target}, {}) /\ Active(p.target) # {} /\ UNCHANGED <<sess, order>>
    BY <1>0, <1>7, <1>q DEF Working, WhileMoving, MoveMarks, At
  <2>2. table'[p.target] \in Seated /\ \A u \in Tables \ {p.target} : table'[u] = table[u]
    BY <1>0, <1>7, <1>b, <1>q DEF MoveMarks, SetTable, Seated
  <2>3. Neat({}, {})'
    BY <2>1, <2>2 DEF Neat, Agrees, Queued, Shown, Active
  <2> QED BY <1>7, <2>3, Answers DEF MoveMarks
<1> QED BY <1>1, <1>2, <1>3, <1>4, <1>5, <1>6, <1>7

LEMMA TidyRelease ==
  ASSUME IInv, Tidy, OneByOne, faults = 0, NEW r \in Requests,
         PaySettles(r) \/ PayRefused(r) \/ ReleaseSession(r) \/ ReleaseTable(r)
  PROVE  Tidy'
<1>0. Working(req[r]) /\ req[r] \in Row /\ Fits(req[r], sess)
  BY Facts DEF Tidy
<1>q. PICK p : p = req[r]
  OBVIOUS
<1>1. CASE PaySettles(r)
  <2>1. /\ Neat({}, {}) /\ p.order \in Orders /\ Queued(p.order) /\ order[p.order].table = p.table
        /\ UNCHANGED <<table, sess>> /\ order' = [order EXCEPT ![p.order].status = "completed"]
    BY <1>0, <1>1, <1>q DEF Working, WhileEnding, PaySettles, At
  <2>2. /\ order'[p.order].table = p.table /\ ~Queued(p.order)'
        /\ \A x \in Orders \ {p.order} : order'[x] = order[x]
    BY <2>1, Facts DEF OrderRow, Queued
  <2>3. PICK q : q = [req[r] EXCEPT !.pc = "release", !.status = "closed", !.todo = {"session", "table"}]
    OBVIOUS
  <2>4. /\ q \in Row /\ q.pc = "release" /\ q.table = p.table /\ q.todo = {"session", "table"}
        /\ req' = [req EXCEPT ![r] = q]
    BY <1>0, <1>1, <1>q, <2>3, Facts DEF Row, PCs, PaySettles
  <2>5. ASSUME NEW x \in Orders, order'[x].table = p.table PROVE ~Queued(x)'
    <3>1. PICK s : Holds(s, p.table, p.order)
      BY <2>1 DEF Neat, Shown, Holds
    <3> QED BY <2>1, <2>2, <2>5, <3>1, OnlyBill DEF Queued
  <2>6. Neat({p.table}, {})'
    BY <2>1, <2>2 DEF Neat, Agrees, Queued, Shown, Active
  <2>7. Working(q)'
    BY <2>4, <2>5, <2>6 DEF Working, WhileOpening, WhileSelling, WhileMoving, WhileEnding, Moving, Elsewhere
  <2> QED BY <2>4, <2>7, OnlyHandler
<1>2. CASE PayRefused(r)
  BY <1>0, <1>2 DEF Working, WhileEnding, PayRefused, At, Queued
<1>3. ASSUME NEW x, x \in {"session", "table"}, At(r, "release"), Done(r, x), UNCHANGED order,
             \A u \in Tables \ {p.table} : Agrees(u)',
             \A u : u # p.table => Active(u)' = Active(u),
             \A y \in Sessions : sess'[y].order = sess[y].order,
             "session" \notin p.todo \ {x} => Active(p.table)' = {},
             "table" \notin p.todo \ {x} /\ p.table \in Tables => table'[p.table] \notin Seated
      PROVE  Tidy'
  <2>1. /\ Neat({p.table}, {}) /\ p.todo # {}
        /\ \A o \in Orders : order[o].table = p.table => ~Queued(o)
    BY <1>0, <1>3, <1>q DEF Working, WhileEnding, At
  <2>2. ASSUME NEW o \in Orders, Queued(o)' PROVE Shown(o)'
    <3>1. Queued(o) /\ order[o].table # p.table
      BY <1>3, <2>1, <2>2 DEF Queued
    <3>2. PICK s \in Active(order[o].table) : sess[s].order = o
      BY <2>1, <3>1 DEF Neat, Shown
    <3> QED BY <1>3, <3>1, <3>2, ActiveFacts DEF Shown
  <2>3. Neat({p.table}, {})'
    BY <1>3, <2>2 DEF Neat
  <2>4. CASE p.todo = {x}
    <3>1. p.table \in Tables => Agrees(p.table)'
      BY <1>3, <2>4 DEF Agrees
    <3>2. Neat({}, {})'
      BY <2>3, <3>1 DEF Neat
    <3> QED BY <1>3, <1>q, <2>4, <3>2, Answers DEF Done
  <2>5. CASE p.todo # {x}
    <3>1. PICK q : q = [req[r] EXCEPT !.todo = @ \ {x}]
      OBVIOUS
    <3>2. /\ q \in Row /\ q.pc = "release" /\ q.table = p.table /\ q.todo = p.todo \ {x}
          /\ req' = [req EXCEPT ![r] = q]
      BY <1>0, <1>3, <1>q, <2>5, <3>1, Facts DEF Row, At, Done
    <3>3. q.todo # {}
      BY <2>1, <2>5, <3>2
    <3>4. \A o \in Orders : order'[o].table = q.table => ~Queued(o)'
      BY <1>3, <2>1, <3>2 DEF Queued
    <3>5. Working(q)'
      BY <1>3, <2>3, <3>2, <3>3, <3>4
      DEF Working, WhileOpening, WhileSelling, WhileMoving, WhileEnding, Moving, Elsewhere
    <3> QED BY <3>2, <3>5, OnlyHandler
  <2> QED BY <2>4, <2>5
<1>4. CASE ReleaseSession(r)
  <2>1. PICK S : S = Active(p.table)
    OBVIOUS
  <2>2. /\ At(r, "release") /\ Done(r, "session") /\ UNCHANGED <<table, order>> /\ EndSessions(S, p.status)
        /\ p.status \in {"closed", "cancelled"} /\ S \in SUBSET Sessions
    BY <1>0, <1>4, <1>q, <2>1 DEF ReleaseSession, At, Fits, Active
  <2>3. (\A u : Active(u)' = Active(u) \ S) /\ \A y \in Sessions : sess'[y].order = sess[y].order
    BY <2>2, EndedActive
  <2>4. Active(p.table)' = {}
    BY <2>1, <2>3
  <2>5. ASSUME NEW u, u # p.table PROVE Active(u)' = Active(u)
    <3>1. Active(u) \intersect S = {}
      BY <2>1, <2>5, ActiveFacts
    <3> QED BY <2>3, <3>1
  <2>6. Neat({p.table}, {})
    BY <1>0, <1>4, <1>q DEF Working, WhileEnding, ReleaseSession, At
  <2>7. \A u \in Tables \ {p.table} : Agrees(u)'
    BY <2>2, <2>5, <2>6 DEF Neat, Agrees
  <2>8. "table" \notin p.todo /\ p.table \in Tables => table[p.table] \notin Seated
    BY <1>0, <1>4, <1>q DEF Working, WhileEnding, ReleaseSession, At
  <2> QED BY <1>3, <2>2, <2>3, <2>4, <2>5, <2>7, <2>8
<1>5. CASE ReleaseTable(r)
  <2>1. At(r, "release") /\ Done(r, "table") /\ UNCHANGED <<sess, order>> /\ SetTable(p.table, "available")
    BY <1>5, <1>q DEF ReleaseTable
  <2>2. Neat({p.table}, {}) /\ ("session" \notin p.todo => Active(p.table) = {})
    BY <1>0, <1>5, <1>q DEF Working, WhileEnding, ReleaseTable, At
  <2>3. \A u \in Tables : table'[u] = IF u = p.table THEN "available" ELSE table[u]
    BY <2>1, Facts DEF SetTable
  <2>4. \A u : Active(u)' = Active(u)
    BY <2>1 DEF Active
  <2>5. \A u \in Tables \ {p.table} : Agrees(u)'
    BY <2>2, <2>3, <2>4 DEF Neat, Agrees
  <2>6. p.table \in Tables => table'[p.table] \notin Seated
    BY <2>3 DEF Seated
  <2>7. "session" \notin p.todo \ {"table"} => Active(p.table)' = {}
    BY <2>2, <2>4
  <2> QED BY <1>3, <2>1, <2>4, <2>5, <2>6, <2>7
<1> QED BY <1>1, <1>2, <1>4, <1>5

LEMMA TidyGuest ==
  ASSUME IInv, Tidy, OneByOne, faults = 0, NEW r \in Requests,
         \/ IssueExpires(r) \/ IssueInserts(r) \/ SubmitFails(r) \/ CloseDeadlocks(r)
         \/ \E o \in Orders : SubmitWrites(r, o)
  PROVE  Tidy'
<1>0. Working(req[r]) /\ req[r] \in Row /\ Fits(req[r], sess)
  BY Facts DEF Tidy
<1>1. CASE CloseDeadlocks(r)
  <2>1. PICK s \in Sessions : Closing(r, s) /\ Locked(s)
    BY <1>1 DEF CloseDeadlocks
  <2>2. At(r, "submit")
    BY <2>1 DEF Locked, OneByOne
  <2> QED BY <2>1, <2>2 DEF Closing, At
<1>2. ASSUME ~CloseDeadlocks(r) PROVE req[r].pc \in Elsewhere /\ Neat({}, {})
  <2>1. req[r].pc \in Elsewhere
    BY <1>2 DEF IssueExpires, IssueInserts, SubmitFails, SubmitWrites, At, Elsewhere
  <2> QED BY <1>0, <2>1 DEF Working
<1>3. CASE IssueExpires(r)
  <2>1. Goto(r, "issueInsert") /\ UNCHANGED <<table, sess, order>> /\ Neat({}, {})
    BY <1>0, <1>3 DEF IssueExpires, At, Working, Elsewhere
  <2>2. PICK q \in Row : req' = [req EXCEPT ![r] = q] /\ q.pc = "issueInsert"
    BY <2>1, NextPc DEF PCs
  <2>3. Working(q)
    BY <2>1, <2>2 DEF Working, WhileOpening, WhileSelling, WhileMoving, WhileEnding, Moving, Elsewhere
  <2> QED BY <2>1, <2>2, <2>3, ReadsOn
<1>4. CASE IssueInserts(r) \/ SubmitFails(r)
  <2>1. Answer(r) /\ UNCHANGED <<table, sess, order>> /\ Neat({}, {})
    BY <1>0, <1>4 DEF IssueInserts, SubmitFails, At, Working, Elsewhere
  <2> QED BY <2>1, SameNeat, Answers
<1>5. ASSUME NEW o \in Orders, SubmitWrites(r, o) PROVE Tidy'
  <2>1. PICK s : s = req[r].session
    OBVIOUS
  <2>2. PICK t : t = sess[s].table
    OBVIOUS
  <2>3. /\ Neat({}, {}) /\ Answer(r) /\ s \in Sessions /\ Open(s) /\ o \in Updatable(s)
        /\ SetTable(t, "ordering")
        /\ sess' = [sess EXCEPT ![s].state = "ordering", ![s].order = o]
    BY <1>0, <1>5, <2>1, <2>2 DEF Working, Elsewhere, SubmitWrites, At, Fits
  <2>4. s \in Active(t)
    BY <2>2, <2>3, ActiveFacts DEF Open
  <2>5. /\ \A u : Active(u)' = Active(u)
        /\ sess'[s].order = o /\ \A x \in Sessions \ {s} : sess'[x] = sess[x]
    BY <2>3, <2>4, AttachedActive
  <2>6. order'[o].table = t /\ \A x \in Orders \ {o} : order'[x] = order[x]
    BY <1>5, <2>1, <2>2, Facts DEF SubmitWrites
  <2>7. \A u \in Tables : table'[u] = IF u = t THEN "ordering" ELSE table[u]
    BY <2>3, Facts DEF SetTable
  <2>8. \A u \in Tables : Agrees(u)'
    BY <2>3, <2>4, <2>5, <2>7 DEF Neat, Agrees, Seated
  <2>9. ASSUME NEW x \in Orders, Queued(x)' PROVE Shown(x)'
    <3>1. CASE x = o
      BY <2>4, <2>5, <2>6, <3>1 DEF Shown
    <3>2. CASE x # o
      <4>1. Queued(x) /\ order'[x] = order[x]
        BY <2>6, <2>9, <3>2 DEF Queued
      <4>2. PICK u \in Active(order[x].table) : sess[u].order = x
        BY <2>3, <4>1 DEF Neat, Shown
      <4>3. sess[s].order \in {"none", o}
        BY <2>3 DEF Updatable
      <4>4. "none" \notin Orders
        BY ConstantsAssumption
      <4>5. u # s /\ u \in Sessions
        BY <3>2, <4>2, <4>3, <4>4, ActiveFacts
      <4> QED BY <2>5, <4>1, <4>2, <4>5 DEF Shown
    <3> QED BY <3>1, <3>2
  <2>10. Neat({}, {})'
    BY <2>8, <2>9 DEF Neat
  <2> QED BY <2>3, <2>10, Answers
<1> QED BY <1>1, <1>3, <1>4, <1>5

LEMMA TidyWorld ==
  ASSUME Tidy, UNCHANGED <<table, sess, order, req, faults>>
  PROVE  Tidy'
<1>1. ASSUME faults' = 0, Quiet' PROVE Neat({}, {})'
  BY <1>1, SameNeat DEF Tidy, Quiet, At
<1>2. ASSUME faults' = 0, NEW r \in Requests PROVE Working(req[r])'
  <2>1. PICK q : q = req[r]
    OBVIOUS
  <2>2. Working(q)
    BY <1>2, <2>1 DEF Tidy
  <2>3. Working(q)' /\ req'[r] = q
    BY <2>1, <2>2, SameWorking
  <2> QED BY <2>3 DEF Working, WhileOpening, WhileSelling, WhileMoving, WhileEnding
<1> QED BY <1>1, <1>2 DEF Tidy

LEMMA TidyNext == ASSUME IInv, faults \in Nat, Tidy, OneByOne, [Next]_vars PROVE Tidy' /\ faults' \in Nat
<1>0. \/ (\E r \in Requests : Arrival(r) \/ Step(r)) /\ UNCHANGED faults
      \/ (\E s \in Sessions : QrLapses(s)) /\ UNCHANGED faults
      \/ faults' = faults + 1
      \/ UNCHANGED vars
  BY DEF Next
<1>f. faults' \in Nat
  BY <1>0 DEF vars
<1>1. CASE faults' = faults + 1
  BY <1>1 DEF Tidy
<1>2. CASE UNCHANGED faults /\ faults # 0
  BY <1>2 DEF Tidy
<1>3. ASSUME faults = 0, NEW r \in Requests, Arrival(r) \/ Step(r) PROVE Tidy'
  BY <1>3, TidyArrival, TidyOpen, TidySale, TidyMove, TidyRelease, TidyGuest DEF Step
<1>4. ASSUME NEW s \in Sessions, QrLapses(s), UNCHANGED faults PROVE Tidy'
  BY <1>4, TidyWorld DEF QrLapses
<1>5. CASE UNCHANGED vars
  BY <1>5, TidyWorld DEF vars
<1> QED BY <1>0, <1>f, <1>1, <1>2, <1>3, <1>4, <1>5

-----------------------------------------------------------------------------
(* Links and sessions, also after failures                                    *)

Issuing == {"issueExpire", "issueInsert"}

LEMMA NotIssuing ==
  ASSUME IInv, NEW r \in Requests, Arrival(r) \/ Step(r) \/ Fault(r),
         ~\E t \in Tables : IssueArrives(r, t), ~IssueExpires(r)
  PROVE  req'[r].pc \notin Issuing
<1> USE DEF Issuing
<1>1. req \in [Requests -> Row] /\ req[r] \in Row /\ Idle.pc = "idle"
  BY Facts DEF Idle
<1>2. Answer(r) => req'[r].pc = "idle"
  BY <1>1 DEF Answer
<1>3. \A pc : Goto(r, pc) => req'[r].pc = pc
  BY <1>1 DEF Goto, Row
<1>4. \A x : At(r, "release") /\ Done(r, x) => req'[r].pc \in {"idle", "release"}
  BY <1>1, <1>2 DEF Done, At, Row
<1>5. CASE Arrival(r)
  <2>1. ASSUME NEW t \in Tables, OpenArrives(r, t) \/ SaleArrives(r, t) PROVE req'[r].pc \notin Issuing
    BY <1>1, <2>1 DEF OpenArrives, SaleArrives, Begin, Idle
  <2>2. ASSUME NEW t \in Tables, NEW o \in Orders, EditArrives(r, t, o) PROVE req'[r].pc \notin Issuing
    BY <1>1, <2>2 DEF EditArrives, Begin, Idle
  <2>3. ASSUME NEW t \in Tables, NEW u \in Tables, MoveArrives(r, t, u) PROVE req'[r].pc \notin Issuing
    BY <1>1, <2>3 DEF MoveArrives, Begin, Idle
  <2>4. ASSUME NEW o \in Orders, PayArrives(r, o, "queued") \/ CancelArrives(r, o) PROVE req'[r].pc \notin Issuing
    BY <1>1, <2>4 DEF PayArrives, CancelArrives, Begin, Idle
  <2>5. ASSUME NEW s \in Sessions, SubmitArrives(r, s) PROVE req'[r].pc \notin Issuing
    BY <1>1, <2>5 DEF SubmitArrives, Begin, Idle
  <2> QED BY <1>5, <2>1, <2>2, <2>3, <2>4, <2>5 DEF Arrival
<1>6. CASE OpenChecks(r) \/ OpenRefused(r) \/ OpenMarks(r) \/ (\E s \in Sessions : OpenInserts(r, s))
  BY <1>1, <1>2, <1>3, <1>6 DEF OpenChecks, OpenRefused, OpenMarks, OpenInserts, Row
<1>7. CASE AttachReads(r) \/ AttachWrites(r) \/ AttachMarks(r) \/ EditWrites(r) \/ (\E o \in Orders : SaleInserts(r, o))
  BY <1>1, <1>2, <1>3, <1>7 DEF AttachReads, AttachWrites, AttachMarks, EditWrites, SaleInserts, Row
<1>8. CASE \/ MoveChecks(r) \/ MoveOrder(r) \/ MoveCloses(r) \/ MoveInsertRefused(r) \/ MoveFrees(r) \/ MoveMarks(r)
           \/ \E s \in Sessions : MoveInserts(r, s)
  BY <1>2, <1>3, <1>8 DEF MoveChecks, MoveOrder, MoveCloses, MoveInsertRefused, MoveFrees, MoveMarks, MoveInserts
<1>9. CASE PaySettles(r) \/ PayRefused(r) \/ ReleaseSession(r) \/ ReleaseTable(r)
  BY <1>1, <1>2, <1>4, <1>9 DEF PaySettles, PayRefused, ReleaseSession, ReleaseTable, Row
<1>10. CASE IssueInserts(r) \/ SubmitFails(r) \/ CloseDeadlocks(r) \/ (\E o \in Orders : SubmitWrites(r, o))
  BY <1>2, <1>4, <1>10 DEF IssueInserts, SubmitFails, CloseDeadlocks, SubmitWrites
<1>11. CASE Fault(r)
  <2>1. ASSUME NEW o \in Orders, PayArrives(r, o, "completed") PROVE req'[r].pc = "pay"
    BY <1>1, <2>1 DEF PayArrives, Begin, Idle
  <2> QED BY <1>2, <1>4, <1>11, <2>1 DEF Fault, OpenMarkFails, Dies, ReleaseLost
<1> QED BY <1>5, <1>6, <1>7, <1>8, <1>9, <1>10, <1>11 DEF Step

\* Rows of table_bill_sessions that are written anew, or become active or deleted, close nothing.
LEMMA OneWritten ==
  ASSUME IInv, ClosedBillRevokesQr, NEW s, NEW row, row.state \notin {"closed", "cancelled"},
         sess' = [sess EXCEPT ![s] = row], \A u \in Sessions \ {s} : qr'[u] = qr[u]
  PROVE  ClosedBillRevokesQr'
<1>1. sess \in [Sessions -> SessionRow]
  BY DEF IInv, Types
<1>2. \A u \in Sessions : sess'[u] = IF u = s THEN row ELSE sess[u]
  BY <1>1
<1> QED BY <1>2 DEF ClosedBillRevokesQr

\* The trigger: a session that ends, or had ended, has no link that works.
LEMMA EndRevokes ==
  ASSUME IInv, ClosedBillRevokesQr, NEW S, NEW state, EndSessions(S, state)
  PROVE  ClosedBillRevokesQr'
<1>1. sess \in [Sessions -> SessionRow] /\ qr \in [Sessions -> QrStates]
  BY DEF IInv, Types
<1>2. ASSUME NEW u \in Sessions, sess'[u].state \in {"closed", "cancelled"} PROVE qr'[u] \notin {"live", "stale"}
  <2>1. CASE u \in S
    <3>1. sess'[u].state = state
      BY <1>1, <2>1 DEF EndSessions, SessionRow
    <3>2. CASE sess[u].state = state
      BY <1>1, <1>2, <2>1, <3>1, <3>2 DEF EndSessions, ClosedBillRevokesQr
    <3>3. CASE sess[u].state # state
      BY <1>1, <2>1, <3>3 DEF EndSessions
    <3> QED BY <3>2, <3>3
  <2>2. CASE u \notin S
    BY <1>1, <1>2, <2>2 DEF EndSessions, ClosedBillRevokesQr
  <2> QED BY <2>1, <2>2
<1> QED BY <1>2 DEF ClosedBillRevokesQr

LEMMA LinkedSessions ==
  ASSUME IInv, Linked, NEW r \in Requests, Arrival(r) \/ Step(r) \/ Fault(r)
  PROVE  ClosedBillRevokesQr'
<1>0. /\ ClosedBillRevokesQr /\ Issues(req[r]) /\ req[r] \in Row /\ Fits(req[r], sess)
      /\ sess \in [Sessions -> SessionRow] /\ qr \in [Sessions -> QrStates]
  BY Facts DEF Linked
<1>1. CASE UNCHANGED <<sess, qr>>
  BY <1>0, <1>1 DEF ClosedBillRevokesQr
<1>2. ASSUME NEW s \in Sessions, NEW t, NEW state \in ActiveStates, NEW o, NewSession(s, t, state, o), qr' = qr
      PROVE  ClosedBillRevokesQr'
  <2>1. PICK row : row = [state |-> state, table |-> t, order |-> o, stamped |-> FALSE]
    OBVIOUS
  <2>2. row.state \notin {"closed", "cancelled"} /\ sess' = [sess EXCEPT ![s] = row]
    BY <1>2, <2>1 DEF NewSession, ActiveStates
  <2> QED BY <1>0, <1>2, <2>2, OneWritten
<1>3. ASSUME NEW s, NEW o, qr' = qr, sess' = [sess EXCEPT ![s].state = "ordering", ![s].order = o]
      PROVE  ClosedBillRevokesQr'
  <2>1. CASE s \in Sessions
    <3>1. PICK row : row = [sess[s] EXCEPT !.state = "ordering", !.order = o]
      OBVIOUS
    <3>2. row.state = "ordering" /\ sess' = [sess EXCEPT ![s] = row]
      BY <1>0, <1>3, <2>1, <3>1 DEF SessionRow
    <3> QED BY <1>0, <1>3, <3>2, OneWritten
  <2>2. CASE s \notin Sessions
    <3>1. sess' = sess
      BY <1>0, <1>3, <2>2
    <3> QED BY <1>1, <1>3, <3>1
  <2> QED BY <2>1, <2>2
<1>4. ASSUME NEW s \in Sessions, OpenInserts(r, s) PROVE ClosedBillRevokesQr'
  BY <1>2, <1>4 DEF OpenInserts, ActiveStates
<1>5. CASE AttachWrites(r)
  BY <1>1, <1>3, <1>5 DEF AttachWrites
<1>6. CASE MoveCloses(r)
  BY <1>0, <1>6, EndRevokes DEF MoveCloses
<1>7. ASSUME NEW s \in Sessions, MoveInserts(r, s) PROVE ClosedBillRevokesQr'
  <2>1. req[r].status \in ActiveStates
    BY <1>0, <1>7 DEF MoveInserts, At, Fits, Moving
  <2> QED BY <1>2, <1>7, <2>1 DEF MoveInserts
<1>8. CASE ReleaseSession(r)
  BY <1>0, <1>8, EndRevokes DEF ReleaseSession
<1>9. ASSUME NEW o \in Orders, SubmitWrites(r, o) PROVE ClosedBillRevokesQr'
  BY <1>3, <1>9 DEF SubmitWrites
<1>10. CASE OpenMarkFails(r)
  <2>1. PICK row : row = [NoSession EXCEPT !.state = "deleted"]
    OBVIOUS
  <2>2. row.state = "deleted" /\ sess' = [sess EXCEPT ![req[r].session] = row]
    BY <1>10, <2>1 DEF NoSession, OpenMarkFails
  <2>3. \A u \in Sessions \ {req[r].session} : qr'[u] = qr[u]
    BY <1>0, <1>10 DEF OpenMarkFails
  <2> QED BY <1>0, <2>2, <2>3, OneWritten
<1>11. CASE IssueExpires(r)
  <2>1. \A u \in Sessions : qr'[u] \in {qr[u], "off"}
    BY <1>0, <1>11 DEF IssueExpires
  <2> QED BY <1>0, <1>11, <2>1 DEF IssueExpires, ClosedBillRevokesQr
<1>12. CASE IssueInserts(r)
  <2>1. sess[req[r].session].state \in ActiveStates
    BY <1>0, <1>12 DEF IssueInserts, At, Issues
  <2>2. \A u \in Sessions \ {req[r].session} : qr'[u] = qr[u]
    BY <1>0, <1>12 DEF IssueInserts
  <2> QED BY <1>0, <1>12, <2>1, <2>2 DEF IssueInserts, ClosedBillRevokesQr, ActiveStates
<1>13. CASE Arrival(r)
  BY <1>1, <1>13 DEF Arrival, OpenArrives, SaleArrives, IssueArrives, EditArrives, MoveArrives, PayArrives,
                     CancelArrives, SubmitArrives
<1>14. CASE Fault(r)
  BY <1>1, <1>10, <1>14 DEF Fault, Dies, ReleaseLost, PayArrives
<1>15. CASE Step(r)
  BY <1>1, <1>4, <1>5, <1>6, <1>7, <1>8, <1>9, <1>11, <1>12, <1>15
  DEF Step, OpenChecks, OpenRefused, OpenMarks, AttachReads, AttachMarks, EditWrites, MoveChecks, MoveOrder,
      MoveInsertRefused, MoveFrees, MoveMarks, PaySettles, PayRefused, ReleaseTable, SubmitFails, CloseDeadlocks,
      SaleInserts
<1> QED BY <1>13, <1>14, <1>15

LEMMA LinkedNext == ASSUME IInv, Linked, OneByOne, [Next]_vars PROVE Linked'
<1>1. ASSUME NEW r \in Requests, Arrival(r) \/ Step(r) \/ Fault(r) PROVE Linked'
  <2>1. ClosedBillRevokesQr'
    BY <1>1, LinkedSessions
  <2>2. ASSUME NEW t \in Tables, IssueArrives(r, t) PROVE Issues(req[r])'
    <3>1. PICK s \in Active(t) : Begin(r, [Idle EXCEPT !.pc = "issueExpire", !.session = s])
      BY <2>2 DEF IssueArrives
    <3>2. req'[r].session = s
      BY <3>1, Facts DEF Begin, Idle
    <3>3. sess'[s].state \in ActiveStates
      BY <2>2, <3>1, ActiveFacts DEF IssueArrives
    <3> QED BY <3>2, <3>3 DEF Issues
  <2>3. ASSUME IssueExpires(r) PROVE Issues(req[r])'
    <3>1. req'[r].session = req[r].session
      BY <2>3, Facts DEF IssueExpires, Goto, Row
    <3>2. sess[req[r].session].state \in ActiveStates
      BY <2>3 DEF Linked, Issues, IssueExpires, At
    <3>3. sess' = sess
      BY <2>3 DEF IssueExpires
    <3> QED BY <3>1, <3>2, <3>3 DEF Issues
  <2>4. ASSUME req'[r].pc \notin Issuing PROVE Issues(req[r])'
    BY <2>4 DEF Issues, Issuing
  <2>5. Issues(req[r])'
    BY <1>1, <2>2, <2>3, <2>4, NotIssuing
  <2> QED BY <2>1, <2>5 DEF Linked, OneByOne
<1>2. ASSUME NEW s \in Sessions, QrLapses(s) PROVE Linked'
  <2>1. \A u \in Sessions : qr'[u] \in {"live", "stale"} => qr[u] \in {"live", "stale"}
    BY <1>2 DEF QrLapses, IInv, Types
  <2> QED BY <1>2, <2>1 DEF Linked, ClosedBillRevokesQr, Issues, QrLapses
<1>3. CASE UNCHANGED <<sess, qr, req>>
  BY <1>3 DEF Linked, ClosedBillRevokesQr, Issues
<1> QED BY <1>1, <1>2, <1>3 DEF Next, EditTable, vars

-----------------------------------------------------------------------------
LEMMA InitSerial == Init => faults \in Nat /\ Tidy /\ Linked
<1> SUFFICES ASSUME Init PROVE faults \in Nat /\ Tidy /\ Linked
  OBVIOUS
<1>1. \A t \in Tables : Active(t) = {}
  BY DEF Init, NoSession, Active, ActiveStates
<1>2. Neat({}, {})
  BY <1>1 DEF Init, Neat, Agrees, Queued, NoOrder, Seated
<1>3. Idle.pc = "idle"
  BY DEF Idle
<1>4. \A r \in Requests : req[r].pc = "idle"
  BY <1>3 DEF Init
<1>5. Tidy
  BY <1>2, <1>4 DEF Tidy, Working, WhileOpening, WhileSelling, WhileMoving, WhileEnding, Moving, Elsewhere
<1>6. Linked
  BY <1>4 DEF Init, NoSession, Linked, ClosedBillRevokesQr, Issues
<1> QED BY <1>5, <1>6 DEF Init

\* With one request after the other, what each step has still to put in order is known from it.
THEOREM SerialInvariance == ASSUME OneByOne PROVE Spec => []SerialInv
<1>1. Init => SerialInv
  BY InitIInv, InitSerial DEF SerialInv
<1>2. SerialInv /\ [Next]_vars => SerialInv'
  BY NextIInv, TidyNext, LinkedNext DEF SerialInv
<1> QED BY <1>1, <1>2, PTL DEF Spec

\* One request after the other, and until one fails, every unpaid bill is the bill of its table's
\* active session: a move, a sale, a guest's order or a settlement leaves none that the till
\* cannot find.
THEOREM BillsAreShown == ASSUME OneByOne PROVE Spec => []BillIsShown
<1>1. SerialInv => BillIsShown
  BY DEF SerialInv, Tidy, Neat, Queued, BillIsShown
<1> QED BY <1>1, SerialInvariance, PTL

\* In the same circumstances, the status of a table says whether it has an active session.
THEOREM TablesAgree == ASSUME OneByOne PROVE Spec => []TableAgrees
<1>1. SerialInv => TableAgrees
  BY DEF SerialInv, Tidy, Neat, Agrees, TableAgrees
<1> QED BY <1>1, SerialInvariance, PTL

\* One request after the other, a bill that is closed or cancelled has no QR link that works, even
\* when requests die half-way, a session is deleted again or the back office edits the table.
THEOREM ClosedBillsRevokeQr == ASSUME OneByOne PROVE Spec => []ClosedBillRevokesQr
<1>1. SerialInv => ClosedBillRevokesQr
  BY DEF SerialInv, Linked
<1> QED BY <1>1, SerialInvariance, PTL
=============================================================================
