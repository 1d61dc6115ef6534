---------------------------- MODULE TableBilling ----------------------------
(***************************************************************************)
(* Dine-in tables: dining_tables, table_bill_sessions, the queued orders   *)
(* of a table and the QR links with which guests order.  A request slot    *)
(* runs one of these handlers, one database statement per step:            *)
(*                                                                         *)
(*   open    openTableBillSession          sale    POST /api/pos/sales     *)
(*   edit    updateQueuedPosOrder          move    POST .../move-bill      *)
(*   pay     POST /api/pos/payments        cancel  POST .../cancel         *)
(*   issue   issueTableQrSession           submit  submit_table_qr_order_tx *)
(*                                                                         *)
(* A tenant's branch, its items, money and shift are left to other modules. *)
(* submit_table_qr_order_tx is taken with its session lookup's "table_id"  *)
(* qualified, as context.md:319 says it was deployed.                      *)
(***************************************************************************)
EXTENDS Integers, FiniteSets

CONSTANTS Tables,     \* dining_tables of one branch
          Orders,     \* orders that can be created
          Sessions,   \* table_bill_sessions rows that can be created
          Requests,   \* request slots of the server
          Routes,     \* which of the handlers above run
          TableEdits, \* what the back office may set a table's status to
          MaxItems,   \* bound: guests' submissions per order
          MaxFaults   \* bound: the faults of a behaviour

ASSUME ConstantsAssumption ==
  /\ "none" \notin Tables \union Orders \union Sessions
  /\ Routes \subseteq {"open", "sale", "edit", "move", "pay", "cancel", "issue",
                       "submit"}
  /\ TableEdits \subseteq {"available", "reserved", "disabled"}
  /\ MaxItems \in Nat
  /\ MaxFaults \in Nat

VARIABLES
  table,      \* table[t]: dining_tables.status ("disabled" also if not is_active)
  sess,       \* sess[s]: table_bill_sessions row; stamped: closed_at is set
  qr,         \* qr[s]: the newest QR link of session s ("stale": active, out of date)
  order,      \* order[o]: orders row and the number of guests' submissions in it
  req,        \* req[r]: the handler in slot r and what it has read
  faults      \* errors, dead handlers, repeated payments, back-office edits so far

vars == <<table, sess, qr, order, req, faults>>

TableStatus == {"available", "occupied", "ordering", "reserved", "disabled"}
Seated == {"occupied", "ordering"}
NoSession == [state |-> "none", table |-> "none", order |-> "none", stamped |-> FALSE]
NoOrder == [status |-> "none", table |-> "none", items |-> 0]
Idle == [pc |-> "idle", table |-> "none", target |-> "none", order |-> "none",
         session |-> "none", status |-> "none", todo |-> {}]

Init ==
  /\ table = [t \in Tables |-> "available"]
  /\ sess = [s \in Sessions |-> NoSession]
  /\ qr = [s \in Sessions |-> "none"]
  /\ order = [o \in Orders |-> NoOrder]
  /\ req = [r \in Requests |-> Idle]
  /\ faults = 0

ActiveStates == {"open", "ordering"}
Active(t) == {s \in Sessions : sess[s].state \in ActiveStates /\ sess[s].table = t}

At(r, pc) == req[r].pc = pc
Arrives(r, route) == At(r, "idle") /\ route \in Routes
Begin(r, q) == req' = [req EXCEPT ![r] = q]
Goto(r, pc) == req' = [req EXCEPT ![r].pc = pc]
Answer(r) == req' = [req EXCEPT ![r] = Idle]
SetTable(t, v) == table' = [table EXCEPT ![t] = v]

\* A submission holds the row lock of the session's live QR link.
Locked(s) == \E r \in Requests : At(r, "submit") /\ req[r].session = s

\* Mutant: the trigger that revokes the links does not exist.
EndSessionsKeepQr(S, state) ==
  /\ sess' = [s \in Sessions |-> IF s \in S
                THEN [sess[s] EXCEPT !.state = state, !.stamped = TRUE] ELSE sess[s]]
  /\ UNCHANGED qr

\* Rows written when the sessions of S end: revoke_table_qr_session_on_bill_close.
EndSessions(S, state) ==
  /\ sess' = [s \in Sessions |-> IF s \in S
                THEN [sess[s] EXCEPT !.state = state, !.stamped = TRUE] ELSE sess[s]]
  /\ qr' = [s \in Sessions |-> IF s \in S /\ sess[s].state # state /\ qr[s] \in {"live", "stale"}
                               THEN "off" ELSE qr[s]]

\* Mutant: idx_table_bill_sessions_table_active does not exist.
NewSessionUnindexed(s, t, state, o) ==
  /\ sess[s].state = "none"
  /\ sess' = [sess EXCEPT ![s] = [state |-> state, table |-> t, order |-> o,
                                  stamped |-> FALSE]]

\* idx_table_bill_sessions_table_active: one active session per table.
NewSession(s, t, state, o) ==
  /\ Active(t) = {}
  /\ sess[s].state = "none"
  /\ sess' = [sess EXCEPT ![s] = [state |-> state, table |-> t, order |-> o,
                                  stamped |-> FALSE]]

-----------------------------------------------------------------------------
(* openTableBillSession                                                       *)
OpenArrives(r, t) ==
  /\ Arrives(r, "open")
  /\ table[t] = "available"
  /\ Begin(r, [Idle EXCEPT !.pc = "openCheck", !.table = t])
  /\ UNCHANGED <<table, sess, qr, order>>

OpenChecks(r) ==
  /\ At(r, "openCheck")
  /\ IF Active(req[r].table) = {} THEN Goto(r, "openInsert") ELSE Answer(r)
  /\ UNCHANGED <<table, sess, qr, order>>

OpenInserts(r, s) ==
  /\ At(r, "openInsert")
  /\ NewSession(s, req[r].table, "open", "none")
  /\ req' = [req EXCEPT ![r].pc = "openMark", ![r].session = s]
  /\ UNCHANGED <<table, qr, order>>

OpenRefused(r) ==
  /\ At(r, "openInsert")
  /\ Active(req[r].table) # {}
  /\ Answer(r)
  /\ UNCHANGED <<table, sess, qr, order>>

OpenMarks(r) ==
  /\ At(r, "openMark")
  /\ SetTable(req[r].table, "occupied")
  /\ Answer(r)
  /\ UNCHANGED <<sess, qr, order>>

\* The table's status cannot be written: the session is deleted, its QR with it.
OpenMarkFails(r) ==
  /\ At(r, "openMark")
  /\ sess' = [sess EXCEPT ![req[r].session] = [NoSession EXCEPT !.state = "deleted"]]
  /\ qr' = [qr EXCEPT ![req[r].session] = "none"]
  /\ Answer(r)
  /\ UNCHANGED <<table, order>>

-----------------------------------------------------------------------------
(* POST /api/pos/sales.  The till sends the order it knows of on the table    *)
(* (edit), or none when the open bill has none yet (sale).                    *)
SaleArrives(r, t) ==
  /\ Arrives(r, "sale")
  /\ \E s \in Active(t) : sess[s].order = "none"
  /\ table[t] \notin {"reserved", "disabled"}
  /\ Begin(r, [Idle EXCEPT !.pc = "saleInsert", !.table = t])
  /\ UNCHANGED <<table, sess, qr, order>>

SaleInserts(r, o) ==
  /\ At(r, "saleInsert")
  /\ order[o].status = "none"
  /\ order' = [order EXCEPT ![o] = [status |-> "queued", table |-> req[r].table, items |-> 0]]
  /\ req' = [req EXCEPT ![r].pc = "attachRead", ![r].order = o]
  /\ UNCHANGED <<table, sess, qr>>

\* attachOrderToTableSession
AttachReads(r) ==
  /\ At(r, "attachRead")
  /\ \/ \E s \in Active(req[r].table) :
          req' = [req EXCEPT ![r].pc = "attachWrite", ![r].session = s]
     \/ Active(req[r].table) = {} /\ Answer(r)
  /\ UNCHANGED <<table, sess, qr, order>>

\* The row is addressed by its id alone: a session that ended meanwhile comes
\* back, unless the table has a new one; of a deleted row nothing is written.
AttachWrites(r) ==
  LET s == req[r].session IN
  /\ At(r, "attachWrite")
  /\ \/ /\ sess[s].state # "deleted"
        /\ Active(req[r].table) \subseteq {s}
        /\ sess' = [sess EXCEPT ![s].state = "ordering", ![s].order = req[r].order]
        /\ Goto(r, "attachMark")
     \/ sess[s].state = "deleted" /\ Goto(r, "attachMark") /\ UNCHANGED sess
     \/ ~ Active(req[r].table) \subseteq {s} /\ Answer(r) /\ UNCHANGED sess
  /\ UNCHANGED <<table, qr, order>>

AttachMarks(r) ==
  /\ At(r, "attachMark")
  /\ SetTable(req[r].table, "ordering")
  /\ Answer(r)
  /\ UNCHANGED <<sess, qr, order>>

EditArrives(r, t, o) ==
  /\ Arrives(r, "edit")
  /\ \E s \in Active(t) : sess[s].order = o
  /\ order[o].status = "queued"
  /\ table[t] \notin {"reserved", "disabled"}
  /\ Begin(r, [Idle EXCEPT !.pc = "editWrite", !.table = t, !.order = o])
  /\ UNCHANGED <<table, sess, qr, order>>

\* An order that is no longer queued is answered by creating a new one.
EditWrites(r) ==
  LET o == req[r].order IN
  /\ At(r, "editWrite")
  /\ IF order[o].status = "queued"
     THEN Answer(r) /\ order' = [order EXCEPT ![o].table = req[r].table]
     ELSE Goto(r, "saleInsert") /\ UNCHANGED order
  /\ UNCHANGED <<table, sess, qr>>

-----------------------------------------------------------------------------
(* POST /api/pos/tables/[tableId]/move-bill                                   *)
MoveArrives(r, t, u) ==
  /\ Arrives(r, "move")
  /\ t # u
  /\ \E s \in Active(t) :
       Begin(r, [Idle EXCEPT !.pc = "moveCheck", !.table = t, !.target = u, !.session = s,
                 !.order = sess[s].order, !.status = sess[s].state])
  /\ UNCHANGED <<table, sess, qr, order>>

MoveChecks(r) ==
  /\ At(r, "moveCheck")
  /\ IF Active(req[r].target) # {} THEN Answer(r)
     ELSE Goto(r, IF req[r].order = "none" THEN "moveClose" ELSE "moveOrder")
  /\ UNCHANGED <<table, sess, qr, order>>

MoveOrder(r) ==
  /\ At(r, "moveOrder")
  /\ order' = [order EXCEPT ![req[r].order].table = req[r].target]
  /\ Goto(r, "moveClose")
  /\ UNCHANGED <<table, sess, qr>>

MoveCloses(r) ==
  LET s == req[r].session IN
  /\ At(r, "moveClose") /\ ~Locked(s)
  /\ EndSessions({s} \ {x \in Sessions : sess[x].state = "deleted"}, "closed")
  /\ Goto(r, "moveInsert")
  /\ UNCHANGED <<table, order>>

\* Mutant: the new session is inserted without its order_id.
MoveInsertsNoOrder(r, s) ==
  /\ At(r, "moveInsert")
  /\ NewSession(s, req[r].target, req[r].status, "none")
  /\ Goto(r, "moveFree")
  /\ UNCHANGED <<table, qr, order>>

MoveInserts(r, s) ==
  /\ At(r, "moveInsert")
  /\ NewSession(s, req[r].target, req[r].status, req[r].order)
  /\ Goto(r, "moveFree")
  /\ UNCHANGED <<table, qr, order>>

\* The source session is closed already, and stays so.
MoveInsertRefused(r) ==
  /\ At(r, "moveInsert")
  /\ Active(req[r].target) # {}
  /\ Answer(r)
  /\ UNCHANGED <<table, sess, qr, order>>

\* Mutant: the source table keeps its status.
MoveFreesNothing(r) ==
  /\ At(r, "moveFree")
  /\ Goto(r, "moveMark")
  /\ UNCHANGED <<table, sess, qr, order>>

MoveFrees(r) ==
  /\ At(r, "moveFree")
  /\ SetTable(req[r].table, "available")
  /\ Goto(r, "moveMark")
  /\ UNCHANGED <<sess, qr, order>>

MoveMarks(r) ==
  /\ At(r, "moveMark")
  /\ SetTable(req[r].target, IF req[r].status = "ordering" THEN "ordering" ELSE "occupied")
  /\ Answer(r)
  /\ UNCHANGED <<sess, qr, order>>

-----------------------------------------------------------------------------
(* POST /api/pos/payments: the table is the one read before the payment.  A   *)
(* repeated payment of a completed bill succeeds again.                       *)
PayArrives(r, o, status) ==
  /\ Arrives(r, "pay")
  /\ order[o].status = status
  /\ Begin(r, [Idle EXCEPT !.pc = "pay", !.order = o, !.table = order[o].table])
  /\ UNCHANGED <<table, sess, qr, order>>

\* Both statements of the Promise.all are sent once the bill is settled.
PaySettles(r) ==
  LET o == req[r].order IN
  /\ At(r, "pay")
  /\ order[o].status # "cancelled"
  /\ order' = [order EXCEPT ![o].status = "completed"]
  /\ req' = [req EXCEPT ![r].pc = "release", ![r].status = "closed",
                        ![r].todo = {"session", "table"}]
  /\ UNCHANGED <<table, sess, qr>>

PayRefused(r) ==
  /\ At(r, "pay")
  /\ order[req[r].order].status = "cancelled"
  /\ Answer(r)
  /\ UNCHANGED <<table, sess, qr, order>>

(* POST /api/pos/orders/[orderId]/cancel: the table is the updated row's.     *)
CancelArrives(r, o) ==
  /\ Arrives(r, "cancel")
  /\ order[o].status = "queued"
  /\ order' = [order EXCEPT ![o].status = "cancelled"]
  /\ Begin(r, [Idle EXCEPT !.pc = "release", !.order = o, !.table = order[o].table,
               !.status = "cancelled", !.todo = {"session", "table"}])
  /\ UNCHANGED <<table, sess, qr>>

Done(r, x) ==
  IF req[r].todo = {x} THEN Answer(r) ELSE req' = [req EXCEPT ![r].todo = @ \ {x}]

ReleaseSession(r) ==
  LET S == Active(req[r].table) IN
  /\ At(r, "release") /\ "session" \in req[r].todo
  /\ \A s \in S : ~Locked(s)
  /\ EndSessions(S, req[r].status)
  /\ Done(r, "session")
  /\ UNCHANGED <<table, order>>

ReleaseTable(r) ==
  /\ At(r, "release") /\ "table" \in req[r].todo
  /\ SetTable(req[r].table, "available")
  /\ Done(r, "table")
  /\ UNCHANGED <<sess, qr, order>>

\* The result of neither statement is looked at.
ReleaseLost(r, x) ==
  /\ At(r, "release") /\ x \in req[r].todo
  /\ Done(r, x)
  /\ UNCHANGED <<table, sess, qr, order>>

-----------------------------------------------------------------------------
(* issueTableQrSession: an existing live link is answered without a write.    *)
IssueArrives(r, t) ==
  /\ Arrives(r, "issue")
  /\ table[t] \in Seated
  /\ \E s \in Active(t) :
       /\ qr[s] # "live"
       /\ Begin(r, [Idle EXCEPT !.pc = "issueExpire", !.session = s])
  /\ UNCHANGED <<table, sess, qr, order>>

IssueExpires(r) ==
  LET s == req[r].session IN
  /\ At(r, "issueExpire") /\ ~Locked(s)
  /\ qr' = [qr EXCEPT ![s] = IF @ \in {"live", "stale"} THEN "off" ELSE @]
  /\ Goto(r, "issueInsert")
  /\ UNCHANGED <<table, sess, order>>

\* Nothing asks whether the session is still active.
IssueInserts(r) ==
  LET s == req[r].session IN
  /\ At(r, "issueInsert")
  /\ qr' = [qr EXCEPT ![s] = IF @ = "stale" \/ sess[s].state = "deleted" THEN @ ELSE "live"]
  /\ Answer(r)
  /\ UNCHANGED <<table, sess, order>>

\* expires_at passes.
QrLapses(s) ==
  /\ qr[s] = "live"
  /\ qr' = [qr EXCEPT ![s] = "stale"]
  /\ UNCHANGED <<table, sess, order, req>>

-----------------------------------------------------------------------------
(* submit_table_qr_order_tx: it locks the link, then the session.             *)
SubmitArrives(r, s) ==
  /\ Arrives(r, "submit")
  /\ qr[s] = "live" /\ ~Locked(s)
  /\ Begin(r, [Idle EXCEPT !.pc = "submit", !.session = s])
  /\ UNCHANGED <<table, sess, qr, order>>

\* Mutant: the order is looked up without "status = 'queued'".
UpdatableAnyStatus(s) ==
  IF sess[s].order = "none" THEN {o \in Orders : order[o].status = "none"}
  ELSE {o \in {sess[s].order} : order[o].table = sess[s].table}

\* The order the submission goes to: the session's, or a new one.
Updatable(s) ==
  IF sess[s].order = "none" THEN {o \in Orders : order[o].status = "none"}
  ELSE {o \in {sess[s].order} : order[o].status = "queued" /\ order[o].table = sess[s].table}

Open(s) ==
  /\ sess[s].state \in ActiveStates
  /\ ~sess[s].stamped
  /\ table[sess[s].table] \in Seated

SubmitWrites(r, o) ==
  LET s == req[r].session IN
  /\ At(r, "submit")
  /\ Open(s) /\ o \in Updatable(s)
  /\ order[o].items < MaxItems                     \* bound
  /\ order' = [order EXCEPT ![o] = [status |-> "queued", table |-> sess[s].table,
                                    items |-> @.items + 1]]
  /\ sess' = [sess EXCEPT ![s].state = "ordering", ![s].order = o]
  /\ SetTable(sess[s].table, "ordering")
  /\ Answer(r)
  /\ UNCHANGED qr

\* A statement that has locked session s waits for its QR link, which the
\* submission holds: PostgreSQL aborts one of the two.
Closing(r, s) ==
  \/ At(r, "moveClose") /\ req[r].session = s
  \/ At(r, "release") /\ "session" \in req[r].todo /\ s \in Active(req[r].table)

SubmitFails(r) ==
  LET s == req[r].session IN
  /\ At(r, "submit")
  /\ \/ ~Open(s)
     \/ sess[s].order # "none" /\ Updatable(s) = {}
     \/ \E other \in Requests : Closing(other, s)
  /\ Answer(r)
  /\ UNCHANGED <<table, sess, qr, order>>

CloseDeadlocks(r) ==
  /\ \E s \in Sessions : Closing(r, s) /\ Locked(s)
  /\ IF At(r, "release") THEN Done(r, "session") ELSE Answer(r)
  /\ UNCHANGED <<table, sess, qr, order>>

-----------------------------------------------------------------------------
(* PATCH /api/backoffice/tables/[tableId] looks at no session.                *)
EditTable(t, v) ==
  /\ v \in TableEdits /\ table[t] # v
  /\ SetTable(t, v)
  /\ UNCHANGED <<sess, qr, order, req>>

\* The process stops, or the next statement of the handler is answered by an error.
Dies(r) ==
  /\ req[r].pc \notin {"idle", "submit"}
  /\ Answer(r)
  /\ UNCHANGED <<table, sess, qr, order>>

Arrival(r) ==
  \/ \E t \in Tables : OpenArrives(r, t) \/ SaleArrives(r, t) \/ IssueArrives(r, t)
  \/ \E t \in Tables, o \in Orders : EditArrives(r, t, o)
  \/ \E t, u \in Tables : MoveArrives(r, t, u)
  \/ \E o \in Orders : PayArrives(r, o, "queued") \/ CancelArrives(r, o)
  \/ \E s \in Sessions : SubmitArrives(r, s)

Step(r) ==
  \/ OpenChecks(r) \/ OpenRefused(r) \/ OpenMarks(r)
  \/ AttachReads(r) \/ AttachWrites(r) \/ AttachMarks(r) \/ EditWrites(r)
  \/ MoveChecks(r) \/ MoveOrder(r) \/ MoveCloses(r) \/ MoveInsertRefused(r)
  \/ MoveFrees(r) \/ MoveMarks(r) \/ PaySettles(r) \/ PayRefused(r)
  \/ ReleaseSession(r) \/ ReleaseTable(r) \/ IssueExpires(r) \/ IssueInserts(r)
  \/ SubmitFails(r) \/ CloseDeadlocks(r)
  \/ \E s \in Sessions : OpenInserts(r, s) \/ MoveInserts(r, s)
  \/ \E o \in Orders : SaleInserts(r, o) \/ SubmitWrites(r, o)

Fault(r) ==
  \/ OpenMarkFails(r) \/ Dies(r)
  \/ \E x \in {"session", "table"} : ReleaseLost(r, x)
  \/ \E o \in Orders : PayArrives(r, o, "completed")

Next ==
  \/ /\ \/ \E r \in Requests : Arrival(r) \/ Step(r)
        \/ \E s \in Sessions : QrLapses(s)
     /\ UNCHANGED faults
  \/ /\ faults < MaxFaults                          \* bound
     /\ faults' = faults + 1
     /\ \/ \E r \in Requests : Fault(r)
        \/ \E t \in Tables, v \in TableEdits : EditTable(t, v)

Spec == Init /\ [][Next]_vars

-----------------------------------------------------------------------------
Maybe(S) == S \union {"none"}

\* The fields hold what their columns may hold; a handler knows its rows.
TypeOK ==
  /\ table \in [Tables -> TableStatus]
  /\ sess \in [Sessions -> [state : {"none", "deleted", "closed", "cancelled"} \union ActiveStates,
                            table : Maybe(Tables), order : Maybe(Orders), stamped : BOOLEAN]]
  /\ qr \in [Sessions -> {"none", "live", "stale", "off"}]
  /\ order \in [Orders -> [status : {"none", "queued", "completed", "cancelled"},
                           table : Maybe(Tables), items : 0..MaxItems]]
  /\ \A r \in Requests :
       /\ req[r].table \in Maybe(Tables) /\ req[r].target \in Maybe(Tables)
       /\ req[r].order \in Maybe(Orders) /\ req[r].session \in Maybe(Sessions)
       /\ req[r].todo \subseteq {"session", "table"}

\* However tills, moves and reopened sessions interleave, a table has one active
\* bill session (idx_table_bill_sessions_table_active, 23505 handled).
OneBillPerTable == \A t \in Tables : Cardinality(Active(t)) <= 1

\* A bill that is paid or cancelled takes no more of its guests' orders, whether or
\* not its session was closed and its QR revoked (submit_table_qr_order_tx).
FinishedBillFrozen ==
  [][\A o \in Orders : order[o].status \in {"completed", "cancelled"}
                         => order'[o].items = order[o].items]_vars

Quiet == \A r \in Requests : At(r, "idle")
Shown(o) == \E s \in Active(order[o].table) : sess[s].order = o

\* Until something fails, between requests every unpaid bill is the bill of its
\* table's active session, so that the till, which looks bills up through the
\* session, can reach it (attachOrderToTableSession, move-bill,
\* submit_table_qr_order_tx).
BillIsShown ==
  Quiet /\ faults = 0 => \A o \in Orders : order[o].status = "queued" => Shown(o)

\* Until something fails, between requests a table is occupied or ordering just
\* while it has an active session (openTableBillSession, move-bill, the release
\* after payment and cancel).
TableAgrees ==
  Quiet /\ faults = 0 => \A t \in Tables : table[t] \in Seated <=> Active(t) # {}

\* "When the table bill session becomes closed or cancelled, a database trigger
\* revokes the QR immediately" (README.md:706).
ClosedBillRevokesQr ==
  \A s \in Sessions : sess[s].state \in {"closed", "cancelled"} => qr[s] \notin {"live", "stale"}

=============================================================================
