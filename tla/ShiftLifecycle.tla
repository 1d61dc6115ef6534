--------------------------- MODULE ShiftLifecycle ---------------------------
(***************************************************************************)
(* The cash shifts of a branch, the tills that work in them and the        *)
(* dine-in bills that hang on them.  A till is a row of pos_sessions with  *)
(* the device it was logged in on; a request of a till is served by a      *)
(* handler that makes one database call after the other, so that the       *)
(* handlers of double clicks, of other tills and of the back office        *)
(* interleave between any two calls.  The server keeps the session rows it *)
(* has read for a few seconds.                                             *)
(***************************************************************************)
EXTENDS Naturals, Sequences, FiniteSets, FiniteSetsExt

CONSTANTS Tills,          \* active sessions
          Devices,
          NoDevice,       \* device_code is null
          DeviceOf,       \* DeviceOf[t]: pos_sessions.device_code
          Requests,       \* slots for requests that are served at the same time
          TillOf,         \* the till of each request
          Bills,          \* places for unpaid dine-in orders
          Uncached,       \* the server holds no row of that session
          MaxShifts       \* bound: shifts that are ever opened

ASSUME ConstantsAssumption ==
  /\ NoDevice \notin Devices
  /\ DeviceOf \in [Tills -> Devices \union {NoDevice}]
  /\ TillOf \in [Requests -> Tills]
  /\ Uncached \notin Nat
  /\ MaxShifts \in Nat

VARIABLES
  shift,   \* the rows of shifts by opened_at: their device, and whether they are open, closed, or
           \* closed over unpaid bills ("forced")
  bound,   \* bound[t]: pos_sessions.shift_id, 0 for null
  cached,  \* cached[t]: shift_id in the row of t that the server keeps
  bill,    \* bill[b]: the shift of a queued order, 0 for none, and whether it came after the closing
  request  \* request[r]: the next call of the handler and what it holds

vars == <<shift, bound, cached, bill, request>>

NoBill == [shift |-> 0, late |-> FALSE]
Idle == [pc |-> "idle", shift |-> 0, flag |-> FALSE]

Init ==
  /\ shift = <<>>
  /\ bound = [t \in Tills |-> 0]
  /\ cached = [t \in Tills |-> Uncached]
  /\ bill = [b \in Bills |-> NoBill]
  /\ request = [r \in Requests |-> Idle]

IsOpen(s) == shift[s].how = "open"
Open == {s \in DOMAIN shift : IsOpen(s)}
\* The open shift that a request of t looks for: of its device, if it has one.
OpenFor(t) == {s \in Open : DeviceOf[t] \in {NoDevice, shift[s].device}}
Latest(S) == IF S = {} THEN 0 ELSE Max(S)
\* Bills that app.enforce_shift_close_rules and hasUnpaidDineIn count.
Unpaid(s) == {b \in Bills : bill[b].shift = s}

Call(r, pc, s) == request' = [request EXCEPT ![r].pc = pc, ![r].shift = s]
Answer(r) == request' = [request EXCEPT ![r] = Idle]

\* loadSessionById: the kept row if there is one, else the row, which is kept.
SessionShift(t) == IF cached[t] = Uncached THEN bound[t] ELSE cached[t]
Keep(t) == cached' = [cached EXCEPT ![t] = SessionShift(t)]
\* updateCachedPosSessionShift, on the server that keeps the row or on another.
Cached(t, s) ==
  \/ cached' = cached
  \/ cached[t] # Uncached /\ cached' = [cached EXCEPT ![t] = s]

-----------------------------------------------------------------------------
(* POST /api/pos/shifts/open                                                  *)

OpenLook(r) ==
  LET s == Latest(OpenFor(TillOf[r])) IN
  /\ request[r].pc = "idle"
  /\ Keep(TillOf[r])
  /\ Call(r, IF s = 0 THEN "insert" ELSE "bind", s)
  /\ UNCHANGED <<shift, bound, bill>>

\* Mutant: without the unique indexes.
Unindexed(device) == TRUE

\* The unique indexes on the open shifts: one of each device, one without a device.
Insertable(device) == \A s \in Open : shift[s].device # device

Inserted(device) == Append(shift, [device |-> device, how |-> "open"])

OpenInsert(r) ==
  /\ request[r].pc = "insert"
  /\ Insertable(DeviceOf[TillOf[r]])
  /\ Len(shift) < MaxShifts
  /\ shift' = Inserted(DeviceOf[TillOf[r]])
  /\ Call(r, "bind", Len(shift) + 1)
  /\ UNCHANGED <<bound, cached, bill>>

\* 23505: looks again, and fails when the other shift has gone meanwhile.
OpenConflict(r) ==
  /\ request[r].pc = "insert"
  /\ ~Insertable(DeviceOf[TillOf[r]])
  /\ Call(r, "conflict", 0)
  /\ UNCHANGED <<shift, bound, cached, bill>>

OpenLookAgain(r) ==
  /\ request[r].pc = "conflict"
  /\ OpenFor(TillOf[r]) # {}
  /\ Call(r, "bind", Latest(OpenFor(TillOf[r])))
  /\ UNCHANGED <<shift, bound, cached, bill>>

OpenFails(r) ==
  /\ \/ request[r].pc = "insert"
     \/ request[r].pc = "conflict" /\ OpenFor(TillOf[r]) = {}
  /\ Answer(r)
  /\ UNCHANGED <<shift, bound, cached, bill>>

\* bindSessionToShift does not look at the shift again.
Bind(r) ==
  /\ request[r].pc = "bind"
  /\ bound' = [bound EXCEPT ![TillOf[r]] = request[r].shift]
  /\ Cached(TillOf[r], request[r].shift)
  /\ Answer(r)
  /\ UNCHANGED <<shift, bill>>

-----------------------------------------------------------------------------
(* POST /api/pos/shifts/join and GET /api/pos/session/current                 *)

MayJoin(t, s) ==
  \/ DeviceOf[t] = NoDevice
  \/ shift[s].device \in {NoDevice, DeviceOf[t]}

\* Binds like the others, only that the kept row of the session stays as it is.
JoinCheck(r) ==
  /\ request[r].pc = "idle"
  /\ Keep(TillOf[r])
  /\ \E s \in Open : MayJoin(TillOf[r], s) /\ Call(r, "bind", s)
  /\ UNCHANGED <<shift, bound, bill>>

CurrentRebinds(r) ==
  /\ request[r].pc = "idle"
  /\ SessionShift(TillOf[r]) = 0
  /\ OpenFor(TillOf[r]) # {}
  /\ Keep(TillOf[r])
  /\ Call(r, "bind", Latest(OpenFor(TillOf[r])))
  /\ UNCHANGED <<shift, bound, bill>>

-----------------------------------------------------------------------------
(* requireActiveShift, which lets a till sell, take a payment or close         *)

ActiveShift(t) == IF SessionShift(t) # 0 THEN SessionShift(t) ELSE Latest(OpenFor(t))

\* The till is let in, to close its shift or for anything else, unless its shift is closed.
GuardReads(r, pc) ==
  LET s == ActiveShift(TillOf[r]) IN
  /\ request[r].pc = "idle"
  /\ s # 0
  /\ Keep(TillOf[r])
  /\ IF ~IsOpen(s) THEN Call(r, "clear", 0)
     ELSE IF pc = "close" THEN Call(r, "close", s) ELSE UNCHANGED request
  /\ UNCHANGED <<shift, bound, bill>>

\* missing_active_shift
GuardRefuses(r) ==
  /\ request[r].pc = "idle"
  /\ ActiveShift(TillOf[r]) = 0
  /\ Keep(TillOf[r])
  /\ UNCHANGED <<shift, bound, bill, request>>

\* Mutant: only the row that the server keeps is cleared.
GuardClearsKeptRow(r) ==
  /\ request[r].pc = "clear"
  /\ Cached(TillOf[r], 0)
  /\ Answer(r)
  /\ UNCHANGED <<shift, bound, bill>>

\* clearSessionShiftBinding, whatever the session is bound to by now.
GuardClears(r) ==
  /\ request[r].pc = "clear"
  /\ bound' = [bound EXCEPT ![TillOf[r]] = 0]
  /\ Cached(TillOf[r], 0)
  /\ Answer(r)
  /\ UNCHANGED <<shift, bill>>

\* 4 s have passed.
CacheExpires(t) ==
  /\ cached[t] # Uncached
  /\ cached' = [cached EXCEPT ![t] = Uncached]
  /\ UNCHANGED <<shift, bound, bill, request>>

-----------------------------------------------------------------------------
(* Closing: POST /api/pos/shifts/close by the till, POST /api/pos/shift and   *)
(* POST /api/backoffice/shifts/close by id.                                   *)

Ended(s) == ~IsOpen(s)

\* Mutant: the trigger is dropped.
ClosesUncounted(s, exempt) == shift' = [shift EXCEPT ![s].how = "closed"]

\* app.enforce_shift_close_rules: a shift closes without unpaid bills, or by an exemption.
Closes(s, exempt) ==
  /\ Unpaid(s) = {} \/ exempt
  /\ shift' = [shift EXCEPT ![s].how = IF Unpaid(s) = {} THEN "closed" ELSE "forced"]

\* Exempt is a shift that is overdue, closed without counting the cash.
CloseUpdate(r) ==
  LET s == request[r].shift IN
  /\ request[r].pc = "close"
  /\ IF IsOpen(s) THEN \E overdue \in BOOLEAN : Closes(s, overdue) ELSE UNCHANGED shift
  /\ Call(r, "unbind", s)
  /\ UNCHANGED <<bound, cached, bill>>

\* shift_close_blocked, or any other error of the database.
CloseFails(r) ==
  /\ request[r].pc \in {"close", "endUpdate"}
  /\ Answer(r)
  /\ UNCHANGED <<shift, bound, cached, bill>>

\* Every session bound to the shift; the kept rows stay as they are.
CloseUnbind(r) ==
  /\ request[r].pc = "unbind"
  /\ bound' = [t \in Tills |-> IF bound[t] = request[r].shift THEN 0 ELSE bound[t]]
  /\ Answer(r)
  /\ UNCHANGED <<shift, cached, bill>>

\* executeShiftClose: hasUnpaidDineIn and the cash of the request, or an override.
EndRead(r) ==
  /\ request[r].pc = "idle"
  /\ \E s \in DOMAIN shift, override \in BOOLEAN :
        /\ Unpaid(s) = {} \/ override
        /\ request' = [request EXCEPT ![r] = [pc |-> "endUpdate", shift |-> s, flag |-> override]]
  /\ UNCHANGED <<shift, bound, cached, bill>>

\* The row is written whatever its status: only the figures of one that has ended change.
EndUpdate(r) ==
  LET s == request[r].shift IN
  /\ request[r].pc = "endUpdate"
  /\ IF Ended(s) THEN UNCHANGED shift ELSE Closes(s, request[r].flag)
  /\ Answer(r)
  /\ UNCHANGED <<bound, cached, bill>>

\* POST /api/pos/shift and POST /api/backoffice/shifts open a shift without a device, when
\* none of the branch is open.
BranchLook(r) ==
  /\ request[r].pc = "idle"
  /\ Open = {}
  /\ Call(r, "branchInsert", 0)
  /\ UNCHANGED <<shift, bound, cached, bill>>

BranchInsert(r) ==
  /\ request[r].pc = "branchInsert"
  /\ IF Insertable(NoDevice) /\ Len(shift) < MaxShifts
       THEN shift' = Inserted(NoDevice) ELSE UNCHANGED shift
  /\ Answer(r)
  /\ UNCHANGED <<bound, cached, bill>>

-----------------------------------------------------------------------------
(* Bills are put on a shift by POST /api/pos/sales, which creates or edits    *)
(* them, and by submit_table_qr_order_tx.                                     *)

\* The shift that the till asks for, if it is open, or else the latest of the branch, which a
\* guest's order always takes.  A sale looks twice; the last look is the one that counts.
PlaceRead(r) ==
  /\ request[r].pc = "idle"
  /\ \E s \in Open : Call(r, "place", s)
  /\ UNCHANGED <<shift, bound, cached, bill>>

\* A new bill, or one that is still queued, is written.  Nothing holds the shift open.
Place(r) ==
  LET s == request[r].shift IN
  /\ request[r].pc = "place"
  /\ \E b \in Bills : bill' = [bill EXCEPT ![b] = [shift |-> s, late |-> Ended(s)]]
  /\ Answer(r)
  /\ UNCHANGED <<shift, bound, cached>>

PlaceFails(r) ==
  /\ request[r].pc = "place"
  /\ Answer(r)
  /\ UNCHANGED <<shift, bound, cached, bill>>

\* Paid or cancelled; see OrderPayment.
BillEnds(b) ==
  /\ bill[b] # NoBill
  /\ bill' = [bill EXCEPT ![b] = NoBill]
  /\ UNCHANGED <<shift, bound, cached, request>>

-----------------------------------------------------------------------------
GuardsTill(t) ==
  \E r \in Requests : TillOf[r] = t /\ (GuardRefuses(r) \/ \E pc \in {"close", "any"} : GuardReads(r, pc))

\* What a handler does once it has been called.
Serves(r) ==
  \/ OpenInsert(r) \/ OpenConflict(r) \/ OpenLookAgain(r) \/ OpenFails(r) \/ Bind(r)
  \/ GuardClears(r) \/ CloseUpdate(r) \/ CloseFails(r) \/ CloseUnbind(r) \/ EndUpdate(r)
  \/ BranchInsert(r) \/ Place(r) \/ PlaceFails(r)

Calls(r) ==
  OpenLook(r) \/ JoinCheck(r) \/ CurrentRebinds(r) \/ EndRead(r) \/ BranchLook(r) \/ PlaceRead(r)

Next ==
  \/ \E r \in Requests : Calls(r) \/ Serves(r)
  \/ \E t \in Tills : GuardsTill(t) \/ CacheExpires(t)
  \/ \E b \in Bills : BillEnds(b)

\* Handlers get on, kept rows expire, and the people at a till keep trying to use it.
Fairness ==
  /\ \A r \in Requests : WF_vars(Serves(r))
  /\ \A t \in Tills : WF_vars(CacheExpires(t)) /\ SF_vars(GuardsTill(t))

Spec == Init /\ [][Next]_vars /\ Fairness

-----------------------------------------------------------------------------
ShiftRow == [device : Devices \union {NoDevice}, how : {"open", "closed", "forced"}]
Calling == {"idle", "insert", "conflict", "bind", "clear", "close", "unbind", "endUpdate",
            "branchInsert", "place"}

\* Every variable has its type, and no session, bill or request names a shift that was never
\* opened.
TypeOK ==
  /\ shift \in Seq(ShiftRow) /\ Len(shift) <= MaxShifts
  /\ bound \in [Tills -> 0 .. Len(shift)]
  /\ cached \in [Tills -> (0 .. Len(shift)) \union {Uncached}]
  /\ bill \in [Bills -> [shift : 0 .. Len(shift), late : BOOLEAN]]
  /\ request \in [Requests -> [pc : Calling, shift : 0 .. Len(shift), flag : BOOLEAN]]

\* However often and from wherever it is asked for, at most one shift of a device is open, and
\* one without a device (202606020002: "Prevent duplicate open shifts").
OneOpenShiftPerDevice ==
  \A s1, s2 \in Open : shift[s1].device = shift[s2].device => s1 = s2

\* A shift that ended without an exemption left no unpaid bill behind: one that is there now
\* was put on the shift by a sale that had looked before the closing and wrote after it.
EndedShiftOwesNothing ==
  \A s \in DOMAIN shift : shift[s].how = "closed" => \A b \in Unpaid(s) : bill[b].late

\* A till of whose device a shift is open is let in at last, or the shift ends: a session row
\* or a kept row that names a shift of the past does not lock it out for good.
TillIsLetIn ==
  \A t \in Tills :
    OpenFor(t) # {} ~> \/ OpenFor(t) = {}
                       \/ IsOpen(ActiveShift(t))
=============================================================================
