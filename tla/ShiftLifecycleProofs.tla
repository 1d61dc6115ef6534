------------------------ MODULE ShiftLifecycleProofs ------------------------
(***************************************************************************)
(* Proofs about ShiftLifecycle for every number of tills, devices, bills   *)
(* and concurrent requests.  A shift enters the table through the unique   *)
(* indexes only, and ends through the trigger only; whatever handlers have *)
(* read before, or the server has kept, they write through these two.      *)
(***************************************************************************)
EXTENDS ShiftLifecycle, WellFoundedInduction, TLAPS

Shifts == 0 .. Len(shift)
IInv == TypeOK /\ OneOpenShiftPerDevice /\ EndedShiftOwesNothing

-----------------------------------------------------------------------------
(* The latest of some shifts                                                  *)

LEMMA Least ==
  ASSUME NEW T, T \subseteq Nat, T # {}
  PROVE  \E x \in T : \A y \in T : x <= y
<1> DEFINE R == {ss \in Nat \X Nat : ss[1] < ss[2]}
<1>1. IsWellFoundedOn(R, Nat)
  BY NatLessThanWellFounded DEF OpToRel
<1>2. PICK x \in T : \A y \in T : ~(<<y, x>> \in R)
  <2> HIDE DEF R
  <2> QED BY <1>1, WFMin
<1>3. ASSUME NEW y \in T PROVE x <= y
  <2>1. x \in Nat /\ y \in Nat /\ ~(<<y, x>> \in R)
    BY <1>2
  <2>2. y < x => <<y, x>> \in R
    BY <2>1
  <2> HIDE DEF R
  <2> QED BY <2>1, <2>2
<1> QED BY <1>3

LEMMA Greatest ==
  ASSUME NEW n \in Nat, NEW S, S \subseteq 0 .. n, S # {}
  PROVE  Max(S) \in S /\ \A y \in S : y <= Max(S)
<1> DEFINE T == {m \in Nat : n - m \in S}
<1>1. PICK s \in S : TRUE
  OBVIOUS
<1>2. n - s \in T
  BY <1>1
<1>3. PICK m \in T : \A y \in T : m <= y
  BY <1>2, Least
<1>4. ASSUME NEW y \in S PROVE n - m >= y
  <2>1. n - y \in Nat /\ n - (n - y) = y /\ y \in Nat
    OBVIOUS
  <2>2. n - y \in T
    BY <2>1
  <2>3. m \in Nat /\ m <= n - y
    BY <1>3, <2>2
  <2> QED BY <2>1, <2>3
<1>5. \E x \in S : \A y \in S : x >= y
  BY <1>3, <1>4
<1>6. Max(S) \in S /\ \A y \in S : Max(S) >= y
  BY <1>5 DEF Max
<1> QED BY <1>6

\* The shift a request looks for is one of the table, or 0.
LEMMA LatestFacts == ASSUME TypeOK, NEW S, S \subseteq Open PROVE Latest(S) \in Shifts
<1>1. Len(shift) \in Nat /\ DOMAIN shift = 1 .. Len(shift)
  BY DEF TypeOK
<1>2. S \subseteq 0 .. Len(shift)
  BY <1>1 DEF Open
<1>3. CASE S = {}
  BY <1>1, <1>3 DEF Latest, Shifts
<1>4. CASE S # {}
  BY <1>1, <1>2, <1>4, Greatest DEF Latest, Shifts
<1> QED BY <1>3, <1>4

LEMMA OpenForFacts == ASSUME TypeOK, NEW t PROVE Latest(OpenFor(t)) \in Shifts
<1>1. OpenFor(t) \subseteq Open
  BY DEF OpenFor
<1> QED BY <1>1, LatestFacts

LEMMA OpenInShifts == ASSUME TypeOK, NEW s \in DOMAIN shift PROVE s \in Shifts
<1>1. Len(shift) \in Nat /\ DOMAIN shift = 1 .. Len(shift)
  BY DEF TypeOK
<1> QED BY <1>1 DEF Shifts

-----------------------------------------------------------------------------
(* Rows that name a shift                                                     *)

LEMMA Called ==
  ASSUME TypeOK, NEW r \in Requests, NEW pc \in Calling, NEW s \in Nat, NEW n \in Nat, s <= n,
         Len(shift) <= n, Call(r, pc, s)
  PROVE  request' \in [Requests -> [pc : Calling, shift : 0 .. n, flag : BOOLEAN]]
<1> DEFINE Row == [pc : Calling, shift : 0 .. n, flag : BOOLEAN]
           q == [request[r] EXCEPT !.pc = pc, !.shift = s]
<1>1. 0 .. Len(shift) \subseteq 0 .. n
  BY DEF TypeOK
<1>2. request \in [Requests -> Row]
  BY <1>1 DEF TypeOK
<1>3. q \in Row
  <2>1. request[r] \in Row /\ s \in 0 .. n
    BY <1>2
  <2> QED BY <2>1
<1>4. request' = [request EXCEPT ![r] = q]
  BY DEF Call
<1> HIDE DEF q
<1> QED BY <1>2, <1>3, <1>4

LEMMA Answered ==
  ASSUME TypeOK, NEW r \in Requests, Answer(r)
  PROVE  request' \in [Requests -> [pc : Calling, shift : Shifts, flag : BOOLEAN]]
<1>1. Idle \in [pc : Calling, shift : Shifts, flag : BOOLEAN]
  BY DEF Idle, Calling, Shifts, TypeOK
<1> QED BY <1>1 DEF Answer, TypeOK, Shifts

LEMMA CalledHere ==
  ASSUME TypeOK, NEW r \in Requests, NEW pc \in Calling, NEW s \in Shifts, Call(r, pc, s)
  PROVE  request' \in [Requests -> [pc : Calling, shift : Shifts, flag : BOOLEAN]]
<1>1. Len(shift) \in Nat /\ s \in Nat /\ s <= Len(shift)
  BY DEF TypeOK, Shifts
<1> QED BY <1>1, Called DEF Shifts

LEMMA Kept ==
  ASSUME TypeOK, NEW t \in Tills, Keep(t)
  PROVE  cached' \in [Tills -> Shifts \union {Uncached}]
<1>1. SessionShift(t) \in Shifts \union {Uncached}
  BY DEF SessionShift, TypeOK, Shifts
<1> QED BY <1>1 DEF Keep, TypeOK, Shifts

LEMMA CachedFacts ==
  ASSUME TypeOK, NEW t \in Tills, NEW s \in Shifts, Cached(t, s)
  PROVE  cached' \in [Tills -> Shifts \union {Uncached}]
<1> QED BY DEF Cached, TypeOK, Shifts

LEMMA ActiveIsShift == ASSUME TypeOK, NEW t \in Tills PROVE ActiveShift(t) \in Shifts
<1>1. SessionShift(t) \in Shifts
  BY DEF SessionShift, TypeOK, Shifts
<1> QED BY <1>1, OpenForFacts DEF ActiveShift

-----------------------------------------------------------------------------
(* What steps do to the shifts and the bills                                  *)

\* Nothing: sessions, kept rows and handlers move.
LEMMA SameShifts ==
  ASSUME IInv, UNCHANGED <<shift, bill>>,
         bound' \in [Tills -> Shifts], cached' \in [Tills -> Shifts \union {Uncached}],
         request' \in [Requests -> [pc : Calling, shift : Shifts, flag : BOOLEAN]]
  PROVE  IInv'
<1>1. TypeOK'
  BY DEF IInv, TypeOK, Shifts
<1>2. OneOpenShiftPerDevice'
  BY DEF IInv, OneOpenShiftPerDevice, Open, IsOpen
<1>3. EndedShiftOwesNothing'
  BY DEF IInv, EndedShiftOwesNothing, Unpaid
<1> QED BY <1>1, <1>2, <1>3 DEF IInv

\* A shift is inserted where the indexes let it in.
LEMMA ShiftInserted ==
  ASSUME IInv, NEW device \in Devices \union {NoDevice}, Insertable(device), Len(shift) < MaxShifts,
         shift' = Inserted(device), UNCHANGED <<bound, cached, bill>>,
         request' \in [Requests -> [pc : Calling, shift : 0 .. Len(shift) + 1, flag : BOOLEAN]]
  PROVE  IInv'
<1> DEFINE row == [device |-> device, how |-> "open"]
           n == Len(shift) + 1
<1>1. shift \in Seq(ShiftRow) /\ Len(shift) \in Nat /\ MaxShifts \in Nat
  BY ConstantsAssumption DEF IInv, TypeOK
<1>2. row \in ShiftRow /\ row.device = device /\ row.how = "open" /\ shift' = Append(shift, row)
  BY DEF ShiftRow, Inserted
<1> HIDE DEF row
<1>3. shift' \in Seq(ShiftRow) /\ Len(shift') = n /\ shift'[n] = row
      /\ \A s \in 1 .. Len(shift) : shift'[s] = shift[s]
  BY <1>1, <1>2
<1>4. DOMAIN shift = 1 .. Len(shift) /\ DOMAIN shift' = (1 .. Len(shift)) \union {n} /\ n \notin 1 .. Len(shift)
  <2>1. DOMAIN shift' = 1 .. n
    BY <1>3
  <2>2. 1 .. n = (1 .. Len(shift)) \union {n}
    BY <1>1
  <2> QED BY <1>1, <2>1, <2>2
<1>5. 0 .. Len(shift) \subseteq 0 .. n /\ n <= MaxShifts
  BY <1>1
<1>6. TypeOK'
  BY <1>3, <1>5 DEF IInv, TypeOK
<1>7. Open' = Open \union {n}
  BY <1>2, <1>3, <1>4 DEF Open, IsOpen
<1>8. OneOpenShiftPerDevice'
  <2>1. \A s \in Open : s \in 1 .. Len(shift) /\ shift'[s] = shift[s] /\ shift[s].device # device
    BY <1>3, <1>4 DEF Open, Insertable
  <2> QED BY <1>2, <1>3, <1>7, <2>1 DEF IInv, OneOpenShiftPerDevice
<1>9. EndedShiftOwesNothing'
  BY <1>2, <1>3, <1>4 DEF IInv, EndedShiftOwesNothing, Unpaid
<1> QED BY <1>6, <1>8, <1>9 DEF IInv

\* A shift ends: the trigger has counted its bills.
LEMMA ShiftEnds ==
  ASSUME IInv, NEW s, NEW exempt, Closes(s, exempt), UNCHANGED <<bound, bill>>,
         cached' \in [Tills -> Shifts \union {Uncached}],
         request' \in [Requests -> [pc : Calling, shift : Shifts, flag : BOOLEAN]]
  PROVE  IInv'
<1>1. PICK how \in {"closed", "forced"} :
        /\ shift' = [shift EXCEPT ![s].how = how]
        /\ how = "closed" => Unpaid(s) = {}
  BY DEF Closes
<1>2. shift \in Seq(ShiftRow) /\ Len(shift) \in Nat
  BY DEF IInv, TypeOK
<1>3. /\ shift' \in Seq(ShiftRow) /\ Len(shift') = Len(shift) /\ DOMAIN shift' = DOMAIN shift
      /\ \A z \in DOMAIN shift : shift'[z].device = shift[z].device
                                 /\ shift'[z].how = IF z = s THEN how ELSE shift[z].how
  <2>1. CASE s \notin DOMAIN shift
    <3>1. shift' = shift
      BY <1>1, <1>2, <2>1
    <3> QED BY <1>2, <2>1, <3>1
  <2>2. CASE s \in DOMAIN shift
    <3> DEFINE row == [shift[s] EXCEPT !.how = how]
    <3>1. shift[s] \in ShiftRow
      BY <1>2, <2>2
    <3>2. row \in ShiftRow /\ row.device = shift[s].device /\ row.how = how
      BY <3>1 DEF ShiftRow
    <3>3. shift' = [shift EXCEPT ![s] = row]
      BY <1>1
    <3> HIDE DEF row
    <3> QED BY <1>2, <2>2, <3>2, <3>3
  <2> QED BY <2>1, <2>2
<1>4. TypeOK'
  BY <1>3 DEF IInv, TypeOK, Shifts
<1>5. Open' \subseteq Open
  BY <1>3 DEF Open, IsOpen
<1>6. OneOpenShiftPerDevice'
  BY <1>3, <1>5 DEF IInv, OneOpenShiftPerDevice, Open
<1>7. EndedShiftOwesNothing'
  <2> SUFFICES ASSUME NEW z \in DOMAIN shift, shift'[z].how = "closed"
               PROVE  \A b \in Unpaid(z) : bill[b].late
    BY <1>3 DEF EndedShiftOwesNothing, Unpaid
  <2>1. CASE z = s
    BY <1>1, <1>3, <2>1
  <2>2. CASE z # s
    BY <1>3, <2>2 DEF IInv, EndedShiftOwesNothing
  <2> QED BY <2>1, <2>2
<1> QED BY <1>4, <1>6, <1>7 DEF IInv

\* A bill is put on a shift, or ends: on an ended shift it is late.
LEMMA BillWritten ==
  ASSUME IInv, NEW b \in Bills, NEW row \in [shift : Shifts, late : BOOLEAN], bill' = [bill EXCEPT ![b] = row],
         \A s \in DOMAIN shift : row.shift = s /\ shift[s].how = "closed" => row.late,
         UNCHANGED <<shift, bound, cached>>,
         request' \in [Requests -> [pc : Calling, shift : Shifts, flag : BOOLEAN]]
  PROVE  IInv'
<1>1. \A z \in Bills : bill'[z] = IF z = b THEN row ELSE bill[z]
  BY DEF IInv, TypeOK
<1>2. TypeOK'
  BY DEF IInv, TypeOK, Shifts
<1>3. OneOpenShiftPerDevice'
  BY DEF IInv, OneOpenShiftPerDevice, Open, IsOpen
<1>4. EndedShiftOwesNothing'
  BY <1>1 DEF IInv, EndedShiftOwesNothing, Unpaid
<1> QED BY <1>2, <1>3, <1>4 DEF IInv

-----------------------------------------------------------------------------
(* The handlers                                                               *)

LEMMA Typed ==
  ASSUME IInv
  PROVE  /\ TypeOK /\ Len(shift) \in Nat /\ DOMAIN shift = 1 .. Len(shift)
         /\ bound \in [Tills -> Shifts] /\ cached \in [Tills -> Shifts \union {Uncached}]
         /\ request \in [Requests -> [pc : Calling, shift : Shifts, flag : BOOLEAN]]
         /\ \A r \in Requests : TillOf[r] \in Tills /\ request[r].shift \in Shifts
         /\ \A t \in Tills : DeviceOf[t] \in Devices \union {NoDevice}
         /\ 0 \in Shifts
<1> QED BY ConstantsAssumption DEF IInv, TypeOK, Shifts

\* Who only looks, refuses or answers.
LEMMA CallsStep == ASSUME IInv, NEW r \in Requests, Calls(r) PROVE IInv'
<1> DEFINE t == TillOf[r]
<1>1. t \in Tills
  BY Typed
<1>2. CASE OpenLook(r)
  <2> DEFINE s == Latest(OpenFor(t))
  <2>1. s \in Shifts /\ {"insert", "bind"} \subseteq Calling
    BY Typed, OpenForFacts DEF Calling
  <2>2. PICK pc \in {"insert", "bind"} : Call(r, pc, s)
    BY <1>2 DEF OpenLook
  <2>3. Keep(t) /\ UNCHANGED <<shift, bound, bill>>
    BY <1>2 DEF OpenLook
  <2> HIDE DEF s, t
  <2> QED BY <1>1, <2>1, <2>2, <2>3, Typed, CalledHere, Kept, SameShifts
<1>3. CASE JoinCheck(r)
  <2>1. PICK s \in Open : Call(r, "bind", s)
    BY <1>3 DEF JoinCheck
  <2>2. s \in Shifts /\ "bind" \in Calling
    BY Typed, OpenInShifts DEF Open, Calling
  <2>3. Keep(t) /\ UNCHANGED <<shift, bound, bill>>
    BY <1>3 DEF JoinCheck
  <2> QED BY <1>1, <2>1, <2>2, <2>3, Typed, CalledHere, Kept, SameShifts
<1>4. CASE CurrentRebinds(r)
  <2>1. Latest(OpenFor(t)) \in Shifts /\ "bind" \in Calling
    BY Typed, OpenForFacts DEF Calling
  <2>2. Keep(t) /\ Call(r, "bind", Latest(OpenFor(t))) /\ UNCHANGED <<shift, bound, bill>>
    BY <1>4 DEF CurrentRebinds
  <2> QED BY <1>1, <2>1, <2>2, Typed, CalledHere, Kept, SameShifts
<1>5. CASE EndRead(r)
  <2>1. PICK s \in DOMAIN shift, override \in BOOLEAN :
          request' = [request EXCEPT ![r] = [pc |-> "endUpdate", shift |-> s, flag |-> override]]
    BY <1>5 DEF EndRead
  <2>2. s \in Shifts /\ "endUpdate" \in Calling
    BY Typed, OpenInShifts DEF Calling
  <2>3. request' \in [Requests -> [pc : Calling, shift : Shifts, flag : BOOLEAN]]
    BY <2>1, <2>2, Typed
  <2>4. UNCHANGED <<shift, bound, cached, bill>>
    BY <1>5 DEF EndRead
  <2> QED BY <2>3, <2>4, Typed, SameShifts
<1>6. CASE BranchLook(r)
  <2>1. Call(r, "branchInsert", 0) /\ UNCHANGED <<shift, bound, cached, bill>> /\ "branchInsert" \in Calling
    BY <1>6 DEF BranchLook, Calling
  <2> QED BY <2>1, Typed, CalledHere, SameShifts
<1>7. CASE PlaceRead(r)
  <2>1. PICK s \in Open : Call(r, "place", s)
    BY <1>7 DEF PlaceRead
  <2>2. s \in Shifts /\ "place" \in Calling
    BY Typed, OpenInShifts DEF Open, Calling
  <2>3. UNCHANGED <<shift, bound, cached, bill>>
    BY <1>7 DEF PlaceRead
  <2> QED BY <2>1, <2>2, <2>3, Typed, CalledHere, SameShifts
<1> QED BY <1>2, <1>3, <1>4, <1>5, <1>6, <1>7 DEF Calls

LEMMA OpenInsertStep == ASSUME IInv, NEW r \in Requests, OpenInsert(r) PROVE IInv'
<1> DEFINE device == DeviceOf[TillOf[r]]
           n == Len(shift) + 1
<1>1. device \in Devices \union {NoDevice} /\ n \in Nat /\ Len(shift) <= n /\ TypeOK /\ "bind" \in Calling
  BY Typed DEF Calling
<1>2. Insertable(device) /\ Len(shift) < MaxShifts /\ shift' = Inserted(device)
      /\ Call(r, "bind", n) /\ UNCHANGED <<bound, cached, bill>>
  BY DEF OpenInsert
<1>3. request' \in [Requests -> [pc : Calling, shift : 0 .. n, flag : BOOLEAN]]
  <2> HIDE DEF n
  <2> QED BY <1>1, <1>2, Called
<1> HIDE DEF device
<1> QED BY <1>1, <1>2, <1>3, ShiftInserted

LEMMA BranchInsertStep == ASSUME IInv, NEW r \in Requests, BranchInsert(r) PROVE IInv'
<1>1. request' \in [Requests -> [pc : Calling, shift : Shifts, flag : BOOLEAN]]
  BY Typed, Answered DEF BranchInsert
<1>2. UNCHANGED <<bound, cached, bill>>
  BY DEF BranchInsert
<1>3. CASE UNCHANGED shift
  BY <1>1, <1>2, <1>3, Typed, SameShifts
<1>4. CASE Insertable(NoDevice) /\ Len(shift) < MaxShifts /\ shift' = Inserted(NoDevice)
  <2>1. 0 .. Len(shift) \subseteq 0 .. Len(shift) + 1
    BY Typed
  <2>2. request' \in [Requests -> [pc : Calling, shift : 0 .. Len(shift) + 1, flag : BOOLEAN]]
    BY <1>1, <2>1 DEF Shifts
  <2> QED BY <1>2, <1>4, <2>2, ShiftInserted
<1> QED BY <1>3, <1>4 DEF BranchInsert

\* The handlers that bind a session, clear it, or give up.
LEMMA SessionStep ==
  ASSUME IInv, NEW r \in Requests,
         OpenConflict(r) \/ OpenLookAgain(r) \/ OpenFails(r) \/ Bind(r) \/ GuardClears(r)
           \/ CloseFails(r) \/ CloseUnbind(r) \/ PlaceFails(r)
  PROVE  IInv'
<1>1. UNCHANGED <<shift, bill>>
  BY DEF OpenConflict, OpenLookAgain, OpenFails, Bind, GuardClears, CloseFails, CloseUnbind, PlaceFails
<1>2. request' \in [Requests -> [pc : Calling, shift : Shifts, flag : BOOLEAN]]
  <2>1. CASE Answer(r)
    BY <2>1, Typed, Answered
  <2>2. CASE Call(r, "conflict", 0)
    <3>1. "conflict" \in Calling
      BY DEF Calling
    <3> QED BY <2>2, <3>1, Typed, CalledHere
  <2>3. CASE Call(r, "bind", Latest(OpenFor(TillOf[r])))
    <3>1. "bind" \in Calling /\ Latest(OpenFor(TillOf[r])) \in Shifts
      BY Typed, OpenForFacts DEF Calling
    <3> QED BY <2>3, <3>1, Typed, CalledHere
  <2> QED BY <2>1, <2>2, <2>3
          DEF OpenConflict, OpenLookAgain, OpenFails, Bind, GuardClears, CloseFails, CloseUnbind, PlaceFails
<1>3. bound' \in [Tills -> Shifts]
  <2>1. CASE Bind(r)
    BY <2>1, Typed DEF Bind
  <2>2. CASE GuardClears(r)
    BY <2>2, Typed DEF GuardClears
  <2>3. CASE CloseUnbind(r)
    BY <2>3, Typed DEF CloseUnbind
  <2>4. CASE UNCHANGED bound
    BY <2>4, Typed
  <2> QED BY <2>1, <2>2, <2>3, <2>4 DEF OpenConflict, OpenLookAgain, OpenFails, CloseFails, PlaceFails
<1>4. cached' \in [Tills -> Shifts \union {Uncached}]
  <2>1. CASE UNCHANGED cached
    BY <2>1, Typed
  <2>2. ASSUME NEW s \in Shifts, Cached(TillOf[r], s) PROVE cached' \in [Tills -> Shifts \union {Uncached}]
    BY <2>2, Typed, CachedFacts
  <2> QED BY <2>1, <2>2, Typed
          DEF OpenConflict, OpenLookAgain, OpenFails, Bind, GuardClears, CloseFails, CloseUnbind, PlaceFails
<1> QED BY <1>1, <1>2, <1>3, <1>4, SameShifts

\* The two ways to end a shift.
LEMMA EndStep == ASSUME IInv, NEW r \in Requests, CloseUpdate(r) \/ EndUpdate(r) PROVE IInv'
<1> DEFINE s == request[r].shift
<1>1. request' \in [Requests -> [pc : Calling, shift : Shifts, flag : BOOLEAN]]
  <2>1. CASE CloseUpdate(r)
    <3>1. Call(r, "unbind", s) /\ "unbind" \in Calling /\ s \in Shifts
      BY <2>1, Typed DEF CloseUpdate, Calling
    <3> QED BY <3>1, Typed, CalledHere
  <2>2. CASE EndUpdate(r)
    BY <2>2, Typed, Answered DEF EndUpdate
  <2> QED BY <2>1, <2>2
<1>2. UNCHANGED <<bound, cached, bill>>
  BY DEF CloseUpdate, EndUpdate
<1>3. CASE UNCHANGED shift
  BY <1>1, <1>2, <1>3, Typed, SameShifts
<1>4. ASSUME NEW exempt, Closes(s, exempt) PROVE IInv'
  BY <1>1, <1>2, <1>4, Typed, ShiftEnds
<1> QED BY <1>3, <1>4 DEF CloseUpdate, EndUpdate

\* A bill that is written on a shift that has ended since bears the mark.
LEMMA PlaceStep == ASSUME IInv, NEW r \in Requests, Place(r) PROVE IInv'
<1> DEFINE s == request[r].shift
<1>1. PICK b \in Bills : bill' = [bill EXCEPT ![b] = [shift |-> s, late |-> Ended(s)]]
  BY DEF Place
<1> DEFINE row == [shift |-> s, late |-> Ended(s)]
<1>2. row \in [shift : Shifts, late : BOOLEAN] /\ row.shift = s /\ (shift[s].how = "closed" => row.late)
  BY Typed DEF Ended, IsOpen
<1>3. bill' = [bill EXCEPT ![b] = row]
  BY <1>1
<1> HIDE DEF row
<1>4. request' \in [Requests -> [pc : Calling, shift : Shifts, flag : BOOLEAN]]
      /\ UNCHANGED <<shift, bound, cached>>
  BY Typed, Answered DEF Place
<1> QED BY <1>2, <1>3, <1>4, BillWritten

LEMMA BillEndsStep == ASSUME IInv, NEW b \in Bills, BillEnds(b) PROVE IInv'
<1>1. NoBill \in [shift : Shifts, late : BOOLEAN] /\ NoBill.shift = 0 /\ 0 \notin DOMAIN shift
  BY Typed DEF NoBill
<1>2. bill' = [bill EXCEPT ![b] = NoBill] /\ UNCHANGED <<shift, bound, cached, request>>
  BY DEF BillEnds
<1> QED BY <1>1, <1>2, Typed, BillWritten

LEMMA GuardStep == ASSUME IInv, NEW t \in Tills, GuardsTill(t) \/ CacheExpires(t) PROVE IInv'
<1>1. CASE CacheExpires(t)
  BY <1>1, Typed, SameShifts DEF CacheExpires
<1>2. ASSUME NEW r \in Requests, TillOf[r] = t, GuardRefuses(r) PROVE IInv'
  BY <1>2, Typed, Kept, SameShifts DEF GuardRefuses
<1>3. ASSUME NEW r \in Requests, TillOf[r] = t, NEW pc \in {"close", "any"}, GuardReads(r, pc) PROVE IInv'
  <2> DEFINE s == ActiveShift(t)
  <2>1. s \in Shifts /\ {"clear", "close"} \subseteq Calling
    BY Typed, ActiveIsShift DEF Calling
  <2>2. Keep(t) /\ UNCHANGED <<shift, bound, bill>>
        /\ (Call(r, "clear", 0) \/ Call(r, "close", s) \/ UNCHANGED request)
    BY <1>3 DEF GuardReads
  <2> HIDE DEF s
  <2>3. request' \in [Requests -> [pc : Calling, shift : Shifts, flag : BOOLEAN]]
    BY <2>1, <2>2, Typed, CalledHere
  <2> QED BY <2>2, <2>3, Typed, Kept, SameShifts
<1> QED BY <1>1, <1>2, <1>3 DEF GuardsTill

-----------------------------------------------------------------------------
(* The invariant and the theorems                                             *)

LEMMA InitIInv == Init => IInv
<1> SUFFICES ASSUME Init PROVE IInv
  OBVIOUS
<1>1. shift = <<>> /\ Len(shift) = 0 /\ DOMAIN shift = {} /\ shift \in Seq(ShiftRow)
  BY DEF Init
<1>2. Idle \in [pc : Calling, shift : 0 .. 0, flag : BOOLEAN] /\ NoBill \in [shift : 0 .. 0, late : BOOLEAN]
  BY DEF Idle, Calling, NoBill
<1>3. TypeOK
  BY <1>1, <1>2, ConstantsAssumption DEF Init, TypeOK
<1> QED BY <1>1, <1>3 DEF IInv, OneOpenShiftPerDevice, EndedShiftOwesNothing, Open

LEMMA NextIInv == IInv /\ [Next]_vars => IInv'
<1> SUFFICES ASSUME IInv, [Next]_vars PROVE IInv'
  OBVIOUS
<1>1. ASSUME NEW r \in Requests, Serves(r) PROVE IInv'
  BY <1>1, OpenInsertStep, SessionStep, EndStep, BranchInsertStep, PlaceStep DEF Serves
<1>2. CASE UNCHANGED vars
  BY <1>2, Typed, SameShifts DEF vars
<1> QED BY <1>1, <1>2, CallsStep, GuardStep, BillEndsStep DEF Next

LEMMA Invariance == Spec => []IInv
<1> QED BY InitIInv, NextIInv, PTL DEF Spec

\* No session, kept row, bill or handler ever names a shift that was not opened.
THEOREM ShiftTypes == Spec => []TypeOK
<1>1. IInv => TypeOK
  BY DEF IInv
<1> QED BY <1>1, Invariance, PTL

\* However many tills and administrators ask for a shift at once, one is open per device.
THEOREM OpenShiftsAreSingle == Spec => []OneOpenShiftPerDevice
<1>1. IInv => OneOpenShiftPerDevice
  BY DEF IInv
<1> QED BY <1>1, Invariance, PTL

\* What a shift that ended without an exemption has on it came after its end.
THEOREM EndedShiftsOweNothing == Spec => []EndedShiftOwesNothing
<1>1. IInv => EndedShiftOwesNothing
  BY DEF IInv
<1> QED BY <1>1, Invariance, PTL
=============================================================================
