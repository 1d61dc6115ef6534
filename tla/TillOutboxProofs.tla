-------------------------- MODULE TillOutboxProofs --------------------------
(***************************************************************************)
(* Proofs about TillOutbox for every set of baskets and every number of    *)
(* requests and reloads.  Shapes says what the till's memory, its storage  *)
(* and the requests under way look like; Locks that a flag is up just      *)
(* while one awaited request holds it; Kept that what was queued is there; *)
(* Drawn that every key in use was drawn; InFlight what a bill and the     *)
(* transfer after it find when they arrive; Homes and Delivered where the  *)
(* baskets are, in memory and, before a reload has read it, in storage.    *)
(***************************************************************************)
EXTENDS TillOutbox, FiniteSetTheorems, SequenceTheorems, TLAPS

Orders == Keys \union {NoOrder}
Routes == {"sales", "payments"}

\* A payment is for an order that exists; R is row.
Sound(R, e) == e \in Entry /\ (e.to = "payments" => e.order # NoOrder /\ R[e.order] # None)

SaleCalls == {"checkout", "replay", "retry", "send"}
PayCalls == {"sendPay", "transfer", "cash", "payReplay", "payRetry"}

ServerOK(R, S) ==
  /\ R \in [Keys -> Baskets \union {None}]
  /\ S \in [Keys -> SUBSET Keys]
  /\ \A k \in Keys : S[k] # {} => R[k] # None
ScreenOK(c, a, h) == c \in Baskets \union {None} /\ a \in Orders /\ h \in [Baskets -> HeldBill]
ReviewOK(R, v) == v \in Orders /\ (v # NoOrder => R[v] # None)
QueueOK(R, q, to) == q \in Seq(Entry) /\ \A i \in DOMAIN q : q[i].to = to /\ Sound(R, q[i])
CallOK(R, c) ==
  /\ Sound(R, c.entry)
  /\ c.by \in SaleCalls \union PayCalls
  /\ c.by \in SaleCalls <=> c.entry.to = "sales"
CallsOK(R, C) == \A c \in C : CallOK(R, c)
LateOK(R, L) == \A e \in L : Sound(R, e)
DiskOK(R, d) ==
  /\ DOMAIN d = {"cart", "active", "held", "outbox", "payBox"}
  /\ ScreenOK(d.cart, d.active, d.held)
  /\ QueueOK(R, d.outbox, "sales") /\ QueueOK(R, d.payBox, "payments")

Shapes ==
  /\ ServerOK(row, settled)
  /\ ScreenOK(cart, active, held)
  /\ ReviewOK(row, review)
  /\ QueueOK(row, outbox, "sales") /\ QueueOK(row, payBox, "payments")
  /\ CallsOK(row, calls)
  /\ LateOK(row, late)
  /\ DiskOK(row, disk)
  /\ issued \in Nat /\ reloads \in Nat
  /\ DOMAIN past = {"kept", "dropped", "lost", "rung", "cancelled", "torn"}

\* The flags that an awaited request holds.
HeldBy(by) ==
  CASE by \in {"checkout", "send"} -> {"submitting", "lock"}
    [] by = "replay" -> {"replay", "submitting"}
    [] by = "retry" -> {"submitting"}
    [] by = "sendPay" -> {"submitting", "lock", "transfer"}
    [] by \in {"transfer", "payRetry"} -> {"transfer"}
    [] by = "payReplay" -> {"payReplay", "transfer"}
    [] by = "cash" -> {"cash"}

\* While a bill is sent for the first time, no payment begins; while the till reads its storage,
\* nothing is awaited.
First == {"checkout", "send"}
Locks ==
  /\ hydrated \/ calls = {}
  /\ busy = UNION {HeldBy(c.by) : c \in calls}
  /\ \A c, d \in calls : c # d => HeldBy(c.by) \intersect HeldBy(d.by) = {}
  /\ (\E c \in calls : c.by \in First) => review = NoOrder /\ busy \intersect {"transfer", "cash"} = {}

Kept == AcceptedIsKept

\* A bill has a key that was drawn, and edits an order whose key was drawn.
OldBill(n, e) == e.to = "sales" => e.key <= n /\ e.order <= n
OldScreen(n, a, h) == a <= n /\ \A b \in Baskets : h[b].order <= n
OldQueue(n, q) == \A i \in DOMAIN q : OldBill(n, q[i])
Drawn ==
  /\ \A k \in Keys : row[k] # None => k <= issued
  /\ OldScreen(issued, active, held) /\ OldScreen(issued, disk.active, disk.held)
  /\ OldQueue(issued, outbox) /\ OldQueue(issued, disk.outbox)
  /\ \A c \in calls : OldBill(issued, c.entry)
  /\ \A e \in late : OldBill(issued, e)

\* No bill that may still arrive touches the order k; L is late.
Untouched(L, k) == \A e \in L : e.to = "sales" => e.order # k
\* What a bill and the transfer of a delivery app find when they arrive.
InFlight ==
  \A c \in calls :
    /\ c.by \in First => cart = c.entry.basket
    /\ c.by = "send" =>
         /\ c.entry.basket \in Delivery /\ c.entry.order = NoOrder
         /\ row[c.entry.key] = None
         /\ Untouched(late, c.entry.key) /\ \A e \in late : e.to = "sales" => e.key # c.entry.key
    /\ c.by = "sendPay" =>
         row[c.entry.order] = c.entry.basket /\ Untouched(late, c.entry.order)

\* The basket b is in the queue q once at most, and then neither in the cart c nor held in h; and
\* it has been rung up (it is in u) when it is anywhere.
InQueue(q) == {q[i].basket : i \in DOMAIN q}
Once(q, b) == \A i, j \in DOMAIN q : q[i].basket = b /\ q[j].basket = b => i = j
Placed(q, c, h, u) ==
  \A b \in Baskets \ Delivery :
    /\ Once(q, b)
    /\ b \in InQueue(q) => c # b /\ h[b].status # "held"
    /\ c = b => h[b].status # "held"
    /\ b \in InQueue(q) \/ c = b \/ h[b].status = "held" => b \in u
Homes ==
  past.torn \/ /\ Placed(outbox, cart, held, past.rung)
               /\ hydrated \/ Placed(disk.outbox, disk.cart, disk.held, past.rung)

\* An order with the items of b is paid; R is row and S is settled.
Paid(R, S, b) == \E k \in Keys : R[k] = b /\ S[k] # {}
Listed(h, b) ==
  /\ h[b].status # "held"
  /\ b \in past.rung \ past.cancelled /\ h[b] = Free => Paid(row, settled, b)
\* A delivery bill is in the cart only while it is sent.
Delivered ==
  past.torn \/
  IF hydrated THEN /\ \A b \in Delivery : Listed(held, b)
                   /\ cart \in Delivery => \E c \in calls : c.by = "send"
  ELSE \A b \in Delivery : Listed(disk.held, b) /\ disk.cart # b

IInv == Shapes /\ Locks /\ Kept /\ Drawn /\ InFlight /\ Homes /\ Delivered

-----------------------------------------------------------------------------
(* Queues                                                                     *)

LEMMA EnqueueFacts ==
  ASSUME NEW R, NEW to, NEW q, QueueOK(R, q, to), NEW e, e.to = to, Sound(R, e)
  PROVE  /\ QueueOK(R, Enqueue(q, e), to)
         /\ KeysOf(q) \subseteq KeysOf(Enqueue(q, e)) /\ e.key \in KeysOf(Enqueue(q, e))
<1>1. CASE e.key \in KeysOf(q)
  BY <1>1 DEF Enqueue
<1>2. CASE e.key \notin KeysOf(q)
  <2>1. PICK r : r = Append(q, e)
    OBVIOUS
  <2>2. q \in Seq(Entry) /\ e \in Entry
    BY DEF QueueOK, Sound
  <2>3. /\ r \in Seq(Entry) /\ Len(r) = Len(q) + 1
        /\ \A i \in DOMAIN q : i \in DOMAIN r /\ r[i] = q[i]
        /\ r[Len(r)] = e /\ Len(r) \in DOMAIN r
        /\ \A i \in DOMAIN r : i \in DOMAIN q \/ r[i] = e
    BY <2>1, <2>2
  <2>4. QueueOK(R, r, to)
    BY <2>3 DEF QueueOK
  <2>5. KeysOf(q) \subseteq KeysOf(r) /\ e.key \in KeysOf(r)
    BY <2>3 DEF KeysOf
  <2>6. Enqueue(q, e) = r
    BY <1>2, <2>1 DEF Enqueue
  <2> QED BY <2>4, <2>5, <2>6
<1> QED BY <1>1, <1>2

LEMMA Removed ==
  ASSUME NEW q \in Seq(Entry), NEW i \in DOMAIN q
  PROVE  /\ RemoveAt(q, i) \in Seq(Entry) /\ Len(RemoveAt(q, i)) = Len(q) - 1
         /\ DOMAIN RemoveAt(q, i) = 1 .. Len(q) - 1
         /\ \A j \in 1 .. i - 1 : RemoveAt(q, i)[j] = q[j]
         /\ \A j \in i .. Len(q) - 1 : RemoveAt(q, i)[j] = q[j + 1]
<1>1. i \in DOMAIN q /\ q \in Seq(Entry)
  OBVIOUS
<1>2. q \in Seq(Entry) /\ Len(q) \in Nat /\ DOMAIN q = 1 .. Len(q)
  BY <1>1
<1>3. PICK a : a = SubSeq(q, 1, i - 1)
  OBVIOUS
<1>4. PICK b : b = SubSeq(q, i + 1, Len(q))
  OBVIOUS
<1>5. /\ a \in Seq(Entry) /\ Len(a) = i - 1
      /\ \A j \in 1 .. i - 1 : a[j] = q[j]
  BY <1>1, <1>2, <1>3
<1>6. /\ b \in Seq(Entry) /\ Len(b) = Len(q) - i
      /\ \A j \in 1 .. Len(q) - i : b[j] = q[i + j]
  <2>1. \A j \in i + 1 .. Len(q) : q[j] \in Entry
    BY <1>1, <1>2
  <2>2. /\ b \in Seq(Entry)
        /\ Len(b) = IF i + 1 <= Len(q) THEN Len(q) - (i + 1) + 1 ELSE 0
        /\ \A j \in 1 .. Len(q) - (i + 1) + 1 : b[j] = q[i + 1 + j - 1]
    <3>1. i + 1 \in Int /\ Len(q) \in Int
      BY <1>1, <1>2
    <3>2. PICK m \in Int, n \in Int : m = i + 1 /\ n = Len(q)
      BY <3>1
    <3>3. /\ SubSeq(q, m, n) \in Seq(Entry)
          /\ Len(SubSeq(q, m, n)) = IF m <= n THEN n - m + 1 ELSE 0
          /\ \A j \in 1 .. n - m + 1 : SubSeq(q, m, n)[j] = q[m + j - 1]
      <4>1. \A j \in m .. n : q[j] \in Entry
        BY <2>1, <3>2
      <4> QED BY <4>1, SubSeqProperties
    <3> QED BY <1>4, <3>2, <3>3
  <2>3. i \in Nat /\ i >= 1 /\ i <= Len(q)
    BY <1>1, <1>2
  <2>4. \A j \in 1 .. Len(q) - i : b[j] = q[i + j]
    <3> SUFFICES ASSUME NEW j \in 1 .. Len(q) - i PROVE b[j] = q[i + j]
      OBVIOUS
    <3>1. j \in 1 .. Len(q) - (i + 1) + 1 /\ i + 1 + j - 1 = i + j
      BY <1>2, <2>3
    <3> QED BY <2>2, <3>1
  <2>5. Len(b) = Len(q) - i
    BY <1>2, <2>2, <2>3
  <2> QED BY <2>2, <2>4, <2>5
<1>7. PICK r : r = a \o b
  OBVIOUS
<1>8. /\ r \in Seq(Entry) /\ Len(r) = Len(q) - 1 /\ DOMAIN r = 1 .. Len(q) - 1
      /\ \A j \in 1 .. i - 1 : r[j] = q[j]
      /\ \A j \in i .. Len(q) - 1 : r[j] = q[j + 1]
  <2>1. /\ r \in Seq(Entry) /\ Len(r) = Len(a) + Len(b)
        /\ \A j \in 1 .. Len(a) + Len(b) :
             r[j] = IF j <= Len(a) THEN a[j] ELSE b[j - Len(a)]
    <3>1. a \in Seq(Entry) /\ b \in Seq(Entry)
      BY <1>5, <1>6
    <3> QED BY <1>7, <3>1, ConcatProperties, Zenon
  <2>2. i \in Nat /\ i >= 1 /\ i <= Len(q)
    BY <1>1, <1>2
  <2>3. Len(r) = Len(q) - 1 /\ DOMAIN r = 1 .. Len(q) - 1
    BY <1>2, <1>5, <1>6, <2>1, <2>2
  <2>4. \A j \in 1 .. i - 1 : r[j] = q[j]
    BY <1>2, <1>5, <1>6, <2>1, <2>2
  <2>5. ASSUME NEW j \in i .. Len(q) - 1 PROVE r[j] = q[j + 1]
    <3>1. /\ j \in 1 .. Len(a) + Len(b) /\ ~(j <= Len(a)) /\ j - Len(a) \in 1 .. Len(q) - i
          /\ i + (j - Len(a)) = j + 1
      BY <1>2, <1>5, <1>6, <2>2
    <3>2. r[j] = b[j - Len(a)]
      BY <2>1, <3>1
    <3> QED BY <1>6, <3>1, <3>2
  <2> QED BY <2>1, <2>3, <2>4, <2>5
<1>9. RemoveAt(q, i) = r
  BY <1>3, <1>4, <1>7 DEF RemoveAt
<1> QED BY <1>8, <1>9

LEMMA DequeueFacts ==
  ASSUME NEW R, NEW to, NEW q, QueueOK(R, q, to), NEW key
  PROVE  /\ QueueOK(R, Dequeue(q, key), to)
         /\ KeysOf(q) \subseteq KeysOf(Dequeue(q, key)) \union {key}
<1>1. CASE key \notin KeysOf(q)
  BY <1>1 DEF Dequeue
<1>2. CASE key \in KeysOf(q)
  <2>1. PICK i \in DOMAIN q : q[i].key = key /\ i = CHOOSE j \in DOMAIN q : q[j].key = key
    BY <1>2 DEF KeysOf
  <2>2. q \in Seq(Entry) /\ Len(q) \in Nat /\ DOMAIN q = 1 .. Len(q)
    BY DEF QueueOK
  <2>3. PICK r : r = RemoveAt(q, i)
    OBVIOUS
  <2>4. /\ r \in Seq(Entry) /\ Len(r) = Len(q) - 1 /\ DOMAIN r = 1 .. Len(q) - 1
        /\ \A j \in 1 .. i - 1 : r[j] = q[j]
        /\ \A j \in i .. Len(q) - 1 : r[j] = q[j + 1]
    BY <2>1, <2>2, <2>3, Removed
  <2>5. QueueOK(R, r, to)
    <3> SUFFICES ASSUME NEW j \in DOMAIN r PROVE r[j].to = to /\ Sound(R, r[j])
      BY <2>4 DEF QueueOK
    <3>0. i \in 1 .. Len(q) /\ j \in 1 .. Len(q) - 1
      BY <2>1, <2>2, <2>4
    <3>1. \E k \in DOMAIN q : r[j] = q[k]
      <4>1. CASE j < i
        <5>1. j \in DOMAIN q /\ j \in 1 .. i - 1
          BY <2>1, <2>2, <2>4, <4>1
        <5> QED BY <2>4, <5>1, Zenon
      <4>2. CASE j >= i
        <5>1. j + 1 \in DOMAIN q /\ j \in i .. Len(q) - 1
          BY <2>1, <2>2, <2>4, <4>2
        <5> QED BY <2>4, <5>1
      <4>3. j < i \/ j >= i
        BY <2>1, <2>2, <2>4
      <4> QED BY <4>1, <4>2, <4>3, Zenon
    <3> QED BY <3>1 DEF QueueOK
  <2>6. KeysOf(q) \subseteq KeysOf(r) \union {key}
    <3>1. ASSUME NEW k \in DOMAIN q, k # i PROVE \E j \in DOMAIN r : r[j] = q[k]
      <4>1. CASE k < i
        <5>1. k \in DOMAIN r /\ k \in 1 .. i - 1
          BY <2>1, <2>2, <2>4, <4>1
        <5> QED BY <2>4, <5>1, Zenon
      <4>2. CASE k > i
        <5>1. k - 1 \in DOMAIN r /\ k - 1 \in i .. Len(q) - 1 /\ (k - 1) + 1 = k
          BY <2>1, <2>2, <2>4, <4>2
        <5> QED BY <2>4, <5>1
      <4>3. k < i \/ k > i
        BY <2>1, <2>2, <3>1
      <4> QED BY <4>1, <4>2, <4>3, Zenon
    <3>2. ASSUME NEW k \in DOMAIN q, k # i PROVE q[k].key \in KeysOf(r)
      <4>1. PICK j \in DOMAIN r : r[j] = q[k]
        BY <3>1, <3>2, Zenon
      <4> QED BY <4>1 DEF KeysOf
    <3> QED BY <2>1, <3>2 DEF KeysOf
  <2>7. Dequeue(q, key) = r
    BY <1>2, <2>1, <2>3 DEF Dequeue
  <2> QED BY <2>5, <2>6, <2>7
<1> QED BY <1>1, <1>2

LEMMA HeadFacts ==
  ASSUME NEW R, NEW to, NEW q, QueueOK(R, q, to), q # <<>>
  PROVE  Sound(R, Head(q)) /\ Head(q).to = to
<1>1. q \in Seq(Entry) /\ 1 \in DOMAIN q /\ Head(q) = q[1]
  BY DEF QueueOK
<1> QED BY <1>1 DEF QueueOK

LEMMA EmptyQueue == ASSUME NEW R, NEW to PROVE QueueOK(R, <<>>, to) /\ KeysOf(<<>>) = {}
BY DEF QueueOK, KeysOf

-----------------------------------------------------------------------------
(* Shapes: one frame lemma, and what the values that an action makes look like *)

\* Rows of bills are never deleted.
Grows(R, S) == \A k \in Keys : R[k] # None => S[k] # None

\* What a step may do to the state without spoiling its shape.
Moves ==
  /\ Grows(row, row') /\ ServerOK(row', settled')
  /\ cart' \in Baskets \union {None, cart}
  /\ active' \in Orders \union {active}
  /\ review' \in {review, NoOrder} \/ ReviewOK(row', review')
  /\ held' = held \/ held' \in [Baskets -> HeldBill]
  /\ outbox' = outbox \/ QueueOK(row', outbox', "sales")
  /\ payBox' = payBox \/ QueueOK(row', payBox', "payments")
  /\ \A c \in calls' : c \in calls \/ CallOK(row', c)
  /\ \A e \in late' : e \in late \/ Sound(row', e)
  /\ disk' = disk \/ DiskOK(row', disk')
  /\ issued' \in Nat /\ reloads' \in Nat
  /\ DOMAIN past' = DOMAIN past

LEMMA Lift ==
  ASSUME NEW R, NEW S, Grows(R, S)
  PROVE  /\ \A e : Sound(R, e) => Sound(S, e)
         /\ \A v : ReviewOK(R, v) => ReviewOK(S, v)
         /\ \A q, to : QueueOK(R, q, to) => QueueOK(S, q, to)
         /\ \A c : CallOK(R, c) => CallOK(S, c)
         /\ \A d : DiskOK(R, d) => DiskOK(S, d)
<1>1. \A e : Sound(R, e) => Sound(S, e)
  BY DEF Sound, Grows, Entry, NoOrder
<1>2. \A v : ReviewOK(R, v) => ReviewOK(S, v)
  BY DEF ReviewOK, Grows, Orders
<1>3. \A q, to : QueueOK(R, q, to) => QueueOK(S, q, to)
  BY <1>1 DEF QueueOK
<1>4. \A c : CallOK(R, c) => CallOK(S, c)
  BY <1>1 DEF CallOK
<1>5. \A d : DiskOK(R, d) => DiskOK(S, d)
  BY <1>3 DEF DiskOK
<1> QED BY <1>1, <1>2, <1>3, <1>4, <1>5

LEMMA Moved == ASSUME Shapes, Moves PROVE Shapes'
<1>1. /\ ServerOK(row', settled') /\ ScreenOK(cart', active', held')
      /\ issued' \in Nat /\ reloads' \in Nat
      /\ DOMAIN past' = {"kept", "dropped", "lost", "rung", "cancelled", "torn"}
  BY DEF Shapes, Moves, ScreenOK
<1>2. ReviewOK(row', review')
  <2>1. ReviewOK(row', review) /\ ReviewOK(row', NoOrder)
    BY Lift DEF Shapes, Moves, ReviewOK, Orders
  <2> QED BY <2>1 DEF Moves
<1>3. QueueOK(row', outbox', "sales") /\ QueueOK(row', payBox', "payments")
  <2>1. QueueOK(row', outbox, "sales") /\ QueueOK(row', payBox, "payments")
    BY Lift DEF Shapes, Moves
  <2> QED BY <2>1 DEF Moves
<1>4. CallsOK(row', calls') /\ LateOK(row', late')
  <2>1. \A c \in calls : CallOK(row', c)
    BY Lift DEF Shapes, Moves, CallsOK
  <2>2. \A e \in late : Sound(row', e)
    BY Lift DEF Shapes, Moves, LateOK
  <2> QED BY <2>1, <2>2 DEF Moves, CallsOK, LateOK
<1>5. DiskOK(row', disk')
  <2>1. DiskOK(row', disk)
    BY Lift DEF Shapes, Moves
  <2> QED BY <2>1 DEF Moves
<1> QED BY <1>1, <1>2, <1>3, <1>4, <1>5 DEF Shapes

LEMMA SameServer ==
  ASSUME Shapes, UNCHANGED server
  PROVE  /\ row' = row /\ Grows(row, row') /\ ServerOK(row', settled')
         /\ served' = served
BY DEF Shapes, server, Grows

LEMMA CarriedOut ==
  ASSUME Shapes, NEW e, Sound(row, e), CarryOut(e)
  PROVE  /\ Grows(row, row') /\ ServerOK(row', settled')
         /\ served \subseteq served' /\ e.key \in served'
         /\ e.to = "sales" => Sold(e) \in Keys /\ row'[Sold(e)] \in Baskets
<1> USE ConstantsAssumption
<1>1. e \in Entry /\ e.key \in Keys /\ e.basket \in Baskets /\ e.order \in Orders
  BY DEF Sound, Entry, Orders
<1>2. /\ row \in [Keys -> Baskets \union {None}]
      /\ settled \in [Keys -> SUBSET Keys]
      /\ \A k \in Keys : settled[k] # {} => row[k] # None
  BY DEF Shapes, ServerOK
<1>3. CASE e.to = "sales"
  <2>1. PICK k : k = Sold(e)
    OBVIOUS
  <2>2. PICK b : b = IF Editable(e.order) \/ row[e.key] = None THEN e.basket ELSE row[k]
    OBVIOUS
  <2>3. k \in Keys
    BY <1>1, <2>1 DEF Sold, Editable, Orders
  <2>4. b \in Baskets
    BY <1>1, <1>2, <2>1, <2>2, <2>3 DEF Sold
  <2>5. row' = [row EXCEPT ![k] = b] /\ settled' = settled
    BY <1>3, <2>1, <2>2 DEF CarryOut, CarryOutSale
  <2> QED BY <1>1, <1>2, <1>3, <2>1, <2>3, <2>4, <2>5 DEF Grows, ServerOK, CarryOut
<1>4. CASE e.to # "sales"
  <2>1. e.order \in Keys /\ row[e.order] # None
    BY <1>1, <1>4 DEF Sound, Entry, Orders
  <2>2. row' = row /\ settled' = [settled EXCEPT ![e.order] = settled[e.order] \union {e.key}]
    BY <1>4 DEF CarryOut, CarryOutPayment
  <2> QED BY <1>1, <1>2, <1>4, <2>1, <2>2 DEF Grows, ServerOK, CarryOut
<1> QED BY <1>3, <1>4

LEMMA KeyDrawn ==
  ASSUME Shapes, DrawKey
  PROVE  FreshKey \in Keys /\ issued' \in Nat
BY ConstantsAssumption DEF Shapes, DrawKey, MoreToCome, FreshKey, Keys

LEMMA BillSound ==
  ASSUME NEW R, NEW key \in Keys, NEW b \in Baskets, NEW o \in Orders
  PROVE  /\ Sound(R, Bill(key, b, o))
         /\ Bill(key, b, o).to = "sales" /\ Bill(key, b, o).key = key
BY DEF Sound, Bill, Entry, Orders

LEMMA PaymentSound ==
  ASSUME Shapes, NEW key \in Keys, NEW o \in Keys, row[o] # None
  PROVE  /\ Sound(row, Payment(key, o))
         /\ Payment(key, o).to = "payments" /\ Payment(key, o).key = key
<1>1. row[o] \in Baskets
  BY DEF Shapes, ServerOK
<1>2. o # NoOrder
  BY ConstantsAssumption DEF Keys, NoOrder
<1> QED BY <1>1, <1>2 DEF Sound, Payment, Entry

LEMMA CallSound ==
  ASSUME NEW R, NEW e, Sound(R, e), NEW by \in SaleCalls \union PayCalls,
         by \in SaleCalls <=> e.to = "sales"
  PROVE  CallOK(R, Call(by, e)) /\ Call(by, e).by = by /\ Call(by, e).entry = e
BY DEF CallOK, Call

LEMMA StatusSet ==
  ASSUME held \in [Baskets -> HeldBill], NEW b,
         NEW s \in {"none", "held", "pending", "sending", "sent"}
  PROVE  [held EXCEPT ![b].status = s] \in [Baskets -> HeldBill]
<1>1. CASE b \in Baskets
  <2>1. held[b] \in HeldBill
    BY <1>1
  <2>2. [held[b] EXCEPT !.status = s] \in HeldBill
    BY <2>1 DEF HeldBill
  <2> QED BY <1>1, <2>2
<1>2. CASE b \notin Baskets
  BY <1>2
<1> QED BY <1>1, <1>2

LEMMA CallEnds ==
  ASSUME Shapes, NEW c \in calls
  PROVE  /\ CallOK(row, c) /\ Sound(row, c.entry)
         /\ c.entry.key \in Keys /\ c.entry.basket \in Baskets /\ c.entry.order \in Orders
         /\ Answered(c) =>
              /\ Grows(row, row') /\ ServerOK(row', settled')
              /\ served \subseteq served' /\ c.entry.key \in served'
              /\ c.entry.to = "sales" => Sold(c.entry) \in Keys /\ row'[Sold(c.entry)] \in Baskets
              /\ calls' = calls \ {c} /\ late' = late
         /\ Conflict(c) \/ Unsent(c) =>
              /\ Grows(row, row') /\ ServerOK(row', settled')
              /\ row' = row /\ served' = served
              /\ calls' = calls \ {c}
              /\ \A e \in late' : e \in late \/ Sound(row', e)
<1>1. CallOK(row, c) /\ Sound(row, c.entry)
  BY DEF Shapes, CallsOK, CallOK
<1>2. c.entry.key \in Keys /\ c.entry.basket \in Baskets /\ c.entry.order \in Orders
  BY <1>1 DEF Sound, Entry, Orders
<1>3. ASSUME Answered(c)
      PROVE  /\ Grows(row, row') /\ ServerOK(row', settled')
             /\ served \subseteq served' /\ c.entry.key \in served'
             /\ c.entry.to = "sales" => Sold(c.entry) \in Keys /\ row'[Sold(c.entry)] \in Baskets
             /\ calls' = calls \ {c} /\ late' = late
  <2>1. CarryOut(c.entry) /\ calls' = calls \ {c} /\ late' = late
    BY <1>3 DEF Answered
  <2> QED BY <1>1, <2>1, CarriedOut
<1>4. ASSUME Conflict(c) \/ Unsent(c)
      PROVE  /\ Grows(row, row') /\ ServerOK(row', settled')
             /\ row' = row /\ served' = served
             /\ calls' = calls \ {c}
             /\ \A e \in late' : e \in late \/ Sound(row', e)
  <2>1. /\ UNCHANGED server /\ calls' = calls \ {c}
        /\ \A e \in late' : e \in late \/ e = c.entry
    BY <1>4 DEF Conflict, Unsent, Lost, Failed
  <2>2. row' = row /\ Grows(row, row') /\ ServerOK(row', settled') /\ served' = served
    BY <2>1, SameServer
  <2> QED BY <1>1, <2>1, <2>2
<1> QED BY <1>1, <1>2, <1>3, <1>4

\* The cashier's steps that send and queue nothing.
LEMMA ShapesScreen ==
  ASSUME Shapes,
         \/ HoldBill \/ CloseReview
         \/ \E b \in Baskets :
              RingUp(b) \/ StageDelivery(b) \/ CancelDelivery(b) \/ RestoreHeldBill(b)
  PROVE  Shapes'
<1>1. /\ cart \in Baskets \union {None} /\ active \in Orders /\ held \in [Baskets -> HeldBill]
      /\ issued \in Nat /\ reloads \in Nat
  BY DEF Shapes, ScreenOK
<1>2. Free \in HeldBill
  BY DEF Free, HeldBill
<1>3. UNCHANGED server
  BY DEF HoldBill, CloseReview, RingUp, StageDelivery, CancelDelivery, RestoreHeldBill
<1>4. Grows(row, row') /\ ServerOK(row', settled')
  BY <1>3, SameServer
<1>5. CASE HoldBill
  <2>1. cart \in Baskets
    BY <1>1, <1>5 DEF HoldBill
  <2>2. [status |-> "held", order |-> active] \in HeldBill
    BY <1>1 DEF HeldBill, Orders
  <2>3. held' \in [Baskets -> HeldBill]
    BY <1>1, <1>5, <2>1, <2>2 DEF HoldBill
  <2> QED BY <1>1, <1>4, <1>5, <2>3, Moved DEF HoldBill, Moves, Orders, queues
<1>6. CASE CloseReview
  BY <1>1, <1>4, <1>6, Moved DEF CloseReview, Moves, queues
<1>7. ASSUME NEW b \in Baskets, RingUp(b) \/ StageDelivery(b) \/ CancelDelivery(b)
      PROVE  Shapes'
  <2>1. held' = held \/ held' \in [Baskets -> HeldBill]
    <3>1. CASE RingUp(b)
      BY <3>1 DEF RingUp
    <3>2. CASE StageDelivery(b)
      BY <1>1, <3>2, StatusSet DEF StageDelivery
    <3>3. CASE CancelDelivery(b)
      BY <1>1, <1>2, <3>3 DEF CancelDelivery
    <3> QED BY <1>7, <3>1, <3>2, <3>3
  <2> QED BY <1>1, <1>4, <1>7, <2>1, Moved
          DEF RingUp, StageDelivery, CancelDelivery, Moves, Orders, queues
<1>8. ASSUME NEW b \in Baskets, RestoreHeldBill(b)
      PROVE  Shapes'
  <2>1. held[b].order \in Orders
    BY <1>1 DEF HeldBill, Orders
  <2>2. held' \in [Baskets -> HeldBill]
    BY <1>1, <1>2, <1>8 DEF RestoreHeldBill
  <2> QED BY <1>1, <1>4, <1>8, <2>1, <2>2, Moved DEF RestoreHeldBill, Moves, queues
<1> QED BY <1>5, <1>6, <1>7, <1>8

\* Requests sent again.
LEMMA ShapesResend ==
  ASSUME Shapes, Replay \/ Retry \/ PayReplay \/ PayRetry
  PROVE  Shapes'
<1>1. /\ QueueOK(row, outbox, "sales") /\ QueueOK(row, payBox, "payments")
      /\ issued \in Nat /\ reloads \in Nat
  BY DEF Shapes
<1>2. PICK by \in {"replay", "retry", "payReplay", "payRetry"} :
        \/ by \in SaleCalls /\ outbox # <<>> /\ calls' = calls \union {Call(by, Head(outbox))}
        \/ by \notin SaleCalls /\ payBox # <<>> /\ calls' = calls \union {Call(by, Head(payBox))}
  <2>1. {"replay", "retry"} \subseteq SaleCalls /\ {"payReplay", "payRetry"} \intersect SaleCalls = {}
    BY DEF SaleCalls
  <2> QED BY <2>1 DEF Replay, Retry, PayReplay, PayRetry
<1>3. by \in SaleCalls \union PayCalls
  BY DEF SaleCalls, PayCalls
<1>4. UNCHANGED server
  BY DEF Replay, Retry, PayReplay, PayRetry
<1>5. row' = row /\ Grows(row, row') /\ ServerOK(row', settled')
  BY <1>4, SameServer
<1>6. \A c \in calls' : c \in calls \/ CallOK(row', c)
  <2>1. CASE by \in SaleCalls
    <3>1. Sound(row, Head(outbox)) /\ Head(outbox).to = "sales"
      BY <1>1, <1>2, <2>1, HeadFacts
    <3> QED BY <1>2, <1>3, <1>5, <2>1, <3>1, CallSound
  <2>2. CASE by \notin SaleCalls
    <3>1. Sound(row, Head(payBox)) /\ Head(payBox).to = "payments"
      BY <1>1, <1>2, <2>2, HeadFacts
    <3> QED BY <1>2, <1>3, <1>5, <2>2, <3>1, CallSound
  <2> QED BY <2>1, <2>2
<1> QED BY <1>1, <1>5, <1>6, Moved
        DEF Replay, Retry, PayReplay, PayRetry, Moves, screen, queues

\* Bills sent or queued for the first time.
LEMMA ShapesSubmit ==
  ASSUME Shapes,
         \/ CheckoutOffline \/ CheckoutOnline
         \/ \E b \in Baskets : SendOffline(b) \/ SendOnline(b)
  PROVE  Shapes'
<1>1. /\ QueueOK(row, outbox, "sales") /\ held \in [Baskets -> HeldBill]
      /\ cart \in Baskets \union {None} /\ active \in Orders
      /\ issued \in Nat /\ reloads \in Nat
  BY DEF Shapes, ScreenOK
<1>2. DrawKey /\ UNCHANGED server
  BY DEF CheckoutOffline, CheckoutOnline, SendOffline, SendOnline
<1>3. /\ row' = row /\ Grows(row, row') /\ ServerOK(row', settled')
      /\ FreshKey \in Keys /\ issued' \in Nat
  BY <1>2, SameServer, KeyDrawn
<1>4. ASSUME NEW b \in Baskets, NEW o \in Orders
      PROVE  /\ QueueOK(row, Enqueue(outbox, Bill(FreshKey, b, o)), "sales")
             /\ CallOK(row, Call("checkout", Bill(FreshKey, b, o)))
             /\ CallOK(row, Call("send", Bill(FreshKey, b, o)))
  <2>1. Sound(row, Bill(FreshKey, b, o)) /\ Bill(FreshKey, b, o).to = "sales"
    BY <1>3, BillSound
  <2>2. {"checkout", "send"} \subseteq SaleCalls
    BY DEF SaleCalls
  <2> QED BY <1>1, <2>1, <2>2, EnqueueFacts, CallSound
<1>5. NoOrder \in Orders
  BY DEF Orders
<1>6. CASE CheckoutOffline
  <2>1. cart \in Baskets
    BY <1>1, <1>6 DEF CheckoutOffline, CanCheckout
  <2>2. QueueOK(row', outbox', "sales")
    BY <1>1, <1>3, <1>4, <1>6, <2>1 DEF CheckoutOffline
  <2> QED BY <1>1, <1>3, <1>6, <2>2, Moved DEF CheckoutOffline, Moves, Keep
<1>7. CASE CheckoutOnline
  <2>1. cart \in Baskets
    BY <1>1, <1>7 DEF CheckoutOnline, CanCheckout
  <2>2. \A c \in calls' : c \in calls \/ CallOK(row', c)
    BY <1>1, <1>3, <1>4, <1>7, <2>1 DEF CheckoutOnline
  <2> QED BY <1>1, <1>3, <1>7, <2>2, Moved DEF CheckoutOnline, Moves, screen, queues
<1>8. ASSUME NEW b \in Baskets, SendOffline(b) PROVE Shapes'
  <2>1. QueueOK(row', outbox', "sales")
    BY <1>3, <1>4, <1>5, <1>8 DEF SendOffline
  <2>2. held' \in [Baskets -> HeldBill]
    BY <1>1, <1>8, StatusSet DEF SendOffline
  <2> QED BY <1>1, <1>3, <1>5, <1>8, <2>1, <2>2, Moved DEF SendOffline, Moves, Keep
<1>9. ASSUME NEW b \in Baskets, SendOnline(b) PROVE Shapes'
  <2>1. \A c \in calls' : c \in calls \/ CallOK(row', c)
    BY <1>3, <1>4, <1>5, <1>9 DEF SendOnline
  <2>2. held' \in [Baskets -> HeldBill]
    BY <1>1, <1>9, StatusSet DEF SendOnline
  <2> QED BY <1>1, <1>3, <1>5, <1>9, <2>1, <2>2, Moved DEF SendOnline, Moves, queues
<1> QED BY <1>6, <1>7, <1>8, <1>9

\* Payments sent or queued for the first time.
LEMMA ShapesPay ==
  ASSUME Shapes, TransferOffline \/ TransferOnline \/ ConfirmCash
  PROVE  Shapes'
<1>1. /\ QueueOK(row, payBox, "payments") /\ ReviewOK(row, review)
      /\ active \in Orders /\ issued \in Nat /\ reloads \in Nat
  BY DEF Shapes, ScreenOK
<1>2. DrawKey /\ UNCHANGED server /\ review # NoOrder
  BY DEF TransferOffline, TransferOnline, ConfirmCash
<1>3. /\ row' = row /\ Grows(row, row') /\ ServerOK(row', settled')
      /\ FreshKey \in Keys /\ issued' \in Nat
  BY <1>2, SameServer, KeyDrawn
<1>4. review \in Keys /\ row[review] # None
  BY <1>1, <1>2 DEF ReviewOK, Orders
<1>5. Sound(row, Payment(FreshKey, review)) /\ Payment(FreshKey, review).to = "payments"
  BY <1>3, <1>4, PaymentSound
<1>6. QueueOK(row, Enqueue(payBox, Payment(FreshKey, review)), "payments")
  BY <1>1, <1>5, EnqueueFacts
<1>7. /\ CallOK(row, Call("transfer", Payment(FreshKey, review)))
      /\ CallOK(row, Call("cash", Payment(FreshKey, review)))
  <2>1. {"transfer", "cash"} \subseteq PayCalls /\ {"transfer", "cash"} \intersect SaleCalls = {}
    BY DEF PayCalls, SaleCalls
  <2> QED BY <1>5, <2>1, CallSound
<1>8. CASE TransferOffline
  <2>1. ClosedFor(review) \in Orders
    BY <1>1 DEF ClosedFor, Orders
  <2> QED BY <1>1, <1>3, <1>6, <1>8, <2>1, Moved DEF TransferOffline, Moves, Keep
<1>9. CASE TransferOnline
  BY <1>1, <1>3, <1>6, <1>7, <1>9, Moved DEF TransferOnline, Moves, Keep, screen
<1>10. CASE ConfirmCash
  BY <1>1, <1>3, <1>7, <1>10, Moved DEF ConfirmCash, Moves, queues
<1> QED BY <1>2, <1>8, <1>9, <1>10

\* The answers to bills, and what is taken from or put into the queue of bills then.
LEMMA ShapesSales ==
  ASSUME Shapes, NEW c \in calls, Checkout(c) \/ Resent(c) \/ (c.by = "send" /\ SendFails(c))
  PROVE  Shapes'
<1>1. /\ QueueOK(row, outbox, "sales") /\ held \in [Baskets -> HeldBill]
      /\ active \in Orders /\ issued \in Nat /\ reloads \in Nat
  BY DEF Shapes, ScreenOK
<1>2. c.entry.to = "sales" /\ Sound(row, c.entry) /\ c.entry.basket \in Baskets
  <2>1. c.by \in SaleCalls
    BY DEF Checkout, Resent, SaleCalls
  <2> QED BY <2>1, CallEnds DEF CallOK
<1>3. QueueOK(row, Enqueue(outbox, c.entry), "sales") /\ QueueOK(row, Dequeue(outbox, c.entry.key), "sales")
  BY <1>1, <1>2, EnqueueFacts, DequeueFacts
<1>4. Answered(c) \/ Conflict(c) \/ Unsent(c)
  BY DEF Checkout, CheckoutSold, CheckoutRefused, CheckoutLost, Resent, SendFails, Unsent
<1>5. /\ Grows(row, row') /\ ServerOK(row', settled') /\ calls' = calls \ {c}
      /\ \A e \in late' : e \in late \/ Sound(row', e)
  BY <1>4, CallEnds
<1>6. QueueOK(row', Enqueue(outbox, c.entry), "sales") /\ QueueOK(row', Dequeue(outbox, c.entry.key), "sales")
  BY <1>3, <1>5, Lift
<1>7. CASE c.by = "checkout" /\ CheckoutSold(c)
  <2>1. Sold(c.entry) \in Keys /\ row'[Sold(c.entry)] \in Baskets
    BY <1>2, <1>7, CallEnds DEF CheckoutSold
  <2>2. ReviewOK(row', review') /\ active' \in Orders
    BY <1>7, <2>1, ConstantsAssumption DEF CheckoutSold, ReviewOK, Orders
  <2> QED BY <1>1, <1>5, <1>6, <1>7, <2>2, Moved DEF CheckoutSold, Moves
<1>8. CASE CheckoutRefused(c)
  BY <1>1, <1>5, <1>8, Moved DEF CheckoutRefused, Moves, screen, queues
<1>9. CASE CheckoutLost(c)
  BY <1>1, <1>5, <1>6, <1>9, Moved DEF CheckoutLost, Moves, Keep
<1>10. CASE Resent(c)
  BY <1>1, <1>5, <1>6, <1>10, Moved DEF Resent, Moves, screen
<1>11. CASE SendFails(c)
  <2>1. held' \in [Baskets -> HeldBill]
    BY <1>1, <1>11, StatusSet DEF SendFails
  <2> QED BY <1>1, <1>5, <1>6, <1>11, <2>1, Moved DEF SendFails, Moves, Keep
<1> QED BY <1>7, <1>8, <1>9, <1>10, <1>11 DEF Checkout

LEMMA ShapesSendSold ==
  ASSUME Shapes, NEW c \in calls, c.by = "send", SendSold(c)
  PROVE  Shapes'
<1>1. /\ QueueOK(row, outbox, "sales") /\ QueueOK(row, payBox, "payments")
      /\ held \in [Baskets -> HeldBill] /\ reloads \in Nat
  BY DEF Shapes, ScreenOK
<1>2. c.entry.to = "sales" /\ Sound(row, c.entry) /\ c.entry.basket \in Baskets
  <2>1. c.by \in SaleCalls
    BY DEF SaleCalls
  <2> QED BY <2>1, CallEnds DEF CallOK
<1>3. CarryOut(c.entry) /\ DrawKey
  BY DEF SendSold
<1>4. /\ Grows(row, row') /\ ServerOK(row', settled')
      /\ Sold(c.entry) \in Keys /\ row'[Sold(c.entry)] \in Baskets
      /\ FreshKey \in Keys /\ issued' \in Nat
  BY <1>2, <1>3, CarriedOut, KeyDrawn
<1>5. PICK payment : payment = [Payment(FreshKey, Sold(c.entry)) EXCEPT !.basket = c.entry.basket]
  OBVIOUS
<1>6. Sound(row', payment) /\ payment.to = "payments"
  <2>1. Sold(c.entry) # NoOrder
    BY <1>4, ConstantsAssumption DEF Keys, NoOrder
  <2>2. payment = [key |-> FreshKey, to |-> "payments", basket |-> c.entry.basket,
                   order |-> Sold(c.entry)]
    BY <1>5 DEF Payment
  <2>3. row'[Sold(c.entry)] # None
    BY <1>4, ConstantsAssumption
  <2> QED BY <1>2, <1>4, <2>1, <2>2, <2>3 DEF Sound, Entry
<1>7. QueueOK(row', outbox', "sales") /\ QueueOK(row', payBox', "payments")
  <2>1. QueueOK(row', payBox, "payments") /\ QueueOK(row', outbox, "sales")
    BY <1>1, <1>4, Lift
  <2>2. outbox' = Dequeue(outbox, c.entry.key) /\ payBox' = Enqueue(payBox, payment)
    BY <1>5 DEF SendSold
  <2> QED BY <1>6, <2>1, <2>2, EnqueueFacts, DequeueFacts
<1>8. CallOK(row', Call("sendPay", payment))
  <2>1. "sendPay" \in PayCalls /\ "sendPay" \notin SaleCalls
    BY DEF PayCalls, SaleCalls
  <2> QED BY <1>6, <2>1, CallSound
<1>9. \A d \in calls' : d \in calls \/ CallOK(row', d)
  BY <1>5, <1>8 DEF SendSold
<1>10. held' \in [Baskets -> HeldBill]
  BY <1>1, StatusSet DEF SendSold
<1>11. active' \in Orders
  BY <1>4 DEF SendSold, Orders
<1> QED BY <1>1, <1>4, <1>7, <1>9, <1>10, <1>11, Moved DEF SendSold, Moves, Keep

\* The answers to payments.
LEMMA ShapesPaid ==
  ASSUME Shapes, NEW c \in calls, SendPay(c) \/ Transfer(c) \/ Cash(c) \/ PayResent(c)
  PROVE  Shapes'
<1>1. /\ QueueOK(row, payBox, "payments") /\ held \in [Baskets -> HeldBill]
      /\ active \in Orders /\ issued \in Nat /\ reloads \in Nat
  BY DEF Shapes, ScreenOK
<1>2. Sound(row, c.entry) /\ c.entry.to = "payments"
  <2>1. c.by \in PayCalls /\ c.by \notin SaleCalls
    BY DEF SendPay, Transfer, Cash, PayResent, PayCalls, SaleCalls
  <2> QED BY <2>1, CallEnds DEF CallOK, Sound, Entry
<1>3. QueueOK(row, Dequeue(payBox, c.entry.key), "payments")
  BY <1>1, DequeueFacts
<1>4. Answered(c) \/ Unsent(c)
  BY DEF SendPay, SendPaid, SendPayFails, Transfer, TransferPaid, TransferFails, Cash, CashPaid,
         CashFails, PayResent
<1>5. /\ Grows(row, row') /\ ServerOK(row', settled') /\ calls' = calls \ {c}
      /\ \A e \in late' : e \in late \/ Sound(row', e)
  BY <1>4, CallEnds
<1>6. QueueOK(row', Dequeue(payBox, c.entry.key), "payments")
  BY <1>3, <1>5, Lift
<1>7. ClosedFor(c.entry.order) \in Orders
  BY <1>1 DEF ClosedFor, Orders
<1>8. CASE SendPaid(c)
  <2>1. held' \in [Baskets -> HeldBill]
    <3>1. Free \in HeldBill
      BY DEF Free, HeldBill
    <3> QED BY <1>1, <1>8, <3>1 DEF SendPaid
  <2> QED BY <1>1, <1>5, <1>6, <1>7, <1>8, <2>1, Moved DEF SendPaid, Moves
<1>9. CASE SendPayFails(c)
  <2>1. held' \in [Baskets -> HeldBill]
    BY <1>1, <1>9, StatusSet DEF SendPayFails
  <2> QED BY <1>1, <1>5, <1>9, <2>1, Moved DEF SendPayFails, Moves, queues
<1>10. CASE TransferPaid(c)
  BY <1>1, <1>5, <1>6, <1>7, <1>10, Moved DEF TransferPaid, Moves
<1>11. CASE TransferFails(c)
  BY <1>1, <1>5, <1>11, Moved DEF TransferFails, Moves, screen, queues
<1>12. CASE CashPaid(c)
  BY <1>1, <1>5, <1>7, <1>12, Moved DEF CashPaid, Moves, queues
<1>13. CASE CashFails(c)
  <2>1. ReviewOK(row, c.entry.order)
    BY <1>2 DEF Sound, Entry, ReviewOK, Orders
  <2>2. ReviewOK(row', review')
    BY <1>5, <1>13, <2>1, Lift DEF CashFails
  <2> QED BY <1>1, <1>5, <1>13, <2>2, Moved DEF CashFails, Moves, queues
<1>14. CASE PayResent(c)
  BY <1>1, <1>5, <1>6, <1>14, Moved DEF PayResent, Moves, screen
<1> QED BY <1>8, <1>9, <1>10, <1>11, <1>12, <1>13, <1>14 DEF SendPay, Transfer, Cash

\* The server, the browser, the timers and reloads.
LEMMA ShapesAround ==
  ASSUME Shapes,
         \/ \E e \in late : ServeLate(e)
         \/ \E part \in DOMAIN Memory : Persist(part)
         \/ BrowserSaysOnline \/ Reload \/ Hydrate
  PROVE  Shapes'
<1>1. issued \in Nat /\ reloads \in Nat
  BY DEF Shapes
<1>2. ASSUME NEW e \in late, ServeLate(e) PROVE Shapes'
  <2>1. Sound(row, e)
    BY DEF Shapes, LateOK
  <2>2. Grows(row, row') /\ ServerOK(row', settled')
    BY <1>2, <2>1, CarriedOut DEF ServeLate
  <2> QED BY <1>1, <1>2, <2>2, Moved DEF ServeLate, Moves, screen, queues
<1>3. ASSUME NEW part \in DOMAIN Memory, Persist(part) PROVE Shapes'
  <2>1. UNCHANGED server
    BY <1>3 DEF Persist
  <2>2. row' = row /\ Grows(row, row') /\ ServerOK(row', settled')
    BY <2>1, SameServer
  <2>3. PICK m : m = Memory
    OBVIOUS
  <2>4. /\ DOMAIN m = {"cart", "active", "held", "outbox", "payBox"}
        /\ ScreenOK(m.cart, m.active, m.held)
        /\ QueueOK(row, m.outbox, "sales") /\ QueueOK(row, m.payBox, "payments")
    BY <2>3 DEF Memory, Shapes
  <2>5. disk' = [disk EXCEPT ![part] = m[part]]
    BY <1>3, <2>3 DEF Persist
  <2>6. DiskOK(row, disk')
    BY <2>4, <2>5 DEF DiskOK, Shapes, ScreenOK
  <2> QED BY <1>1, <1>3, <2>2, <2>6, Moved DEF Persist, Moves, screen, queues
<1>4. CASE BrowserSaysOnline
  <2>1. UNCHANGED server
    BY <1>4 DEF BrowserSaysOnline
  <2>2. row' = row /\ Grows(row, row') /\ ServerOK(row', settled')
    BY <2>1, SameServer
  <2> QED BY <1>1, <1>4, <2>2, Moved DEF BrowserSaysOnline, Moves, screen, queues
<1>5. CASE Reload
  <2>1. UNCHANGED server
    BY <1>5 DEF Reload
  <2>2. row' = row /\ Grows(row, row') /\ ServerOK(row', settled')
    BY <2>1, SameServer
  <2>3. held' \in [Baskets -> HeldBill]
    BY <1>5 DEF Reload, Free, HeldBill
  <2>4. \A e \in late' : e \in late \/ Sound(row', e)
    <3>1. \A c \in calls : Sound(row, c.entry)
      BY DEF Shapes, CallsOK, CallOK
    <3> QED BY <1>5, <2>2, <3>1 DEF Reload
  <2>5. QueueOK(row', outbox', "sales") /\ QueueOK(row', payBox', "payments")
    BY <1>5, EmptyQueue DEF Reload
  <2> QED BY <1>1, <1>5, <2>2, <2>3, <2>4, <2>5, Moved DEF Reload, Moves, Orders
<1>6. CASE Hydrate
  <2>1. UNCHANGED server
    BY <1>6 DEF Hydrate
  <2>2. row' = row /\ Grows(row, row') /\ ServerOK(row', settled')
    BY <2>1, SameServer
  <2>3. DiskOK(row, disk)
    BY DEF Shapes
  <2> QED BY <1>1, <1>6, <2>2, <2>3, Moved DEF Hydrate, Moves, DiskOK, ScreenOK
<1> QED BY <1>2, <1>3, <1>4, <1>5, <1>6

LEMMA ShapesInit == Init => Shapes
<1> SUFFICES ASSUME Init PROVE Shapes
  OBVIOUS
<1>1. held \in [Baskets -> HeldBill]
  BY DEF Init, Free, HeldBill
<1>2. \A R, to : QueueOK(R, <<>>, to)
  BY EmptyQueue
<1>3. ServerOK(row, settled)
  BY DEF Init, ServerOK
<1>4. ScreenOK(cart, active, held) /\ ReviewOK(row, review)
  BY <1>1 DEF Init, ScreenOK, ReviewOK, Orders
<1>5. /\ QueueOK(row, outbox, "sales") /\ QueueOK(row, payBox, "payments")
      /\ CallsOK(row, calls) /\ LateOK(row, late)
  BY <1>2 DEF Init, CallsOK, LateOK
<1>6. DiskOK(row, disk)
  BY <1>4, <1>5 DEF Init, Memory, DiskOK
<1> QED BY <1>3, <1>4, <1>5, <1>6 DEF Init, Shapes

LEMMA ShapesStep == Shapes /\ [Next]_vars => Shapes'
<1> SUFFICES ASSUME Shapes, [Next]_vars PROVE Shapes'
  OBVIOUS
<1>1. CASE Cashier
  BY <1>1, ShapesScreen, ShapesResend, ShapesSubmit, ShapesPay DEF Cashier
<1>2. CASE TillStep
  <2>1. ASSUME NEW c \in calls,
               Checkout(c) \/ Resent(c) \/ Send(c) \/ SendPay(c) \/ Transfer(c) \/ Cash(c)
                 \/ PayResent(c)
        PROVE  Shapes'
    BY <2>1, ShapesSales, ShapesSendSold, ShapesPaid DEF Send
  <2> QED BY <1>2, <2>1, ShapesResend, ShapesAround DEF TillStep
<1>3. CASE UNCHANGED vars
  BY <1>3 DEF vars, Shapes
<1> QED BY <1>1, <1>2, <1>3 DEF Next

-----------------------------------------------------------------------------
(* Locks                                                                      *)

LEMMA FlagsHeld ==
  /\ HeldBy("checkout") = {"submitting", "lock"} /\ HeldBy("send") = {"submitting", "lock"}
  /\ HeldBy("replay") = {"replay", "submitting"} /\ HeldBy("retry") = {"submitting"}
  /\ HeldBy("sendPay") = {"submitting", "lock", "transfer"}
  /\ HeldBy("transfer") = {"transfer"} /\ HeldBy("payRetry") = {"transfer"}
  /\ HeldBy("payReplay") = {"payReplay", "transfer"}
  /\ HeldBy("cash") = {"cash"}
BY DEF HeldBy

LEMMA KnownCalls ==
  ASSUME Shapes, NEW c \in calls
  PROVE  c.by \in SaleCalls \union PayCalls
BY DEF Shapes, CallsOK, CallOK

\* A flag that two requests would hold is held by one.
LEMMA SharedFlag ==
  ASSUME Locks, NEW c \in calls, NEW d \in calls, NEW f, f \in HeldBy(c.by), f \in HeldBy(d.by)
  PROVE  c = d
BY DEF Locks

LEMMA FlagIsUp ==
  ASSUME Locks
  PROVE  /\ \A f \in busy : \E c \in calls : f \in HeldBy(c.by)
         /\ \A c \in calls : HeldBy(c.by) \subseteq busy
BY DEF Locks

\* Nothing begins or ends.
LEMMA LocksStill ==
  ASSUME Locks, UNCHANGED <<hydrated, busy, calls>>, review' \in {review, NoOrder}
  PROVE  Locks'
BY DEF Locks

\* A request begins while the flags that it takes are down.
LEMMA LocksBegin ==
  ASSUME Locks, hydrated, hydrated', NEW c,
         calls' = calls \union {c}, busy' = busy \union HeldBy(c.by),
         HeldBy(c.by) \intersect busy = {}, review' \in {review, NoOrder},
         \/ c.by \in First /\ review = NoOrder /\ busy \intersect {"transfer", "cash"} = {}
         \/ c.by \notin First /\ ("submitting" \notin busy \/ review # NoOrder)
  PROVE  Locks'
<1>1. busy' = UNION {HeldBy(d.by) : d \in calls'}
  BY DEF Locks
<1>2. \A d \in calls : HeldBy(d.by) \intersect HeldBy(c.by) = {}
  BY FlagIsUp
<1>3. \A d, e \in calls' : d # e => HeldBy(d.by) \intersect HeldBy(e.by) = {}
  BY <1>2 DEF Locks
<1>4. ASSUME NEW d \in calls', d.by \in First
      PROVE  review' = NoOrder /\ busy' \intersect {"transfer", "cash"} = {}
  <2>1. CASE c.by \in First
    BY <2>1, FlagsHeld DEF First
  <2>2. CASE c.by \notin First
    <3>1. d \in calls /\ "submitting" \in busy /\ review = NoOrder
      BY <1>4, <2>2, FlagIsUp, FlagsHeld DEF Locks, First
    <3> QED BY <2>2, <3>1
  <2> QED BY <2>1, <2>2
<1> QED BY <1>1, <1>3, <1>4 DEF Locks

\* A request ends and gives back the flags that it holds, and none that another holds.
LEMMA LocksEnd ==
  ASSUME Locks, NEW c \in calls, NEW F, hydrated' = hydrated,
         calls' = calls \ {c}, busy' = busy \ F,
         HeldBy(c.by) \subseteq F, F \intersect busy \subseteq HeldBy(c.by),
         review' \in {review, NoOrder} \/ \A d \in calls \ {c} : d.by \notin First
  PROVE  Locks'
<1>1. \A d \in calls \ {c} : HeldBy(d.by) \intersect HeldBy(c.by) = {}
  BY DEF Locks
<1>2. busy' = UNION {HeldBy(d.by) : d \in calls'}
  <2>1. ASSUME NEW f \in busy' PROVE f \in UNION {HeldBy(d.by) : d \in calls'}
    <3>1. PICK d \in calls : f \in HeldBy(d.by)
      BY <2>1, FlagIsUp
    <3>2. d # c
      BY <2>1, <3>1
    <3> QED BY <3>1, <3>2
  <2>2. ASSUME NEW d \in calls' PROVE HeldBy(d.by) \subseteq busy'
    BY <1>1, <2>2, FlagIsUp
  <2> QED BY <2>1, <2>2
<1>3. \A d, e \in calls' : d # e => HeldBy(d.by) \intersect HeldBy(e.by) = {}
  BY DEF Locks
<1>4. ASSUME NEW d \in calls', d.by \in First
      PROVE  review' = NoOrder /\ busy' \intersect {"transfer", "cash"} = {}
  BY <1>4 DEF Locks
<1>5. hydrated' \/ calls' = {}
  BY DEF Locks
<1> QED BY <1>2, <1>3, <1>4, <1>5 DEF Locks

\* The steps that send nothing and await nothing.
LEMMA LocksAround ==
  ASSUME Locks,
         \/ HoldBill \/ CloseReview \/ CheckoutOffline \/ TransferOffline
         \/ \E b \in Baskets :
              \/ RingUp(b) \/ StageDelivery(b) \/ CancelDelivery(b) \/ RestoreHeldBill(b)
              \/ SendOffline(b)
         \/ \E e \in late : ServeLate(e)
         \/ \E part \in DOMAIN Memory : Persist(part)
         \/ BrowserSaysOnline \/ Reload \/ Hydrate
  PROVE  Locks'
<1>1. CASE HoldBill \/ CloseReview \/ CheckoutOffline \/ TransferOffline
  BY <1>1, LocksStill DEF HoldBill, CloseReview, CheckoutOffline, TransferOffline
<1>2. ASSUME NEW b \in Baskets,
             \/ RingUp(b) \/ StageDelivery(b) \/ CancelDelivery(b) \/ RestoreHeldBill(b)
             \/ SendOffline(b)
      PROVE  Locks'
  BY <1>2, LocksStill DEF RingUp, StageDelivery, CancelDelivery, RestoreHeldBill, SendOffline
<1>3. ASSUME NEW e \in late, ServeLate(e) PROVE Locks'
  BY <1>3, LocksStill DEF ServeLate, screen
<1>4. ASSUME NEW part \in DOMAIN Memory, Persist(part) PROVE Locks'
  BY <1>4, LocksStill DEF Persist, screen
<1>5. CASE BrowserSaysOnline
  BY <1>5, LocksStill DEF BrowserSaysOnline, screen
<1>6. CASE Reload
  BY <1>6 DEF Reload, Locks
<1>7. CASE Hydrate
  BY <1>7 DEF Hydrate, Locks
<1> QED BY <1>1, <1>2, <1>3, <1>4, <1>5, <1>6, <1>7

\* The steps that send a request.
LEMMA LocksSend ==
  ASSUME Locks,
         \/ CheckoutOnline \/ Replay \/ Retry \/ PayReplay \/ PayRetry
         \/ TransferOnline \/ ConfirmCash
         \/ \E b \in Baskets : SendOnline(b)
  PROVE  Locks'
<1> DEFINE Begins(by) ==
      /\ hydrated /\ hydrated' /\ busy' = busy \union HeldBy(by)
      /\ HeldBy(by) \intersect busy = {}
      /\ \E e : calls' = calls \union {Call(by, e)}
      /\ review' \in {review, NoOrder}
      /\ \/ by \in First /\ review = NoOrder /\ busy \intersect {"transfer", "cash"} = {}
         \/ by \notin First /\ ("submitting" \notin busy \/ review # NoOrder)
<1>1. ASSUME NEW by, Begins(by) PROVE Locks'
  <2>1. PICK e : calls' = calls \union {Call(by, e)}
    BY <1>1
  <2>2. PICK c : c = Call(by, e)
    OBVIOUS
  <2>3. c.by = by
    BY <2>2 DEF Call
  <2> QED BY <1>1, <2>1, <2>2, <2>3, LocksBegin
<1>2. CASE CheckoutOnline
  <2>1. Begins("checkout")
    BY <1>2, FlagsHeld DEF CheckoutOnline, CanCheckout, IsBusy, screen, First
  <2> QED BY <1>1, <2>1
<1>3. CASE Replay
  <2>1. Begins("replay")
    BY <1>3, FlagsHeld DEF Replay, screen, First
  <2> QED BY <1>1, <2>1
<1>4. CASE Retry
  <2>1. Begins("retry")
    BY <1>4, FlagsHeld DEF Retry, IsBusy, screen, First
  <2> QED BY <1>1, <2>1
<1>5. CASE PayReplay
  <2>1. Begins("payReplay")
    BY <1>5, FlagsHeld DEF PayReplay, screen, First
  <2> QED BY <1>1, <2>1
<1>6. CASE PayRetry
  <2>1. Begins("payRetry")
    BY <1>6, FlagsHeld DEF PayRetry, IsBusy, screen, First
  <2> QED BY <1>1, <2>1
<1>7. CASE TransferOnline
  <2>1. Begins("transfer")
    BY <1>7, FlagsHeld DEF TransferOnline, screen, First
  <2> QED BY <1>1, <2>1
<1>8. CASE ConfirmCash
  <2>1. Begins("cash")
    BY <1>8, FlagsHeld DEF ConfirmCash, First
  <2> QED BY <1>1, <2>1
<1>9. ASSUME NEW b \in Baskets, SendOnline(b) PROVE Locks'
  <2>1. Begins("send")
    BY <1>9, FlagsHeld DEF SendOnline, CanSend, IsBusy, First
  <2> QED BY <1>1, <2>1
<1> QED BY <1>2, <1>3, <1>4, <1>5, <1>6, <1>7, <1>8, <1>9

\* Only the request of the replay effect raises its own flag, and the same for payments.
LEMMA OwnFlags ==
  ASSUME Shapes, Locks
  PROVE  /\ "replay" \in busy => \E c \in calls : c.by = "replay"
         /\ "payReplay" \in busy => \E c \in calls : c.by = "payReplay"
         /\ "cash" \in busy => \E c \in calls : c.by = "cash"
<1>1. \A c \in calls : c.by \in SaleCalls \union PayCalls
  BY KnownCalls
<1>2. \A by \in SaleCalls \union PayCalls :
        /\ "replay" \in HeldBy(by) => by = "replay"
        /\ "payReplay" \in HeldBy(by) => by = "payReplay"
        /\ "cash" \in HeldBy(by) => by = "cash"
  BY FlagsHeld DEF SaleCalls, PayCalls
<1> QED BY <1>1, <1>2, FlagIsUp

\* The steps that end a request.
LEMMA LocksReceive ==
  ASSUME Shapes, Locks, NEW c \in calls,
         \/ Checkout(c) \/ Resent(c) \/ (c.by = "send" /\ SendFails(c))
         \/ SendPay(c) \/ Transfer(c) \/ Cash(c) \/ PayResent(c)
  PROVE  Locks'
<1>1. /\ hydrated' = hydrated
      /\ Answered(c) \/ Conflict(c) \/ Unsent(c)
  BY DEF Checkout, CheckoutSold, CheckoutRefused, CheckoutLost, Resent, SendFails, Unsent, SendPay,
         SendPaid, SendPayFails, Transfer, TransferPaid, TransferFails, Cash, CashPaid, CashFails,
         PayResent
<1>2. calls' = calls \ {c}
  BY <1>1, CallEnds
<1>3. \A d \in calls : HeldBy(c.by) \intersect HeldBy(d.by) # {} => d = c
  BY DEF Locks
<1>4. CASE Checkout(c)
  <2>1. c.by = "checkout" /\ busy' = busy \ {"submitting", "lock"}
    BY <1>4 DEF Checkout, CheckoutSold, CheckoutRefused, CheckoutLost, Clear
  <2>2. \A d \in calls \ {c} : d.by \notin First
    BY <1>3, <2>1, FlagsHeld DEF First
  <2> QED BY <1>1, <1>2, <2>1, <2>2, FlagsHeld, LocksEnd
<1>5. CASE Resent(c)
  <2>1. c.by \in {"replay", "retry"} /\ busy' = busy \ {"submitting", "replay"} /\ review' = review
    BY <1>5 DEF Resent, Clear, screen
  <2>2. c.by = "retry" => "replay" \notin busy
    BY <1>3, <2>1, OwnFlags, FlagsHeld
  <2>3. HeldBy(c.by) \subseteq {"submitting", "replay"} /\ {"submitting", "replay"} \intersect busy \subseteq HeldBy(c.by)
    BY <2>1, <2>2, FlagsHeld
  <2> QED BY <1>1, <1>2, <2>1, <2>3, LocksEnd
<1>6. CASE c.by = "send" /\ SendFails(c)
  <2>1. busy' = busy \ {"submitting", "lock"} /\ review' = review
    BY <1>6 DEF SendFails, Clear
  <2> QED BY <1>1, <1>2, <1>6, <2>1, FlagsHeld, LocksEnd
<1>7. CASE SendPay(c)
  <2>1. /\ c.by = "sendPay" /\ busy' = busy \ {"submitting", "lock", "transfer"}
        /\ review' \in {review, NoOrder}
    BY <1>7 DEF SendPay, SendPaid, SendPayFails, Clear
  <2> QED BY <1>1, <1>2, <2>1, FlagsHeld, LocksEnd
<1>8. CASE Transfer(c)
  <2>1. c.by = "transfer" /\ busy' = busy \ {"transfer"} /\ review' \in {review, NoOrder}
    BY <1>8 DEF Transfer, TransferPaid, TransferFails, Clear, screen
  <2> QED BY <1>1, <1>2, <2>1, FlagsHeld, LocksEnd
<1>9. CASE Cash(c)
  <2>1. c.by = "cash" /\ busy' = busy \ {"cash"}
    BY <1>9 DEF Cash, CashPaid, CashFails, Clear
  <2>2. \A d \in calls : d.by \notin First
    BY <2>1, FlagIsUp, FlagsHeld DEF Locks
  <2> QED BY <1>1, <1>2, <2>1, <2>2, FlagsHeld, LocksEnd
<1>10. CASE PayResent(c)
  <2>1. /\ c.by \in {"payReplay", "payRetry"} /\ busy' = busy \ {"transfer", "payReplay"}
        /\ review' = review
    BY <1>10 DEF PayResent, Clear, screen
  <2>2. c.by = "payRetry" => "payReplay" \notin busy
    BY <1>3, <2>1, OwnFlags, FlagsHeld
  <2>3. HeldBy(c.by) \subseteq {"transfer", "payReplay"} /\ {"transfer", "payReplay"} \intersect busy \subseteq HeldBy(c.by)
    BY <2>1, <2>2, FlagsHeld
  <2> QED BY <1>1, <1>2, <2>1, <2>3, LocksEnd
<1> QED BY <1>4, <1>5, <1>6, <1>7, <1>8, <1>9, <1>10

\* A held bill has been sold: its request goes on as that of its transfer, with the same flags and
\* one more.
LEMMA LocksSendSold ==
  ASSUME Locks, NEW c \in calls, c.by = "send", SendSold(c)
  PROVE  Locks'
<1>1. PICK payment :
        /\ calls' = (calls \ {c}) \union {Call("sendPay", payment)}
        /\ busy' = busy \union {"transfer"} /\ review' = review /\ hydrated' = hydrated
  BY DEF SendSold
<1>2. PICK d : d = Call("sendPay", payment)
  OBVIOUS
<1>3. d.by = "sendPay" /\ HeldBy(d.by) = HeldBy(c.by) \union {"transfer"}
  BY <1>2, FlagsHeld DEF Call
<1>4. \A e \in calls \ {c} : HeldBy(e.by) \intersect HeldBy(c.by) = {} /\ "transfer" \notin HeldBy(e.by)
  <2>1. "transfer" \notin busy
    BY DEF Locks, First
  <2> QED BY <2>1, FlagIsUp DEF Locks
<1>5. busy' = UNION {HeldBy(e.by) : e \in calls'}
  <2>1. ASSUME NEW f \in busy' PROVE \E e \in calls' : f \in HeldBy(e.by)
    <3>1. CASE f = "transfer"
      BY <1>1, <1>2, <1>3, <3>1
    <3>2. CASE f # "transfer"
      <4>1. PICK e \in calls : f \in HeldBy(e.by)
        BY <1>1, <2>1, <3>2, FlagIsUp
      <4>2. CASE e = c
        BY <1>1, <1>2, <1>3, <4>1, <4>2
      <4>3. CASE e # c
        BY <1>1, <4>1, <4>3
      <4> QED BY <4>2, <4>3
    <3> QED BY <3>1, <3>2
  <2>2. ASSUME NEW e \in calls' PROVE HeldBy(e.by) \subseteq busy'
    BY <1>1, <1>2, <1>3, <2>2, FlagIsUp
  <2> QED BY <2>1, <2>2
<1>6. \A e, f \in calls' : e # f => HeldBy(e.by) \intersect HeldBy(f.by) = {}
  BY <1>1, <1>2, <1>3, <1>4 DEF Locks
<1>7. \A e \in calls' : e.by \notin First
  BY <1>1, <1>2, <1>3, <1>4, FlagsHeld DEF First
<1> QED BY <1>1, <1>5, <1>6, <1>7 DEF Locks

LEMMA LocksStep == Shapes /\ Locks /\ [Next]_vars => Locks'
<1> SUFFICES ASSUME Shapes, Locks, [Next]_vars PROVE Locks'
  OBVIOUS
<1>1. CASE Cashier
  BY <1>1, LocksAround, LocksSend DEF Cashier
<1>2. CASE TillStep
  <2>1. ASSUME NEW c \in calls,
               Checkout(c) \/ Resent(c) \/ Send(c) \/ SendPay(c) \/ Transfer(c) \/ Cash(c)
                 \/ PayResent(c)
        PROVE  Locks'
    BY <2>1, LocksReceive, LocksSendSold DEF Send
  <2> QED BY <1>2, <2>1, LocksAround, LocksSend DEF TillStep
<1>3. CASE UNCHANGED vars
  BY <1>3, LocksStill DEF vars
<1> QED BY <1>1, <1>2, <1>3 DEF Next

-----------------------------------------------------------------------------
(* What was queued is kept                                                    *)

Waiting(q, p) == KeysOf(q) \union KeysOf(p)

\* What a step other than reading the storage and losing the memory may do to the queues.
Keeps ==
  /\ hydrated' = hydrated
  /\ served \subseteq served' /\ past.dropped \subseteq past'.dropped /\ past.lost \subseteq past'.lost
  /\ hydrated \/ (disk' = disk /\ past'.kept = past.kept)
  /\ hydrated => /\ past'.kept \subseteq past.kept \union Waiting(outbox', payBox')
                 /\ Waiting(outbox, payBox) \subseteq
                      Waiting(outbox', payBox') \union served' \union past'.dropped

LEMMA KeptOn == ASSUME Kept, Keeps PROVE Kept'
<1>1. CASE hydrated
  BY <1>1 DEF Kept, AcceptedIsKept, Keeps, Waiting
<1>2. CASE ~hydrated
  BY <1>2 DEF Kept, AcceptedIsKept, Keeps
<1> QED BY <1>1, <1>2

\* The steps that leave the queues alone.
LEMMA KeptStill ==
  ASSUME Kept, Shapes, UNCHANGED <<outbox, payBox, hydrated>>, hydrated \/ disk' = disk,
         served \subseteq served',
         past'.kept = past.kept, past'.dropped = past.dropped, past'.lost = past.lost
  PROVE  Kept'
BY KeptOn DEF Keeps

LEMMA KeptScreen ==
  ASSUME Kept, Shapes,
         \/ HoldBill \/ CloseReview \/ CheckoutOnline \/ Retry \/ PayRetry \/ ConfirmCash
         \/ Replay \/ PayReplay \/ BrowserSaysOnline
         \/ \E b \in Baskets :
              \/ RingUp(b) \/ StageDelivery(b) \/ CancelDelivery(b) \/ RestoreHeldBill(b)
              \/ SendOnline(b)
         \/ \E e \in late : ServeLate(e)
         \/ \E part \in DOMAIN Memory : Persist(part)
  PROVE  Kept'
<1>1. CASE \/ HoldBill \/ CloseReview \/ CheckoutOnline \/ Retry \/ PayRetry \/ ConfirmCash
           \/ Replay \/ PayReplay \/ BrowserSaysOnline
  BY <1>1, KeptStill DEF HoldBill, CloseReview, CheckoutOnline, Retry, PayRetry, ConfirmCash,
       Replay, PayReplay, BrowserSaysOnline, server, queues
<1>2. ASSUME NEW b \in Baskets,
             \/ RingUp(b) \/ StageDelivery(b) \/ CancelDelivery(b) \/ RestoreHeldBill(b)
             \/ SendOnline(b)
      PROVE  Kept'
  <2>1. /\ UNCHANGED <<outbox, payBox, hydrated, disk, served>>
        /\ \/ past' = past
           \/ past' = [past EXCEPT !.rung = @ \union {b}]
           \/ past' = [past EXCEPT !.cancelled = @ \union {b}]
    BY <1>2 DEF RingUp, StageDelivery, CancelDelivery, RestoreHeldBill, SendOnline, server, queues
  <2>2. past'.kept = past.kept /\ past'.dropped = past.dropped /\ past'.lost = past.lost
    BY <2>1 DEF Shapes
  <2> QED BY <2>1, <2>2, KeptStill
<1>3. ASSUME NEW e \in late, ServeLate(e) PROVE Kept'
  <2>1. served \subseteq served'
    BY <1>3 DEF ServeLate, CarryOut
  <2> QED BY <1>3, <2>1, KeptStill DEF ServeLate, queues
<1>4. ASSUME NEW part \in DOMAIN Memory, Persist(part) PROVE Kept'
  BY <1>4, KeptStill DEF Persist, server, queues
<1> QED BY <1>1, <1>2, <1>3, <1>4

\* The steps that queue something of their own.
LEMMA KeptQueue ==
  ASSUME Kept, Shapes,
         \/ CheckoutOffline \/ TransferOffline \/ TransferOnline
         \/ \E b \in Baskets : SendOffline(b)
  PROVE  Kept'
<1>1. /\ QueueOK(row, outbox, "sales") /\ QueueOK(row, payBox, "payments")
      /\ cart \in Baskets \union {None} /\ active \in Orders /\ ReviewOK(row, review)
  BY DEF Shapes, ScreenOK
<1>2. DrawKey /\ FreshKey \in Keys
  <2>1. DrawKey
    BY DEF CheckoutOffline, TransferOffline, TransferOnline, SendOffline
  <2> QED BY <2>1, KeyDrawn
<1>3. past' = [past EXCEPT !.kept = @ \union {FreshKey}]
  BY DEF CheckoutOffline, TransferOffline, TransferOnline, SendOffline, Keep
<1>4. past'.kept = past.kept \union {FreshKey} /\ past'.dropped = past.dropped /\ past'.lost = past.lost
  BY <1>3 DEF Shapes
<1>5. ASSUME NEW b \in Baskets, NEW o \in Orders,
             outbox' = Enqueue(outbox, Bill(FreshKey, b, o)), payBox' = payBox,
             hydrated, hydrated', served' = served
      PROVE  Kept'
  <2>1. KeysOf(outbox) \subseteq KeysOf(outbox') /\ FreshKey \in KeysOf(outbox')
    <3>1. /\ Sound(row, Bill(FreshKey, b, o)) /\ Bill(FreshKey, b, o).to = "sales"
          /\ Bill(FreshKey, b, o).key = FreshKey
      BY <1>2, BillSound
    <3> QED BY <1>1, <1>5, <3>1, EnqueueFacts
  <2> QED BY <1>4, <1>5, <2>1, KeptOn DEF Keeps, Waiting
<1>6. CASE CheckoutOffline
  <2>1. cart \in Baskets
    BY <1>1, <1>6 DEF CheckoutOffline, CanCheckout
  <2> QED BY <1>1, <1>5, <1>6, <2>1 DEF CheckoutOffline, CanCheckout, server
<1>7. ASSUME NEW b \in Baskets, SendOffline(b) PROVE Kept'
  <2>1. NoOrder \in Orders
    BY DEF Orders
  <2> QED BY <1>5, <1>7, <2>1 DEF SendOffline, CanSend, server
<1>8. CASE TransferOffline \/ TransferOnline
  <2>1. review \in Keys /\ row[review] # None
    BY <1>1, <1>8 DEF TransferOffline, TransferOnline, ReviewOK, Orders
  <2>2. /\ Sound(row, Payment(FreshKey, review)) /\ Payment(FreshKey, review).to = "payments"
        /\ Payment(FreshKey, review).key = FreshKey
    BY <1>2, <2>1, PaymentSound
  <2>3. /\ payBox' = Enqueue(payBox, Payment(FreshKey, review)) /\ outbox' = outbox
        /\ hydrated /\ hydrated' /\ served' = served
    BY <1>8 DEF TransferOffline, TransferOnline, server
  <2>4. KeysOf(payBox) \subseteq KeysOf(payBox') /\ FreshKey \in KeysOf(payBox')
    BY <1>1, <2>2, <2>3, EnqueueFacts
  <2> QED BY <1>4, <2>3, <2>4, KeptOn DEF Keeps, Waiting
<1> QED BY <1>6, <1>7, <1>8

\* The answers to bills.
LEMMA KeptSales ==
  ASSUME Kept, Shapes, Locks, NEW c \in calls,
         Checkout(c) \/ Resent(c) \/ (c.by = "send" /\ SendFails(c))
  PROVE  Kept'
<1>1. QueueOK(row, outbox, "sales") /\ hydrated
  BY DEF Shapes, Locks
<1>2. c.entry.to = "sales" /\ Sound(row, c.entry)
  <2>1. c.by \in SaleCalls
    BY DEF Checkout, Resent, SaleCalls
  <2> QED BY <2>1, CallEnds DEF CallOK
<1>3. /\ KeysOf(outbox) \subseteq KeysOf(Enqueue(outbox, c.entry))
      /\ c.entry.key \in KeysOf(Enqueue(outbox, c.entry))
      /\ KeysOf(outbox) \subseteq KeysOf(Dequeue(outbox, c.entry.key)) \union {c.entry.key}
  BY <1>1, <1>2, EnqueueFacts, DequeueFacts
<1>4. served \subseteq served' /\ (Answered(c) => c.entry.key \in served')
  BY CallEnds DEF Checkout, CheckoutSold, CheckoutRefused, CheckoutLost, Resent, SendFails, Unsent
<1>5. CASE CheckoutSold(c)
  BY <1>1, <1>3, <1>4, <1>5, KeptOn DEF CheckoutSold, Keeps, Waiting
<1>6. CASE CheckoutRefused(c)
  BY <1>1, <1>4, <1>6, KeptStill DEF CheckoutRefused, queues
<1>7. CASE CheckoutLost(c) \/ SendFails(c)
  <2>1. /\ outbox' = Enqueue(outbox, c.entry) /\ payBox' = payBox /\ hydrated' = hydrated
        /\ past' = [past EXCEPT !.kept = @ \union {c.entry.key}]
    BY <1>7 DEF CheckoutLost, SendFails, Keep
  <2>2. /\ past'.kept = past.kept \union {c.entry.key}
        /\ past'.dropped = past.dropped /\ past'.lost = past.lost
    BY <2>1 DEF Shapes
  <2> QED BY <1>1, <1>3, <1>4, <2>1, <2>2, KeptOn DEF Keeps, Waiting
<1>8. CASE Resent(c)
  <2>1. payBox' = payBox /\ hydrated' = hydrated
    BY <1>8 DEF Resent
  <2>2. CASE Answered(c) /\ outbox' = Dequeue(outbox, c.entry.key) /\ past' = past
    BY <1>1, <1>3, <1>4, <2>1, <2>2, KeptOn DEF Keeps, Waiting
  <2>3. CASE /\ outbox' = Dequeue(outbox, c.entry.key)
             /\ past' = [past EXCEPT !.dropped = @ \union {c.entry.key}]
    <3>1. /\ past'.kept = past.kept /\ past'.lost = past.lost
          /\ past'.dropped = past.dropped \union {c.entry.key}
      BY <2>3 DEF Shapes
    <3> QED BY <1>1, <1>3, <1>4, <2>1, <2>3, <3>1, KeptOn DEF Keeps, Waiting
  <2>4. CASE UNCHANGED <<outbox, past>>
    BY <1>1, <1>4, <2>1, <2>4, KeptStill
  <2> QED BY <1>8, <2>2, <2>3, <2>4 DEF Resent
<1> QED BY <1>5, <1>6, <1>7, <1>8 DEF Checkout

LEMMA KeptSendSold ==
  ASSUME Kept, Shapes, Locks, NEW c \in calls, c.by = "send", SendSold(c)
  PROVE  Kept'
<1>1. QueueOK(row, outbox, "sales") /\ QueueOK(row, payBox, "payments") /\ hydrated
  BY DEF Shapes, Locks
<1>2. c.entry.to = "sales" /\ Sound(row, c.entry) /\ c.entry.basket \in Baskets
  <2>1. c.by \in SaleCalls
    BY DEF SaleCalls
  <2> QED BY <2>1, CallEnds DEF CallOK
<1>3. CarryOut(c.entry) /\ DrawKey
  BY DEF SendSold
<1>4. /\ Grows(row, row') /\ served \subseteq served' /\ c.entry.key \in served'
      /\ Sold(c.entry) \in Keys /\ row'[Sold(c.entry)] \in Baskets
      /\ FreshKey \in Keys
  BY <1>2, <1>3, CarriedOut, KeyDrawn
<1>5. PICK payment : payment = [Payment(FreshKey, Sold(c.entry)) EXCEPT !.basket = c.entry.basket]
  OBVIOUS
<1>6. Sound(row', payment) /\ payment.to = "payments" /\ payment.key = FreshKey
  <2>1. Sold(c.entry) # NoOrder
    BY <1>4, ConstantsAssumption DEF Keys, NoOrder
  <2>2. payment = [key |-> FreshKey, to |-> "payments", basket |-> c.entry.basket,
                   order |-> Sold(c.entry)]
    BY <1>5 DEF Payment
  <2>3. row'[Sold(c.entry)] # None
    BY <1>4, ConstantsAssumption
  <2> QED BY <1>2, <1>4, <2>1, <2>2, <2>3 DEF Sound, Entry
<1>7. QueueOK(row', payBox, "payments")
  BY <1>1, <1>4, Lift
<1>8. /\ outbox' = Dequeue(outbox, c.entry.key) /\ payBox' = Enqueue(payBox, payment)
      /\ hydrated' = hydrated /\ past' = [past EXCEPT !.kept = @ \union {FreshKey}]
  BY <1>5 DEF SendSold, Keep
<1>9. /\ KeysOf(outbox) \subseteq KeysOf(outbox') \union {c.entry.key}
      /\ KeysOf(payBox) \subseteq KeysOf(payBox') /\ FreshKey \in KeysOf(payBox')
  BY <1>1, <1>6, <1>7, <1>8, EnqueueFacts, DequeueFacts
<1>10. /\ past'.kept = past.kept \union {FreshKey}
       /\ past'.dropped = past.dropped /\ past'.lost = past.lost
  BY <1>8 DEF Shapes
<1> QED BY <1>1, <1>4, <1>8, <1>9, <1>10, KeptOn DEF Keeps, Waiting

\* The answers to payments.
LEMMA KeptPaid ==
  ASSUME Kept, Shapes, Locks, NEW c \in calls,
         SendPay(c) \/ Transfer(c) \/ Cash(c) \/ PayResent(c)
  PROVE  Kept'
<1>1. QueueOK(row, payBox, "payments") /\ hydrated
  BY DEF Shapes, Locks
<1>2. KeysOf(payBox) \subseteq KeysOf(Dequeue(payBox, c.entry.key)) \union {c.entry.key}
  BY <1>1, DequeueFacts
<1>3. served \subseteq served' /\ (Answered(c) => c.entry.key \in served')
  BY CallEnds DEF SendPay, SendPaid, SendPayFails, Transfer, TransferPaid, TransferFails, Cash,
       CashPaid, CashFails, PayResent
<1>4. past' = past /\ outbox' = outbox /\ hydrated' = hydrated
  BY DEF SendPay, SendPaid, SendPayFails, Transfer, TransferPaid, TransferFails, Cash, CashPaid,
     CashFails, PayResent, queues
<1>5. payBox' = payBox \/ (Answered(c) /\ payBox' = Dequeue(payBox, c.entry.key))
  BY DEF SendPay, SendPaid, SendPayFails, Transfer, TransferPaid, TransferFails, Cash, CashPaid,
     CashFails, PayResent, queues
<1> QED BY <1>1, <1>2, <1>3, <1>4, <1>5, KeptOn DEF Keeps, Waiting

\* What no timer has written is counted as lost; what the storage has comes back.
LEMMA KeptReload == ASSUME Kept, Shapes, Reload \/ Hydrate PROVE Kept'
<1>1. CASE Reload
  <2>1. /\ hydrated /\ ~hydrated' /\ disk' = disk /\ served' = served
        /\ past'.kept = past.kept /\ past'.dropped = past.dropped
        /\ past'.lost = past.lost \union ((KeysOf(outbox) \ KeysOf(disk.outbox))
                                          \union (KeysOf(payBox) \ KeysOf(disk.payBox)))
    BY <1>1 DEF Reload, Shapes, server
  <2> QED BY <2>1 DEF Kept, AcceptedIsKept
<1>2. CASE Hydrate
  BY <1>2 DEF Hydrate, Kept, AcceptedIsKept, server
<1> QED BY <1>1, <1>2

LEMMA KeptStep == Shapes /\ Locks /\ Kept /\ [Next]_vars => Kept'
<1> SUFFICES ASSUME Shapes, Locks, Kept, [Next]_vars PROVE Kept'
  OBVIOUS
<1>1. CASE Cashier
  BY <1>1, KeptScreen, KeptQueue DEF Cashier
<1>2. CASE TillStep
  <2>1. ASSUME NEW c \in calls,
               Checkout(c) \/ Resent(c) \/ Send(c) \/ SendPay(c) \/ Transfer(c) \/ Cash(c)
                 \/ PayResent(c)
        PROVE  Kept'
    BY <2>1, KeptSales, KeptSendSold, KeptPaid DEF Send
  <2> QED BY <1>2, <2>1, KeptScreen, KeptReload DEF TillStep
<1>3. CASE UNCHANGED vars
  BY <1>3, KeptStill DEF vars
<1> QED BY <1>1, <1>2, <1>3 DEF Next

-----------------------------------------------------------------------------
(* Drawn                                                                      *)

LEMMA QueueOld ==
  ASSUME NEW R, NEW to, NEW q, QueueOK(R, q, to), NEW n \in Nat, OldQueue(n, q)
  PROVE  /\ \A key : OldQueue(n, Dequeue(q, key))
         /\ \A e \in Entry : OldBill(n, e) => OldQueue(n, Enqueue(q, e))
         /\ q # <<>> => OldBill(n, Head(q))
<1>1. q \in Seq(Entry)
  BY DEF QueueOK
<1>2. ASSUME NEW key PROVE OldQueue(n, Dequeue(q, key))
  <2>1. CASE key \notin KeysOf(q)
    BY <2>1 DEF Dequeue
  <2>2. CASE key \in KeysOf(q)
    <3>1. PICK i \in DOMAIN q : Dequeue(q, key) = RemoveAt(q, i)
      BY <2>2 DEF Dequeue, KeysOf
    <3>2. PICK r : r = RemoveAt(q, i)
      OBVIOUS
    <3>3. /\ DOMAIN r = 1 .. Len(q) - 1 /\ DOMAIN q = 1 .. Len(q) /\ Len(q) \in Nat
          /\ \A j \in 1 .. i - 1 : r[j] = q[j]
          /\ \A j \in i .. Len(q) - 1 : r[j] = q[j + 1]
      BY <1>1, <3>2, Removed
    <3>4. ASSUME NEW j \in DOMAIN r PROVE OldBill(n, r[j])
      <4>1. i \in 1 .. Len(q) /\ j \in 1 .. Len(q) - 1
        BY <3>3
      <4>2. CASE j < i
        <5>1. j \in DOMAIN q /\ j \in 1 .. i - 1
          BY <3>3, <4>1, <4>2
        <5> QED BY <3>3, <5>1 DEF OldQueue
      <4>3. CASE j >= i
        <5>1. j + 1 \in DOMAIN q /\ j \in i .. Len(q) - 1
          BY <3>3, <4>1, <4>3
        <5> QED BY <3>3, <5>1 DEF OldQueue
      <4> QED BY <4>1, <4>2, <4>3
    <3> QED BY <3>1, <3>2, <3>4 DEF OldQueue
  <2> QED BY <2>1, <2>2
<1>3. ASSUME NEW e \in Entry, OldBill(n, e) PROVE OldQueue(n, Enqueue(q, e))
  <2>1. CASE e.key \in KeysOf(q)
    BY <2>1 DEF Enqueue
  <2>2. CASE e.key \notin KeysOf(q)
    <3>1. PICK r : r = Append(q, e)
      OBVIOUS
    <3>2. \A i \in DOMAIN r : (i \in DOMAIN q /\ r[i] = q[i]) \/ r[i] = e
      BY <1>1, <3>1
    <3> QED BY <1>3, <2>2, <3>1, <3>2 DEF OldQueue, Enqueue
  <2> QED BY <2>1, <2>2
<1>4. q # <<>> => OldBill(n, Head(q))
  BY <1>1 DEF OldQueue
<1> QED BY <1>2, <1>3, <1>4

\* What a step may do to the keys and orders that the till knows.
Redraws ==
  /\ issued \in Nat /\ issued' \in Nat /\ issued <= issued'
  /\ \A k \in Keys : row'[k] # None => row[k] # None \/ k <= issued'
  /\ OldScreen(issued', active', held')
  /\ \/ disk' = disk
     \/ OldScreen(issued', disk'.active, disk'.held) /\ OldQueue(issued', disk'.outbox)
  /\ outbox' = outbox \/ OldQueue(issued', outbox')
  /\ \A c \in calls' : c \in calls \/ OldBill(issued', c.entry)
  /\ \A e \in late' : e \in late \/ OldBill(issued', e)

LEMMA LaterIsOld ==
  ASSUME NEW n \in Nat, NEW m \in Nat, n <= m
  PROVE  /\ \A e \in Entry : OldBill(n, e) => OldBill(m, e)
         /\ \A a \in Orders, h \in [Baskets -> HeldBill] : OldScreen(n, a, h) => OldScreen(m, a, h)
         /\ \A q \in Seq(Entry) : OldQueue(n, q) => OldQueue(m, q)
<1>0. Keys \subseteq Nat /\ Orders \subseteq Nat
  BY ConstantsAssumption DEF Keys, Orders, NoOrder
<1>1. \A e \in Entry : OldBill(n, e) => OldBill(m, e)
  BY <1>0 DEF Entry, OldBill, Orders
<1>2. ASSUME NEW a \in Orders, NEW h \in [Baskets -> HeldBill], OldScreen(n, a, h)
      PROVE  OldScreen(m, a, h)
  <2>1. \A b \in Baskets : h[b].order \in Nat
    BY <1>0 DEF HeldBill, Orders
  <2> QED BY <1>0, <1>2, <2>1 DEF OldScreen
<1>3. ASSUME NEW q \in Seq(Entry), OldQueue(n, q) PROVE OldQueue(m, q)
  <2>1. \A i \in DOMAIN q : q[i] \in Entry
    OBVIOUS
  <2> QED BY <1>1, <1>3, <2>1 DEF OldQueue
<1> QED BY <1>1, <1>2, <1>3

LEMMA DrawnOn == ASSUME Shapes, Drawn, Redraws PROVE Drawn'
<1>0. Keys \subseteq Nat
  BY ConstantsAssumption DEF Keys
<1>1. issued \in Nat /\ issued' \in Nat /\ issued <= issued'
  BY DEF Redraws
<1>2. \A k \in Keys : row'[k] # None => k <= issued'
  BY <1>0, <1>1 DEF Redraws, Drawn
<1>3. OldScreen(issued', disk'.active, disk'.held) /\ OldQueue(issued', disk'.outbox)
  <2>1. disk.active \in Orders /\ disk.held \in [Baskets -> HeldBill] /\ disk.outbox \in Seq(Entry)
    BY DEF Shapes, DiskOK, ScreenOK, QueueOK
  <2>2. OldScreen(issued', disk.active, disk.held) /\ OldQueue(issued', disk.outbox)
    BY <1>1, <2>1, LaterIsOld DEF Drawn
  <2> QED BY <2>2 DEF Redraws
<1>4. OldQueue(issued', outbox')
  <2>1. outbox \in Seq(Entry)
    BY DEF Shapes, QueueOK
  <2>2. OldQueue(issued', outbox)
    BY <1>1, <2>1, LaterIsOld DEF Drawn
  <2> QED BY <2>2 DEF Redraws
<1>5. \A c \in calls' : OldBill(issued', c.entry)
  <2>1. \A c \in calls : c.entry \in Entry
    BY DEF Shapes, CallsOK, CallOK, Sound
  <2>2. \A c \in calls : OldBill(issued', c.entry)
    BY <1>1, <2>1, LaterIsOld DEF Drawn
  <2> QED BY <2>2 DEF Redraws
<1>6. \A e \in late' : OldBill(issued', e)
  <2>1. \A e \in late : e \in Entry
    BY DEF Shapes, LateOK, Sound
  <2>2. \A e \in late : OldBill(issued', e)
    BY <1>1, <2>1, LaterIsOld DEF Drawn
  <2> QED BY <2>2 DEF Redraws
<1> QED BY <1>2, <1>3, <1>4, <1>5, <1>6 DEF Redraws, Drawn

LEMMA Numbers ==
  ASSUME Shapes
  PROVE  /\ Keys \subseteq Nat /\ Orders \subseteq Nat /\ NoOrder = 0 /\ NoOrder \notin Keys
         /\ issued \in Nat /\ active \in Nat
         /\ held \in [Baskets -> HeldBill] /\ \A b \in Baskets : held[b].order \in Nat
<1>1. Keys \subseteq Nat /\ Orders \subseteq Nat /\ NoOrder = 0 /\ NoOrder \notin Keys
  BY ConstantsAssumption DEF Keys, Orders, NoOrder
<1>2. issued \in Nat /\ active \in Orders /\ held \in [Baskets -> HeldBill]
  BY DEF Shapes, ScreenOK
<1>3. \A b \in Baskets : held[b].order \in Orders
  BY <1>2 DEF HeldBill, Orders
<1> QED BY <1>1, <1>2, <1>3

LEMMA ScreenOld ==
  ASSUME Shapes, Drawn, issued' \in Nat, issued <= issued',
         active' = active \/ active' <= issued',
         \A b \in Baskets : held'[b].order = held[b].order \/ held'[b].order <= issued'
  PROVE  OldScreen(issued', active', held')
<1>1. active <= issued' /\ \A b \in Baskets : held[b].order <= issued'
  BY Numbers DEF Drawn, OldScreen
<1> QED BY <1>1 DEF OldScreen

LEMMA StatusOnly ==
  ASSUME held \in [Baskets -> HeldBill], NEW b, NEW s
  PROVE  \A x \in Baskets :
           /\ [held EXCEPT ![b].status = s][x].order = held[x].order
           /\ x # b => [held EXCEPT ![b].status = s][x] = held[x]
           /\ x = b => [held EXCEPT ![b].status = s][x].status = s
<1> SUFFICES ASSUME NEW x \in Baskets
             PROVE  /\ [held EXCEPT ![b].status = s][x].order = held[x].order
                    /\ x # b => [held EXCEPT ![b].status = s][x] = held[x]
                    /\ x = b => [held EXCEPT ![b].status = s][x].status = s
  OBVIOUS
<1>1. CASE x = b
  <2>1. PICK h : h = held[b]
    OBVIOUS
  <2>2. h \in [status : {"none", "held", "pending", "sending", "sent"}, order : Keys \union {NoOrder}]
    BY <1>1, <2>1 DEF HeldBill
  <2>3. [h EXCEPT !.status = s].order = h.order /\ [h EXCEPT !.status = s].status = s
    BY <2>2
  <2>4. [held EXCEPT ![b].status = s][x] = [h EXCEPT !.status = s]
    BY <1>1, <2>1
  <2> QED BY <1>1, <2>1, <2>3, <2>4
<1>2. CASE x # b
  BY <1>2
<1> QED BY <1>1, <1>2

LEMMA CarriedOld ==
  ASSUME Shapes, Drawn, NEW e, Sound(row, e), OldBill(issued, e), CarryOut(e)
  PROVE  /\ \A k \in Keys : row'[k] # None => row[k] # None \/ k <= issued
         /\ e.to = "sales" => Sold(e) <= issued
<1>1. e.key \in Keys /\ row \in [Keys -> Baskets \union {None}]
  BY DEF Sound, Entry, Shapes, ServerOK
<1>2. CASE e.to = "sales"
  <2>1. Sold(e) <= issued
    BY <1>2 DEF OldBill, Sold
  <2>2. \A k \in Keys : row'[k] = row[k] \/ k = Sold(e)
    BY <1>1, <1>2 DEF CarryOut, CarryOutSale
  <2> QED BY <2>1, <2>2
<1>3. CASE e.to # "sales"
  BY <1>3 DEF CarryOut, CarryOutPayment
<1> QED BY <1>2, <1>3

LEMMA FreshIsNext ==
  ASSUME Shapes, DrawKey
  PROVE  /\ FreshKey \in Keys /\ issued' = FreshKey /\ FreshKey = issued + 1
         /\ issued' \in Nat /\ issued <= issued'
BY KeyDrawn, Numbers DEF DrawKey, FreshKey

\* The steps that draw no key and end no request.
LEMMA DrawnStill ==
  ASSUME Shapes, Drawn,
         \/ HoldBill \/ CloseReview \/ BrowserSaysOnline \/ Reload \/ Hydrate
         \/ Replay \/ Retry \/ PayReplay \/ PayRetry
         \/ \E b \in Baskets :
              RingUp(b) \/ StageDelivery(b) \/ CancelDelivery(b) \/ RestoreHeldBill(b)
         \/ \E e \in late : ServeLate(e)
         \/ \E part \in DOMAIN Memory : Persist(part)
  PROVE  Drawn'
<1>1. /\ issued' = issued /\ issued' \in Nat /\ issued <= issued' /\ NoOrder <= issued'
      /\ held \in [Baskets -> HeldBill] /\ active <= issued
      /\ \A b \in Baskets : held[b].order <= issued
  <2>1. issued' = issued
    BY DEF HoldBill, CloseReview, BrowserSaysOnline, Reload, Hydrate, Replay, Retry, PayReplay,
           PayRetry, RingUp, StageDelivery, CancelDelivery, RestoreHeldBill, ServeLate, Persist
  <2> QED BY <2>1, Numbers DEF Drawn, OldScreen
<1>2. Free.order <= issued'
  BY <1>1 DEF Free
<1>3. CASE HoldBill
  <2>1. \A b \in Baskets : held'[b].order = held[b].order \/ held'[b].order = active
    BY <1>1, <1>3 DEF HoldBill
  <2>2. OldScreen(issued', active', held')
    BY <1>1, <1>3, <2>1, ScreenOld DEF HoldBill
  <2>9. Redraws
    BY <1>1, <1>3, <2>2 DEF HoldBill, Redraws, server, queues
  <2> QED BY <2>9, DrawnOn
<1>4. CASE CloseReview \/ BrowserSaysOnline
  <2>1. OldScreen(issued', active', held')
    BY <1>1, <1>4, ScreenOld DEF CloseReview, BrowserSaysOnline, screen
  <2>9. Redraws
    BY <1>1, <1>4, <2>1 DEF CloseReview, BrowserSaysOnline, Redraws, server, queues, screen
  <2> QED BY <2>9, DrawnOn
<1>5. CASE Reload
  <2>1. OldScreen(issued', active', held')
    BY <1>1, <1>2, <1>5, ScreenOld DEF Reload
  <2>2. OldQueue(issued', outbox')
    BY <1>5 DEF Reload, OldQueue
  <2>3. \A e \in late' : e \in late \/ OldBill(issued', e)
    BY <1>1, <1>5 DEF Reload, Drawn
  <2>9. Redraws
    BY <1>1, <1>5, <2>1, <2>2, <2>3 DEF Reload, Redraws, server
  <2> QED BY <2>9, DrawnOn
<1>6. CASE Hydrate
  <2>1. OldScreen(issued', active', held') /\ OldQueue(issued', outbox')
    BY <1>1, <1>6 DEF Hydrate, Drawn
  <2>9. Redraws
    BY <1>1, <1>6, <2>1 DEF Hydrate, Redraws, server
  <2> QED BY <2>9, DrawnOn
<1>7. CASE Replay \/ Retry \/ PayReplay \/ PayRetry
  <2>1. OldScreen(issued', active', held')
    BY <1>1, <1>7, ScreenOld DEF Replay, Retry, PayReplay, PayRetry, screen
  <2>2. outbox # <<>> => OldBill(issued, Head(outbox))
    BY <1>1, QueueOld DEF Shapes, Drawn
  <2>3. payBox # <<>> => OldBill(issued, Head(payBox))
    BY HeadFacts DEF Shapes, OldBill
  <2>4. \A c \in calls' : c \in calls \/ OldBill(issued', c.entry)
    BY <1>1, <1>7, <2>2, <2>3 DEF Replay, Retry, PayReplay, PayRetry, Call
  <2>5. UNCHANGED <<row, disk, outbox, late>>
    BY <1>7 DEF Replay, Retry, PayReplay, PayRetry, server, queues
  <2>9. Redraws
    BY <1>1, <2>1, <2>4, <2>5 DEF Redraws
  <2> QED BY <2>9, DrawnOn
<1>8. ASSUME NEW b \in Baskets, RingUp(b) \/ StageDelivery(b) \/ CancelDelivery(b) \/ RestoreHeldBill(b)
      PROVE  Drawn'
  <2>1. \A x \in Baskets : held'[x].order = held[x].order \/ held'[x].order <= issued'
    <3>1. CASE RingUp(b)
      BY <3>1 DEF RingUp
    <3>2. CASE StageDelivery(b)
      BY <1>1, <3>2, StatusOnly DEF StageDelivery
    <3>3. CASE CancelDelivery(b) \/ RestoreHeldBill(b)
      BY <1>1, <1>2, <3>3 DEF CancelDelivery, RestoreHeldBill
    <3> QED BY <1>8, <3>1, <3>2, <3>3
  <2>2. active' = active \/ active' <= issued'
    BY <1>1, <1>8 DEF RingUp, StageDelivery, CancelDelivery, RestoreHeldBill
  <2>3. OldScreen(issued', active', held')
    BY <1>1, <2>1, <2>2, ScreenOld
  <2>4. UNCHANGED <<row, disk, outbox, late, calls>>
    BY <1>8 DEF RingUp, StageDelivery, CancelDelivery, RestoreHeldBill, server, queues
  <2>9. Redraws
    BY <1>1, <2>3, <2>4 DEF Redraws
  <2> QED BY <2>9, DrawnOn
<1>9. ASSUME NEW e \in late, ServeLate(e) PROVE Drawn'
  <2>1. \A k \in Keys : row'[k] # None => row[k] # None \/ k <= issued
    BY <1>9, CarriedOld DEF Shapes, LateOK, Drawn, ServeLate
  <2>2. OldScreen(issued', active', held')
    BY <1>1, <1>9, ScreenOld DEF ServeLate, screen
  <2>3. UNCHANGED <<disk, outbox, calls>> /\ late' \subseteq late
    BY <1>9 DEF ServeLate, queues
  <2>9. Redraws
    BY <1>1, <2>1, <2>2, <2>3 DEF Redraws
  <2> QED BY <2>9, DrawnOn
<1>10. ASSUME NEW part \in DOMAIN Memory, Persist(part) PROVE Drawn'
  <2>1. OldScreen(issued', active', held')
    BY <1>1, <1>10, ScreenOld DEF Persist, screen
  <2>2. PICK m : m = Memory
    OBVIOUS
  <2>3. m.active = active /\ m.held = held /\ m.outbox = outbox
    BY <2>2 DEF Memory
  <2>4. DOMAIN disk = {"cart", "active", "held", "outbox", "payBox"}
    BY DEF Shapes, DiskOK
  <2>5. disk' = [disk EXCEPT ![part] = m[part]]
    BY <1>10, <2>2 DEF Persist
  <2>6. /\ disk'.active \in {disk.active, active} /\ disk'.held \in {disk.held, held}
        /\ disk'.outbox \in {disk.outbox, outbox}
    BY <2>3, <2>4, <2>5
  <2>7. OldScreen(issued', disk'.active, disk'.held) /\ OldQueue(issued', disk'.outbox)
    BY <1>1, <2>6 DEF Drawn, OldScreen
  <2>8. UNCHANGED <<row, outbox, calls, late>>
    BY <1>10 DEF Persist, server, queues
  <2>9. Redraws
    BY <1>1, <2>1, <2>7, <2>8 DEF Redraws
  <2> QED BY <2>9, DrawnOn
<1> QED BY <1>3, <1>4, <1>5, <1>6, <1>7, <1>8, <1>9, <1>10

\* The steps that draw a key for a new request.
LEMMA DrawnBegin ==
  ASSUME Shapes, Drawn,
         \/ CheckoutOffline \/ CheckoutOnline \/ TransferOffline \/ TransferOnline \/ ConfirmCash
         \/ \E b \in Baskets : SendOffline(b) \/ SendOnline(b)
  PROVE  Drawn'
<1>1. DrawKey /\ row' = row
  BY DEF CheckoutOffline, CheckoutOnline, TransferOffline, TransferOnline, ConfirmCash, SendOffline,
         SendOnline, server
<1>2. /\ FreshKey \in Keys /\ issued' = FreshKey /\ FreshKey = issued + 1
      /\ issued \in Nat /\ issued' \in Nat /\ issued <= issued' /\ NoOrder <= issued'
      /\ held \in [Baskets -> HeldBill] /\ active <= issued' /\ active \in Orders
  BY <1>1, FreshIsNext, Numbers DEF Drawn, OldScreen, Shapes, ScreenOK
<1>3. OldQueue(issued', outbox) /\ QueueOK(row, outbox, "sales")
  <2>1. outbox \in Seq(Entry) /\ QueueOK(row, outbox, "sales")
    BY DEF Shapes, QueueOK
  <2> QED BY <1>2, <2>1, LaterIsOld DEF Drawn
<1>4. ASSUME NEW b \in Baskets, NEW o \in Orders, o <= issued'
      PROVE  OldBill(issued', Bill(FreshKey, b, o)) /\ OldQueue(issued', Enqueue(outbox, Bill(FreshKey, b, o)))
  <2>1. Bill(FreshKey, b, o) \in Entry
    BY <1>2, BillSound DEF Sound
  <2>2. OldBill(issued', Bill(FreshKey, b, o))
    BY <1>2, <1>4 DEF OldBill, Bill
  <2> QED BY <1>2, <1>3, <2>1, <2>2, QueueOld
<1>5. \A key, o : OldBill(issued', Payment(key, o))
  BY DEF OldBill, Payment
<1>6. CASE CheckoutOffline \/ CheckoutOnline
  <2>1. cart \in Baskets
    BY <1>6 DEF CheckoutOffline, CheckoutOnline, CanCheckout, Shapes, ScreenOK
  <2>2. OldScreen(issued', active', held')
    BY <1>2, <1>6, ScreenOld DEF CheckoutOffline, CheckoutOnline, screen
  <2>3. OldBill(issued', Bill(FreshKey, cart, active)) /\ OldQueue(issued', Enqueue(outbox, Bill(FreshKey, cart, active)))
    BY <1>2, <1>4, <2>1
  <2>4. Redraws
    BY <1>1, <1>2, <1>6, <2>2, <2>3
    DEF Redraws, CheckoutOffline, CheckoutOnline, queues, Call
  <2> QED BY <2>4, DrawnOn
<1>7. ASSUME NEW b \in Baskets, SendOffline(b) \/ SendOnline(b) PROVE Drawn'
  <2>1. \A x \in Baskets : held'[x].order = held[x].order
    <3>1. PICK s \in {"pending", "sending"} : held' = [held EXCEPT ![b].status = s]
      BY <1>7 DEF SendOffline, SendOnline
    <3> QED BY <1>2, <3>1, StatusOnly
  <2>2. OldScreen(issued', active', held')
    BY <1>2, <1>7, <2>1, ScreenOld DEF SendOffline, SendOnline
  <2>3. /\ OldBill(issued', Bill(FreshKey, b, NoOrder))
        /\ OldQueue(issued', Enqueue(outbox, Bill(FreshKey, b, NoOrder)))
    BY <1>2, <1>4 DEF Orders
  <2>4. Redraws
    BY <1>1, <1>2, <1>7, <2>2, <2>3 DEF Redraws, SendOffline, SendOnline, queues, Call
  <2> QED BY <2>4, DrawnOn
<1>8. CASE TransferOffline \/ TransferOnline \/ ConfirmCash
  <2>1. active' \in {active, NoOrder} /\ held' = held
    BY <1>8 DEF TransferOffline, TransferOnline, ConfirmCash, ClosedFor, screen
  <2>2. OldScreen(issued', active', held')
    BY <1>2, <2>1, ScreenOld
  <2>3. Redraws
    BY <1>1, <1>2, <1>5, <1>8, <2>2
    DEF Redraws, TransferOffline, TransferOnline, ConfirmCash, queues, Call
  <2> QED BY <2>3, DrawnOn
<1> QED BY <1>6, <1>7, <1>8

\* The steps that end a request.
LEMMA DrawnEnd ==
  ASSUME Shapes, Drawn, NEW c \in calls,
         \/ Checkout(c) \/ Resent(c) \/ (c.by = "send" /\ SendFails(c))
         \/ SendPay(c) \/ Transfer(c) \/ Cash(c) \/ PayResent(c)
  PROVE  Drawn'
<1>1. /\ issued' = issued /\ disk' = disk
      /\ Answered(c) \/ Conflict(c) \/ Unsent(c)
  BY DEF Checkout, CheckoutSold, CheckoutRefused, CheckoutLost, Resent, SendFails, Unsent, SendPay,
         SendPaid, SendPayFails, Transfer, TransferPaid, TransferFails, Cash, CashPaid, CashFails,
         PayResent
<1>2. /\ Sound(row, c.entry) /\ c.entry \in Entry /\ OldBill(issued, c.entry)
      /\ issued \in Nat /\ NoOrder <= issued /\ active <= issued /\ held \in [Baskets -> HeldBill]
      /\ \A b \in Baskets : held[b].order <= issued
  BY CallEnds, Numbers DEF Drawn, OldScreen, Sound
<1>3. /\ \A k \in Keys : row'[k] # None => row[k] # None \/ k <= issued
      /\ \A e \in late' : e \in late \/ OldBill(issued, e)
      /\ calls' = calls \ {c}
      /\ CheckoutSold(c) /\ c.by = "checkout" => Sold(c.entry) <= issued
  <2>1. CASE Answered(c)
    <3>1. CarryOut(c.entry) /\ calls' = calls \ {c} /\ late' = late
      BY <2>1 DEF Answered
    <3>2. c.by = "checkout" => c.entry.to = "sales"
      BY CallEnds DEF CallOK, SaleCalls
    <3> QED BY <1>2, <3>1, <3>2, CarriedOld
  <2>2. CASE Conflict(c) \/ Unsent(c)
    <3>1. /\ row' = row /\ calls' = calls \ {c}
          /\ \A e \in late' : e \in late \/ e = c.entry
      BY <2>2 DEF Conflict, Unsent, Lost, Failed, server
    <3>2. CheckoutSold(c) => Answered(c)
      BY DEF CheckoutSold
    <3>3. CheckoutSold(c) /\ c.by = "checkout" => Sold(c.entry) <= issued
      <4>1. c.by = "checkout" => c.entry.to = "sales"
        BY CallEnds DEF CallOK, SaleCalls
      <4> QED BY <1>2, <4>1, CarriedOld DEF CheckoutSold, Answered
    <3> QED BY <1>2, <3>1, <3>3
  <2> QED BY <1>1, <2>1, <2>2
<1>4. outbox' = outbox \/ OldQueue(issued, outbox')
  <2>1. outbox' = outbox \/ outbox' = Enqueue(outbox, c.entry) \/ outbox' = Dequeue(outbox, c.entry.key)
    BY DEF Checkout, CheckoutSold, CheckoutRefused, CheckoutLost, Resent, SendFails, SendPay,
         SendPaid, SendPayFails, Transfer, TransferPaid, TransferFails, Cash, CashPaid, CashFails,
         PayResent, queues
  <2> QED BY <1>2, <2>1, QueueOld DEF Shapes, Drawn
<1>5. active' \in {active, NoOrder} \/ (CheckoutSold(c) /\ c.by = "checkout" /\ active' = Sold(c.entry))
  BY DEF Checkout, CheckoutSold, CheckoutRefused, CheckoutLost, Resent, SendFails, SendPay,
         SendPaid, SendPayFails, Transfer, TransferPaid, TransferFails, Cash, CashPaid, CashFails,
         PayResent, ClosedFor, screen
<1>6. \A b \in Baskets : held'[b].order = held[b].order \/ held'[b].order <= issued
  <2>1. \/ held' = held
        \/ held' = [held EXCEPT ![c.entry.basket].status = "pending"]
        \/ held' = [held EXCEPT ![c.entry.basket] = Free]
    BY DEF Checkout, CheckoutSold, CheckoutRefused, CheckoutLost, Resent, SendFails, SendPay,
         SendPaid, SendPayFails, Transfer, TransferPaid, TransferFails, Cash, CashPaid, CashFails,
         PayResent, screen
  <2>2. CASE held' = held
    BY <2>2
  <2>3. CASE held' = [held EXCEPT ![c.entry.basket].status = "pending"]
    BY <1>2, <2>3, StatusOnly
  <2>4. CASE held' = [held EXCEPT ![c.entry.basket] = Free]
    BY <1>2, <2>4 DEF Free
  <2> QED BY <2>1, <2>2, <2>3, <2>4
<1>7. OldScreen(issued', active', held')
  BY <1>1, <1>2, <1>3, <1>5, <1>6, ScreenOld
<1>8. Redraws
  BY <1>1, <1>2, <1>3, <1>4, <1>7 DEF Redraws
<1> QED BY <1>8, DrawnOn

LEMMA DrawnSendSold ==
  ASSUME Shapes, Drawn, NEW c \in calls, c.by = "send", SendSold(c)
  PROVE  Drawn'
<1>1. CarryOut(c.entry) /\ DrawKey
  BY DEF SendSold
<1>2. /\ Sound(row, c.entry) /\ c.entry.to = "sales" /\ OldBill(issued, c.entry)
      /\ issued \in Nat /\ issued' \in Nat /\ issued <= issued' /\ held \in [Baskets -> HeldBill]
  BY <1>1, CallEnds, Numbers, FreshIsNext DEF Drawn, CallOK, SaleCalls
<1>3. (\A k \in Keys : row'[k] # None => row[k] # None \/ k <= issued) /\ Sold(c.entry) <= issued
  BY <1>1, <1>2, CarriedOld
<1>4. Keys \subseteq Nat /\ Sold(c.entry) \in Nat
  BY <1>1, <1>2, Numbers, CarriedOut
<1>5. \A x \in Baskets : held'[x].order = held[x].order
  BY <1>2, StatusOnly DEF SendSold
<1>6. active' <= issued' /\ OldScreen(issued', active', held')
  <2>1. active' = Sold(c.entry)
    BY DEF SendSold
  <2>2. active' <= issued'
    <3>1. issued \in Nat /\ issued' \in Nat /\ issued <= issued'
      BY <1>2
    <3>2. active' \in Nat /\ active' <= issued
      BY <1>3, <1>4, <2>1
    <3> QED BY <3>1, <3>2
  <2> QED BY <1>2, <1>5, <2>2, ScreenOld
<1>7. OldQueue(issued', outbox')
  <2>1. OldQueue(issued, Dequeue(outbox, c.entry.key)) /\ QueueOK(row, Dequeue(outbox, c.entry.key), "sales")
    BY <1>2, QueueOld, DequeueFacts DEF Shapes, Drawn
  <2>2. outbox' = Dequeue(outbox, c.entry.key) /\ outbox' \in Seq(Entry)
    BY <2>1 DEF SendSold, QueueOK
  <2> QED BY <1>2, <2>1, <2>2, LaterIsOld
<1>8. \A d \in calls' : d \in calls \/ OldBill(issued', d.entry)
  <2>1. PICK payment : calls' = (calls \ {c}) \union {Call("sendPay", payment)} /\ payment.to = "payments"
    BY DEF SendSold, Payment
  <2> QED BY <2>1 DEF Call, OldBill
<1>9. Redraws
  <2>1. \A k \in Keys : row'[k] # None => row[k] # None \/ k <= issued'
    <3>1. issued \in Nat /\ issued' \in Nat /\ issued <= issued'
      BY <1>2
    <3>2. \A k \in Keys : k \in Nat /\ (row'[k] # None => row[k] # None \/ k <= issued)
      BY <1>3, <1>4
    <3> QED BY <3>1, <3>2
  <2>2. disk' = disk /\ late' = late
    BY DEF SendSold
  <2> QED BY <1>2, <1>6, <1>7, <1>8, <2>1, <2>2 DEF Redraws
<1> QED BY <1>9, DrawnOn

LEMMA DrawnStep == Shapes /\ Drawn /\ [Next]_vars => Drawn'
<1> SUFFICES ASSUME Shapes, Drawn, [Next]_vars PROVE Drawn'
  OBVIOUS
<1>1. CASE Cashier
  BY <1>1, DrawnStill, DrawnBegin DEF Cashier
<1>2. CASE TillStep
  <2>1. ASSUME NEW c \in calls,
               Checkout(c) \/ Resent(c) \/ Send(c) \/ SendPay(c) \/ Transfer(c) \/ Cash(c)
                 \/ PayResent(c)
        PROVE  Drawn'
    BY <2>1, DrawnEnd, DrawnSendSold DEF Send
  <2> QED BY <1>2, <2>1, DrawnStill DEF TillStep
<1>3. CASE UNCHANGED vars
  BY <1>3 DEF vars, Drawn
<1> QED BY <1>1, <1>2, <1>3 DEF Next

-----------------------------------------------------------------------------
(* InFlight: what a bill or a transfer of a delivery app finds when it arrives *)

Submits == First \union {"sendPay"}

\* These requests hold the flag of submits: there is one of them at most.
LEMMA SubmitHolds ==
  ASSUME Shapes, Locks
  PROVE  /\ \A c \in calls : c.by \in Submits => "submitting" \in HeldBy(c.by)
         /\ \A c \in calls : c.by \in Submits => "submitting" \in busy
         /\ \A c, d \in calls : "submitting" \in HeldBy(c.by) /\ d.by \in Submits => c = d
<1>1. \A c \in calls : c.by \in Submits => "submitting" \in HeldBy(c.by)
  BY FlagsHeld DEF Submits, First
<1> QED BY <1>1, FlagIsUp, SharedFlag

\* While a bill is sent for the first time, nothing else is awaited.
LEMMA FirstIsAlone ==
  ASSUME Shapes, Locks, NEW c \in calls, c.by \in First
  PROVE  calls = {c}
<1> SUFFICES ASSUME NEW d \in calls PROVE d = c
  OBVIOUS
<1>1. d.by \in SaleCalls \union PayCalls
  BY KnownCalls
<1>2. "transfer" \notin HeldBy(d.by) /\ "cash" \notin HeldBy(d.by)
  BY FlagIsUp DEF Locks
<1>3. "submitting" \in HeldBy(d.by) /\ "submitting" \in HeldBy(c.by)
  BY <1>1, <1>2, FlagsHeld DEF SaleCalls, PayCalls, First
<1> QED BY <1>3, SharedFlag

\* What a step may do around a request that goes on.
Undisturbed(c) ==
  /\ row' = row
  /\ c.by \in First => cart' = cart
  /\ \A e \in late' : e \in late \/ e.to # "sales"

LEMMA InFlightOn ==
  ASSUME InFlight, \A c \in calls' : c.by \in Submits => c \in calls /\ Undisturbed(c)
  PROVE  InFlight'
<1> SUFFICES ASSUME NEW c \in calls', c.by \in Submits
             PROVE  /\ c.by \in First => cart' = c.entry.basket
                    /\ c.by = "send" =>
                         /\ c.entry.basket \in Delivery /\ c.entry.order = NoOrder
                         /\ row'[c.entry.key] = None
                         /\ Untouched(late', c.entry.key)
                         /\ \A e \in late' : e.to = "sales" => e.key # c.entry.key
                    /\ c.by = "sendPay" =>
                         row'[c.entry.order] = c.entry.basket /\ Untouched(late', c.entry.order)
  BY DEF InFlight, Submits, First
<1>1. c \in calls /\ Undisturbed(c)
  OBVIOUS
<1>2. \A k : Untouched(late, k) => Untouched(late', k)
  BY <1>1 DEF Untouched, Undisturbed
<1> QED BY <1>1, <1>2 DEF InFlight, Undisturbed

\* The cashier's steps, and those of the till that end nothing.
LEMMA InFlightStill ==
  ASSUME Shapes, Locks, InFlight,
         \/ HoldBill \/ CloseReview \/ BrowserSaysOnline \/ Reload \/ Hydrate
         \/ Replay \/ Retry \/ PayReplay \/ PayRetry
         \/ CheckoutOffline \/ TransferOffline \/ TransferOnline \/ ConfirmCash
         \/ \E b \in Baskets :
              \/ RingUp(b) \/ StageDelivery(b) \/ CancelDelivery(b) \/ RestoreHeldBill(b)
              \/ SendOffline(b)
         \/ \E part \in DOMAIN Memory : Persist(part)
  PROVE  InFlight'
<1>1. CASE Reload
  BY <1>1 DEF Reload, InFlight
<1>2. CASE Hydrate
  BY <1>2 DEF Hydrate, Locks, InFlight
<1>3. ASSUME "submitting" \notin busy,
             \A c \in calls' : c \in calls \/ c.by \notin Submits
      PROVE  InFlight'
  BY <1>3, SubmitHolds, InFlightOn
<1>4. CASE \/ HoldBill \/ CheckoutOffline
           \/ \E b \in Baskets : RingUp(b) \/ StageDelivery(b) \/ RestoreHeldBill(b) \/ SendOffline(b)
  <2>1. "submitting" \notin busy /\ calls' = calls
    BY <1>4 DEF HoldBill, CheckoutOffline, RingUp, StageDelivery, RestoreHeldBill, SendOffline,
                CanCheckout, CanSend, IsBusy
  <2> QED BY <1>3, <2>1
<1>5. CASE Replay \/ Retry \/ PayReplay \/ PayRetry
  <2>1. "submitting" \notin busy
    BY <1>5 DEF Replay, Retry, PayReplay, PayRetry, IsBusy
  <2>2. \A c \in calls' : c \in calls \/ c.by \in {"replay", "retry", "payReplay", "payRetry"}
    BY <1>5 DEF Replay, Retry, PayReplay, PayRetry, Call
  <2>3. \A by \in {"replay", "retry", "payReplay", "payRetry"} : by \notin Submits
    BY DEF Submits, First
  <2> QED BY <1>3, <2>1, <2>2, <2>3
<1>6. CASE TransferOffline \/ TransferOnline \/ ConfirmCash
  <2>1. row' = row /\ late' = late
    BY <1>6 DEF TransferOffline, TransferOnline, ConfirmCash, server
  <2>2. \A c \in calls' : c \in calls \/ c.by \in {"transfer", "cash"}
    BY <1>6 DEF TransferOffline, TransferOnline, ConfirmCash, Call
  <2>3. \A by \in {"transfer", "cash"} : by \notin Submits
    BY DEF Submits, First
  <2>4. \A c \in calls : c.by \notin First
    BY <1>6 DEF TransferOffline, TransferOnline, ConfirmCash, Locks
  <2> QED BY <2>1, <2>2, <2>3, <2>4, InFlightOn DEF Undisturbed
<1>7. CASE \/ CloseReview \/ BrowserSaysOnline \/ \E b \in Baskets : CancelDelivery(b)
           \/ \E part \in DOMAIN Memory : Persist(part)
  <2>1. UNCHANGED <<row, cart, late, calls>>
    BY <1>7 DEF CloseReview, BrowserSaysOnline, CancelDelivery, Persist, server, screen
  <2> QED BY <2>1, InFlightOn DEF Undisturbed
<1> QED BY <1>1, <1>2, <1>4, <1>5, <1>6, <1>7

\* A bill with a fresh key edits nothing and nothing edits it.
LEMMA InFlightBegin ==
  ASSUME Shapes, Locks, Drawn, InFlight, CheckoutOnline \/ \E b \in Baskets : SendOnline(b)
  PROVE  InFlight'
<1>1. DrawKey /\ "submitting" \notin busy /\ row' = row /\ late' = late
  BY DEF CheckoutOnline, SendOnline, CanCheckout, CanSend, IsBusy, server
<1>2. \A c \in calls : c.by \notin Submits
  BY <1>1, SubmitHolds
<1>3. CASE CheckoutOnline
  <2>1. PICK e : e = Bill(FreshKey, cart, active)
    OBVIOUS
  <2>2. PICK c : c = Call("checkout", e)
    OBVIOUS
  <2>3. c.by = "checkout" /\ c.entry.basket = cart /\ cart' = cart /\ calls' = calls \union {c}
    BY <1>3, <2>1, <2>2 DEF CheckoutOnline, Call, Bill, screen
  <2> QED BY <1>2, <2>3 DEF InFlight, Submits, First
<1>4. ASSUME NEW b \in Baskets, SendOnline(b) PROVE InFlight'
  <2>1. PICK e : e = Bill(FreshKey, b, NoOrder)
    OBVIOUS
  <2>2. PICK c : c = Call("send", e)
    OBVIOUS
  <2>3. /\ c.by = "send" /\ c.entry = e /\ e.basket = b /\ e.key = FreshKey /\ e.order = NoOrder
        /\ cart' = b /\ calls' = calls \union {c} /\ b \in Delivery
    BY <1>4, <2>1, <2>2 DEF SendOnline, CanSend, Call, Bill
  <2>4. /\ FreshKey \in Keys /\ FreshKey = issued + 1 /\ issued \in Nat
        /\ Keys \subseteq Nat /\ Orders \subseteq Nat
    BY <1>1, FreshIsNext, Numbers
  <2>5. row[FreshKey] = None
    BY <2>4 DEF Drawn
  <2>6. \A d \in late : d.to = "sales" => d.order # FreshKey /\ d.key # FreshKey
    BY <2>4 DEF Drawn, OldBill, Shapes, LateOK, Sound, Entry
  <2> QED BY <1>1, <1>2, <2>3, <2>5, <2>6 DEF InFlight, Submits, First, Untouched
<1> QED BY <1>3, <1>4

\* A bill that arrives late touches neither an order that is not there nor one it does not edit.
LEMMA InFlightLate ==
  ASSUME Shapes, Locks, InFlight, NEW e \in late, ServeLate(e)
  PROVE  InFlight'
<1>1. /\ CarryOut(e) /\ Sound(row, e) /\ calls' = calls /\ cart' = cart /\ late' \subseteq late
      /\ row \in [Keys -> Baskets \union {None}] /\ None \notin Baskets /\ e.key \in Keys
  BY ConstantsAssumption DEF ServeLate, screen, Shapes, ServerOK, LateOK, Sound, Entry
<1>2. \A k \in Keys : row'[k] = row[k] \/
        (e.to = "sales" /\ (e.order = k \/ (e.key = k /\ row[k] = None)))
  BY <1>1 DEF CarryOut, CarryOutSale, CarryOutPayment, Sold
<1>3. ASSUME NEW c \in calls, c.by = "send" PROVE row'[c.entry.key] = None
  <2>1. c.entry.key \in Keys
    BY CallEnds
  <2> QED BY <1>2, <1>3, <2>1 DEF InFlight, Untouched
<1>4. ASSUME NEW c \in calls, c.by = "sendPay" PROVE row'[c.entry.order] = c.entry.basket
  <2>1. c.by \notin SaleCalls
    BY <1>4 DEF SaleCalls
  <2>2. c.entry.order \in Keys /\ c.entry.basket \in Baskets /\ Sound(row, c.entry)
    BY <2>1, CallEnds DEF CallOK, Sound, Entry, Orders
  <2> QED BY <1>1, <1>2, <1>4, <2>2 DEF InFlight, Untouched
<1> QED BY <1>1, <1>3, <1>4 DEF InFlight, Untouched

LEMMA InFlightEnd ==
  ASSUME Shapes, Locks, InFlight, NEW c \in calls,
         \/ Checkout(c) \/ Resent(c) \/ (c.by = "send" /\ SendFails(c))
         \/ SendPay(c) \/ Transfer(c) \/ Cash(c) \/ PayResent(c)
  PROVE  InFlight'
<1>1. calls' = calls \ {c}
  <2>1. Answered(c) \/ Conflict(c) \/ Unsent(c)
    BY DEF Checkout, CheckoutSold, CheckoutRefused, CheckoutLost, Resent, SendFails, Unsent, SendPay,
           SendPaid, SendPayFails, Transfer, TransferPaid, TransferFails, Cash, CashPaid, CashFails,
           PayResent
  <2> QED BY <2>1, CallEnds
<1>2. CASE Checkout(c) \/ Resent(c) \/ (c.by = "send" /\ SendFails(c)) \/ SendPay(c)
  <2>1. "submitting" \in HeldBy(c.by)
    BY <1>2, FlagsHeld DEF Checkout, Resent, SendPay
  <2>2. \A d \in calls' : d.by \notin Submits
    BY <1>1, <2>1, SubmitHolds
  <2> QED BY <2>2, InFlightOn
<1>3. CASE Transfer(c) \/ Cash(c) \/ PayResent(c)
  <2>1. c.by \in {"transfer", "cash", "payReplay", "payRetry"}
    BY <1>3 DEF Transfer, Cash, PayResent
  <2>2. c.by \notin First /\ c.by \notin SaleCalls
    BY <2>1 DEF First, SaleCalls
  <2>3. \A d \in calls : d.by \notin First
    BY <2>2, FirstIsAlone
  <2>4. c.entry.to = "payments"
    BY <2>2, CallEnds DEF CallOK, Sound, Entry
  <2>5. row' = row /\ \A e \in late' : e \in late \/ e = c.entry
    <3>1. Answered(c) \/ Unsent(c)
      BY <1>3 DEF Transfer, TransferPaid, TransferFails, Cash, CashPaid, CashFails, PayResent
    <3> QED BY <2>4, <3>1
            DEF Answered, Unsent, Lost, Failed, CarryOut, CarryOutPayment, server
  <2> QED BY <1>1, <2>3, <2>4, <2>5, InFlightOn DEF Undisturbed
<1> QED BY <1>2, <1>3

\* Sold: the order has the items of the bill, and no bill under way edits it.
LEMMA InFlightSendSold ==
  ASSUME Shapes, Locks, InFlight, NEW c \in calls, c.by = "send", SendSold(c)
  PROVE  InFlight'
<1>1. /\ c.entry.order = NoOrder /\ row[c.entry.key] = None
      /\ Untouched(late, c.entry.key) /\ calls = {c}
  BY FirstIsAlone DEF InFlight, First
<1>2. /\ CarryOut(c.entry) /\ late' = late /\ c.entry.to = "sales"
      /\ c.entry.key \in Keys /\ row \in [Keys -> Baskets \union {None}]
  BY CallEnds DEF SendSold, CallOK, SaleCalls, Shapes, ServerOK
<1>3. Sold(c.entry) = c.entry.key /\ row'[c.entry.key] = c.entry.basket
  BY <1>1, <1>2 DEF CarryOut, CarryOutSale, Sold, Editable
<1>4. PICK payment : payment = [Payment(FreshKey, Sold(c.entry)) EXCEPT !.basket = c.entry.basket]
  OBVIOUS
<1>5. payment.order = c.entry.key /\ payment.basket = c.entry.basket
  BY <1>3, <1>4 DEF Payment
<1>6. PICK d : d = Call("sendPay", payment)
  OBVIOUS
<1>7. d.by = "sendPay" /\ d.entry = payment /\ calls' = {d}
  BY <1>1, <1>4, <1>6 DEF Call, SendSold
<1> QED BY <1>1, <1>2, <1>3, <1>5, <1>7 DEF InFlight, First

LEMMA InFlightStep == Shapes /\ Locks /\ Drawn /\ InFlight /\ [Next]_vars => InFlight'
<1> SUFFICES ASSUME Shapes, Locks, Drawn, InFlight, [Next]_vars PROVE InFlight'
  OBVIOUS
<1>1. CASE Cashier
  BY <1>1, InFlightStill, InFlightBegin DEF Cashier
<1>2. CASE TillStep
  <2>1. ASSUME NEW c \in calls,
               Checkout(c) \/ Resent(c) \/ Send(c) \/ SendPay(c) \/ Transfer(c) \/ Cash(c)
                 \/ PayResent(c)
        PROVE  InFlight'
    BY <2>1, InFlightEnd, InFlightSendSold DEF Send
  <2> QED BY <1>2, <2>1, InFlightStill, InFlightLate DEF TillStep
<1>3. CASE UNCHANGED vars
  BY <1>3 DEF vars, InFlight
<1> QED BY <1>1, <1>2, <1>3 DEF Next

-----------------------------------------------------------------------------
(* Homes                                                                      *)

\* An appended bill adds its basket, and a bill that is taken out adds none.
LEMMA AppendedOnce ==
  ASSUME NEW q \in Seq(Entry), NEW e \in Entry
  PROVE  /\ InQueue(Enqueue(q, e)) \subseteq InQueue(q) \union {e.basket}
         /\ \A b : Once(q, b) /\ (b # e.basket \/ b \notin InQueue(q)) => Once(Enqueue(q, e), b)
<1>1. CASE e.key \in KeysOf(q)
  BY <1>1 DEF Enqueue
<1>2. CASE e.key \notin KeysOf(q)
  <2>1. PICK r : r = Append(q, e)
    OBVIOUS
  <2>2. /\ DOMAIN q = 1 .. Len(q) /\ DOMAIN r = 1 .. Len(q) + 1 /\ Len(q) \in Nat
        /\ \A i \in DOMAIN q : r[i] = q[i]
        /\ r[Len(q) + 1] = e
    BY <2>1
  <2>3. \A i \in DOMAIN r : i \in DOMAIN q \/ i = Len(q) + 1
    BY <2>2
  <2>4. InQueue(r) \subseteq InQueue(q) \union {e.basket}
    BY <2>2, <2>3 DEF InQueue
  <2>5. ASSUME NEW b, Once(q, b), b # e.basket \/ b \notin InQueue(q) PROVE Once(r, b)
    <3> SUFFICES ASSUME NEW i \in DOMAIN r, NEW j \in DOMAIN r, r[i].basket = b, r[j].basket = b
                 PROVE  i = j
      BY DEF Once
    <3>1. CASE i \in DOMAIN q /\ j \in DOMAIN q
      BY <2>2, <2>5, <3>1 DEF Once
    <3>2. CASE i = Len(q) + 1 /\ j \in DOMAIN q
      BY <2>2, <2>5, <3>2 DEF InQueue
    <3>3. CASE i \in DOMAIN q /\ j = Len(q) + 1
      BY <2>2, <2>5, <3>3 DEF InQueue
    <3> QED BY <2>3, <3>1, <3>2, <3>3
  <2>6. Enqueue(q, e) = r
    BY <1>2, <2>1 DEF Enqueue
  <2> QED BY <2>4, <2>5, <2>6
<1> QED BY <1>1, <1>2

LEMMA RemovedOnce ==
  ASSUME NEW q \in Seq(Entry), NEW key
  PROVE  /\ InQueue(Dequeue(q, key)) \subseteq InQueue(q)
         /\ \A b : Once(q, b) => Once(Dequeue(q, key), b)
<1>1. CASE key \notin KeysOf(q)
  BY <1>1 DEF Dequeue
<1>2. CASE key \in KeysOf(q)
  <2>1. PICK i \in DOMAIN q : Dequeue(q, key) = RemoveAt(q, i)
    BY <1>2 DEF Dequeue, KeysOf
  <2>2. PICK r : r = RemoveAt(q, i)
    OBVIOUS
  <2>3. /\ DOMAIN r = 1 .. Len(q) - 1 /\ DOMAIN q = 1 .. Len(q) /\ Len(q) \in Nat
        /\ \A j \in 1 .. i - 1 : r[j] = q[j]
        /\ \A j \in i .. Len(q) - 1 : r[j] = q[j + 1]
    BY <2>2, Removed
  <2>4. i \in 1 .. Len(q)
    BY <2>3
  \* Where the j-th bill of the shorter queue was.
  <2>5. DEFINE From(j) == IF j < i THEN j ELSE j + 1
  <2>6. ASSUME NEW j \in DOMAIN r PROVE From(j) \in DOMAIN q /\ r[j] = q[From(j)]
    <3>1. CASE j < i
      BY <2>3, <2>4, <2>6, <3>1
    <3>2. CASE j >= i
      BY <2>3, <2>4, <2>6, <3>2
    <3> QED BY <2>3, <2>4, <3>1, <3>2
  <2>7. ASSUME NEW j \in DOMAIN r, NEW k \in DOMAIN r, From(j) = From(k) PROVE j = k
    BY <2>3, <2>4, <2>7
  <2> HIDE DEF From
  <2>8. InQueue(r) \subseteq InQueue(q)
    BY <2>6 DEF InQueue
  <2>9. \A b : Once(q, b) => Once(r, b)
    BY <2>6, <2>7 DEF Once
  <2> QED BY <2>1, <2>2, <2>8, <2>9
<1> QED BY <1>1, <1>2

LEMMA PlacedLess ==
  ASSUME NEW q, NEW c, NEW h, NEW u, Placed(q, c, h, u),
         NEW r, NEW d, NEW g,
         \A b \in Baskets \ Delivery :
           /\ Once(q, b) => Once(r, b)
           /\ b \in InQueue(r) => b \in InQueue(q)
           /\ d = b => c = b
           /\ g[b].status = "held" => h[b].status = "held"
  PROVE  Placed(r, d, g, u)
BY DEF Placed

\* A basket goes from the cart into the queue.
LEMMA PlacedQueued ==
  ASSUME NEW q \in Seq(Entry), NEW c, NEW h, NEW u, Placed(q, c, h, u), NEW e \in Entry, e.basket = c
  PROVE  Placed(Enqueue(q, e), None, h, u)
<1>1. /\ InQueue(Enqueue(q, e)) \subseteq InQueue(q) \union {c}
      /\ \A b : Once(q, b) /\ (b # c \/ b \notin InQueue(q)) => Once(Enqueue(q, e), b)
  BY AppendedOnce
<1> SUFFICES ASSUME NEW b \in Baskets \ Delivery
             PROVE  /\ Once(Enqueue(q, e), b)
                    /\ b \in InQueue(Enqueue(q, e)) => None # b /\ h[b].status # "held"
                    /\ None = b => h[b].status # "held"
                    /\ b \in InQueue(Enqueue(q, e)) \/ None = b \/ h[b].status = "held" => b \in u
  BY DEF Placed
<1>2. None # b
  BY ConstantsAssumption
<1> QED BY <1>1, <1>2 DEF Placed

\* The basket of a delivery app may be in the queue and on the list at once.
LEMMA PlacedDelivery ==
  ASSUME NEW q \in Seq(Entry), NEW c, NEW h, NEW u, Placed(q, c, h, u),
         NEW e \in Entry, e.basket \in Delivery
  PROVE  Placed(Enqueue(q, e), c, h, u)
BY AppendedOnce DEF Placed

LEMMA PastSame ==
  ASSUME Shapes,
         past' = past \/ \E K : \/ past' = [past EXCEPT !.kept = K]
                               \/ past' = [past EXCEPT !.dropped = K]
  PROVE  past'.torn = past.torn /\ past'.rung = past.rung /\ past'.cancelled = past.cancelled
BY DEF Shapes

LEMMA HomesOn ==
  ASSUME Homes, hydrated, hydrated', past'.torn = past.torn,
         Placed(outbox, cart, held, past.rung) => Placed(outbox', cart', held', past'.rung)
  PROVE  Homes'
BY DEF Homes

\* Steps that only take baskets away, or out of the cart and the list.
LEMMA HomesLess ==
  ASSUME Shapes, Homes, hydrated, hydrated', past'.torn = past.torn, past'.rung = past.rung,
         outbox' = outbox \/ \E key : outbox' = Dequeue(outbox, key),
         cart' = cart \/ cart' \notin Baskets \ Delivery,
         \A b \in Baskets \ Delivery : held'[b].status = "held" => held[b].status = "held"
  PROVE  Homes'
<1>1. outbox \in Seq(Entry)
  BY DEF Shapes, QueueOK
<1>2. \A b : /\ Once(outbox, b) => Once(outbox', b)
             /\ b \in InQueue(outbox') => b \in InQueue(outbox)
  BY <1>1, RemovedOnce
<1>3. \A b \in Baskets \ Delivery : cart' = b => cart = b
  OBVIOUS
<1>4. Placed(outbox, cart, held, past.rung) => Placed(outbox', cart', held', past.rung)
  BY <1>2, <1>3, PlacedLess
<1> QED BY <1>4, HomesOn

\* The cashier's steps with the cart and the list.
LEMMA HomesScreen ==
  ASSUME Shapes, Homes,
         \/ HoldBill \/ CloseReview
         \/ \E b \in Baskets :
              RingUp(b) \/ StageDelivery(b) \/ CancelDelivery(b) \/ RestoreHeldBill(b)
  PROVE  Homes'
<1>1. held \in [Baskets -> HeldBill] /\ cart \in Baskets \union {None} /\ None \notin Baskets
  BY ConstantsAssumption DEF Shapes, ScreenOK
<1>2. CASE HoldBill
  <2>1. cart \in Baskets /\ held'[cart].status = "held" /\ \A b \in Baskets : b # cart => held'[b] = held[b]
    BY <1>1, <1>2 DEF HoldBill
  <2>2. ASSUME Placed(outbox, cart, held, past.rung) PROVE Placed(outbox, None, held', past.rung)
    BY <1>1, <2>1, <2>2 DEF Placed
  <2>3. hydrated /\ hydrated' /\ past' = past /\ outbox' = outbox /\ cart' = None
    BY <1>2 DEF HoldBill, queues
  <2> QED BY <2>2, <2>3, HomesOn
<1>3. CASE CloseReview
  BY <1>3 DEF CloseReview, Homes, queues
<1>4. ASSUME NEW b \in Baskets, RingUp(b) PROVE Homes'
  <2>1. /\ hydrated /\ hydrated' /\ cart = None /\ cart' = b /\ b \notin past.rung /\ b \notin Delivery
        /\ outbox' = outbox /\ held' = held
        /\ past'.rung = past.rung \union {b} /\ past'.torn = past.torn
    BY <1>4 DEF RingUp, queues, Shapes
  <2>2. ASSUME Placed(outbox, cart, held, past.rung)
        PROVE  Placed(outbox, b, held, past.rung \union {b})
    BY <1>1, <2>1, <2>2 DEF Placed
  <2> QED BY <2>1, <2>2, HomesOn
<1>5. ASSUME NEW b \in Baskets, StageDelivery(b) PROVE Homes'
  <2>1. /\ hydrated /\ hydrated' /\ cart' = cart /\ outbox' = outbox /\ b \in Delivery
        /\ past'.rung = past.rung \union {b} /\ past'.torn = past.torn
    BY <1>5 DEF StageDelivery, queues, Shapes
  <2>2. \A x \in Baskets \ Delivery : held'[x] = held[x]
    BY <1>1, <1>5, <2>1, StatusOnly DEF StageDelivery
  <2>3. Placed(outbox, cart, held, past.rung) => Placed(outbox, cart, held', past.rung \union {b})
    BY <2>2 DEF Placed
  <2> QED BY <2>1, <2>3, HomesOn
<1>6. ASSUME NEW b \in Baskets, CancelDelivery(b) PROVE Homes'
  <2>1. /\ hydrated /\ hydrated' /\ cart' = cart /\ outbox' = outbox /\ b \in Delivery
        /\ past'.rung = past.rung /\ past'.torn = past.torn
        /\ \A x \in Baskets \ Delivery : held'[x] = held[x]
    BY <1>1, <1>6 DEF CancelDelivery, queues, Shapes
  <2> QED BY <2>1, HomesLess
<1>7. ASSUME NEW b \in Baskets, RestoreHeldBill(b) PROVE Homes'
  <2>1. /\ hydrated /\ hydrated' /\ cart' = b /\ outbox' = outbox /\ past' = past
        /\ held[b].status = "held" /\ held'[b].status # "held"
        /\ \A x \in Baskets : x # b => held'[x] = held[x]
    BY <1>1, <1>7 DEF RestoreHeldBill, queues, Free
  <2>2. Placed(outbox, cart, held, past.rung) => Placed(outbox, b, held', past.rung)
    BY <2>1 DEF Placed
  <2> QED BY <2>1, <2>2, HomesOn
<1> QED BY <1>2, <1>3, <1>4, <1>5, <1>6, <1>7

\* The steps that send or queue something.
LEMMA HomesBegin ==
  ASSUME Shapes, Homes,
         \/ Replay \/ Retry \/ PayReplay \/ PayRetry
         \/ CheckoutOffline \/ CheckoutOnline \/ TransferOffline \/ TransferOnline \/ ConfirmCash
         \/ \E b \in Baskets : SendOffline(b) \/ SendOnline(b)
  PROVE  Homes'
<1>1. /\ hydrated /\ hydrated'
      /\ past'.torn = past.torn /\ past'.rung = past.rung
  <2>1. hydrated /\ hydrated'
    BY DEF Replay, Retry, PayReplay, PayRetry, CheckoutOffline, CheckoutOnline, TransferOffline,
           TransferOnline, ConfirmCash, SendOffline, SendOnline, CanCheckout, CanSend
  <2>2. past' = past \/ past' = [past EXCEPT !.kept = past.kept \union {FreshKey}]
    BY DEF Replay, Retry, PayReplay, PayRetry, CheckoutOffline, CheckoutOnline, TransferOffline,
           TransferOnline, ConfirmCash, SendOffline, SendOnline, Keep
  <2> QED BY <2>1, <2>2, PastSame
<1>2. /\ held \in [Baskets -> HeldBill] /\ outbox \in Seq(Entry) /\ cart \in Baskets \union {None}
      /\ active \in Orders /\ NoOrder \in Orders /\ None \notin Baskets
  BY ConstantsAssumption DEF Shapes, ScreenOK, QueueOK, Orders
<1>3. CASE \/ Replay \/ Retry \/ PayReplay \/ PayRetry
           \/ CheckoutOnline \/ TransferOffline \/ TransferOnline \/ ConfirmCash
  <2>1. outbox' = outbox /\ held' = held /\ (cart' = cart \/ cart' = None)
    BY <1>3 DEF Replay, Retry, PayReplay, PayRetry, CheckoutOnline, TransferOffline, TransferOnline,
                ConfirmCash, queues, screen
  <2> QED BY <1>1, <1>2, <2>1, HomesLess
<1>4. CASE CheckoutOffline
  <2>1. PICK e : e = Bill(FreshKey, cart, active)
    OBVIOUS
  <2>2. DrawKey /\ cart # None
    BY <1>4 DEF CheckoutOffline, CanCheckout
  <2>3. e \in Entry /\ e.basket = cart
    <3>1. FreshKey \in Keys
      BY <2>2, FreshIsNext
    <3> QED BY <1>2, <2>1, <2>2, <3>1, BillSound DEF Sound, Bill
  <2>4. outbox' = Enqueue(outbox, e) /\ cart' = None /\ held' = held
    BY <1>4, <2>1 DEF CheckoutOffline
  <2> QED BY <1>1, <1>2, <2>3, <2>4, PlacedQueued, HomesOn
<1>5. ASSUME NEW b \in Baskets, SendOffline(b) \/ SendOnline(b) PROVE Homes'
  <2>1. b \in Delivery /\ cart = None /\ (cart' = cart \/ cart' = b) /\ DrawKey
    BY <1>5 DEF SendOffline, SendOnline, CanSend
  <2>2. \A x \in Baskets \ Delivery : held'[x] = held[x]
    <3>1. PICK s \in {"pending", "sending"} : held' = [held EXCEPT ![b].status = s]
      BY <1>5 DEF SendOffline, SendOnline
    <3> QED BY <1>2, <2>1, <3>1, StatusOnly
  <2>3. CASE SendOnline(b)
    <3>1. outbox' = outbox
      BY <2>3 DEF SendOnline, queues
    <3> QED BY <1>1, <2>1, <2>2, <3>1, HomesLess
  <2>4. CASE SendOffline(b)
    <3>1. PICK e : e = Bill(FreshKey, b, NoOrder)
      OBVIOUS
    <3>2. e \in Entry /\ e.basket = b
      <4>1. FreshKey \in Keys
        BY <2>1, FreshIsNext
      <4> QED BY <1>2, <3>1, <4>1, BillSound DEF Sound, Bill
    <3>3. outbox' = Enqueue(outbox, e) /\ cart' = cart
      BY <2>4, <3>1 DEF SendOffline
    <3>4. Placed(outbox, cart, held, past.rung) => Placed(outbox', cart', held', past.rung)
      <4>1. Placed(outbox, cart, held, past.rung) => Placed(Enqueue(outbox, e), cart, held, past.rung)
        BY <1>2, <2>1, <3>2, PlacedDelivery
      <4> QED BY <2>2, <3>3, <4>1, PlacedLess
    <3> QED BY <1>1, <3>4, HomesOn
  <2> QED BY <1>5, <2>3, <2>4
<1> QED BY <1>3, <1>4, <1>5

\* The steps that end a request.
LEMMA HomesEnd ==
  ASSUME Shapes, Locks, InFlight, Homes, NEW c \in calls,
         \/ Checkout(c) \/ Resent(c) \/ Send(c)
         \/ SendPay(c) \/ Transfer(c) \/ Cash(c) \/ PayResent(c)
  PROVE  Homes'
<1>1. /\ hydrated /\ hydrated'
      /\ past'.torn = past.torn /\ past'.rung = past.rung
  <2>1. hydrated /\ hydrated' = hydrated
    BY DEF Locks, Checkout, CheckoutSold, CheckoutRefused, CheckoutLost, Resent, Send, SendSold,
         SendFails, SendPay, SendPaid, SendPayFails, Transfer, TransferPaid, TransferFails, Cash,
         CashPaid, CashFails, PayResent
  <2>2. past' = past \/ \E K : \/ past' = [past EXCEPT !.kept = K]
                               \/ past' = [past EXCEPT !.dropped = K]
    BY DEF Checkout, CheckoutSold, CheckoutRefused, CheckoutLost, Resent, Send, SendSold,
         SendFails, SendPay, SendPaid, SendPayFails, Transfer, TransferPaid, TransferFails, Cash,
         CashPaid, CashFails, PayResent, Keep
  <2> QED BY <2>1, <2>2, PastSame
<1>2. /\ held \in [Baskets -> HeldBill] /\ outbox \in Seq(Entry) /\ None \notin Baskets
      /\ c.entry \in Entry /\ c.entry.basket \in Baskets
  BY CallEnds, ConstantsAssumption DEF Shapes, ScreenOK, QueueOK, Sound
<1>3. CASE c.by = "checkout" /\ CheckoutLost(c)
  <2>1. outbox' = Enqueue(outbox, c.entry) /\ cart' = None /\ held' = held /\ cart = c.entry.basket
    BY <1>3 DEF CheckoutLost, InFlight, First
  <2> QED BY <1>1, <1>2, <2>1, PlacedQueued, HomesOn
<1>4. CASE c.by = "send" /\ SendFails(c)
  <2>1. /\ outbox' = Enqueue(outbox, c.entry) /\ cart' = None /\ c.entry.basket \in Delivery
        /\ held' = [held EXCEPT ![c.entry.basket].status = "pending"]
    BY <1>4 DEF SendFails, InFlight
  <2>2. \A x \in Baskets \ Delivery : held'[x] = held[x]
    BY <1>2, <2>1, StatusOnly
  <2>3. Placed(outbox, cart, held, past.rung) => Placed(outbox', cart', held', past.rung)
    <3>1. Placed(outbox, cart, held, past.rung) => Placed(Enqueue(outbox, c.entry), cart, held, past.rung)
      BY <1>2, <2>1, PlacedDelivery
    <3>2. PICK q : q = Enqueue(outbox, c.entry)
      OBVIOUS
    <3>3. \A b \in Baskets \ Delivery : None = b => cart = b
      BY <1>2
    <3>4. Placed(q, cart, held, past.rung) => Placed(q, None, held', past.rung)
      BY <2>2, <3>3, PlacedLess
    <3> QED BY <2>1, <3>1, <3>2, <3>4
  <2> QED BY <1>1, <2>3, HomesOn
<1>5. CASE ~(c.by = "checkout" /\ CheckoutLost(c)) /\ ~(c.by = "send" /\ SendFails(c))
  <2>1. /\ outbox' = outbox \/ outbox' = Dequeue(outbox, c.entry.key)
        /\ cart' = cart \/ cart' = None
        /\ \/ held' = held \/ held' = [held EXCEPT ![c.entry.basket] = Free]
           \/ held' = [held EXCEPT ![c.entry.basket].status = "pending"]
           \/ held' = [held EXCEPT ![c.entry.basket].status = "sent"]
    BY <1>5 DEF Checkout, CheckoutSold, CheckoutRefused, Resent, Send, SendSold,
         SendPay, SendPaid, SendPayFails, Transfer, TransferPaid, TransferFails, Cash,
         CashPaid, CashFails, PayResent, queues, screen
  <2>2. \A x \in Baskets : held'[x].status = "held" => held[x].status = "held"
    <3>1. CASE held' = held
      BY <3>1
    <3>2. CASE held' = [held EXCEPT ![c.entry.basket] = Free]
      BY <1>2, <3>2 DEF Free
    <3>3. ASSUME NEW s \in {"pending", "sent"}, held' = [held EXCEPT ![c.entry.basket].status = s]
          PROVE  \A x \in Baskets : held'[x].status = "held" => held[x].status = "held"
      BY <1>2, <3>3, StatusOnly
    <3> QED BY <2>1, <3>1, <3>2, <3>3
  <2>3. cart' = cart \/ cart' \notin Baskets \ Delivery
    BY <1>2, <2>1
  <2>4. outbox' = outbox \/ \E key : outbox' = Dequeue(outbox, key)
    BY <2>1
  <2> QED BY <1>1, <2>2, <2>3, <2>4, HomesLess
<1> QED BY <1>3, <1>4, <1>5

\* The server, the timers and reloads: what the storage has is what the memory had, or the tab was
\* closed between two writes.
LEMMA HomesAround ==
  ASSUME Shapes, Homes,
         \/ BrowserSaysOnline \/ Reload \/ Hydrate
         \/ \E e \in late : ServeLate(e)
         \/ \E part \in DOMAIN Memory : Persist(part)
  PROVE  Homes'
<1>1. CASE BrowserSaysOnline \/ \E part \in DOMAIN Memory : Persist(part)
  <2>1. /\ hydrated /\ UNCHANGED <<outbox, cart, held, past, hydrated>>
    BY <1>1 DEF BrowserSaysOnline, Persist, screen, queues
  <2> QED BY <2>1 DEF Homes
<1>2. ASSUME NEW e \in late, ServeLate(e) PROVE Homes'
  BY <1>2 DEF ServeLate, Homes, screen, queues
<1>3. CASE Reload
  <2>1. /\ hydrated /\ ~hydrated' /\ disk' = disk /\ past'.rung = past.rung
        /\ past'.torn = (past.torn \/ disk # Memory \/ calls # {})
    BY <1>3 DEF Reload, Shapes
  <2>2. disk = Memory => disk.outbox = outbox /\ disk.cart = cart /\ disk.held = held
    BY DEF Memory
  <2>3. Placed(outbox', cart', held', past'.rung)
    BY <1>3, ConstantsAssumption DEF Reload, Placed, Once, InQueue, Free
  <2> QED BY <2>1, <2>2, <2>3 DEF Homes
<1>4. CASE Hydrate
  BY <1>4 DEF Hydrate, Homes
<1> QED BY <1>1, <1>2, <1>3, <1>4

LEMMA HomesStep == Shapes /\ Locks /\ InFlight /\ Homes /\ [Next]_vars => Homes'
<1> SUFFICES ASSUME Shapes, Locks, InFlight, Homes, [Next]_vars PROVE Homes'
  OBVIOUS
<1>1. CASE Cashier
  BY <1>1, HomesScreen, HomesBegin DEF Cashier
<1>2. CASE TillStep
  <2>1. ASSUME NEW c \in calls,
               Checkout(c) \/ Resent(c) \/ Send(c) \/ SendPay(c) \/ Transfer(c) \/ Cash(c)
                 \/ PayResent(c)
        PROVE  Homes'
    BY <2>1, HomesEnd
  <2> QED BY <1>2, <2>1, HomesBegin, HomesAround DEF TillStep
<1>3. CASE UNCHANGED vars
  BY <1>3 DEF vars, Homes
<1> QED BY <1>1, <1>2, <1>3 DEF Next

-----------------------------------------------------------------------------
(* Delivered                                                                  *)

\* An order that is paid is not edited any more.
LEMMA PaidStays ==
  ASSUME Shapes, UNCHANGED server \/ \E e : Sound(row, e) /\ CarryOut(e), NEW b \in Baskets,
         Paid(row, settled, b)
  PROVE  Paid(row', settled', b)
<1>1. /\ row \in [Keys -> Baskets \union {None}] /\ settled \in [Keys -> SUBSET Keys]
      /\ \A k \in Keys : settled[k] # {} => row[k] # None
  BY DEF Shapes, ServerOK
<1>2. PICK k \in Keys : row[k] = b /\ settled[k] # {}
  BY DEF Paid
<1>3. CASE UNCHANGED server
  BY <1>3 DEF server
<1>4. ASSUME NEW e, Sound(row, e), CarryOut(e) PROVE row'[k] = b /\ settled'[k] # {}
  <2>1. e.key \in Keys
    BY <1>4 DEF Sound, Entry
  <2>2. CASE e.to = "sales"
    <3>1. ~Editable(k) /\ row[k] # None
      BY <1>1, <1>2 DEF Editable
    <3>2. settled' = settled
      BY <1>4, <2>2 DEF CarryOut, CarryOutSale
    <3>3. row'[k] = row[k]
      <4>1. CASE Editable(e.order)
        BY <1>1, <1>4, <2>2, <3>1, <4>1 DEF CarryOut, CarryOutSale, Sold
      <4>2. CASE ~Editable(e.order)
        BY <1>1, <1>4, <2>1, <2>2, <3>1, <4>2 DEF CarryOut, CarryOutSale, Sold
      <4> QED BY <4>1, <4>2
    <3> QED BY <1>2, <3>2, <3>3
  <2>3. CASE e.to # "sales"
    BY <1>1, <1>2, <1>4, <2>3 DEF CarryOut, CarryOutPayment
  <2> QED BY <2>2, <2>3
<1> QED BY <1>2, <1>3, <1>4 DEF Paid

\* What a step may do to a delivery bill.
Handles(b) ==
  \/ held'[b] = held[b]
  \/ held'[b].status \in {"pending", "sending", "sent"}
  \/ held'[b] = Free /\ (b \in past'.cancelled \/ Paid(row', settled', b))

LEMMA DeliveredOn ==
  ASSUME Shapes, Delivered, hydrated, hydrated', past'.torn = past.torn, Delivery \subseteq Baskets,
         past.cancelled \subseteq past'.cancelled,
         UNCHANGED server \/ \E e : Sound(row, e) /\ CarryOut(e),
         \A b \in Delivery : Handles(b),
         \A b \in Delivery : b \in past'.rung => b \in past.rung \/ held'[b] # Free,
         (cart \in Delivery => \E c \in calls : c.by = "send")
           => (cart' \in Delivery => \E c \in calls' : c.by = "send")
  PROVE  Delivered'
<1> SUFFICES ASSUME ~past.torn
             PROVE  /\ \A b \in Delivery :
                         /\ held'[b].status # "held"
                         /\ b \in past'.rung \ past'.cancelled /\ held'[b] = Free
                              => Paid(row', settled', b)
                    /\ cart' \in Delivery => \E c \in calls' : c.by = "send"
  BY DEF Delivered, Listed
<1>1. /\ \A b \in Delivery :
           /\ held[b].status # "held"
           /\ b \in past.rung \ past.cancelled /\ held[b] = Free => Paid(row, settled, b)
      /\ cart' \in Delivery => \E c \in calls' : c.by = "send"
  BY DEF Delivered, Listed
<1>2. ASSUME NEW b \in Delivery
      PROVE  /\ held'[b].status # "held"
             /\ b \in past'.rung \ past'.cancelled /\ held'[b] = Free => Paid(row', settled', b)
  <2>1. Free.status = "none"
    BY DEF Free
  <2>2. CASE held'[b] = held[b]
    <3>1. Paid(row, settled, b) => Paid(row', settled', b)
      BY PaidStays
    <3> QED BY <1>1, <2>2, <3>1
  <2>3. CASE held'[b].status \in {"pending", "sending", "sent"}
    BY <2>1, <2>3
  <2>4. CASE held'[b] = Free /\ (b \in past'.cancelled \/ Paid(row', settled', b))
    BY <2>1, <2>4
  <2> QED BY <2>2, <2>3, <2>4 DEF Handles
<1> QED BY <1>1, <1>2

\* The steps that end nothing.
LEMMA DeliveredStill ==
  ASSUME Shapes, Locks, Delivered,
         \/ HoldBill \/ BrowserSaysOnline
         \/ Replay \/ Retry \/ PayReplay \/ PayRetry
         \/ CheckoutOffline \/ CheckoutOnline \/ TransferOffline \/ TransferOnline \/ ConfirmCash
         \/ \E b \in Baskets :
              \/ RingUp(b) \/ StageDelivery(b) \/ CancelDelivery(b) \/ RestoreHeldBill(b)
              \/ SendOffline(b) \/ SendOnline(b)
         \/ \E part \in DOMAIN Memory : Persist(part)
  PROVE  Delivered'
<1>1. held \in [Baskets -> HeldBill] /\ None \notin Delivery /\ Delivery \subseteq Baskets
  BY ConstantsAssumption DEF Shapes, ScreenOK
<1>2. hydrated /\ hydrated' /\ UNCHANGED server
  <2>1. UNCHANGED <<server, hydrated>>
    BY DEF HoldBill, BrowserSaysOnline, Replay, Retry, PayReplay, PayRetry,
           CheckoutOffline, CheckoutOnline, TransferOffline, TransferOnline, ConfirmCash, RingUp,
           StageDelivery, CancelDelivery, RestoreHeldBill, SendOffline, SendOnline, Persist
  <2>2. hydrated
    BY DEF HoldBill, BrowserSaysOnline, Replay, Retry, PayReplay, PayRetry,
           CheckoutOffline, CheckoutOnline, TransferOffline, TransferOnline, ConfirmCash, RingUp,
           StageDelivery, CancelDelivery, RestoreHeldBill, SendOffline, SendOnline, Persist,
           CanCheckout, CanSend
  <2> QED BY <2>1, <2>2
\* While no bill is sent, no delivery bill is in the cart.
<1>3. ASSUME "submitting" \notin busy, Delivered
      PROVE  past.torn \/ (cart \notin Delivery /\ \A b \in Delivery : held[b].status # "held")
  <2>1. \A c \in calls : c.by # "send"
    BY <1>3, SubmitHolds DEF Submits, First
  <2> QED BY <1>2, <2>1 DEF Delivered, Listed
<1>4. CASE \/ Replay \/ Retry \/ PayReplay \/ PayRetry
           \/ CheckoutOffline \/ CheckoutOnline \/ TransferOffline \/ TransferOnline \/ ConfirmCash
           \/ BrowserSaysOnline \/ \E part \in DOMAIN Memory : Persist(part)
  <2>1. /\ held' = held /\ calls \subseteq calls' /\ (cart' = cart \/ cart' = None)
        /\ past' = past \/ past' = [past EXCEPT !.kept = past.kept \union {FreshKey}]
    BY <1>4 DEF Replay, Retry, PayReplay, PayRetry, CheckoutOffline, CheckoutOnline,
                TransferOffline, TransferOnline, ConfirmCash, BrowserSaysOnline,
                Persist, screen, Keep
  <2>2. past'.torn = past.torn /\ past'.rung = past.rung /\ past'.cancelled = past.cancelled
    BY <2>1, PastSame
  <2> QED BY <1>1, <1>2, <2>1, <2>2, DeliveredOn DEF Handles
<1>5. CASE HoldBill
  <2>1. "submitting" \notin busy /\ past' = past /\ cart' = None
        /\ held' = [held EXCEPT ![cart] = [status |-> "held", order |-> active]]
    BY <1>5 DEF HoldBill, IsBusy
  <2>2. CASE past.torn
    BY <2>1, <2>2 DEF Delivered
  <2>3. CASE ~past.torn
    <3>1. \A b \in Delivery : Handles(b)
      BY <1>1, <1>3, <2>1, <2>3 DEF Handles
    <3> QED BY <1>1, <1>2, <2>1, <3>1, DeliveredOn
  <2> QED BY <2>2, <2>3
<1>6. ASSUME NEW b \in Baskets, RingUp(b) PROVE Delivered'
  <2>1. /\ held' = held /\ cart' = b /\ b \notin Delivery /\ past'.rung = past.rung \union {b}
        /\ past'.torn = past.torn /\ past'.cancelled = past.cancelled
    BY <1>6 DEF RingUp, Shapes
  <2> QED BY <1>1, <1>2, <2>1, DeliveredOn DEF Handles
<1>7. ASSUME NEW b \in Baskets, StageDelivery(b) PROVE Delivered'
  <2>1. /\ held' = [held EXCEPT ![b].status = "pending"] /\ cart' = cart /\ calls' = calls
        /\ past'.rung = past.rung \union {b}
        /\ past'.torn = past.torn /\ past'.cancelled = past.cancelled
    BY <1>7 DEF StageDelivery, Shapes
  <2>2. /\ \A x \in Delivery : held'[x] = held[x] \/ held'[x].status = "pending"
        /\ held'[b].status = "pending"
    BY <1>1, <2>1, StatusOnly
  <2>3. \A x \in Delivery : x \in past'.rung => x \in past.rung \/ held'[x] # Free
    BY <2>1, <2>2 DEF Free
  <2> QED BY <1>1, <1>2, <2>1, <2>2, <2>3, DeliveredOn DEF Handles
<1>8. ASSUME NEW b \in Baskets, CancelDelivery(b) PROVE Delivered'
  <2>1. /\ held' = [held EXCEPT ![b] = Free] /\ cart' = cart /\ calls' = calls
        /\ past'.rung = past.rung /\ past'.torn = past.torn
        /\ past'.cancelled = past.cancelled \union {b}
    BY <1>8 DEF CancelDelivery, Shapes
  <2>2. \A x \in Delivery : Handles(x)
    BY <1>1, <2>1 DEF Handles
  <2> QED BY <1>1, <1>2, <2>1, <2>2, DeliveredOn
<1>9. ASSUME NEW b \in Baskets, RestoreHeldBill(b) PROVE Delivered'
  <2>1. /\ held' = [held EXCEPT ![b] = Free] /\ cart' = b /\ past' = past
        /\ "submitting" \notin busy /\ held[b].status = "held"
    BY <1>9 DEF RestoreHeldBill, IsBusy
  <2>2. CASE past.torn
    BY <2>1, <2>2 DEF Delivered
  <2>3. CASE ~past.torn
    <3>1. b \notin Delivery
      BY <1>3, <2>1, <2>3
    <3>2. \A x \in Delivery : Handles(x)
      BY <1>1, <2>1, <3>1 DEF Handles
    <3> QED BY <1>1, <1>2, <2>1, <3>1, <3>2, DeliveredOn
  <2> QED BY <2>2, <2>3
<1>10. ASSUME NEW b \in Baskets, SendOffline(b) \/ SendOnline(b) PROVE Delivered'
  <2>1. PICK s \in {"pending", "sending"} : held' = [held EXCEPT ![b].status = s]
    BY <1>10 DEF SendOffline, SendOnline
  <2>2. \A x \in Delivery : held'[x] = held[x] \/ held'[x].status = s
    BY <1>1, <2>1, StatusOnly
  <2>3. past'.torn = past.torn /\ past'.rung = past.rung /\ past'.cancelled = past.cancelled
    <3>1. past' = past \/ past' = [past EXCEPT !.kept = past.kept \union {FreshKey}]
      BY <1>10 DEF SendOffline, SendOnline, Keep
    <3> QED BY <3>1, PastSame
  <2>4. \/ cart' = cart /\ calls' = calls
        \/ \E c \in calls' : c.by = "send"
    BY <1>10 DEF SendOffline, SendOnline, Call
  <2>5. \A x \in Delivery : Handles(x)
    BY <2>2 DEF Handles
  <2> QED BY <1>1, <1>2, <2>3, <2>4, <2>5, DeliveredOn
<1> QED BY <1>4, <1>5, <1>6, <1>7, <1>8, <1>9, <1>10

\* The steps that end a request.
LEMMA DeliveredEnd ==
  ASSUME Shapes, Locks, InFlight, Delivered, NEW c \in calls,
         \/ Checkout(c) \/ Resent(c) \/ Send(c)
         \/ SendPay(c) \/ Transfer(c) \/ Cash(c) \/ PayResent(c)
  PROVE  Delivered'
<1>1. /\ held \in [Baskets -> HeldBill] /\ None \notin Delivery /\ Delivery \subseteq Baskets
      /\ Sound(row, c.entry) /\ c.entry.basket \in Baskets
  BY CallEnds, ConstantsAssumption DEF Shapes, ScreenOK
<1>2. /\ hydrated /\ hydrated'
      /\ past'.torn = past.torn /\ past'.rung = past.rung /\ past'.cancelled = past.cancelled
  <2>1. hydrated /\ hydrated' = hydrated
    BY DEF Locks, Checkout, CheckoutSold, CheckoutRefused, CheckoutLost, Resent, Send, SendSold,
         SendFails, SendPay, SendPaid, SendPayFails, Transfer, TransferPaid, TransferFails, Cash,
         CashPaid, CashFails, PayResent
  <2>2. past' = past \/ \E K : \/ past' = [past EXCEPT !.kept = K]
                               \/ past' = [past EXCEPT !.dropped = K]
    BY DEF Checkout, CheckoutSold, CheckoutRefused, CheckoutLost, Resent, Send, SendSold,
         SendFails, SendPay, SendPaid, SendPayFails, Transfer, TransferPaid, TransferFails, Cash,
         CashPaid, CashFails, PayResent, Keep
  <2> QED BY <2>1, <2>2, PastSame
<1>3. UNCHANGED server \/ \E e : Sound(row, e) /\ CarryOut(e)
  <2>1. UNCHANGED server \/ CarryOut(c.entry)
    BY DEF Checkout, CheckoutSold, CheckoutRefused, CheckoutLost, Resent, Send, SendSold,
         SendFails, SendPay, SendPaid, SendPayFails, Transfer, TransferPaid, TransferFails, Cash,
         CashPaid, CashFails, PayResent, Answered, Conflict, Unsent, Lost, Failed
  <2> QED BY <1>1, <2>1
\* A delivery bill leaves the list when its transfer is answered.
<1>4. SendPaid(c) /\ c.by = "sendPay" => Paid(row', settled', c.entry.basket)
  <2> SUFFICES ASSUME SendPaid(c), c.by = "sendPay" PROVE Paid(row', settled', c.entry.basket)
    OBVIOUS
  <2>1. c.entry.to = "payments" /\ c.entry.order \in Keys /\ c.entry.key \in Keys
    BY CallEnds DEF CallOK, SaleCalls, Sound, Entry, Orders
  <2>2. row[c.entry.order] = c.entry.basket /\ settled \in [Keys -> SUBSET Keys]
    BY DEF InFlight, Shapes, ServerOK
  <2>3. row' = row /\ settled' = [settled EXCEPT ![c.entry.order] = @ \union {c.entry.key}]
    BY <2>1 DEF SendPaid, Answered, CarryOut, CarryOutPayment
  <2>4. c.entry.key \in settled'[c.entry.order]
    BY <2>1, <2>2, <2>3
  <2> QED BY <2>1, <2>2, <2>3, <2>4 DEF Paid
<1>5. \A b \in Delivery : Handles(b)
  <2>1. \/ held' = held
        \/ SendPaid(c) /\ c.by = "sendPay" /\ held' = [held EXCEPT ![c.entry.basket] = Free]
        \/ held' = [held EXCEPT ![c.entry.basket].status = "pending"]
        \/ held' = [held EXCEPT ![c.entry.basket].status = "sent"]
    BY DEF Checkout, CheckoutSold, CheckoutRefused, CheckoutLost, Resent, Send, SendSold,
         SendFails, SendPay, SendPaid, SendPayFails, Transfer, TransferPaid, TransferFails, Cash,
         CashPaid, CashFails, PayResent, screen
  <2>2. ASSUME NEW s \in {"pending", "sent"}, held' = [held EXCEPT ![c.entry.basket].status = s]
        PROVE  \A b \in Delivery : Handles(b)
    <3>1. \A b \in Delivery : held'[b] = held[b] \/ held'[b].status = s
      BY <1>1, <2>2, StatusOnly
    <3> QED BY <3>1 DEF Handles
  <2>3. CASE SendPaid(c) /\ c.by = "sendPay" /\ held' = [held EXCEPT ![c.entry.basket] = Free]
    <3>1. \A b \in Delivery : held'[b] = held[b] \/ (b = c.entry.basket /\ held'[b] = Free)
      BY <1>1, <2>3
    <3> QED BY <1>4, <2>3, <3>1 DEF Handles
  <2>4. CASE held' = held
    BY <2>4 DEF Handles
  <2> QED BY <2>1, <2>2, <2>3, <2>4
<1>6. (cart \in Delivery => \E d \in calls : d.by = "send")
        => (cart' \in Delivery => \E d \in calls' : d.by = "send")
  <2>1. CASE cart' = None
    BY <1>1, <2>1
  <2>2. CASE cart' # None
    <3>1. cart' = cart /\ c.by # "send"
      BY <2>2 DEF Checkout, CheckoutSold, CheckoutRefused, CheckoutLost, Resent, Send, SendSold,
         SendFails, SendPay, SendPaid, SendPayFails, Transfer, TransferPaid, TransferFails, Cash,
         CashPaid, CashFails, PayResent, screen
    <3>2. \A d \in calls : d.by # "send"
      BY <3>1, FirstIsAlone DEF First
    <3> QED BY <3>1, <3>2
  <2> QED BY <2>1, <2>2
<1> QED BY <1>1, <1>2, <1>3, <1>5, <1>6, DeliveredOn

LEMMA DeliveredAround ==
  ASSUME Shapes, Locks, Delivered, CloseReview \/ Reload \/ Hydrate \/ \E e \in late : ServeLate(e)
  PROVE  Delivered'
<1>1. Delivery \subseteq Baskets /\ None \notin Delivery
  BY ConstantsAssumption
<1>2. ASSUME UNCHANGED server PROVE UNCHANGED <<row, settled>>
  BY <1>2 DEF server
<1>3. CASE CloseReview
  <2>1. UNCHANGED <<row, settled, cart, held, calls, disk, hydrated, past>>
    BY <1>2, <1>3 DEF CloseReview
  <2> QED BY <2>1 DEF Delivered, Listed
<1>4. CASE Reload
  <2>1. /\ hydrated /\ ~hydrated' /\ disk' = disk /\ UNCHANGED <<row, settled>>
        /\ past'.rung = past.rung /\ past'.cancelled = past.cancelled
        /\ past'.torn = (past.torn \/ disk # Memory \/ calls # {})
    BY <1>2, <1>4 DEF Reload, Shapes
  <2>2. disk = Memory => disk.cart = cart /\ disk.held = held
    BY DEF Memory
  <2> QED BY <2>1, <2>2 DEF Delivered, Listed
<1>5. CASE Hydrate
  <2>1. /\ ~hydrated /\ hydrated' /\ UNCHANGED <<row, settled, past>>
        /\ cart' = disk.cart /\ held' = disk.held
    BY <1>2, <1>5 DEF Hydrate
  <2> QED BY <2>1 DEF Delivered, Listed
<1>6. ASSUME NEW e \in late, ServeLate(e) PROVE Delivered'
  <2>1. Sound(row, e) /\ CarryOut(e) /\ UNCHANGED <<cart, held, calls, disk, hydrated, past>>
    BY <1>6 DEF ServeLate, screen, Shapes, LateOK
  <2>2. \A b \in Delivery : Paid(row, settled, b) => Paid(row', settled', b)
    BY <1>1, <2>1, PaidStays
  <2> QED BY <2>1, <2>2 DEF Delivered, Listed
<1> QED BY <1>3, <1>4, <1>5, <1>6

LEMMA DeliveredStep == Shapes /\ Locks /\ InFlight /\ Delivered /\ [Next]_vars => Delivered'
<1> SUFFICES ASSUME Shapes, Locks, InFlight, Delivered, [Next]_vars PROVE Delivered'
  OBVIOUS
<1>1. CASE Cashier
  BY <1>1, DeliveredStill, DeliveredAround DEF Cashier
<1>2. CASE TillStep
  <2>1. ASSUME NEW c \in calls,
               Checkout(c) \/ Resent(c) \/ Send(c) \/ SendPay(c) \/ Transfer(c) \/ Cash(c)
                 \/ PayResent(c)
        PROVE  Delivered'
    BY <2>1, DeliveredEnd
  <2> QED BY <1>2, <2>1, DeliveredStill, DeliveredAround DEF TillStep
<1>3. CASE UNCHANGED vars
  BY <1>3 DEF vars, Delivered, Listed
<1> QED BY <1>1, <1>2, <1>3 DEF Next

-----------------------------------------------------------------------------

\* The shapes, the flags, the queued keys and the places of the baskets stay right together.
THEOREM Invariance == Spec => []IInv
<1>1. Init => IInv
  <2> SUFFICES ASSUME Init PROVE IInv
    OBVIOUS
  <2>1. Locks /\ Kept
    BY DEF Init, Locks, Kept, AcceptedIsKept
  <2>2. Drawn
    BY DEF Init, Drawn, OldScreen, OldQueue, Memory, Free, NoOrder
  <2>3. InFlight
    BY DEF Init, InFlight
  <2>4. Homes
    BY ConstantsAssumption DEF Init, Homes, Placed, Once, InQueue, Free
  <2>5. Delivered
    BY ConstantsAssumption DEF Init, Delivered, Listed, Free
  <2> QED BY <2>1, <2>2, <2>3, <2>4, <2>5, ShapesInit DEF IInv
<1>2. IInv /\ [Next]_vars => IInv'
  BY ShapesStep, LocksStep, KeptStep, DrawnStep, InFlightStep, HomesStep, DeliveredStep DEF IInv
<1> QED BY <1>1, <1>2, PTL DEF Spec

\* The queues, the storage and the requests under way have the shape that they should, whatever
\* the till, the server and reloads do; in particular payments are for orders that exist.
THEOREM TillTypes == Spec => []TypeOK
<1>1. IInv => TypeOK
  <2> SUFFICES ASSUME IInv PROVE TypeOK
    OBVIOUS
  <2>1. busy \subseteq Flags
    <3>1. \A by \in SaleCalls \union PayCalls : HeldBy(by) \subseteq Flags
      BY FlagsHeld DEF SaleCalls, PayCalls, Flags
    <3>2. \A c \in calls : c.by \in SaleCalls \union PayCalls
      BY KnownCalls DEF IInv
    <3> QED BY <3>1, <3>2, FlagIsUp DEF IInv
  <2>2. \A c \in calls : c.entry \in Entry
    BY DEF IInv, Shapes, CallsOK, CallOK, Sound
  <2>3. late \subseteq Entry
    BY DEF IInv, Shapes, LateOK, Sound
  <2>4. /\ row \in [Keys -> Baskets \union {None}] /\ settled \in [Keys -> SUBSET Keys]
        /\ \A k \in Keys : settled[k] # {} => row[k] # None
    BY DEF IInv, Shapes, ServerOK
  <2>5. /\ cart \in Baskets \union {None} /\ held \in [Baskets -> HeldBill]
        /\ {active, review} \subseteq Keys \union {NoOrder}
    BY DEF IInv, Shapes, ScreenOK, ReviewOK, Orders
  <2>6. outbox \in Seq(Entry) /\ payBox \in Seq(Entry)
    BY DEF IInv, Shapes, QueueOK
  <2> QED BY <2>1, <2>2, <2>3, <2>4, <2>5, <2>6 DEF TypeOK
<1> QED BY <1>1, Invariance, PTL

\* No bill and no transfer that the till has queued gets lost, but for the reloads and conflicts
\* that past names.
THEOREM QueuedIsKept == Spec => []AcceptedIsKept
<1>1. IInv => AcceptedIsKept
  BY DEF IInv, Kept
<1> QED BY <1>1, Invariance, PTL

LEMMA AtMostOne ==
  ASSUME NEW S, \A x, y \in S : x = y
  PROVE  Cardinality(S) <= 1
<1>1. CASE S = {}
  BY <1>1, FS_EmptySet
<1>2. CASE S # {}
  <2>1. PICK x : S = {x}
    BY <1>2
  <2> QED BY <2>1, FS_Singleton
<1> QED BY <1>1, <1>2

\* The flags keep the ways to send a bill apart, and the ways to send a transfer.
THEOREM SubmitsAreSingle == Spec => []OneSubmitAtATime
<1>1. IInv => OneSubmitAtATime
  <2> SUFFICES ASSUME IInv PROVE OneSubmitAtATime
    OBVIOUS
  <2>1. ASSUME NEW c \in {d \in calls : d.entry.to = "sales"},
               NEW e \in {d \in calls : d.entry.to = "sales"}
        PROVE  c = e
    <3>1. c.by \in SaleCalls /\ e.by \in SaleCalls
      BY DEF IInv, Shapes, CallsOK, CallOK
    <3>2. \A by \in SaleCalls : "submitting" \in HeldBy(by)
      BY FlagsHeld DEF SaleCalls
    <3> QED BY <3>1, <3>2, SharedFlag DEF IInv
  <2>2. ASSUME NEW c \in {d \in calls : d.by \in {"sendPay", "transfer", "payReplay", "payRetry"}},
               NEW e \in {d \in calls : d.by \in {"sendPay", "transfer", "payReplay", "payRetry"}}
        PROVE  c = e
    <3>1. \A by \in {"sendPay", "transfer", "payReplay", "payRetry"} : "transfer" \in HeldBy(by)
      BY FlagsHeld
    <3> QED BY <3>1, SharedFlag DEF IInv
  <2> QED BY <2>1, <2>2, AtMostOne DEF OneSubmitAtATime
<1> QED BY <1>1, Invariance, PTL

\* Every request that ends gives back the flags it took, so an idle till can sell.
THEOREM NothingStaysLocked == Spec => []IdleIsFree
<1>1. IInv => IdleIsFree
  BY DEF IInv, Locks, IdleIsFree
<1> QED BY <1>1, Invariance, PTL

\* A basket that a cashier rang up is never in two places from where it could be sold twice,
\* whatever the till, the server and reloads do, but for a reload between two writes.
THEOREM BasketsHaveOneHome == Spec => []OneHome
<1>1. IInv => OneHome
  <2> SUFFICES ASSUME IInv, ~past.torn, NEW b \in Baskets \ Delivery
               PROVE  Cardinality({i \in DOMAIN outbox : outbox[i].basket = b})
                        + (IF cart = b THEN 1 ELSE 0) + (IF held[b].status = "held" THEN 1 ELSE 0) <= 1
    BY DEF OneHome
  <2>1. /\ Once(outbox, b)
        /\ b \in InQueue(outbox) => cart # b /\ held[b].status # "held"
        /\ cart = b => held[b].status # "held"
    BY DEF IInv, Homes, Placed
  <2>2. PICK S : S = {i \in DOMAIN outbox : outbox[i].basket = b}
    OBVIOUS
  <2>3. \A i, j \in S : i = j
    BY <2>1, <2>2 DEF Once
  <2>4. CASE S = {}
    <3>1. Cardinality(S) = 0
      BY <2>4, FS_EmptySet
    <3> QED BY <2>1, <2>2, <3>1
  <2>5. CASE S # {}
    <3>1. PICK i : S = {i}
      BY <2>3, <2>5
    <3>2. Cardinality(S) = 1
      BY <3>1, FS_Singleton
    <3>3. b \in InQueue(outbox)
      BY <2>2, <3>1 DEF InQueue
    <3> QED BY <2>1, <2>2, <3>2, <3>3
  <2> QED BY <2>4, <2>5
<1> QED BY <1>1, Invariance, PTL

\* A bill of a delivery app is not forgotten before it is paid, though it may be queued, sent again
\* and edited under way.
THEOREM DeliveryBillsArePaid == Spec => []ClosedDeliveryIsPaid
<1>1. IInv => ClosedDeliveryIsPaid
  BY DEF IInv, Delivered, Listed, Paid, ClosedDeliveryIsPaid
<1> QED BY <1>1, Invariance, PTL
=============================================================================
