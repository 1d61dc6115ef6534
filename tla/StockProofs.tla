---------------------------- MODULE StockProofs ----------------------------
(***************************************************************************)
(* Proofs about StockSale and StockAdjust for every set of handlers, keys  *)
(* and ingredients.  A sale writes only its own order, lines and           *)
(* movements, so that what it has written follows from its step alone      *)
(* (Phase).  What sales share is the stock, which none writes but from a   *)
(* quantity that was read when at least the same sales had drawn from it.  *)
(*                                                                         *)
(* Corrections (the second half) add up what handlers have written and     *)
(* booked.  The sums are folds over sets of handlers; that a fold does not *)
(* depend on the order of its terms is shown by contradiction, on the      *)
(* smallest set of handlers for which it would.                            *)
(***************************************************************************)
EXTENDS StockSale, StockAdjust, FiniteSetTheorems, TLAPS

\* What a sale has written when its handler is h: hasRow and hasLines say whether its order and
\* items are there, and m is the set of its movements.
Untouched(h, hasRow, hasLines, m) == ~hasRow /\ ~hasLines /\ m = {} /\ h.at = "none"
Ordered(h, hasRow, hasLines) == hasRow /\ hasLines /\ h.answer = "none"

PhaseOf(h, hasRow, hasLines, m) ==
  /\ h.pc \in {"arrived", "tx", "lookup", "insert"} => Untouched(h, hasRow, hasLines, m) /\ h.answer = "none"
  /\ h.pc = "orphan" => Untouched(h, hasRow, hasLines, m) /\ h.answer \in {"none", "timeout"}
  /\ h.pc = "items" => hasRow /\ m = {} /\ h.at = "none" /\ h.answer = "none"
  /\ h.pc \in {"setting", "read"} => Ordered(h, hasRow, hasLines) /\ m = {} /\ h.at = "none"
  /\ h.pc = "deduct" => Ordered(h, hasRow, hasLines) /\ m = Ingredients \ h.left /\ h.at \in m \union {"none"}
  /\ h.pc = "move" => /\ Ordered(h, hasRow, hasLines)
                      /\ m = Ingredients \ (h.left \union {h.at})
                      /\ h.at \in Ingredients \ h.left
  /\ h.pc \in {"unlines", "unorder"} => h.answer \in {"failed", "short"}
  /\ h.pc = "dead" => h.answer \in {"none", "failed", "short"}

WholeOf(h, hasRow, hasLines, m) ==
  /\ h.answer = "sold" => hasRow /\ hasLines /\ m = Ingredients
  /\ h.answer = "bypassed" => hasRow /\ hasLines /\ m = {}

Phases == \A s \in Sales : PhaseOf(handler[s], s \in rows, s \in lines, moved[s])

UniqueKeys == \A s, t \in rows : Keyed(s) /\ RequestOf[s] = RequestOf[t] => s = t

FiniteDraws == \A i \in Ingredients : IsFiniteSet(Drew(i))

\* q is no less than what the sales that drew from i left of it.
Covered(i, q) == Opening[i] - q <= Need[i] * Cardinality(Drew(i))

Reads(h) == h.pc \in {"deduct", "move"} => \A i \in h.left : Covered(i, h.seen[i])
ReadsCovered == \A s \in Sales : Reads(handler[s])

IInv ==
  /\ TypeOK
  /\ Phases
  /\ UniqueKeys
  /\ SoldOrderIsWhole
  /\ FiniteDraws
  /\ ReadsCovered
  /\ NeverOverdrawn

-----------------------------------------------------------------------------
(* Steps of one sale                                                          *)

\* One more order of i.
LEMMA OneMore ==
  ASSUME NEW n \in Nat \ {0}, NEW c \in Nat, NEW a \in Int, a <= n * c
  PROVE  a + n <= n * (c + 1) /\ n * c <= n * (c + 1)
OBVIOUS

\* What s has drawn from only grows.
LEMMA DrewGrows ==
  ASSUME IInv, NEW s \in Sales, NEW q \in HandlerState, NEW i \in Ingredients,
         handler' = [handler EXCEPT ![s] = q],
         moved' \in [Sales -> SUBSET Ingredients],
         \A t \in Sales \ {s} : moved'[t] = moved[t],
         moved[s] \subseteq moved'[s],
         handler[s].at \in moved'[s] \union {"none", q.at}
  PROVE  /\ s \in Drew(i) => Drew(i)' = Drew(i)
         /\ s \notin Drew(i) => Drew(i)' \in {Drew(i), Drew(i) \union {s}}
         /\ IsFiniteSet(Drew(i)')
         /\ Cardinality(Drew(i)') \in Nat
         /\ Cardinality(Drew(i)) \in Nat
         /\ Cardinality(Drew(i)') >= Cardinality(Drew(i))
         /\ (s \in Drew(i)' /\ s \notin Drew(i)) => Cardinality(Drew(i)') = Cardinality(Drew(i)) + 1
<1> DEFINE D == Drew(i)
           E == Drew(i)'
<1>1. handler'[s] = q /\ \A t \in Sales \ {s} : handler'[t] = handler[t]
  BY DEF IInv, TypeOK
<1>2. i # "none"
  BY ConstantsAssumption
<1>3. \A t \in Sales \ {s} : t \in E <=> t \in D
  BY <1>1 DEF Drew
<1>4. s \in D => s \in E
  BY <1>1, <1>2 DEF Drew
<1>5. D \subseteq Sales /\ E \subseteq Sales
  BY DEF Drew
<1>6. IsFiniteSet(D)
  BY DEF IInv, FiniteDraws
<1> HIDE DEF D, E
<1>7. E = D \/ (s \notin D /\ E = D \union {s})
  BY <1>3, <1>4, <1>5
<1>8. Cardinality(D) \in Nat
  BY <1>6, FS_CardinalityType
<1>9. CASE E = D
  BY <1>6, <1>8, <1>9 DEF D, E
<1>10. CASE s \notin D /\ E = D \union {s}
  <2>1. IsFiniteSet(E) /\ Cardinality(E) = Cardinality(D) + 1
    BY <1>6, <1>10, FS_AddElement
  <2> QED BY <1>8, <1>10, <2>1 DEF D, E
<1> QED BY <1>7, <1>9, <1>10

\* A step of s that writes nothing but what belongs to s, and stock only where it draws.
LEMMA SaleStep ==
  ASSUME IInv, NEW s \in Sales, NEW q \in HandlerState,
         handler' = [handler EXCEPT ![s] = q],
         stock' \in [Ingredients -> Nat],
         moved' \in [Sales -> SUBSET Ingredients],
         rows' \subseteq Sales, lines' \subseteq Sales, negative' \in BOOLEAN,
         \A t \in Sales \ {s} :
           /\ t \in rows' <=> t \in rows
           /\ t \in lines' <=> t \in lines
           /\ moved'[t] = moved[t],
         s \in rows' => s \in rows \/ ~Taken(s),
         moved[s] \subseteq moved'[s],
         handler[s].at \in moved'[s] \union {"none", q.at},
         PhaseOf(q, s \in rows', s \in lines', moved'[s]),
         WholeOf(q, s \in rows', s \in lines', moved'[s]),
         Reads(q),
         \A i \in Ingredients :
           \/ stock'[i] = stock[i]
           \/ /\ s \notin Drew(i)
              /\ i \in moved'[s] \/ q.at = i
              /\ Covered(i, stock'[i] + Need[i])
  PROVE  IInv'
<1>1. TypeOK'
  BY DEF IInv, TypeOK
<1>2. handler'[s] = q /\ \A t \in Sales \ {s} : handler'[t] = handler[t]
  BY DEF IInv, TypeOK
<1>3. Phases'
  <2> SUFFICES ASSUME NEW t \in Sales
               PROVE  PhaseOf(handler'[t], t \in rows', t \in lines', moved'[t])
    BY DEF Phases
  <2>1. CASE t = s
    BY <1>2, <2>1
  <2>2. CASE t # s
    <3>1. handler'[t] = handler[t] /\ moved'[t] = moved[t]
      BY <1>2, <2>2
    <3>2. (t \in rows') = (t \in rows) /\ (t \in lines') = (t \in lines)
      BY <2>2
    <3>3. PhaseOf(handler[t], t \in rows, t \in lines, moved[t])
      BY DEF IInv, Phases
    <3> QED BY <3>1, <3>2, <3>3
  <2> QED BY <2>1, <2>2
<1>4. UniqueKeys'
  <2> SUFFICES ASSUME NEW t \in rows', NEW u \in rows', Keyed(t), RequestOf[t] = RequestOf[u]
               PROVE  t = u
    BY DEF UniqueKeys, Keyed
  <2>1. t \in Sales /\ u \in Sales
    OBVIOUS
  <2>2. CASE t # s /\ u # s
    BY <2>1, <2>2 DEF IInv, UniqueKeys
  <2>3. CASE s \in rows
    BY <2>1, <2>3 DEF IInv, UniqueKeys
  <2>4. CASE s \notin rows /\ s \in {t, u}
    BY <2>1, <2>4 DEF Taken, Keyed, OrdersOf
  <2> QED BY <2>2, <2>3, <2>4
<1>5. SoldOrderIsWhole'
  BY <1>2 DEF IInv, SoldOrderIsWhole, WholeOf
<1>6. \A i \in Ingredients :
        /\ IsFiniteSet(Drew(i)')
        /\ Cardinality(Drew(i)) \in Nat
        /\ Cardinality(Drew(i)') \in Nat
        /\ Cardinality(Drew(i)') >= Cardinality(Drew(i))
        /\ (s \in Drew(i)' /\ s \notin Drew(i)) => Cardinality(Drew(i)') = Cardinality(Drew(i)) + 1
  BY DrewGrows
<1>7. FiniteDraws'
  BY <1>6 DEF FiniteDraws
<1>8. ASSUME NEW i \in Ingredients, NEW x \in Int, Covered(i, x) PROVE Covered(i, x)'
  <2>1. Need[i] \in Nat /\ Opening[i] \in Nat
    BY ConstantsAssumption
  <2>2. PICK c \in Nat : c = Cardinality(Drew(i))
    BY <1>6
  <2>3. PICK d \in Nat : d = Cardinality(Drew(i)')
    BY <1>6
  <2>4. d >= c
    BY <1>6, <2>2, <2>3
  <2>5. Need[i] * c <= Need[i] * d
    BY <2>1, <2>4
  <2>6. Opening[i] - x <= Need[i] * c
    BY <1>8, <2>2 DEF Covered
  <2>7. Opening[i] - x <= Need[i] * d
    BY <2>1, <2>5, <2>6
  <2> QED BY <2>3, <2>7 DEF Covered
<1>9. ReadsCovered'
  <2> SUFFICES ASSUME NEW t \in Sales, handler'[t].pc \in {"deduct", "move"}, NEW i \in handler'[t].left
               PROVE  Opening[i] - handler'[t].seen[i] <= Need[i] * Cardinality(Drew(i)')
    BY DEF ReadsCovered, Reads, Covered
  <2>1. handler'[t] \in HandlerState
    BY <1>1 DEF TypeOK
  <2>2. i \in Ingredients /\ handler'[t].seen[i] \in Int
    BY <2>1 DEF HandlerState
  <2>3. Reads(handler'[t])
    BY <1>2 DEF IInv, ReadsCovered
  <2>4. PICK x \in Int : x = handler'[t].seen[i]
    BY <2>2
  <2>5. Covered(i, x)
    BY <2>3, <2>4 DEF Reads
  <2>6. Covered(i, x)'
    BY <1>8, <2>2, <2>5
  <2> QED BY <2>4, <2>6 DEF Covered
<1>10. NeverOverdrawn'
  <2> SUFFICES ASSUME NEW i \in Ingredients PROVE Opening[i] - stock'[i] <= Need[i] * Cardinality(Drew(i)')
    BY DEF NeverOverdrawn
  <2>1. stock[i] \in Nat /\ stock'[i] \in Nat
    BY DEF IInv, TypeOK
  <2>2. CASE stock'[i] = stock[i]
    <3>1. PICK x \in Int : x = stock[i]
      BY <2>1
    <3>2. Covered(i, x)
      BY <3>1 DEF IInv, NeverOverdrawn, Covered
    <3>3. Covered(i, x)'
      BY <1>8, <3>2
    <3> QED BY <2>2, <3>1, <3>3 DEF Covered
  <2>3. CASE s \notin Drew(i) /\ (i \in moved'[s] \/ q.at = i) /\ Covered(i, stock'[i] + Need[i])
    <3>1. s \in Drew(i)'
      BY <1>2, <2>3 DEF Drew
    <3>2. PICK c \in Nat : c = Cardinality(Drew(i))
      BY <1>6
    <3>3. Cardinality(Drew(i)') = c + 1
      BY <1>6, <2>3, <3>1, <3>2
    <3>4. Need[i] \in Nat \ {0} /\ Opening[i] \in Nat
      BY ConstantsAssumption
    <3>5. PICK a \in Int : a = Opening[i] - (stock'[i] + Need[i])
      BY <2>1, <3>4
    <3>6. a <= Need[i] * c
      BY <2>3, <3>2, <3>5 DEF Covered
    <3>7. a + Need[i] <= Need[i] * (c + 1)
      BY <3>4, <3>6, OneMore
    <3>8. a + Need[i] = Opening[i] - stock'[i]
      BY <2>1, <3>4, <3>5
    <3> QED BY <3>3, <3>7, <3>8
  <2> QED BY <2>2, <2>3
<1> QED BY <1>1, <1>3, <1>4, <1>5, <1>7, <1>9, <1>10 DEF IInv

\* A step that draws from no ingredient.
LEMMA WriteStep ==
  ASSUME IInv, NEW s \in Sales, NEW q \in HandlerState,
         handler' = [handler EXCEPT ![s] = q],
         UNCHANGED <<stock, moved, negative>>,
         rows' \subseteq Sales, lines' \subseteq Sales,
         \A t \in Sales \ {s} : (t \in rows' <=> t \in rows) /\ (t \in lines' <=> t \in lines),
         s \in rows' => s \in rows \/ ~Taken(s),
         q.at = handler[s].at,
         PhaseOf(q, s \in rows', s \in lines', moved[s]),
         WholeOf(q, s \in rows', s \in lines', moved[s]),
         Reads(q)
  PROVE  IInv'
<1>1. /\ stock' \in [Ingredients -> Nat]
      /\ moved' \in [Sales -> SUBSET Ingredients]
      /\ negative' \in BOOLEAN
      /\ moved'[s] = moved[s]
      /\ \A t \in Sales \ {s} : moved'[t] = moved[t]
      /\ \A i \in Ingredients : stock'[i] = stock[i]
  BY DEF IInv, TypeOK
<1> QED BY <1>1, SaleStep

\* A step that only moves the handler.
LEMMA HandlerStep ==
  ASSUME IInv, NEW s \in Sales, NEW pc \in Steps, NEW answer \in Answers,
         handler' = [handler EXCEPT ![s] = [handler[s] EXCEPT !.pc = pc, !.answer = answer]],
         UNCHANGED <<stock, moved, negative, rows, lines>>,
         PhaseOf([handler[s] EXCEPT !.pc = pc, !.answer = answer], s \in rows, s \in lines, moved[s]),
         WholeOf([handler[s] EXCEPT !.pc = pc, !.answer = answer], s \in rows, s \in lines, moved[s]),
         pc \notin {"deduct", "move"} \/ handler[s].pc \in {"deduct", "move"}
  PROVE  IInv'
<1>1. PICK q : q = [handler[s] EXCEPT !.pc = pc, !.answer = answer]
  OBVIOUS
<1>2. handler[s] \in HandlerState
  BY DEF IInv, TypeOK
<1>3. /\ q \in HandlerState /\ q.at = handler[s].at /\ q.pc = pc
      /\ q.left = handler[s].left /\ q.seen = handler[s].seen
  BY <1>1, <1>2 DEF HandlerState
<1>4. Reads(handler[s])
  BY DEF IInv, ReadsCovered
<1>5. Reads(q)
  BY <1>3, <1>4 DEF Reads
<1>6. rows \subseteq Sales /\ lines \subseteq Sales
  BY DEF IInv, TypeOK
<1> QED BY <1>1, <1>3, <1>5, <1>6, WriteStep

LEMMA StepFacts ==
  ASSUME IInv, NEW s \in Sales, NEW pc \in Steps, NEW answer \in Answers
  PROVE  /\ Step(s, pc) => handler' = [handler EXCEPT ![s] =
                                        [handler[s] EXCEPT !.pc = pc, !.answer = handler[s].answer]]
         /\ Answer(s, answer) => handler' = [handler EXCEPT ![s] =
                                              [handler[s] EXCEPT !.pc = "ended", !.answer = answer]]
         /\ Undo(s, pc, answer) => handler' = [handler EXCEPT ![s] =
                                                [handler[s] EXCEPT !.pc = pc, !.answer = answer]]
         /\ handler[s] \in HandlerState
         /\ handler[s].answer \in Answers
         /\ PhaseOf(handler[s], s \in rows, s \in lines, moved[s])
         /\ WholeOf(handler[s], s \in rows, s \in lines, moved[s])
<1>1. handler \in [Sales -> HandlerState] /\ handler[s] \in HandlerState /\ handler[s].answer \in Answers
  BY DEF IInv, TypeOK, HandlerState
<1>2. PhaseOf(handler[s], s \in rows, s \in lines, moved[s])
  BY DEF IInv, Phases
<1>3. WholeOf(handler[s], s \in rows, s \in lines, moved[s])
  BY DEF IInv, SoldOrderIsWhole, WholeOf
<1>4. Step(s, pc) => handler' = [handler EXCEPT ![s] =
                                  [handler[s] EXCEPT !.pc = pc, !.answer = handler[s].answer]]
  BY <1>1 DEF Step, HandlerState
<1>5. Answer(s, answer) => handler' = [handler EXCEPT ![s] =
                                        [handler[s] EXCEPT !.pc = "ended", !.answer = answer]]
  BY <1>1 DEF Answer, HandlerState
<1>6. Undo(s, pc, answer) => handler' = [handler EXCEPT ![s] =
                                          [handler[s] EXCEPT !.pc = pc, !.answer = answer]]
  BY <1>1 DEF Undo, HandlerState
<1> QED BY <1>1, <1>2, <1>3, <1>4, <1>5, <1>6

\* The same by the names of the module.
LEMMA Moves ==
  ASSUME IInv, NEW s \in Sales, NEW pc \in Steps, NEW answer \in Answers,
         \/ Step(s, pc) /\ answer = handler[s].answer
         \/ Answer(s, answer) /\ pc = "ended"
         \/ Undo(s, pc, answer),
         UNCHANGED <<stock, moved, negative, rows, lines>>,
         pc \notin {"deduct", "move"} \/ handler[s].pc \in {"deduct", "move"},
         PhaseOf([handler[s] EXCEPT !.pc = pc, !.answer = answer], s \in rows, s \in lines, moved[s]),
         WholeOf([handler[s] EXCEPT !.pc = pc, !.answer = answer], s \in rows, s \in lines, moved[s])
  PROVE  IInv'
<1> DEFINE target == handler' = [handler EXCEPT ![s] = [handler[s] EXCEPT !.pc = pc, !.answer = answer]]
<1>1. target
  <2>1. CASE Step(s, pc) /\ answer = handler[s].answer
    BY <2>1, StepFacts
  <2>2. CASE Answer(s, answer) /\ pc = "ended"
    BY <2>2, StepFacts
  <2>3. CASE Undo(s, pc, answer)
    BY <2>3, StepFacts
  <2> QED BY <2>1, <2>2, <2>3
<1> QED BY <1>1, HandlerStep

\* Answers other than "sold" and "bypassed" promise nothing.
LEMMA Ends ==
  ASSUME IInv, NEW s \in Sales, NEW answer \in Answers \ {"sold", "bypassed"}, Answer(s, answer),
         UNCHANGED <<stock, moved, negative, rows, lines>>
  PROVE  IInv'
<1>1. handler[s] \in HandlerState
  BY DEF IInv, TypeOK
<1>2. PhaseOf([handler[s] EXCEPT !.pc = "ended", !.answer = answer], s \in rows, s \in lines, moved[s])
  BY <1>1 DEF PhaseOf, HandlerState
<1>3. WholeOf([handler[s] EXCEPT !.pc = "ended", !.answer = answer], s \in rows, s \in lines, moved[s])
  BY <1>1 DEF WholeOf, HandlerState
<1>4. "ended" \in Steps
  BY DEF Steps
<1> QED BY <1>2, <1>3, <1>4, Moves

\* The handler begins, or goes on, to delete what it has written, or dies.
LEMMA Undoes ==
  ASSUME IInv, NEW s \in Sales, NEW answer \in {"failed", "short"}, NEW pc \in {"unlines", "unorder", "dead"},
         Undo(s, pc, answer), UNCHANGED <<stock, moved, negative, rows, lines>>
  PROVE  IInv'
<1>1. handler[s] \in HandlerState
  BY DEF IInv, TypeOK
<1>2. PhaseOf([handler[s] EXCEPT !.pc = pc, !.answer = answer], s \in rows, s \in lines, moved[s])
  BY <1>1 DEF PhaseOf, HandlerState
<1>3. WholeOf([handler[s] EXCEPT !.pc = pc, !.answer = answer], s \in rows, s \in lines, moved[s])
  BY <1>1 DEF WholeOf, HandlerState
<1>4. pc \in Steps /\ answer \in Answers
  BY DEF Steps, Answers
<1> QED BY <1>2, <1>3, <1>4, Moves

\* A step on the way, with the answer still open.
LEMMA GoesOn ==
  ASSUME IInv, NEW s \in Sales, NEW pc \in Steps \ {"deduct", "move"}, Step(s, pc),
         UNCHANGED <<stock, moved, negative, rows, lines>>,
         PhaseOf([handler[s] EXCEPT !.pc = pc, !.answer = handler[s].answer], s \in rows, s \in lines, moved[s])
  PROVE  IInv'
<1>1. handler[s] \in HandlerState /\ handler[s].answer \in Answers
  BY DEF IInv, TypeOK, HandlerState
<1>2. WholeOf(handler[s], s \in rows, s \in lines, moved[s])
  BY "ended" \in Steps, "none" \in Answers, StepFacts DEF Steps, Answers
<1>3. WholeOf([handler[s] EXCEPT !.pc = pc, !.answer = handler[s].answer], s \in rows, s \in lines, moved[s])
  BY <1>1, <1>2 DEF WholeOf, HandlerState
<1> QED BY <1>1, <1>3, Moves

-----------------------------------------------------------------------------
(* The actions                                                                *)

LEMMA Phased ==
  ASSUME IInv, NEW s \in Sales
  PROVE  /\ handler[s] \in HandlerState
         /\ PhaseOf(handler[s], s \in rows, s \in lines, moved[s])
         /\ WholeOf(handler[s], s \in rows, s \in lines, moved[s])
<1> QED BY DEF IInv, TypeOK, Phases, SoldOrderIsWhole, WholeOf

LEMMA AdmitStep == ASSUME IInv, NEW s \in Sales, Admit(s), UNCHANGED negative PROVE IInv'
<1>1. PICK pc \in {"tx", "lookup"} : Step(s, pc)
  BY DEF Admit
<1>2. PhaseOf([handler[s] EXCEPT !.pc = pc, !.answer = handler[s].answer], s \in rows, s \in lines, moved[s])
  BY Phased DEF Admit, PhaseOf, Untouched, HandlerState
<1>3. pc \in Steps \ {"deduct", "move"}
  BY DEF Steps
<1> QED BY <1>1, <1>2, <1>3, GoesOn DEF Admit

LEMMA RejectStep == ASSUME IInv, NEW s \in Sales, Reject(s), UNCHANGED negative PROVE IInv'
BY Ends DEF Reject, Answers

LEMMA LookupStep == ASSUME IInv, NEW s \in Sales, Lookup(s), UNCHANGED negative PROVE IInv'
<1>1. CASE Answer(s, "replayed")
  BY <1>1, Ends DEF Lookup, Answers
<1>2. CASE Step(s, "insert")
  <2>1. PhaseOf([handler[s] EXCEPT !.pc = "insert", !.answer = handler[s].answer], s \in rows, s \in lines, moved[s])
    BY Phased DEF Lookup, PhaseOf, Untouched, HandlerState
  <2>2. "insert" \in Steps \ {"deduct", "move"}
    BY DEF Steps
  <2> QED BY <1>2, <2>1, <2>2, GoesOn DEF Lookup
<1> QED BY <1>1, <1>2 DEF Lookup

LEMMA InsertRefusedStep == ASSUME IInv, NEW s \in Sales, InsertRefused(s), UNCHANGED negative PROVE IInv'
BY Ends DEF InsertRefused, Answers

\* The unique index lets the order in only when its request has none.
LEMMA InsertOrderStep == ASSUME IInv, NEW s \in Sales, InsertOrder(s), UNCHANGED negative PROVE IInv'
<1>1. PICK q : q = [handler[s] EXCEPT !.pc = "items"]
  OBVIOUS
<1>2. handler' = [handler EXCEPT ![s] = q]
  BY <1>1, Phased DEF InsertOrder, Step, IInv, TypeOK, HandlerState
<1>3. q \in HandlerState /\ q.at = handler[s].at /\ q.pc = "items" /\ q.answer = handler[s].answer
  BY <1>1, Phased DEF HandlerState, Steps
<1>4. PhaseOf(q, s \in rows', s \in lines', moved[s])
  BY <1>3, Phased DEF InsertOrder, PhaseOf, Untouched
<1>5. WholeOf(q, s \in rows', s \in lines', moved[s])
  BY <1>3, Phased DEF InsertOrder, PhaseOf, WholeOf
<1>6. Reads(q)
  BY <1>3 DEF Reads
<1>7. rows' \subseteq Sales /\ lines' \subseteq Sales
  BY DEF IInv, TypeOK, InsertOrder
<1> QED BY <1>2, <1>3, <1>4, <1>5, <1>6, <1>7, WriteStep DEF InsertOrder

LEMMA InsertItemsStep == ASSUME IInv, NEW s \in Sales, InsertItems(s), UNCHANGED negative PROVE IInv'
<1>1. PICK q : q = [handler[s] EXCEPT !.pc = "setting"]
  OBVIOUS
<1>2. handler' = [handler EXCEPT ![s] = q]
  BY <1>1, Phased DEF InsertItems, Step, IInv, TypeOK, HandlerState
<1>3. q \in HandlerState /\ q.at = handler[s].at /\ q.pc = "setting" /\ q.answer = handler[s].answer
  BY <1>1, Phased DEF HandlerState, Steps
<1>4. PhaseOf(q, s \in rows', s \in lines', moved[s])
  BY <1>3, Phased DEF InsertItems, PhaseOf, Ordered
<1>5. WholeOf(q, s \in rows', s \in lines', moved[s])
  BY <1>3, Phased DEF InsertItems, PhaseOf, WholeOf
<1>6. Reads(q)
  BY <1>3 DEF Reads
<1>7. rows' \subseteq Sales /\ lines' \subseteq Sales
  BY DEF IInv, TypeOK, InsertItems
<1> QED BY <1>2, <1>3, <1>4, <1>5, <1>6, <1>7, WriteStep DEF InsertItems

LEMMA ReadSettingStep == ASSUME IInv, NEW s \in Sales, ReadSetting(s), UNCHANGED negative PROVE IInv'
<1>1. PICK q : q = [handler[s] EXCEPT !.pc = "read", !.allow = negative]
  OBVIOUS
<1>2. handler' = [handler EXCEPT ![s] = q]
  BY <1>1, Phased DEF ReadSetting, IInv, TypeOK, HandlerState
<1>3. q \in HandlerState /\ q.at = handler[s].at /\ q.pc = "read" /\ q.answer = handler[s].answer
  BY <1>1, Phased DEF HandlerState, Steps, IInv, TypeOK
<1>4. PhaseOf(q, s \in rows', s \in lines', moved[s])
  BY <1>3, Phased DEF ReadSetting, PhaseOf, Ordered
<1>5. WholeOf(q, s \in rows', s \in lines', moved[s])
  BY <1>3, Phased DEF ReadSetting, PhaseOf, WholeOf
<1>6. Reads(q)
  BY <1>3 DEF Reads
<1>7. rows' \subseteq Sales /\ lines' \subseteq Sales
  BY DEF IInv, TypeOK, ReadSetting
<1> QED BY <1>2, <1>3, <1>4, <1>5, <1>6, <1>7, WriteStep DEF ReadSetting

\* What is read of the stock now is covered by those who drew before.
LEMMA ReadStockStep == ASSUME IInv, NEW s \in Sales, ReadStock(s), UNCHANGED negative PROVE IInv'
<1>1. PICK q : q = [handler[s] EXCEPT !.pc = "deduct", !.seen = stock, !.left = Ingredients]
  OBVIOUS
<1>2. handler' = [handler EXCEPT ![s] = q]
  BY <1>1, Phased DEF ReadStock, IInv, TypeOK, HandlerState
<1>3. /\ q \in HandlerState /\ q.at = handler[s].at /\ q.pc = "deduct" /\ q.answer = handler[s].answer
      /\ q.left = Ingredients /\ q.seen = stock
  BY <1>1, Phased DEF HandlerState, Steps, IInv, TypeOK
<1>4. PhaseOf(q, s \in rows', s \in lines', moved[s])
  BY <1>3, Phased DEF ReadStock, PhaseOf, Ordered
<1>5. WholeOf(q, s \in rows', s \in lines', moved[s])
  BY <1>3, Phased DEF ReadStock, PhaseOf, WholeOf, Ordered
<1>6. Reads(q)
  BY <1>3 DEF Reads, Covered, IInv, NeverOverdrawn
<1>7. rows' \subseteq Sales /\ lines' \subseteq Sales
  BY DEF IInv, TypeOK, ReadStock
<1> QED BY <1>2, <1>3, <1>4, <1>5, <1>6, <1>7, WriteStep DEF ReadStock

LEMMA BypassStockStep == ASSUME IInv, NEW s \in Sales, BypassStock(s), UNCHANGED negative PROVE IInv'
<1>1. PhaseOf([handler[s] EXCEPT !.pc = "ended", !.answer = "bypassed"], s \in rows, s \in lines, moved[s])
  BY Phased DEF PhaseOf, HandlerState
<1>2. WholeOf([handler[s] EXCEPT !.pc = "ended", !.answer = "bypassed"], s \in rows, s \in lines, moved[s])
  BY Phased DEF BypassStock, PhaseOf, Ordered, WholeOf, HandlerState
<1>3. "ended" \in Steps /\ "bypassed" \in Answers
  BY DEF Steps, Answers
<1> QED BY <1>1, <1>2, <1>3, Moves DEF BypassStock

\* The quantity that is written comes from one that was covered, and s draws from i only now.
LEMMA DeductStep ==
  ASSUME IInv, NEW s \in Sales, NEW i \in Ingredients, Deduct(s, i), UNCHANGED negative PROVE IInv'
<1>1. PICK q : q = [handler[s] EXCEPT !.pc = "move", !.at = i, !.left = @ \ {i}]
  OBVIOUS
<1>2. handler' = [handler EXCEPT ![s] = q]
  BY <1>1, Phased DEF Deduct, IInv, TypeOK, HandlerState
<1>3. /\ q \in HandlerState /\ q.at = i /\ q.pc = "move" /\ q.answer = handler[s].answer
      /\ q.left = handler[s].left \ {i} /\ q.seen = handler[s].seen
  BY <1>1, Phased DEF HandlerState, Steps
<1>4. /\ i \in handler[s].left /\ handler[s].left \subseteq Ingredients
      /\ moved[s] = Ingredients \ handler[s].left /\ handler[s].at \in moved[s] \union {"none"}
      /\ s \in rows /\ s \in lines /\ handler[s].answer = "none"
  BY Phased DEF Deduct, PhaseOf, Ordered, HandlerState
<1>5. PhaseOf(q, s \in rows', s \in lines', moved'[s])
  BY <1>3, <1>4 DEF Deduct, PhaseOf, Ordered
<1>6. WholeOf(q, s \in rows', s \in lines', moved'[s])
  BY <1>3, <1>4 DEF WholeOf
<1>7. Reads(handler[s])
  BY DEF IInv, ReadsCovered
<1>8. Reads(q)
  BY <1>3, <1>7 DEF Deduct, Reads
<1>9. handler[s].seen[i] \in Nat /\ Need[i] \in Nat
  BY Phased, ConstantsAssumption DEF HandlerState
<1>10. stock' \in [Ingredients -> Nat]
  <2>1. Matches(s, i) => Remaining(s, i) \in Nat
    BY <1>9 DEF Deduct, Remaining
  <2> QED BY <2>1 DEF Deduct, IInv, TypeOK
<1>11. s \notin Drew(i)
  BY <1>4, ConstantsAssumption DEF Drew
<1>12. Matches(s, i) => Covered(i, stock'[i] + Need[i])
  <2>1. Matches(s, i) => stock'[i] + Need[i] = handler[s].seen[i]
    BY <1>9 DEF Deduct, Remaining, IInv, TypeOK
  <2>2. Covered(i, handler[s].seen[i])
    BY <1>4, <1>7 DEF Deduct, Reads
  <2> QED BY <2>1, <2>2 DEF Covered
<1>13. ~Matches(s, i) => stock'[i] = stock[i]
  BY DEF Deduct, IInv, TypeOK
<1>14. \A j \in Ingredients \ {i} : stock'[j] = stock[j]
  BY DEF Deduct, IInv, TypeOK
<1>15. \A j \in Ingredients :
         \/ stock'[j] = stock[j]
         \/ s \notin Drew(j) /\ (j \in moved'[s] \/ q.at = j) /\ Covered(j, stock'[j] + Need[j])
  BY <1>3, <1>11, <1>12, <1>13, <1>14
<1>16. /\ rows' = rows /\ lines' = lines /\ moved' = moved /\ negative' = negative
       /\ moved' \in [Sales -> SUBSET Ingredients] /\ rows' \subseteq Sales /\ lines' \subseteq Sales
       /\ negative' \in BOOLEAN
       /\ handler[s].at \in moved'[s] \union {"none", q.at}
  BY <1>4 DEF Deduct, IInv, TypeOK
<1> QED BY <1>2, <1>3, <1>5, <1>6, <1>8, <1>10, <1>15, <1>16, SaleStep

LEMMA DeliveryShortStep == ASSUME IInv, NEW s \in Sales, DeliveryShort(s), UNCHANGED negative PROVE IInv'
BY Undoes DEF DeliveryShort

LEMMA DeductRefusedStep ==
  ASSUME IInv, NEW s \in Sales, NEW i \in Ingredients, DeductRefused(s, i), UNCHANGED negative PROVE IInv'
BY Undoes DEF DeductRefused

LEMMA RecordMovementStep == ASSUME IInv, NEW s \in Sales, RecordMovement(s), UNCHANGED negative PROVE IInv'
<1>1. PICK q : q = IF handler[s].left = {} THEN [handler[s] EXCEPT !.pc = "ended", !.answer = "sold"]
                   ELSE [handler[s] EXCEPT !.pc = "deduct"]
  OBVIOUS
<1>2. handler' = [handler EXCEPT ![s] = q]
  BY <1>1, Phased DEF RecordMovement, Answer, Step, IInv, TypeOK, HandlerState
<1>3. /\ q \in HandlerState /\ q.at = handler[s].at
      /\ q.left = handler[s].left /\ q.seen = handler[s].seen
      /\ handler[s].left = {} => q.pc = "ended" /\ q.answer = "sold"
      /\ handler[s].left # {} => q.pc = "deduct" /\ q.answer = handler[s].answer
  BY <1>1, Phased DEF HandlerState, Steps, Answers
<1>4. /\ handler[s].at \in Ingredients \ handler[s].left
      /\ moved[s] = Ingredients \ (handler[s].left \union {handler[s].at})
      /\ s \in rows /\ s \in lines /\ handler[s].answer = "none"
  BY Phased DEF RecordMovement, PhaseOf, Ordered
<1>5. moved'[s] = Ingredients \ handler[s].left /\ \A t \in Sales \ {s} : moved'[t] = moved[t]
  BY <1>4 DEF RecordMovement, IInv, TypeOK
<1>6. PhaseOf(q, s \in rows', s \in lines', moved'[s])
  BY <1>3, <1>4, <1>5 DEF RecordMovement, PhaseOf, Ordered
<1>7. WholeOf(q, s \in rows', s \in lines', moved'[s])
  BY <1>3, <1>4, <1>5 DEF RecordMovement, WholeOf
<1>8. Reads(q)
  <2>1. Reads(handler[s])
    BY DEF IInv, ReadsCovered
  <2> QED BY <1>3, <2>1 DEF RecordMovement, Reads
<1>9. /\ rows' = rows /\ lines' = lines /\ stock' = stock /\ negative' = negative
      /\ stock' \in [Ingredients -> Nat] /\ moved' \in [Sales -> SUBSET Ingredients]
      /\ rows' \subseteq Sales /\ lines' \subseteq Sales /\ negative' \in BOOLEAN
  BY <1>4 DEF RecordMovement, IInv, TypeOK
<1>10. moved[s] \subseteq moved'[s] /\ handler[s].at \in moved'[s] \union {"none", q.at}
  BY <1>4, <1>5
<1>11. \A i \in Ingredients : stock'[i] = stock[i]
  BY <1>9
<1> QED BY <1>2, <1>3, <1>5, <1>6, <1>7, <1>8, <1>9, <1>10, <1>11, SaleStep

LEMMA DeleteItemsStep == ASSUME IInv, NEW s \in Sales, DeleteItems(s), UNCHANGED negative PROVE IInv'
<1>1. PICK q : q = [handler[s] EXCEPT !.pc = "unorder"]
  OBVIOUS
<1>2. handler' = [handler EXCEPT ![s] = q]
  BY <1>1, Phased DEF DeleteItems, Step, IInv, TypeOK, HandlerState
<1>3. q \in HandlerState /\ q.at = handler[s].at /\ q.pc = "unorder" /\ q.answer = handler[s].answer
  BY <1>1, Phased DEF HandlerState, Steps
<1>4. PhaseOf(q, s \in rows', s \in lines', moved[s]) /\ WholeOf(q, s \in rows', s \in lines', moved[s])
  BY <1>3, Phased DEF DeleteItems, PhaseOf, WholeOf
<1>5. Reads(q)
  BY <1>3 DEF Reads
<1>6. rows' \subseteq Sales /\ lines' \subseteq Sales
  BY DEF IInv, TypeOK, DeleteItems
<1> QED BY <1>2, <1>3, <1>4, <1>5, <1>6, WriteStep DEF DeleteItems

LEMMA DeleteOrderStep == ASSUME IInv, NEW s \in Sales, DeleteOrder(s), UNCHANGED negative PROVE IInv'
<1>1. PICK q : q = [handler[s] EXCEPT !.pc = "ended"]
  OBVIOUS
<1>2. handler' = [handler EXCEPT ![s] = q]
  BY <1>1, Phased DEF DeleteOrder, Step, IInv, TypeOK, HandlerState
<1>3. q \in HandlerState /\ q.at = handler[s].at /\ q.pc = "ended" /\ q.answer = handler[s].answer
  BY <1>1, Phased DEF HandlerState, Steps
<1>4. PhaseOf(q, s \in rows', s \in lines', moved[s]) /\ WholeOf(q, s \in rows', s \in lines', moved[s])
  BY <1>3, Phased DEF DeleteOrder, PhaseOf, WholeOf
<1>5. Reads(q)
  BY <1>3 DEF Reads
<1>6. rows' \subseteq Sales /\ lines' \subseteq Sales
  BY DEF IInv, TypeOK, DeleteOrder
<1> QED BY <1>2, <1>3, <1>4, <1>5, <1>6, WriteStep DEF DeleteOrder

LEMMA CallFailsStep == ASSUME IInv, NEW s \in Sales, CallFails(s), UNCHANGED negative PROVE IInv'
<1>1. CASE handler[s].pc \in {"lookup", "insert"}
  BY <1>1, Ends DEF CallFails, Answers
<1>2. CASE handler[s].pc \in {"items", "setting", "read", "deduct", "move"}
  <2>1. \E pc \in {"unlines", "unorder"} : Undo(s, pc, "failed")
    BY <1>2 DEF CallFails
  <2> QED BY <2>1, Undoes DEF CallFails
<1>3. CASE handler[s].pc \in {"unlines", "unorder"}
  <2>1. PICK pc \in {"unorder", "ended"} : Step(s, pc)
    BY <1>3 DEF CallFails
  <2>2. PhaseOf([handler[s] EXCEPT !.pc = pc, !.answer = handler[s].answer], s \in rows, s \in lines, moved[s])
    BY <1>3, Phased DEF PhaseOf, HandlerState
  <2>3. pc \in Steps \ {"deduct", "move"}
    BY DEF Steps
  <2> QED BY <2>1, <2>2, <2>3, GoesOn DEF CallFails
<1> QED BY <1>1, <1>2, <1>3 DEF CallFails

LEMMA HandlerDiesStep == ASSUME IInv, NEW s \in Sales, HandlerDies(s), UNCHANGED negative PROVE IInv'
<1>1. CASE handler[s].pc \in {"tx", "orphan"}
  <2>1. PhaseOf([handler[s] EXCEPT !.pc = "orphan", !.answer = handler[s].answer], s \in rows, s \in lines, moved[s])
    BY <1>1, Phased DEF PhaseOf, Untouched, HandlerState
  <2>2. "orphan" \in Steps \ {"deduct", "move"}
    BY DEF Steps
  <2> QED BY <1>1, <2>1, <2>2, GoesOn DEF HandlerDies
<1>2. CASE handler[s].pc \notin {"tx", "orphan"}
  <2>1. PhaseOf([handler[s] EXCEPT !.pc = "dead", !.answer = handler[s].answer], s \in rows, s \in lines, moved[s])
    BY <1>2, Phased DEF HandlerDies, PhaseOf, Untouched, Ordered, HandlerState, Steps
  <2>2. "dead" \in Steps \ {"deduct", "move"}
    BY DEF Steps
  <2> QED BY <1>2, <2>1, <2>2, GoesOn DEF HandlerDies
<1> QED BY <1>1, <1>2

\* A transaction that ends without a sale, for a handler that waits or for nobody.
LEMMA TxAnswerStep ==
  ASSUME IInv, NEW s \in Sales, NEW answer \in Answers \ {"sold", "bypassed"}, InTx(s), TxAnswer(s, answer),
         UNCHANGED <<stock, moved, negative, rows, lines>>
  PROVE  IInv'
<1>1. handler[s].pc = "orphan" => handler[s].answer \in Answers \ {"sold", "bypassed"}
  BY Phased DEF PhaseOf, Answers
<1>2. PICK a \in Answers \ {"sold", "bypassed"} : Answer(s, a)
  BY <1>1 DEF TxAnswer, InTx
<1> QED BY <1>2, Ends

\* The function raises before it writes: the handler starts anew on the direct path.
LEMMA TxRaisesStep == ASSUME IInv, NEW s \in Sales, TxRaises(s), UNCHANGED negative PROVE IInv'
<1>1. CASE handler[s].pc = "tx"
  <2>1. PhaseOf([handler[s] EXCEPT !.pc = "lookup", !.answer = handler[s].answer], s \in rows, s \in lines, moved[s])
    BY <1>1, Phased DEF PhaseOf, Untouched, HandlerState
  <2>2. "lookup" \in Steps \ {"deduct", "move"}
    BY DEF Steps
  <2> QED BY <1>1, <2>1, <2>2, GoesOn DEF TxRaises
<1>2. CASE handler[s].pc = "orphan"
  <2>1. PhaseOf([handler[s] EXCEPT !.pc = "ended", !.answer = handler[s].answer], s \in rows, s \in lines, moved[s])
    BY Phased DEF PhaseOf, HandlerState
  <2>2. "ended" \in Steps \ {"deduct", "move"}
    BY DEF Steps
  <2> QED BY <1>2, <2>1, <2>2, GoesOn DEF TxRaises
<1> QED BY <1>1, <1>2 DEF TxRaises, InTx

LEMMA TxTimesOutStep == ASSUME IInv, NEW s \in Sales, TxTimesOut(s), UNCHANGED negative PROVE IInv'
<1>1. PhaseOf([handler[s] EXCEPT !.pc = "orphan", !.answer = "timeout"], s \in rows, s \in lines, moved[s])
  BY Phased DEF TxTimesOut, PhaseOf, Untouched, HandlerState
<1>2. WholeOf([handler[s] EXCEPT !.pc = "orphan", !.answer = "timeout"], s \in rows, s \in lines, moved[s])
  BY Phased DEF WholeOf, HandlerState
<1>3. "orphan" \in Steps /\ "timeout" \in Answers
  BY DEF Steps, Answers
<1> QED BY <1>1, <1>2, <1>3, Moves DEF TxTimesOut

\* The transaction draws from every ingredient at once, from what is there at that moment.
LEMMA TxSellsStep == ASSUME IInv, NEW s \in Sales, TxSells(s), UNCHANGED negative PROVE IInv'
<1>1. Untouched(handler[s], s \in rows, s \in lines, moved[s])
  BY Phased DEF TxSells, InTx, PhaseOf
<1>2. PICK a \in Answers : Answer(s, a)
  BY Phased DEF TxSells, TxAnswer, HandlerState, Answers
<1>3. PICK q : q = [handler[s] EXCEPT !.pc = "ended", !.answer = a]
  OBVIOUS
<1>4. handler' = [handler EXCEPT ![s] = q]
  BY <1>2, <1>3, Phased DEF Answer, IInv, TypeOK, HandlerState
<1>5. q \in HandlerState /\ q.at = handler[s].at /\ q.pc = "ended" /\ q.answer = a
  BY <1>3, Phased DEF HandlerState, Steps
<1>6. a # "bypassed"
  <2>1. handler[s].pc = "tx" => handler'[s].answer = "sold"
    BY Phased DEF TxSells, TxAnswer, Answer, IInv, TypeOK, HandlerState
  <2>2. handler[s].pc = "orphan" => handler'[s].answer = handler[s].answer
    BY Phased DEF TxSells, TxAnswer, Answer, IInv, TypeOK, HandlerState
  <2>3. handler'[s].answer = a
    BY <1>4, <1>5 DEF IInv, TypeOK
  <2>4. handler[s].pc = "orphan" => handler[s].answer # "bypassed"
    BY Phased DEF PhaseOf
  <2> QED BY <2>1, <2>2, <2>3, <2>4 DEF TxSells, InTx
<1>7. /\ s \in rows' /\ s \in lines' /\ moved'[s] = Ingredients
      /\ \A t \in Sales \ {s} : (t \in rows' <=> t \in rows) /\ (t \in lines' <=> t \in lines)
                                /\ moved'[t] = moved[t]
      /\ moved' \in [Sales -> SUBSET Ingredients]
      /\ rows' \subseteq Sales /\ lines' \subseteq Sales /\ negative' \in BOOLEAN
      /\ ~Taken(s)
  BY DEF TxSells, Taken, IInv, TypeOK
<1>8. PhaseOf(q, s \in rows', s \in lines', moved'[s]) /\ WholeOf(q, s \in rows', s \in lines', moved'[s])
  BY <1>5, <1>6, <1>7 DEF PhaseOf, WholeOf
<1>9. Reads(q)
  BY <1>5 DEF Reads
<1>10. \A i \in Ingredients : stock[i] \in Nat /\ Need[i] \in Nat /\ stock[i] >= Need[i]
  BY ConstantsAssumption DEF TxSells, Sufficient, IInv, TypeOK
<1>11. /\ stock' \in [Ingredients -> Nat]
       /\ \A i \in Ingredients : stock'[i] = stock[i] - Need[i]
  BY <1>10 DEF TxSells
<1>12. ASSUME NEW i \in Ingredients
       PROVE  s \notin Drew(i) /\ i \in moved'[s] /\ Covered(i, stock'[i] + Need[i])
  <2>1. s \notin Drew(i)
    BY <1>1, ConstantsAssumption DEF Untouched, Drew
  <2>2. stock'[i] + Need[i] = stock[i]
    BY <1>10, <1>11
  <2>3. Covered(i, stock[i])
    BY DEF IInv, NeverOverdrawn, Covered
  <2> QED BY <1>7, <2>1, <2>2, <2>3
<1>13. moved[s] \subseteq moved'[s] /\ handler[s].at \in moved'[s] \union {"none", q.at}
  BY <1>1 DEF Untouched
<1> QED BY <1>4, <1>5, <1>7, <1>8, <1>9, <1>11, <1>12, <1>13, SaleStep

LEMMA OnlySetting ==
  ASSUME IInv, UNCHANGED <<stock, moved, rows, lines, handler>>, negative' \in BOOLEAN
  PROVE  IInv'
<1>1. TypeOK' /\ Phases' /\ UniqueKeys' /\ SoldOrderIsWhole'
  BY DEF IInv, TypeOK, Phases, UniqueKeys, SoldOrderIsWhole
<1>2. \A i \in Ingredients : Drew(i)' = Drew(i)
  BY DEF Drew
<1>3. FiniteDraws'
  BY <1>2 DEF IInv, FiniteDraws
<1>4. NeverOverdrawn'
  <2> SUFFICES ASSUME NEW i \in Ingredients PROVE Opening[i] - stock'[i] <= Need[i] * Cardinality(Drew(i)')
    BY DEF NeverOverdrawn
  <2> QED BY <1>2 DEF IInv, NeverOverdrawn
<1>5. ReadsCovered'
  <2> SUFFICES ASSUME NEW s \in Sales, handler'[s].pc \in {"deduct", "move"}, NEW i \in handler'[s].left
               PROVE  Opening[i] - handler'[s].seen[i] <= Need[i] * Cardinality(Drew(i)')
    BY DEF ReadsCovered, Reads, Covered
  <2>1. i \in Ingredients
    BY DEF IInv, TypeOK, HandlerState
  <2>2. Reads(handler[s])
    BY DEF IInv, ReadsCovered
  <2> QED BY <1>2, <2>1, <2>2 DEF Reads, Covered
<1> QED BY <1>1, <1>3, <1>4, <1>5 DEF IInv

-----------------------------------------------------------------------------
LEMMA InitIInv == Init => IInv
<1> SUFFICES ASSUME Init PROVE IInv
  OBVIOUS
<1> USE DEF Init
<1>1. \A s \in Sales : /\ handler[s] = [pc |-> "arrived", allow |-> FALSE, seen |-> Opening, left |-> {},
                                        at |-> "none", answer |-> "none"]
                       /\ handler[s] \in HandlerState
  BY ConstantsAssumption DEF HandlerState, Steps, Answers
<1>2. TypeOK
  BY <1>1, ConstantsAssumption DEF TypeOK
<1>3. Phases /\ UniqueKeys /\ SoldOrderIsWhole /\ ReadsCovered
  BY <1>1 DEF Phases, PhaseOf, Untouched, UniqueKeys, SoldOrderIsWhole, ReadsCovered, Reads
<1>4. \A i \in Ingredients : Drew(i) = {}
  BY <1>1, ConstantsAssumption DEF Drew
<1>5. FiniteDraws
  BY <1>4, FS_EmptySet DEF FiniteDraws
<1>6. NeverOverdrawn
  <2> SUFFICES ASSUME NEW i \in Ingredients PROVE Opening[i] - stock[i] <= Need[i] * Cardinality(Drew(i))
    BY DEF NeverOverdrawn
  <2>1. Cardinality(Drew(i)) = 0
    BY <1>4, FS_EmptySet
  <2>2. Opening[i] - stock[i] = 0 /\ Need[i] * 0 = 0
    BY ConstantsAssumption
  <2> QED BY <2>1, <2>2
<1> QED BY <1>2, <1>3, <1>5, <1>6 DEF IInv

LEMMA NextIInv == IInv /\ [Next]_vars => IInv'
<1> SUFFICES ASSUME IInv, [Next]_vars PROVE IInv'
  OBVIOUS
<1>1. ASSUME NEW s \in Sales, UNCHANGED negative,
             Admit(s) \/ Reject(s) \/ DirectStep(s) \/ TxStep(s) \/ HandlerDies(s)
      PROVE  IInv'
  <2>1. CASE DirectStep(s)
    BY <1>1, <2>1, LookupStep, InsertOrderStep, InsertRefusedStep, InsertItemsStep, ReadSettingStep,
       ReadStockStep, BypassStockStep, DeliveryShortStep, DeductStep, DeductRefusedStep, RecordMovementStep,
       DeleteItemsStep, DeleteOrderStep, CallFailsStep DEF DirectStep
  <2>2. CASE TxStep(s)
    <3>1. CASE TxShort(s) \/ TxRejects(s)
      BY <1>1, <3>1, TxAnswerStep DEF TxShort, TxRejects, Answers
    <3> QED BY <1>1, <2>2, <3>1, TxRaisesStep, TxSellsStep, TxTimesOutStep DEF TxStep
  <2> QED BY <1>1, <2>1, <2>2, AdmitStep, RejectStep, HandlerDiesStep
<1>2. CASE SetNegativeStock
  BY <1>2, OnlySetting DEF SetNegativeStock, IInv, TypeOK
<1>3. CASE UNCHANGED vars
  BY <1>3, OnlySetting DEF vars, IInv, TypeOK
<1> QED BY <1>1, <1>2, <1>3 DEF Next

\* The inductive invariant holds in every reachable state.
THEOREM Invariance == Spec => []IInv
<1> QED BY InitIInv, NextIInv, PTL DEF Spec

\* The stock of an ingredient never becomes negative, whatever the sales had read before they wrote it.
THEOREM SaleTypes == Spec => []TypeOK
<1>1. IInv => TypeOK
  BY DEF IInv
<1> QED BY <1>1, Invariance, PTL

\* A request with a key that is repeated, at once or after a failure, has one order at most: the look-up
\* before the insertion and the unique index behind it leave no way in for a second.
THEOREM KeysHaveOneOrder == Spec => []OneOrderPerKey
<1>1. IInv => OneOrderPerKey
  <2> SUFFICES ASSUME IInv, NEW k \in Keys PROVE Cardinality(OrdersOf(k)) <= 1
    BY DEF OneOrderPerKey
  <2>1. \A s, t \in OrdersOf(k) : s = t
    BY ConstantsAssumption DEF IInv, UniqueKeys, OrdersOf, Keyed
  <2>2. CASE OrdersOf(k) = {}
    BY <2>2, FS_EmptySet
  <2>3. CASE OrdersOf(k) # {}
    <3>1. PICK s : OrdersOf(k) = {s}
      BY <2>1, <2>3
    <3> QED BY <3>1, FS_Singleton
  <2> QED BY <2>2, <2>3
<1> QED BY <1>1, Invariance, PTL

\* An order that was reported as sold has its items and all of its movements, also when a step of
\* another sale, an error or a time-out came in between.
THEOREM SoldOrdersAreWhole == Spec => []SoldOrderIsWhole
<1>1. IInv => SoldOrderIsWhole
  BY DEF IInv
<1> QED BY <1>1, Invariance, PTL

\* Updates may be lost between direct sales, but only in favour of the stock: it has fallen by no
\* more than one order for each sale that drew from it.
THEOREM StockIsNeverOverdrawn == Spec => []NeverOverdrawn
<1>1. IInv => NeverOverdrawn
  BY DEF IInv
<1> QED BY <1>1, Invariance, PTL

-----------------------------------------------------------------------------
(* Sums over sets of handlers                                                 *)

\* The recursive function by which FoldSet adds up the changes of i by the handlers of S.
IsSum(f, i, S) ==
  f = [s \in SUBSET S |-> IF s = {} THEN 0
                          ELSE LET x == CHOOSE x \in s : TRUE IN f[s \ {x}] + Delta(x, i)]
Sum(i, S) == (CHOOSE f : IsSum(f, i, S))[S]

\* A set of subsets of a finite set that has members has a smallest one.
LEMMA SmallestSet ==
  ASSUME NEW S, IsFiniteSet(S), NEW B \in SUBSET SUBSET S, B # {}
  PROVE  \E T \in B : \A U \in SUBSET T : U # T => U \notin B
<1>1. B \subseteq FiniteSubsetsOf(S)
  BY FS_FiniteSubsetsOfFinite
<1>2. IsWellFoundedOn(StrictSubsetOrdering(S), FiniteSubsetsOf(S))
  BY FS_StrictSubsetOrderingWellFounded
<1>3. PICK T \in B : \A U \in B : ~(<<U, T>> \in StrictSubsetOrdering(S))
  BY <1>1, <1>2, WFMin
<1>4. ASSUME NEW U \in SUBSET T, U # T, U \in B PROVE FALSE
  <2>1. <<U, T>> \in (SUBSET S) \X (SUBSET S)
    BY <1>4
  <2>2. <<U, T>> \in StrictSubsetOrdering(S)
    BY <1>4, <2>1 DEF StrictSubsetOrdering
  <2> QED BY <1>3, <1>4, <2>2
<1> QED BY <1>4

\* A sum is 0, or the change of a chosen handler and the sum of the others.
LEMMA SumAt ==
  ASSUME NEW f, NEW i, NEW S, IsSum(f, i, S), NEW s \in SUBSET S
  PROVE  /\ s = {} => f[s] = 0
         /\ s # {} => \E x \in s : x = (CHOOSE y \in s : TRUE) /\ f[s] = f[s \ {x}] + Delta(x, i)
<1>1. f[s] = IF s = {} THEN 0 ELSE LET x == CHOOSE x \in s : TRUE IN f[s \ {x}] + Delta(x, i)
  BY DEF IsSum
<1>2. s # {} => (CHOOSE y \in s : TRUE) \in s
  OBVIOUS
<1> QED BY <1>1, <1>2

LEMMA SumUnique ==
  ASSUME NEW S, IsFiniteSet(S), NEW i, NEW f, NEW g, IsSum(f, i, S), IsSum(g, i, S)
  PROVE  f = g
<1> DEFINE B == {s \in SUBSET S : f[s] # g[s]}
<1>1. B = {}
  <2> SUFFICES ASSUME B # {} PROVE FALSE
    OBVIOUS
  <2>1. B \in SUBSET SUBSET S
    OBVIOUS
  <2>2. PICK T \in B : \A U \in SUBSET T : U # T => U \notin B
    <3> HIDE DEF B
    <3> QED BY <2>1, SmallestSet
  <2>3. T # {} /\ T \in SUBSET S
    BY SumAt
  <2>4. PICK x \in T : x = (CHOOSE y \in T : TRUE) /\ f[T] = f[T \ {x}] + Delta(x, i)
    BY <2>3, SumAt
  <2>5. g[T] = g[T \ {x}] + Delta(x, i)
    <3>1. \E y \in T : y = (CHOOSE z \in T : TRUE) /\ g[T] = g[T \ {y}] + Delta(y, i)
      BY <2>3, SumAt
    <3> QED BY <2>4, <3>1
  <2>6. f[T \ {x}] = g[T \ {x}]
    BY <2>2, <2>3
  <2> QED BY <2>2, <2>4, <2>5, <2>6
<1>2. \A s \in SUBSET S : f[s] = g[s]
  BY <1>1
<1>3. f = [s \in SUBSET S |-> f[s]] /\ g = [s \in SUBSET S |-> g[s]]
  BY DEF IsSum
<1> QED BY <1>2, <1>3

LEMMA SumWithin ==
  ASSUME NEW f, NEW i, NEW S, IsSum(f, i, S), NEW T \in SUBSET S
  PROVE  IsSum([s \in SUBSET T |-> f[s]], i, T)
<1> DEFINE g == [s \in SUBSET T |-> f[s]]
<1>1. ASSUME NEW s \in SUBSET T
      PROVE  f[s] = IF s = {} THEN 0 ELSE LET x == CHOOSE x \in s : TRUE IN g[s \ {x}] + Delta(x, i)
  <2>1. CASE s = {}
    BY <2>1, SumAt
  <2>2. CASE s # {}
    <3>1. PICK x \in s : x = (CHOOSE y \in s : TRUE) /\ f[s] = f[s \ {x}] + Delta(x, i)
      BY <2>2, SumAt
    <3>2. g[s \ {x}] = f[s \ {x}]
      OBVIOUS
    <3> QED BY <2>2, <3>1, <3>2
  <2> QED BY <2>1, <2>2
<1>2. g = [s \in SUBSET T |-> IF s = {} THEN 0 ELSE LET x == CHOOSE x \in s : TRUE IN g[s \ {x}] + Delta(x, i)]
  BY <1>1
<1> QED BY <1>2 DEF IsSum

LEMMA SumExists ==
  ASSUME NEW S, IsFiniteSet(S), NEW i
  PROVE  \E f : IsSum(f, i, S)
<1> DEFINE B == {T \in SUBSET S : ~\E f : IsSum(f, i, T)}
<1>1. B = {}
  <2> SUFFICES ASSUME B # {} PROVE FALSE
    OBVIOUS
  <2>1. B \in SUBSET SUBSET S
    OBVIOUS
  <2>2. PICK T \in B : \A U \in SUBSET T : U # T => U \notin B
    <3> HIDE DEF B
    <3> QED BY <2>1, SmallestSet
  <2>3. T \in SUBSET S /\ ~\E f : IsSum(f, i, T)
    OBVIOUS
  <2>4. ASSUME NEW U \in SUBSET T, U # T PROVE IsSum(CHOOSE f : IsSum(f, i, U), i, U)
    BY <2>2, <2>3, <2>4
  <2> DEFINE V == [U \in SUBSET T |-> (CHOOSE f : IsSum(f, i, U))[U]]
  <2> DEFINE g == [s \in SUBSET T |-> IF s = {} THEN 0
                                      ELSE LET x == CHOOSE x \in s : TRUE IN V[s \ {x}] + Delta(x, i)]
  <2>5. ASSUME NEW U \in SUBSET T, U # T PROVE g[U] = V[U]
    <3>1. PICK f : f = (CHOOSE h : IsSum(h, i, U)) /\ IsSum(f, i, U) /\ V[U] = f[U]
      BY <2>4, <2>5
    <3>2. CASE U = {}
      <4>1. f[U] = 0
        BY <3>1, <3>2, SumAt
      <4> QED BY <3>1, <3>2, <4>1
    <3>3. CASE U # {}
      <4>1. PICK x \in U : x = (CHOOSE y \in U : TRUE) /\ f[U] = f[U \ {x}] + Delta(x, i)
        <5>1. IsSum(f, i, U) /\ U \in SUBSET U
          BY <3>1
        <5> HIDE DEF V, g
        <5> QED BY <3>3, <5>1, SumAt
      <4>2. PICK W : W = U \ {x} /\ W \in SUBSET U /\ W \in SUBSET T /\ W # T
        <5>1. U \ {x} \in SUBSET U /\ U \ {x} \in SUBSET T /\ U \ {x} # T
          BY <2>5, <4>1
        <5> QED BY <5>1
      <4>3. IsSum([s \in SUBSET W |-> f[s]], i, W)
        <5> HIDE DEF V, g
        <5> QED BY <3>1, <4>2, SumWithin
      <4>4. IsSum(CHOOSE h : IsSum(h, i, W), i, W)
        BY <2>4, <4>2
      <4>5. IsFiniteSet(W)
        BY <2>3, <4>2, FS_Subset
      <4>6. (CHOOSE h : IsSum(h, i, W)) = [s \in SUBSET W |-> f[s]]
        BY <4>3, <4>4, <4>5, SumUnique
      <4>7. V[W] = f[W]
        BY <4>2, <4>6
      <4>8. g[U] = V[U \ {x}] + Delta(x, i)
        BY <3>3, <4>1
      <4> QED BY <3>1, <4>1, <4>2, <4>7, <4>8
    <3> QED BY <3>2, <3>3
  <2>6. ASSUME NEW s \in SUBSET T
        PROVE  g[s] = IF s = {} THEN 0 ELSE LET x == CHOOSE x \in s : TRUE IN g[s \ {x}] + Delta(x, i)
    <3>1. CASE s = {}
      BY <3>1
    <3>2. CASE s # {}
      <4>1. PICK x : x = (CHOOSE y \in s : TRUE) /\ x \in s
        BY <3>2
      <4>2. g[s \ {x}] = V[s \ {x}]
        <5>1. s \ {x} \in SUBSET T /\ s \ {x} # T
          BY <4>1
        <5> HIDE DEF g, V
        <5> QED BY <2>5, <5>1
      <4> QED BY <3>2, <4>1, <4>2
    <3> QED BY <3>1, <3>2
  <2>7. IsSum(g, i, T)
    <3>1. g = [s \in SUBSET T |-> g[s]]
      OBVIOUS
    <3>2. g = [s \in SUBSET T |-> IF s = {} THEN 0 ELSE LET x == CHOOSE x \in s : TRUE IN g[s \ {x}] + Delta(x, i)]
      <4> HIDE DEF g
      <4> QED BY <2>6, <3>1
    <3> HIDE DEF g
    <3> QED BY <3>2 DEF IsSum
  <2> HIDE DEF g
  <2> QED BY <2>3, <2>7
<1> QED BY <1>1

LEMMA SumStep ==
  ASSUME NEW S, IsFiniteSet(S), NEW i
  PROVE  /\ S = {} => Sum(i, S) = 0
         /\ S # {} => \E x \in S : Sum(i, S) = Sum(i, S \ {x}) + Delta(x, i)
<1>1. PICK f : f = (CHOOSE g : IsSum(g, i, S)) /\ IsSum(f, i, S) /\ Sum(i, S) = f[S]
  BY SumExists DEF Sum
<1>2. CASE S = {}
  BY <1>1, <1>2, SumAt
<1>3. CASE S # {}
  <2>1. PICK x \in S : f[S] = f[S \ {x}] + Delta(x, i)
    <3>1. IsSum(f, i, S) /\ S \in SUBSET S
      BY <1>1
    <3> QED BY <1>3, <3>1, SumAt
  <2>2. PICK W : W = S \ {x} /\ W \in SUBSET S
    OBVIOUS
  <2>3. IsFiniteSet(W)
    BY <2>2, FS_Subset
  <2>4. IsSum(CHOOSE h : IsSum(h, i, W), i, W)
    BY <2>3, SumExists
  <2>5. (CHOOSE h : IsSum(h, i, W)) = [s \in SUBSET W |-> f[s]]
    <3>1. IsSum([s \in SUBSET W |-> f[s]], i, W)
      BY <1>1, <2>2, SumWithin
    <3> QED BY <2>3, <2>4, <3>1, SumUnique
  <2>6. Sum(i, W) = f[W]
    BY <2>5 DEF Sum
  <2> QED BY <1>1, <2>1, <2>2, <2>6
<1> QED BY <1>2, <1>3

LEMMA SumInt ==
  ASSUME NEW S, IsFiniteSet(S), NEW i, \A x \in S : Delta(x, i) \in Int
  PROVE  Sum(i, S) \in Int
<1> DEFINE B == {T \in SUBSET S : Sum(i, T) \notin Int}
<1>1. B = {}
  <2> SUFFICES ASSUME B # {} PROVE FALSE
    OBVIOUS
  <2>1. B \in SUBSET SUBSET S
    OBVIOUS
  <2>2. PICK T \in B : \A U \in SUBSET T : U # T => U \notin B
    <3> HIDE DEF B
    <3> QED BY <2>1, SmallestSet
  <2>3. T \in SUBSET S /\ IsFiniteSet(T)
    BY FS_Subset
  <2>4. T # {}
    BY <2>3, SumStep
  <2>5. PICK x \in T : Sum(i, T) = Sum(i, T \ {x}) + Delta(x, i)
    BY <2>3, <2>4, SumStep
  <2>6. Sum(i, T \ {x}) \in Int
    BY <2>2, <2>3
  <2> QED BY <2>3, <2>5, <2>6
<1> QED BY <1>1

\* In whatever order FoldSet takes the handlers, each counts once.
LEMMA SumWithout ==
  ASSUME NEW S, IsFiniteSet(S), NEW i, \A x \in S : Delta(x, i) \in Int
  PROVE  \A x \in S : Sum(i, S) = Sum(i, S \ {x}) + Delta(x, i)
<1> DEFINE B == {T \in SUBSET S : \E x \in T : Sum(i, T) # Sum(i, T \ {x}) + Delta(x, i)}
<1>1. B = {}
  <2> SUFFICES ASSUME B # {} PROVE FALSE
    OBVIOUS
  <2>1. B \in SUBSET SUBSET S
    OBVIOUS
  <2>2. PICK T \in B : \A U \in SUBSET T : U # T => U \notin B
    <3> HIDE DEF B
    <3> QED BY <2>1, SmallestSet
  <2>3. T \in SUBSET S /\ IsFiniteSet(T)
    BY FS_Subset
  <2>4. PICK x \in T : Sum(i, T) # Sum(i, T \ {x}) + Delta(x, i)
    OBVIOUS
  <2>5. PICK y \in T : Sum(i, T) = Sum(i, T \ {y}) + Delta(y, i)
    BY <2>3, <2>4, SumStep
  <2>6. x # y
    BY <2>4, <2>5
  <2>7. PICK X, Y, W : X = T \ {x} /\ Y = T \ {y} /\ W = T \ {x, y} /\ W = X \ {y} /\ W = Y \ {x}
    <3>1. T \ {x, y} = (T \ {x}) \ {y} /\ T \ {x, y} = (T \ {y}) \ {x}
      OBVIOUS
    <3> QED BY <3>1
  <2>8. X \notin B /\ Y \notin B /\ X \in SUBSET S /\ Y \in SUBSET S /\ y \in X /\ x \in Y
    <3>1. X \in SUBSET T /\ X # T /\ Y \in SUBSET T /\ Y # T
      BY <2>7
    <3> HIDE DEF B
    <3> QED BY <2>2, <2>3, <2>6, <2>7, <3>1
  <2>9. Sum(i, X) = Sum(i, W) + Delta(y, i) /\ Sum(i, Y) = Sum(i, W) + Delta(x, i)
    BY <2>7, <2>8
  <2>10. IsFiniteSet(W) /\ Sum(i, W) \in Int /\ Delta(x, i) \in Int /\ Delta(y, i) \in Int
    <3>1. IsFiniteSet(W) /\ \A z \in W : Delta(z, i) \in Int
      BY <2>3, <2>7, FS_Subset
    <3> QED BY <2>3, <3>1, SumInt
  <2> QED BY <2>4, <2>5, <2>7, <2>9, <2>10
<1> QED BY <1>1

LEMMA SumAdd ==
  ASSUME NEW S, IsFiniteSet(S), NEW i, \A x \in S : Delta(x, i) \in Int,
         NEW h, h \notin S, Delta(h, i) \in Int
  PROVE  Sum(i, S \union {h}) = Sum(i, S) + Delta(h, i)
<1>1. PICK T : T = S \union {h}
  OBVIOUS
<1>2. IsFiniteSet(T) /\ T \ {h} = S
  BY <1>1, FS_AddElement
<1> QED BY <1>1, <1>2, SumWithout

\* The folds of StockAdjust are these sums.
LEMMA FoldIsSum ==
  ASSUME NEW S, NEW i
  PROVE  FoldSet(LAMBDA h, sum : sum + Delta(h, i), 0, S) = Sum(i, S)
BY DEF FoldSet, MapThenFoldSet, Sum, IsSum

LEMMA OneOrNone ==
  ASSUME NEW S, IsFiniteSet(S), ~(Cardinality(S) > 1)
  PROVE  \A g, h \in S : g = h
<1> SUFFICES ASSUME NEW g \in S, NEW h \in S, g # h PROVE FALSE
  OBVIOUS
<1>1. IsFiniteSet(S \ {g}) /\ Cardinality(S \ {g}) = Cardinality(S) - 1
  BY FS_RemoveElement
<1>2. Cardinality(S) \in Nat /\ Cardinality(S \ {g}) \in Nat /\ h \in S \ {g}
  BY <1>1, FS_CardinalityType
<1>3. Cardinality(S \ {g}) # 0
  BY <1>1, <1>2, FS_EmptySet
<1> QED BY <1>1, <1>2, <1>3

-----------------------------------------------------------------------------
(* The inductive invariant                                                    *)

Begun == {h \in Handlers : corrector[h].pc # "idle"}

\* What h has still to write and has written follows from its step.
HandlerPhase(h) ==
  /\ corrector[h].pc = "idle" => corrector[h].wrote = {}
  /\ corrector[h].pc # "ended" => booked[h] = {}
  /\ corrector[h].pc \in Finished => corrector[h].todo = {}
  /\ corrector[h].todo \intersect corrector[h].wrote = {}
  /\ corrector[h].pc = "restorable" => h \in Restores /\ corrector[h].wrote = {}
  /\ corrector[h].pc = "record" => corrector[h].todo = {}
  /\ h \in Items => /\ corrector[h].pc \in {"restorable", "write", "record"} =>
                         corrector[h].todo = Ingredients \ corrector[h].wrote
                    /\ corrector[h].pc = "record" => corrector[h].wrote = Ingredients
  /\ h \in Receipts => /\ corrector[h].pc = "write" => corrector[h].wrote = {}
                       /\ corrector[h].pc = "write" =>
                            \A i, j \in corrector[h].todo : i = j

\* What is still to be written was read when changes explained what stock was.
Sober == \A h \in Handlers : \A i \in corrector[h].todo : Explained(i, corrector[h].seen[i])

\* While no two handlers have overlapped, one is at work at most, and no key is served twice.
Alone ==
  ~overlap => /\ \A g, h \in Active : g = h
              /\ \A g, h \in Begun \intersect Items : KeyOf[g] = KeyOf[h] => g = h

\* Then stock is what the movements say, and what the handler at work has written already.
Balanced ==
  Orderly /\ ~negative =>
    /\ Active = {} => \A i \in Ingredients : stock[i] = Opening[i] + Booked(i)
    /\ \A h \in Active, i \in Ingredients :
         /\ i \in corrector[h].wrote => stock[i] = Opening[i] + Booked(i) + Delta(h, i)
         /\ i \notin corrector[h].wrote => stock[i] = Opening[i] + Booked(i)
         /\ i \in corrector[h].todo => /\ corrector[h].seen[i] = Opening[i] + Booked(i)
                                       /\ Delta(h, i) < 0 => corrector[h].seen[i] + Delta(h, i) >= 0

AdjustInv ==
  /\ AdjustTypeOK
  /\ faults \in Nat
  /\ IsFiniteSet(Begun)
  /\ \A h \in Handlers : HandlerPhase(h)
  /\ BookedOncePerKey
  /\ StockIsExplained
  /\ Sober
  /\ Alone
  /\ Balanced

LEMMA DeltaNat ==
  ASSUME NEW h, NEW i \in Ingredients
  PROVE  /\ Delta(h, i) \in Int
         /\ Delta(h, i) = IF h \in Receipts THEN Received
                          ELSE IF h \in Restores THEN Need[i] ELSE -Need[i]
         /\ Need[i] \in Nat /\ Need[i] > 0 /\ Received \in Nat /\ Received > 0
         /\ Opening[i] \in Nat
BY AdjustAssumption DEF AdjustAssumption, Delta

-----------------------------------------------------------------------------
(* What a step does: one handler starts, proceeds, writes, records or quits   *)

Alters(h) == corrector' = [corrector EXCEPT ![h] = corrector'[h]]

Starts(h) ==
  /\ UNCHANGED <<stock, booked, faults>>
  /\ corrector[h].pc = "idle" /\ corrector'[h].pc \in {"restorable", "write"}
  /\ corrector'[h].seen = stock /\ corrector'[h].wrote = corrector[h].wrote
  /\ corrector'[h].pc = "restorable" => h \in Restores
  /\ h \in Items => /\ corrector'[h].todo = Ingredients
                    /\ h \notin Restores /\ ~negative => \A i \in Ingredients : stock[i] >= Need[i]
  /\ h \in Receipts => corrector'[h].pc = "write" /\ \E i \in Ingredients : corrector'[h].todo = {i}

Proceeds(h) ==
  /\ UNCHANGED <<stock, booked, faults>>
  /\ corrector[h].pc = "restorable" /\ corrector'[h].pc = "write"
  /\ corrector'[h].seen = corrector[h].seen /\ corrector'[h].todo = corrector[h].todo
  /\ corrector'[h].wrote = corrector[h].wrote

Writes(h, i) ==
  /\ UNCHANGED <<booked, faults>>
  /\ corrector[h].pc = "write" /\ i \in corrector[h].todo
  /\ \/ stock' = [stock EXCEPT ![i] = Written(h, i)] /\ (h \in Receipts \/ UpdateMatches(h, i))
     \/ stock' = stock /\ h \in Items /\ ~UpdateMatches(h, i)
  /\ corrector'[h].seen = corrector[h].seen /\ corrector'[h].todo = corrector[h].todo \ {i}
  /\ corrector'[h].wrote = corrector[h].wrote \union {i}
  /\ corrector'[h].pc \in {"write", "record"}
  /\ corrector'[h].pc = "record" => corrector'[h].todo = {}
  /\ h \in Receipts => corrector'[h].pc = "record"

Closes(h) ==
  /\ UNCHANGED stock
  /\ corrector[h].pc \notin Finished /\ corrector'[h].pc = "ended"
  /\ corrector'[h].todo = {} /\ corrector'[h].wrote = corrector[h].wrote

Quits(h) ==
  /\ Closes(h)
  /\ UNCHANGED booked
  /\ \/ faults' = faults + 1
     \/ corrector[h].pc = "restorable"
     \/ corrector[h].pc = "record" /\ h \in Items /\ KeyUsed(KeyOf[h])
     \/ /\ corrector[h].pc = "write" /\ h \in Items
        /\ \E i \in corrector[h].todo : UpdateMatches(h, i) /\ Written(h, i) < 0
  /\ faults' \in {faults, faults + 1}

Records(h) ==
  /\ Closes(h)
  /\ UNCHANGED faults
  /\ corrector[h].pc = "record"
  /\ booked' = [booked EXCEPT ![h] = corrector[h].wrote]
  /\ h \in Items => ~KeyUsed(KeyOf[h])

Acts(h) == \/ Starts(h) \/ Proceeds(h) \/ Quits(h) \/ Records(h)
           \/ \E i \in Ingredients : Writes(h, i)

LEMMA WhatActs ==
  ASSUME AdjustInv, AdjustNext
  PROVE  /\ AdjustTypeOK'
         /\ overlap' = (overlap \/ Overlapping') /\ negative' = negative
         /\ \E h \in Handlers : Alters(h) /\ Acts(h)
<1> USE DEF Alters, Finished
<1>1. /\ AdjustTypeOK
      /\ overlap' = (overlap \/ Overlapping') /\ negative' = negative
  BY DEF AdjustInv, AdjustNext
<1>2. /\ Handlers = Items \union Receipts /\ Items \intersect Receipts = {} /\ Restores \subseteq Items
      /\ \A h \in Handlers, i \in Ingredients : Delta(h, i) \in Int
      /\ \A h \in Receipts, i \in Ingredients : Delta(h, i) \in Nat
  BY AdjustAssumption, <1>1, DeltaNat DEF Handlers, AdjustAssumption
<1>3. /\ \A h \in Handlers : HandlerPhase(h)
      /\ Opening \in [Ingredients -> Nat]
  BY AdjustAssumption, <1>1 DEF AdjustInv, AdjustAssumption
<1>4. ASSUME NEW h \in Items, UNCHANGED faults, ItemRead(h) PROVE AdjustTypeOK' /\ Alters(h) /\ Starts(h)
  <2>1. /\ h \in Handlers /\ corrector[h] \in CorrectorState /\ corrector[h].pc = "idle"
        /\ corrector'[h] = [corrector[h] EXCEPT !.pc = IF h \in Restores THEN "restorable" ELSE "write",
                                            !.seen = stock, !.todo = Ingredients]
        /\ corrector' = [corrector EXCEPT ![h] = corrector'[h]]
    BY <1>1, <1>2, <1>4 DEF ItemRead, AdjustTypeOK
  <2>2. /\ corrector'[h].pc = IF h \in Restores THEN "restorable" ELSE "write"
        /\ corrector'[h].seen = stock /\ corrector'[h].todo = Ingredients
        /\ corrector'[h].wrote = corrector[h].wrote
        /\ corrector'[h] \in CorrectorState
    <3>1. (IF h \in Restores THEN "restorable" ELSE "write") \in Finished \union {"restorable", "write", "record"}
      OBVIOUS
    <3>2. stock \in [Ingredients -> Nat] /\ Ingredients \in SUBSET Ingredients
      BY <1>1 DEF AdjustTypeOK
    <3>3. PICK r, q, p : /\ r = corrector[h] /\ q = corrector'[h]
                         /\ p = IF h \in Restores THEN "restorable" ELSE "write"
      OBVIOUS
    <3>4. /\ r \in CorrectorState /\ p \in Finished \union {"restorable", "write", "record"}
          /\ q = [r EXCEPT !.pc = p, !.seen = stock, !.todo = Ingredients]
      BY <2>1, <3>1, <3>3
    <3>5. q.pc = p /\ q.seen = stock /\ q.todo = Ingredients /\ q.wrote = r.wrote /\ q \in CorrectorState
      BY <3>2, <3>4 DEF CorrectorState
    <3> QED BY <3>3, <3>5
  <2>3. AdjustTypeOK'
    BY <1>1, <1>4, <2>1, <2>2 DEF AdjustTypeOK, ItemRead
  <2>4. h \notin Restores /\ ~negative => \A i \in Ingredients : stock[i] >= Need[i]
    BY <1>4 DEF ItemRead
  <2>5. h \notin Receipts /\ UNCHANGED <<stock, booked>>
    BY <1>2, <1>4 DEF ItemRead
  <2> QED BY <1>4, <2>1, <2>2, <2>3, <2>4, <2>5 DEF Starts
<1>5. ASSUME NEW h \in Items, UNCHANGED faults, ItemReadOutstanding(h) PROVE AdjustTypeOK' /\ Alters(h) /\ Proceeds(h)
  BY <1>1, <1>2, <1>5 DEF ItemReadOutstanding, Goes, AdjustTypeOK, CorrectorState, Proceeds
<1>6. ASSUME NEW h \in Handlers, End(h), UNCHANGED <<stock, booked>>, corrector[h].pc \notin Finished
      PROVE  AdjustTypeOK' /\ Alters(h) /\ Closes(h)
  BY <1>1, <1>3, <1>6 DEF End, AdjustTypeOK, CorrectorState, Closes
<1>7. ASSUME NEW h \in Items, UNCHANGED faults, RestoreRefused(h) PROVE AdjustTypeOK' /\ Alters(h) /\ Quits(h)
  BY <1>2, <1>6, <1>7 DEF RestoreRefused, Quits
<1>8. ASSUME NEW h \in Items, NEW i \in Ingredients, UNCHANGED faults, ItemWrite(h, i)
      PROVE  AdjustTypeOK' /\ Alters(h) /\ Writes(h, i)
  <2>1. UpdateMatches(h, i) => Written(h, i) \in Nat
    BY <1>1, <1>2, <1>8 DEF ItemWrite, Written, AdjustTypeOK, CorrectorState
  <2>2. /\ h \in Handlers /\ corrector[h] \in CorrectorState /\ corrector[h].pc = "write"
        /\ corrector'[h] = [corrector[h] EXCEPT !.todo = @ \ {i}, !.wrote = @ \union {i},
                                            !.pc = IF corrector[h].todo = {i} THEN "record" ELSE @]
        /\ corrector' = [corrector EXCEPT ![h] = corrector'[h]]
    BY <1>1, <1>2, <1>8 DEF ItemWrite, AdjustTypeOK
  <2>3. /\ corrector'[h].pc \in {"write", "record"}
        /\ corrector'[h].pc = "record" => corrector'[h].todo = {}
        /\ corrector'[h].seen = corrector[h].seen
        /\ corrector'[h].todo = corrector[h].todo \ {i} /\ corrector'[h].wrote = corrector[h].wrote \union {i}
        /\ corrector'[h] \in CorrectorState
    <3>1. PICK t, w : t = corrector[h].todo \ {i} /\ w = corrector[h].wrote \union {i}
      OBVIOUS
    <3>2. t \in SUBSET Ingredients /\ w \in SUBSET Ingredients
      BY <2>2, <3>1 DEF CorrectorState
    <3>3. corrector[h].todo = {i} => t = {}
      BY <3>1
    <3>4. PICK p, r, q : /\ p = IF corrector[h].todo = {i} THEN "record" ELSE "write"
                         /\ r = corrector[h] /\ q = corrector'[h]
      OBVIOUS
    <3>5. /\ p \in {"write", "record"} /\ p = "record" => t = {}
          /\ p \in Finished \union {"restorable", "write", "record"}
      BY <3>3, <3>4
    <3>6. r \in CorrectorState /\ q = [r EXCEPT !.pc = p, !.todo = t, !.wrote = w]
      BY <2>2, <3>1, <3>4 DEF CorrectorState
    <3>7. q.todo = t /\ q.wrote = w /\ q.seen = r.seen /\ q.pc = p /\ q \in CorrectorState
      BY <3>2, <3>5, <3>6 DEF CorrectorState
    <3> QED BY <3>1, <3>4, <3>5, <3>7
  <2>4. \/ stock' = [stock EXCEPT ![i] = Written(h, i)] /\ UpdateMatches(h, i)
        \/ stock' = stock /\ ~UpdateMatches(h, i)
    BY <1>1, <1>8 DEF ItemWrite, AdjustTypeOK
  <2>5. AdjustTypeOK'
    BY <1>1, <1>8, <2>1, <2>2, <2>3, <2>4 DEF AdjustTypeOK, ItemWrite
  <2> QED BY <1>2, <1>8, <2>2, <2>3, <2>4, <2>5 DEF Writes, ItemWrite
<1>9. ASSUME NEW h \in Items, NEW i \in Ingredients, UNCHANGED faults, ItemWriteRefused(h, i)
      PROVE  AdjustTypeOK' /\ Alters(h) /\ Quits(h)
  BY <1>2, <1>6, <1>9 DEF ItemWriteRefused, Quits
<1>10. ASSUME NEW h \in Handlers, End(h), UNCHANGED stock, corrector[h].pc = "record",
              booked' = [booked EXCEPT ![h] = corrector[h].wrote]
       PROVE  AdjustTypeOK' /\ Alters(h) /\ Closes(h)
  BY <1>1, <1>3, <1>10 DEF End, AdjustTypeOK, CorrectorState, Closes
<1>11. ASSUME NEW h \in Items, UNCHANGED faults, ItemRecord(h) PROVE AdjustTypeOK' /\ Alters(h) /\ Records(h)
  BY <1>2, <1>3, <1>10, <1>11 DEF ItemRecord, Records, HandlerPhase
<1>12. ASSUME NEW h \in Items, UNCHANGED faults, ItemRecordRefused(h) PROVE AdjustTypeOK' /\ Alters(h) /\ Quits(h)
  BY <1>2, <1>6, <1>12 DEF ItemRecordRefused, Quits
<1>13. ASSUME NEW h \in Receipts, NEW i \in Ingredients, UNCHANGED faults, ReceiptRead(h, i)
       PROVE  AdjustTypeOK' /\ Alters(h) /\ Starts(h)
  <2>1. /\ h \in Handlers /\ corrector[h] \in CorrectorState /\ corrector[h].pc = "idle"
        /\ corrector'[h] = [corrector[h] EXCEPT !.pc = "write", !.seen = stock, !.todo = {i}]
        /\ corrector' = [corrector EXCEPT ![h] = corrector'[h]]
    BY <1>1, <1>2, <1>13 DEF ReceiptRead, AdjustTypeOK
  <2>2. /\ corrector'[h].pc = "write" /\ corrector'[h].seen = stock /\ corrector'[h].todo = {i}
        /\ corrector'[h].wrote = corrector[h].wrote
        /\ corrector'[h] \in CorrectorState
    <3>1. stock \in [Ingredients -> Nat] /\ {i} \in SUBSET Ingredients
      BY <1>1 DEF AdjustTypeOK
    <3>2. PICK r, q, t : r = corrector[h] /\ q = corrector'[h] /\ t = {i}
      OBVIOUS
    <3>3. r \in CorrectorState /\ q = [r EXCEPT !.pc = "write", !.seen = stock, !.todo = t]
      BY <2>1, <3>2
    <3>4. q.pc = "write" /\ q.seen = stock /\ q.todo = t /\ q.wrote = r.wrote /\ q \in CorrectorState
      BY <3>1, <3>2, <3>3 DEF CorrectorState
    <3> QED BY <3>2, <3>4
  <2>3. AdjustTypeOK'
    BY <1>1, <1>13, <2>1, <2>2 DEF AdjustTypeOK, ReceiptRead
  <2> QED BY <1>2, <1>13, <2>1, <2>2, <2>3 DEF Starts, ReceiptRead
<1>14. ASSUME NEW h \in Receipts, NEW i \in Ingredients, UNCHANGED faults, ReceiptWrite(h, i)
       PROVE  AdjustTypeOK' /\ Alters(h) /\ Writes(h, i)
  <2>1. Written(h, i) \in Nat
    BY <1>1, <1>2, <1>14 DEF Written, AdjustTypeOK, CorrectorState
  <2>2. /\ h \in Handlers /\ corrector[h] \in CorrectorState /\ corrector[h].pc = "write"
        /\ corrector'[h] = [corrector[h] EXCEPT !.pc = "record", !.todo = {}, !.wrote = {i}]
        /\ corrector' = [corrector EXCEPT ![h] = corrector'[h]]
    BY <1>1, <1>2, <1>14 DEF ReceiptWrite, AdjustTypeOK
  <2>5. corrector[h].wrote = {} /\ \A j \in corrector[h].todo : i = j
    BY <1>2, <1>3, <1>14 DEF ReceiptWrite, HandlerPhase
  <2>6. corrector[h].todo \ {i} = {} /\ corrector[h].wrote \union {i} = {i}
    BY <2>5
  <2>3. /\ corrector'[h].pc = "record" /\ corrector'[h].todo = {} /\ corrector'[h].wrote = {i}
        /\ corrector'[h].seen = corrector[h].seen /\ corrector'[h] \in CorrectorState
    <3>1. {} \in SUBSET Ingredients /\ {i} \in SUBSET Ingredients
      OBVIOUS
    <3>2. PICK r, q, w : r = corrector[h] /\ q = corrector'[h] /\ w = {i}
      OBVIOUS
    <3>3. r \in CorrectorState /\ q = [r EXCEPT !.pc = "record", !.todo = {}, !.wrote = w]
      BY <2>2, <3>2
    <3>4. q.pc = "record" /\ q.seen = r.seen /\ q.todo = {} /\ q.wrote = w /\ q \in CorrectorState
      BY <3>1, <3>2, <3>3 DEF CorrectorState
    <3> QED BY <3>2, <3>4
  <2>4. AdjustTypeOK'
    BY <1>1, <1>14, <2>1, <2>2, <2>3 DEF AdjustTypeOK, ReceiptWrite
  <2> QED BY <1>2, <1>14, <2>2, <2>3, <2>4, <2>6 DEF Writes, ReceiptWrite
<1>15. ASSUME NEW h \in Receipts, UNCHANGED faults, ReceiptRecord(h) PROVE AdjustTypeOK' /\ Alters(h) /\ Records(h)
  BY <1>2, <1>10, <1>15 DEF ReceiptRecord, Records
<1>16. ASSUME NEW h \in Handlers, faults' = faults + 1, HandlerFails(h) PROVE AdjustTypeOK' /\ Alters(h) /\ Quits(h)
  BY <1>6, <1>16 DEF HandlerFails, Quits
<1>17. ASSUME NEW h \in Items, ItemStep(h), UNCHANGED faults
       PROVE  AdjustTypeOK' /\ \E g \in Handlers : Alters(g) /\ Acts(g)
  BY <1>2, <1>4, <1>5, <1>7, <1>8, <1>9, <1>11, <1>12, <1>17 DEF ItemStep, Acts
<1>18. ASSUME NEW h \in Receipts, ReceiptStep(h), UNCHANGED faults
       PROVE  AdjustTypeOK' /\ \E g \in Handlers : Alters(g) /\ Acts(g)
  BY <1>2, <1>13, <1>14, <1>15, <1>18 DEF ReceiptStep, Acts
<1>19. AdjustTypeOK' /\ \E h \in Handlers : Alters(h) /\ Acts(h)
  BY <1>16, <1>17, <1>18 DEF AdjustNext, Acts
<1> QED BY <1>1, <1>19

-----------------------------------------------------------------------------
(* Each part of the invariant is kept                                         *)

LEMMA OthersStay ==
  ASSUME AdjustTypeOK, NEW h \in Handlers, Alters(h)
  PROVE  \A g \in Handlers : g # h => corrector'[g] = corrector[g]
BY DEF AdjustTypeOK, Alters

LEMMA PhaseStep ==
  ASSUME AdjustInv, AdjustTypeOK', NEW h \in Handlers, Alters(h), Acts(h), NEW g \in Handlers
  PROVE  HandlerPhase(g)'
<1>1. AdjustTypeOK /\ HandlerPhase(g)
  BY DEF AdjustInv
<1>2. /\ Handlers = Items \union Receipts /\ Items \intersect Receipts = {} /\ Restores \subseteq Items
      /\ corrector[g] \in CorrectorState /\ corrector'[g] \in CorrectorState
  BY AdjustAssumption, <1>1 DEF Handlers, AdjustAssumption, AdjustTypeOK
<1>3. CASE g # h
  <2>1. corrector'[g] = corrector[g]
    BY <1>1, <1>3, OthersStay
  <2>2. booked'[g] = booked[g]
    BY <1>1, <1>3 DEF Acts, Starts, Proceeds, Writes, Quits, Records, AdjustTypeOK
  <2> QED BY <1>1, <2>1, <2>2 DEF HandlerPhase
<1>4. CASE g = h
  <2>1. CASE Starts(h)
    BY <1>1, <1>2, <1>4, <2>1 DEF HandlerPhase, Starts, Finished
  <2>2. CASE Proceeds(h)
    BY <1>1, <1>2, <1>4, <2>2 DEF HandlerPhase, Proceeds, Finished
  <2>3. CASE \E i \in Ingredients : Writes(h, i)
    <3>1. PICK i \in Ingredients : Writes(h, i)
      BY <2>3
    <3>2. PICK t, w, t1, w1 : /\ t = corrector[h].todo /\ w = corrector[h].wrote
                              /\ t1 = corrector'[h].todo /\ w1 = corrector'[h].wrote
      OBVIOUS
    <3>3. t1 = t \ {i} /\ w1 = w \union {i} /\ t \intersect w = {} /\ i \in t
      BY <1>1, <1>4, <3>1, <3>2 DEF Writes, HandlerPhase
    <3>4. t1 \intersect w1 = {}
      BY <3>3
    <3>5. h \in Items => t1 = Ingredients \ w1
      BY <1>1, <1>4, <3>1, <3>2, <3>3 DEF Writes, HandlerPhase
    <3>6. corrector'[h].pc \in {"write", "record"} /\ (corrector'[h].pc = "record" => t1 = {})
          /\ (h \in Receipts => corrector'[h].pc = "record") /\ booked'[h] = {}
      BY <1>1, <1>4, <3>1, <3>2 DEF Writes, HandlerPhase
    <3>7. w1 \in SUBSET Ingredients
      BY <1>2, <1>4, <3>2 DEF CorrectorState
    <3>8. corrector'[h].pc = "record" /\ h \in Items => w1 = Ingredients
      BY <3>5, <3>6, <3>7
    <3> QED BY <1>2, <1>4, <3>2, <3>4, <3>5, <3>6, <3>8 DEF HandlerPhase, Finished
  <2>4. CASE Quits(h)
    BY <1>1, <1>2, <1>4, <2>4 DEF HandlerPhase, Quits, Closes, Finished
  <2>5. CASE Records(h)
    BY <1>1, <1>2, <1>4, <2>5 DEF HandlerPhase, Records, Closes, Finished
  <2> QED BY <2>1, <2>2, <2>3, <2>4, <2>5 DEF Acts
<1> QED BY <1>3, <1>4

LEMMA BegunStep ==
  ASSUME AdjustInv, NEW h \in Handlers, Alters(h)
  PROVE  IsFiniteSet(Begun')
<1>1. AdjustTypeOK /\ IsFiniteSet(Begun)
  BY DEF AdjustInv
<1>2. Begun' \subseteq Begun \union {h}
  BY <1>1, OthersStay DEF Begun
<1>3. IsFiniteSet(Begun \union {h})
  BY <1>1, FS_AddElement
<1> QED BY <1>2, <1>3, FS_Subset

LEMMA OncePerKeyStep ==
  ASSUME AdjustInv, NEW h \in Handlers, Acts(h)
  PROVE  BookedOncePerKey'
<1>1. AdjustTypeOK /\ BookedOncePerKey
  BY DEF AdjustInv
<1>2. CASE Records(h)
  BY <1>1, <1>2 DEF Records, BookedOncePerKey, KeyUsed, AdjustTypeOK
<1>3. CASE booked' = booked
  BY <1>1, <1>3 DEF BookedOncePerKey
<1> QED BY <1>2, <1>3 DEF Acts, Starts, Proceeds, Writes, Quits

Writers(i, D) == {g \in Handlers : i \in corrector[g].wrote /\ Delta(g, i) \in D}

LEMMA SumOfWritesIsSum ==
  ASSUME AdjustInv, NEW i \in Ingredients, NEW D
  PROVE  /\ SumOfWrites(i, D) = Sum(i, Writers(i, D)) /\ SumOfWrites(i, D) \in Int
         /\ IsFiniteSet(Writers(i, D)) /\ \A g \in Writers(i, D) : Delta(g, i) \in Int
<1>1. SumOfWrites(i, D) = Sum(i, Writers(i, D))
  BY FoldIsSum DEF SumOfWrites, Writers
<1>2. Writers(i, D) \subseteq Begun /\ IsFiniteSet(Begun)
  BY DEF AdjustInv, HandlerPhase, Writers, Begun
<1>3. IsFiniteSet(Writers(i, D)) /\ \A g \in Writers(i, D) : Delta(g, i) \in Int
  BY <1>2, FS_Subset, DeltaNat
<1> QED BY <1>1, <1>3, SumInt

LEMMA SumOfWritesStep ==
  ASSUME AdjustInv, NEW h \in Handlers, Alters(h), Acts(h), NEW i \in Ingredients, NEW D
  PROVE  SumOfWrites(i, D)' = SumOfWrites(i, D)
                               + (IF Writes(h, i) /\ Delta(h, i) \in D THEN Delta(h, i) ELSE 0)
<1>1. AdjustTypeOK /\ HandlerPhase(h)
  BY DEF AdjustInv
<1>2. SumOfWrites(i, D)' = Sum(i, Writers(i, D)')
  BY DEF SumOfWrites, Writers, FoldSet, MapThenFoldSet, Sum, IsSum
<1>3. Delta(h, i) \in Int
  BY DeltaNat
<1>4. \A g \in Handlers : g # h => corrector'[g].wrote = corrector[g].wrote
  BY <1>1, OthersStay
<1>5. CASE Writes(h, i) /\ Delta(h, i) \in D
  <2>1. h \notin Writers(i, D)
    BY <1>1, <1>5 DEF Writers, HandlerPhase, Writes
  <2>2. Writers(i, D)' = Writers(i, D) \union {h}
    BY <1>4, <1>5 DEF Writers, Writes
  <2> QED BY <1>2, <1>3, <1>5, <2>1, <2>2, SumOfWritesIsSum, SumAdd
<1>6. CASE ~(Writes(h, i) /\ Delta(h, i) \in D)
  <2>1. i \in corrector'[h].wrote /\ Delta(h, i) \in D => i \in corrector[h].wrote
    BY <1>6 DEF Acts, Starts, Proceeds, Writes, Quits, Records, Closes
  <2>2. corrector[h].wrote \subseteq corrector'[h].wrote
    BY DEF Acts, Starts, Proceeds, Writes, Quits, Records, Closes
  <2>3. Writers(i, D)' = Writers(i, D)
    BY <1>4, <2>1, <2>2 DEF Writers
  <2> QED BY <1>2, <1>6, <2>3, SumOfWritesIsSum
<1> QED BY <1>5, <1>6

\* A quantity that is explained stays so, and so is what is written on top of it.
LEMMA ExplainedStep ==
  ASSUME AdjustInv, NEW h \in Handlers, Alters(h), Acts(h), NEW i \in Ingredients,
         NEW q \in Nat, Explained(i, q)
  PROVE  /\ Explained(i, q)'
         /\ Writes(h, i) /\ q + Delta(h, i) \in Nat =>
              q + Delta(h, i) \in (Opening[i] + Removed(i)')..(Opening[i] + Added(i)')
<1>1. /\ Delta(h, i) \in Int /\ Opening[i] \in Nat
      /\ Added(i) \in Int /\ Removed(i) \in Int
  BY DeltaNat, SumOfWritesIsSum DEF Added, Removed
<1>2. Added(i)' = Added(i) + (IF Writes(h, i) /\ Delta(h, i) > 0 THEN Delta(h, i) ELSE 0)
  BY <1>1, SumOfWritesStep DEF Added
<1>3. Removed(i)' = Removed(i) + (IF Writes(h, i) /\ Delta(h, i) < 0 THEN Delta(h, i) ELSE 0)
  BY <1>1, SumOfWritesStep DEF Removed
<1>4. Opening[i] + Removed(i) <= q /\ q <= Opening[i] + Added(i)
  BY <1>1 DEF Explained
<1>5. /\ Added(i)' \in Int /\ Removed(i)' \in Int
      /\ Removed(i)' <= Removed(i) /\ Added(i)' >= Added(i)
      /\ Writes(h, i) => Removed(i)' <= Removed(i) + Delta(h, i) /\ Added(i)' >= Added(i) + Delta(h, i)
  BY <1>1, <1>2, <1>3
<1>6. Opening[i] + Removed(i)' <= q /\ q <= Opening[i] + Added(i)'
  BY <1>1, <1>4, <1>5
<1>7. Writes(h, i) => /\ Opening[i] + Removed(i)' <= q + Delta(h, i)
                      /\ q + Delta(h, i) <= Opening[i] + Added(i)'
  BY <1>1, <1>4, <1>5
<1> QED BY <1>1, <1>5, <1>6, <1>7 DEF Explained

LEMMA StockIsExplainedStep ==
  ASSUME AdjustInv, AdjustTypeOK', NEW h \in Handlers, Alters(h), Acts(h), NEW i \in Ingredients
  PROVE  Explained(i, stock[i])'
<1>1. /\ AdjustTypeOK /\ stock[i] \in Nat /\ stock'[i] \in Nat
      /\ Explained(i, stock[i])
      /\ \A j \in corrector[h].todo : Explained(j, corrector[h].seen[j])
  BY DEF AdjustInv, StockIsExplained, Sober, AdjustTypeOK
<1>2. CASE stock'[i] = stock[i]
  BY <1>1, <1>2, ExplainedStep DEF Explained
<1>3. CASE Writes(h, i) /\ stock' = [stock EXCEPT ![i] = Written(h, i)]
  <2>1. /\ i \in corrector[h].todo /\ stock'[i] = corrector[h].seen[i] + Delta(h, i)
        /\ corrector[h].seen[i] \in Nat
    BY <1>1, <1>3 DEF Writes, Written, AdjustTypeOK, CorrectorState
  <2> QED BY <1>1, <1>3, <2>1, ExplainedStep DEF Explained
<1> QED BY <1>1, <1>2, <1>3 DEF Acts, Starts, Proceeds, Writes, Quits, Records, Closes, AdjustTypeOK

LEMMA SoberStep ==
  ASSUME AdjustInv, AdjustTypeOK', NEW h \in Handlers, Alters(h), Acts(h),
         NEW g \in Handlers, NEW i \in corrector'[g].todo
  PROVE  Explained(i, corrector[g].seen[i])'
<1>1. /\ AdjustTypeOK /\ i \in Ingredients
      /\ stock[i] \in Nat /\ corrector'[g].seen[i] \in Nat
      /\ Explained(i, stock[i])
      /\ i \in corrector[g].todo => Explained(i, corrector[g].seen[i])
  BY DEF AdjustInv, StockIsExplained, Sober, AdjustTypeOK, CorrectorState
<1>2. corrector'[g].seen[i] = stock[i] \/ (corrector'[g].seen = corrector[g].seen /\ i \in corrector[g].todo)
  <2>1. CASE g # h
    BY <1>1, <2>1, OthersStay
  <2>2. CASE g = h
    BY <2>2 DEF Acts, Starts, Proceeds, Writes, Quits, Records, Closes
  <2> QED BY <2>1, <2>2
<1>3. PICK q \in Nat : q = corrector'[g].seen[i] /\ Explained(i, q)
  BY <1>1, <1>2
<1>4. Explained(i, q)'
  BY <1>1, <1>3, ExplainedStep
<1> QED BY <1>3, <1>4 DEF Explained

LEMMA AloneStep ==
  ASSUME AdjustInv, AdjustTypeOK', NEW h \in Handlers, Alters(h), overlap' = (overlap \/ Overlapping')
  PROVE  Alone'
<1> SUFFICES ASSUME ~overlap'
             PROVE  /\ \A g, k \in Active' : g = k
                    /\ \A g, k \in Begun' \intersect Items : KeyOf[g] = KeyOf[k] => g = k
  BY DEF Alone
<1>1. ~(Cardinality(Active') > 1)
      /\ \A g, k \in Items : ~(g # k /\ KeyOf[g] = KeyOf[k] /\ corrector'[g].pc # "idle" /\ corrector'[k].pc # "idle")
  BY DEF Overlapping
<1>2. Active' \subseteq Begun' /\ IsFiniteSet(Begun')
  BY BegunStep DEF Active, Begun, Finished
<1>3. \A g, k \in Active' : g = k
  BY <1>1, <1>2, FS_Subset, OneOrNone
<1> QED BY <1>1, <1>3 DEF Begun

Bookers(i) == {g \in Handlers : i \in booked[g]}

LEMMA BookedIsSum ==
  ASSUME AdjustInv, NEW i \in Ingredients
  PROVE  /\ Booked(i) = Sum(i, Bookers(i)) /\ Booked(i) \in Int
         /\ IsFiniteSet(Bookers(i)) /\ \A g \in Bookers(i) : Delta(g, i) \in Int
<1>1. Booked(i) = Sum(i, Bookers(i))
  BY FoldIsSum DEF Booked, Bookers
<1>2. Bookers(i) \subseteq Begun /\ IsFiniteSet(Begun)
  BY DEF AdjustInv, HandlerPhase, Bookers, Begun
<1>3. IsFiniteSet(Bookers(i)) /\ \A g \in Bookers(i) : Delta(g, i) \in Int
  BY <1>2, FS_Subset, DeltaNat
<1> QED BY <1>1, <1>3, SumInt

LEMMA BookedStep ==
  ASSUME AdjustInv, NEW h \in Handlers, Acts(h), NEW i \in Ingredients
  PROVE  Booked(i)' = Booked(i) + (IF Records(h) /\ i \in corrector[h].wrote THEN Delta(h, i) ELSE 0)
<1>1. AdjustTypeOK /\ HandlerPhase(h)
  BY DEF AdjustInv
<1>2. Booked(i)' = Sum(i, Bookers(i)')
  BY DEF Booked, Bookers, FoldSet, MapThenFoldSet, Sum, IsSum
<1>3. Delta(h, i) \in Int
  BY <1>1, DeltaNat
<1>4. CASE Records(h)
  <2>1. booked' = [booked EXCEPT ![h] = corrector[h].wrote] /\ booked[h] = {}
    BY <1>1, <1>4 DEF Records, HandlerPhase
  <2>2. h \notin Bookers(i)
    BY <2>1 DEF Bookers
  <2>3. Bookers(i)' = IF i \in corrector[h].wrote THEN Bookers(i) \union {h} ELSE Bookers(i)
    BY <1>1, <2>1, <2>2 DEF Bookers, AdjustTypeOK
  <2>4. CASE i \in corrector[h].wrote
    BY <1>2, <1>3, <1>4, <2>2, <2>3, <2>4, BookedIsSum, SumAdd
  <2>5. CASE i \notin corrector[h].wrote
    BY <1>2, <2>3, <2>5, BookedIsSum
  <2> QED BY <2>4, <2>5
<1>5. CASE ~Records(h)
  <2>1. booked' = booked
    BY <1>5 DEF Acts, Starts, Proceeds, Writes, Quits
  <2>2. Bookers(i)' = Bookers(i)
    BY <2>1 DEF Bookers
  <2> QED BY <1>2, <1>5, <2>2, BookedIsSum
<1> QED BY <1>4, <1>5

LEMMA BalancedStep ==
  ASSUME AdjustInv, AdjustTypeOK', NEW h \in Handlers, Alters(h), Acts(h),
         overlap' = (overlap \/ Overlapping'), negative' = negative
  PROVE  Balanced'
<1> SUFFICES ASSUME Orderly', ~negative'
    PROVE  /\ Active' = {} => \A i \in Ingredients : stock'[i] = Opening[i] + Booked(i)'
           /\ \A g \in Active', i \in Ingredients :
                /\ i \in corrector'[g].wrote => stock'[i] = Opening[i] + Booked(i)' + Delta(g, i)
                /\ i \notin corrector'[g].wrote => stock'[i] = Opening[i] + Booked(i)'
                /\ i \in corrector'[g].todo =>
                     /\ corrector'[g].seen[i] = Opening[i] + Booked(i)'
                     /\ Delta(g, i) < 0 => corrector'[g].seen[i] + Delta(g, i) >= 0
  BY DEF Balanced
<1>1. /\ AdjustTypeOK /\ HandlerPhase(h) /\ faults \in Nat /\ Alone /\ Balanced
      /\ Items \intersect Receipts = {} /\ Restores \subseteq Items /\ Handlers = Items \union Receipts
  BY AdjustAssumption DEF AdjustInv, AdjustAssumption, Handlers
<1>2. faults' = faults /\ faults = 0 /\ ~overlap /\ ~overlap' /\ ~negative
  <2>1. faults' = 0 /\ ~overlap /\ ~overlap' /\ ~negative
    BY DEF Orderly
  <2>2. faults' = faults \/ faults' = faults + 1
    BY DEF Acts, Starts, Proceeds, Writes, Quits, Records
  <2> QED BY <1>1, <2>1, <2>2
<1>3. /\ \A g, k \in Active : g = k
      /\ \A g, k \in Active' : g = k
      /\ \A g, k \in Begun \intersect Items : KeyOf[g] = KeyOf[k] => g = k
  BY <1>1, <1>2, AloneStep DEF Alone
<1>4. /\ Active = {} => \A i \in Ingredients : stock[i] = Opening[i] + Booked(i)
      /\ \A i \in Ingredients : h \in Active =>
           /\ i \in corrector[h].wrote => stock[i] = Opening[i] + Booked(i) + Delta(h, i)
           /\ i \notin corrector[h].wrote => stock[i] = Opening[i] + Booked(i)
           /\ i \in corrector[h].todo =>
                /\ corrector[h].seen[i] = Opening[i] + Booked(i)
                /\ Delta(h, i) < 0 => corrector[h].seen[i] + Delta(h, i) >= 0
  BY <1>1, <1>2 DEF Balanced, Orderly
<1>5. \A i \in Ingredients : /\ Booked(i) \in Int /\ Delta(h, i) \in Int /\ Opening[i] \in Nat
                             /\ stock[i] \in Nat
                             /\ Delta(h, i) < 0 => h \in Items /\ h \notin Restores
                             /\ Delta(h, i) < 0 => Delta(h, i) = -Need[i] /\ Need[i] \in Nat
                             /\ h \in Items /\ h \notin Restores => Delta(h, i) < 0
  BY <1>1, BookedIsSum, DeltaNat DEF AdjustTypeOK
<1>6. \A g \in Handlers : g # h => corrector'[g] = corrector[g]
  BY <1>1, OthersStay
<1>7. \A i \in Ingredients : ~Records(h) => Booked(i)' = Booked(i)
  BY <1>5, BookedStep
<1>8. ASSUME Starts(h) PROVE Active = {} /\ Active' = {h} /\ corrector[h].wrote = {}
  <2>1. h \in Active' /\ h \notin Active /\ corrector[h].wrote = {}
    BY <1>1, <1>8 DEF Starts, Active, Finished, HandlerPhase
  <2>2. \A g \in Active : g \in Active' /\ g # h
    BY <1>6, <2>1 DEF Active
  <2> QED BY <1>3, <2>1, <2>2
<1>9. ASSUME ~Starts(h) PROVE h \in Active /\ Active' \subseteq {h}
  <2>1. h \in Active
    BY <1>9 DEF Acts, Proceeds, Writes, Quits, Records, Closes, Active, Finished
  <2>2. \A g \in Active' : g # h => g \in Active
    BY <1>6 DEF Active
  <2> QED BY <1>3, <2>1, <2>2
<1>10. CASE Starts(h)
  <2>1. stock' = stock /\ ~Records(h)
    BY <1>10 DEF Starts, Records, Closes, Finished
  <2>2. ASSUME NEW i \in Ingredients
        PROVE  /\ stock'[i] = Opening[i] + Booked(i)'
               /\ corrector'[h].seen[i] = stock[i] /\ i \notin corrector'[h].wrote
    BY <1>4, <1>7, <1>8, <1>10, <2>1 DEF Starts
  <2>3. ASSUME NEW i \in Ingredients, Delta(h, i) < 0 PROVE stock[i] + Delta(h, i) >= 0
    <3>1. stock[i] >= Need[i]
      BY <1>2, <1>5, <1>10, <2>3 DEF Starts
    <3> QED BY <1>5, <2>3, <3>1
  <2>4. \A g \in Active' : g = h
    BY <1>8, <1>10
  <2>5. Active' # {}
    BY <1>8, <1>10
  <2> QED BY <2>1, <2>2, <2>3, <2>4, <2>5
<1>11. CASE Proceeds(h)
  <2>1. stock' = stock /\ ~Records(h) /\ ~Starts(h) /\ h \in Active'
    BY <1>11 DEF Proceeds, Records, Starts, Active, Finished
  <2>2. \A i \in Ingredients : Booked(i)' = Booked(i)
    BY <1>7, <2>1
  <2> QED BY <1>4, <1>9, <1>11, <2>1, <2>2 DEF Proceeds
<1>12. CASE \E j \in Ingredients : Writes(h, j)
  <2>1. PICK j \in Ingredients : Writes(h, j)
    BY <1>12
  <2>2. ~Records(h) /\ ~Starts(h) /\ h \in Active'
    BY <2>1 DEF Writes, Records, Starts, Active, Finished
  <2>3. /\ j \in corrector[h].todo /\ j \notin corrector[h].wrote
        /\ corrector[h].seen[j] = Opening[j] + Booked(j) /\ stock[j] = Opening[j] + Booked(j)
        /\ Delta(h, j) < 0 => corrector[h].seen[j] + Delta(h, j) >= 0
    BY <1>1, <1>4, <1>9, <2>1, <2>2 DEF Writes, HandlerPhase
  <2>4. UpdateMatches(h, j) \/ h \in Receipts
    <3>1. CASE Delta(h, j) < 0
      <4>1. stock[j] >= Need[j]
        BY <1>5, <2>3, <3>1
      <4> QED BY <4>1 DEF UpdateMatches
    <3>2. CASE ~(Delta(h, j) < 0)
      BY <1>1, <1>5, <3>2 DEF UpdateMatches
    <3> QED BY <3>1, <3>2
  <2>5. stock' = [stock EXCEPT ![j] = corrector[h].seen[j] + Delta(h, j)]
    BY <1>1, <2>1, <2>4 DEF Writes, Written
  <2>6. ASSUME NEW i \in Ingredients, i # j PROVE stock'[i] = stock[i]
    BY <1>1, <2>5, <2>6 DEF AdjustTypeOK
  <2>7. stock'[j] = Opening[j] + Booked(j) + Delta(h, j)
    BY <1>1, <2>3, <2>5 DEF AdjustTypeOK
  <2>8. \A i \in Ingredients : Booked(i)' = Booked(i)
    BY <1>7, <2>2
  <2>9. /\ corrector'[h].wrote = corrector[h].wrote \union {j}
        /\ corrector'[h].todo = corrector[h].todo \ {j}
        /\ corrector'[h].seen = corrector[h].seen
    BY <2>1 DEF Writes
  <2>10. ASSUME NEW i \in Ingredients
         PROVE  /\ i \in corrector'[h].wrote => stock'[i] = Opening[i] + Booked(i)' + Delta(h, i)
                /\ i \notin corrector'[h].wrote => stock'[i] = Opening[i] + Booked(i)'
                /\ i \in corrector'[h].todo =>
                     /\ corrector'[h].seen[i] = Opening[i] + Booked(i)'
                     /\ Delta(h, i) < 0 => corrector'[h].seen[i] + Delta(h, i) >= 0
    BY <1>4, <1>9, <2>2, <2>6, <2>7, <2>8, <2>9
  <2> QED BY <1>9, <2>2, <2>10
<1>13. CASE Quits(h)
  <2>1. ~Starts(h) /\ stock' = stock /\ Active' = {} /\ h \in Active
    <3>1. ~Starts(h) /\ stock' = stock /\ h \notin Active'
      BY <1>13 DEF Quits, Closes, Starts, Active, Finished
    <3> QED BY <1>9, <3>1
  <2>2. corrector[h].pc = "restorable"
    <3>1. CASE corrector[h].pc = "record" /\ h \in Items /\ KeyUsed(KeyOf[h])
      <4>1. PICK g \in Items : KeyOf[g] = KeyOf[h] /\ booked[g] # {}
        BY <3>1 DEF KeyUsed
      <4>2. HandlerPhase(g) /\ g \in Handlers
        BY <1>1 DEF AdjustInv
      <4>3. g # h /\ g \in Begun /\ h \in Begun
        BY <1>1, <3>1, <4>1, <4>2 DEF HandlerPhase, Begun
      <4> QED BY <1>3, <3>1, <4>1, <4>3
    <3>2. CASE /\ corrector[h].pc = "write" /\ h \in Items
               /\ \E i \in corrector[h].todo : UpdateMatches(h, i) /\ Written(h, i) < 0
      <4>1. PICK i \in corrector[h].todo : Written(h, i) < 0
        BY <3>2
      <4>2. i \in Ingredients /\ corrector[h].seen[i] \in Nat
        BY <1>1, <4>1 DEF AdjustTypeOK, CorrectorState
      <4>3. Delta(h, i) < 0 => corrector[h].seen[i] + Delta(h, i) >= 0
        BY <1>4, <2>1, <4>1, <4>2
      <4> QED BY <1>5, <4>1, <4>2, <4>3 DEF Written
    <3> QED BY <1>2, <1>13, <3>1, <3>2 DEF Quits
  <2>3. \A i \in Ingredients : stock[i] = Opening[i] + Booked(i)
    BY <1>1, <1>4, <2>1, <2>2 DEF HandlerPhase
  <2>4. \A i \in Ingredients : Booked(i)' = Booked(i)
    BY <1>7, <2>2 DEF Records
  <2> QED BY <2>1, <2>3, <2>4
<1>14. CASE Records(h)
  <2>1. ~Starts(h) /\ stock' = stock /\ h \notin Active'
    BY <1>14 DEF Records, Closes, Starts, Active, Finished
  <2>2. Active' = {} /\ h \in Active
    BY <1>9, <2>1
  <2>3. ASSUME NEW i \in Ingredients PROVE stock'[i] = Opening[i] + Booked(i)'
    <3>1. Booked(i)' = Booked(i) + (IF i \in corrector[h].wrote THEN Delta(h, i) ELSE 0)
      BY <1>14, BookedStep
    <3> QED BY <1>4, <1>5, <2>1, <2>2, <3>1
  <2> QED BY <2>2, <2>3
<1> QED BY <1>10, <1>11, <1>12, <1>13, <1>14 DEF Acts

-----------------------------------------------------------------------------
(* The invariant and what follows from it                                     *)

\* The invariant holds at the start: nobody is at work and no sum has a term.
LEMMA InitAdjustInv ==
  ASSUME AdjustInit
  PROVE  AdjustInv
<1> USE DEF AdjustInit, Finished
<1>1. /\ \A h \in Handlers : /\ corrector[h] = [pc |-> "idle", seen |-> Opening, todo |-> {}, wrote |-> {}]
                             /\ booked[h] = {}
      /\ stock = Opening /\ faults = 0 /\ overlap = FALSE
      /\ Opening \in [Ingredients -> Nat]
  BY AdjustAssumption DEF AdjustAssumption
<1>2. AdjustTypeOK
  BY <1>1 DEF AdjustTypeOK, CorrectorState
<1>3. Begun = {} /\ Active = {}
  BY <1>1 DEF Begun, Active
<1>4. IsFiniteSet({}) /\ IsFiniteSet(Begun)
  BY <1>3, FS_EmptySet
<1>5. ASSUME NEW i \in Ingredients PROVE Added(i) = 0 /\ Removed(i) = 0 /\ Booked(i) = 0
  <2>1. (\A D : Writers(i, D) = {}) /\ Bookers(i) = {}
    BY <1>1 DEF Writers, Bookers
  <2>2. \A D : SumOfWrites(i, D) = Sum(i, {})
    BY <2>1, FoldIsSum DEF SumOfWrites, Writers
  <2>3. Booked(i) = Sum(i, {})
    BY <2>1 DEF Booked, Bookers, FoldSet, MapThenFoldSet, Sum, IsSum
  <2> QED BY <1>4, <2>2, <2>3, SumStep DEF Added, Removed
<1>6. \A h \in Handlers : HandlerPhase(h)
  BY <1>1 DEF HandlerPhase
<1>7. BookedOncePerKey
  BY <1>1 DEF BookedOncePerKey, Handlers
<1>8. StockIsExplained /\ Sober /\ Balanced
  BY <1>1, <1>3, <1>5 DEF StockIsExplained, Explained, Sober, Balanced
<1>9. Alone
  BY <1>3 DEF Alone
<1> QED BY <1>1, <1>2, <1>4, <1>6, <1>7, <1>8, <1>9 DEF AdjustInv

LEMMA NextAdjustInv ==
  ASSUME AdjustInv, [AdjustNext]_adjustVars
  PROVE  AdjustInv'
<1>1. CASE UNCHANGED adjustVars
  <2>1. UNCHANGED <<stock, booked, corrector, negative, faults, overlap>>
    BY <1>1 DEF adjustVars
  <2>2. AdjustTypeOK' /\ faults' \in Nat /\ Begun' = Begun /\ Active' = Active
    BY <2>1 DEF AdjustInv, AdjustTypeOK, Begun, Active
  <2>3. (\A h \in Handlers : HandlerPhase(h)') /\ BookedOncePerKey'
    BY <2>1 DEF AdjustInv, HandlerPhase, BookedOncePerKey
  <2>4. \A i \in Ingredients : Added(i)' = Added(i) /\ Removed(i)' = Removed(i) /\ Booked(i)' = Booked(i)
    BY <2>1 DEF Added, Removed, SumOfWrites, Booked, FoldSet, MapThenFoldSet
  <2>5. StockIsExplained' /\ Sober'
    BY <2>1, <2>2, <2>4 DEF AdjustInv, StockIsExplained, Explained, Sober, AdjustTypeOK, CorrectorState
  <2>6. Alone' /\ Balanced'
    BY <2>1, <2>2, <2>4 DEF AdjustInv, Alone, Balanced, Orderly
  <2> QED BY <2>2, <2>3, <2>5, <2>6 DEF AdjustInv
<1>2. CASE AdjustNext
  <2>1. PICK h \in Handlers : Alters(h) /\ Acts(h)
    BY <1>2, WhatActs
  <2>2. AdjustTypeOK' /\ overlap' = (overlap \/ Overlapping') /\ negative' = negative
    BY <1>2, WhatActs
  <2>3. faults \in Nat
    BY DEF AdjustInv
  <2>4. faults' \in Nat
    BY <2>1, <2>3 DEF Acts, Starts, Proceeds, Writes, Quits, Records
  <2>6. IsFiniteSet(Begun)'
    BY <2>1, BegunStep
  <2>7. \A g \in Handlers : HandlerPhase(g)'
    BY <2>1, <2>2, PhaseStep
  <2>8. BookedOncePerKey'
    BY <2>1, OncePerKeyStep
  <2>9. StockIsExplained'
    BY <2>1, <2>2, StockIsExplainedStep DEF StockIsExplained
  <2>10. Sober'
    BY <2>1, <2>2, SoberStep DEF Sober
  <2>11. Alone' /\ Balanced'
    BY <2>1, <2>2, AloneStep, BalancedStep
  <2> QED BY <2>2, <2>4, <2>6, <2>7, <2>8, <2>9, <2>10, <2>11 DEF AdjustInv
<1> QED BY <1>1, <1>2

\* The invariant of corrections and receipts, for any number of handlers, keys and ingredients
\* (item-ingredient-deduct, add_ingredient_stock).
THEOREM AdjustInvariance == AdjustSpec => []AdjustInv
BY InitAdjustInv, NextAdjustInv, PTL DEF AdjustSpec

\* Stock stays a natural number, although every handler writes back what it has read: a
\* correction that would leave less than nothing is refused by the check constraint.
THEOREM AdjustTypes == AdjustSpec => []AdjustTypeOK
<1>1. AdjustInv => AdjustTypeOK
  BY DEF AdjustInv
<1> QED BY <1>1, AdjustInvariance, PTL

\* However often a correction is repeated under its key, and whichever attempts overlap or fail,
\* one of them at most inserts the movements (the unique index on request_id).
THEOREM RepeatedCorrectionsBookOnce == AdjustSpec => []BookedOncePerKey
<1>1. AdjustInv => BookedOncePerKey
  BY DEF AdjustInv
<1> QED BY <1>1, AdjustInvariance, PTL

\* Whatever handlers overwrite of each other, and wherever they die, stock is between what was there
\* without all that was deducted and what was there with all that was restored or received.
THEOREM StockIsAlwaysExplained == AdjustSpec => []StockIsExplained
<1>1. AdjustInv => StockIsExplained
  BY DEF AdjustInv
<1> QED BY <1>1, AdjustInvariance, PTL

\* Corrections and receipts that never overlapped, none of them repeated or failed, leave stock
\* what the movements say, where the setting forbids negative stock.
THEOREM CorrectionsMatchMovements == AdjustSpec => []StockMatchesMovements
<1>1. AdjustInv => StockMatchesMovements
  BY DEF AdjustInv, Balanced, StockMatchesMovements
<1> QED BY <1>1, AdjustInvariance, PTL
=============================================================================
