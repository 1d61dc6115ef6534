---------------------------- MODULE StockAdjust ----------------------------
(***************************************************************************)
(* Stock corrections outside of a sale: POST                               *)
(* /api/pos/orders/[orderId]/item-ingredient-deduct takes the recipe of a  *)
(* bill's item once more ("deduct") or gives it back ("restore"), and      *)
(* add_ingredient_stock of POST /api/backoffice/catalog books a purchase.  *)
(* Each reads quantities, writes them back changed and records movements   *)
(* in separate database calls.  The client repeats an item correction once *)
(* when it gets no answer, with the same x-idempotency-key; handlers with  *)
(* one key serve one correction.                                           *)
(***************************************************************************)
EXTENDS Stock, FiniteSetsExt

CONSTANTS Items,          \* handlers of item-ingredient-deduct, all for one item of one bill
          Restores,       \* those with mode "restore"
          Receipts,       \* handlers of add_ingredient_stock
          KeyOf,          \* x-idempotency-key of each item handler
          Received,       \* what a receipt adds
          MaxActive,      \* bound: handlers at work at the same time
          MaxFaults       \* bound: handlers that die or meet an error

Handlers == Items \union Receipts

ASSUME AdjustAssumption ==
  /\ Items \intersect Receipts = {}
  /\ Restores \subseteq Items
  /\ KeyOf \in [Items -> Keys]
  /\ Need \in [Ingredients -> Nat \ {0}]
  /\ Opening \in [Ingredients -> Nat]
  /\ Received \in Nat \ {0}
  /\ MaxActive \in Nat /\ MaxFaults \in Nat

VARIABLES
  booked,    \* booked[h]: the ingredients for which h inserted its stock_movements row
  corrector, \* corrector[h]: the state of h
  faults,    \* how many handlers have died or met an error
  overlap    \* whether two handlers have been at work together, or for one key

adjustVars == <<stock, booked, corrector, negative, faults, overlap>>

AdjustInit ==
  /\ stock = Opening
  /\ booked = [h \in Handlers |-> {}]
  /\ corrector = [h \in Handlers |-> [pc |-> "idle", seen |-> Opening, todo |-> {}, wrote |-> {}]]
  /\ negative \in BOOLEAN
  /\ faults = 0
  /\ overlap = FALSE

\* What the movement of h says about i.
Delta(h, i) ==
  IF h \in Receipts THEN Received ELSE IF h \in Restores THEN Need[i] ELSE -Need[i]

Finished == {"idle", "ended"}
Active == {h \in Handlers : corrector[h].pc \notin Finished}
Goes(h, pc) == corrector' = [corrector EXCEPT ![h].pc = pc]
\* The handler answers, or dies, and what it had read is gone.
End(h) == corrector' = [corrector EXCEPT ![h].pc = "ended", ![h].seen = Opening, ![h].todo = {}]

-----------------------------------------------------------------------------
(* item-ingredient-deduct                                                     *)

\* Enough was there when it was read (validateStockBeforeDeduction).
ItemRead(h) ==
  /\ corrector[h].pc = "idle"
  /\ Cardinality(Active) < MaxActive
  /\ h \in Restores \/ negative \/ \A i \in Ingredients : stock[i] >= Need[i]
  /\ corrector' = [corrector EXCEPT ![h].pc = IF h \in Restores THEN "restorable" ELSE "write",
                                    ![h].seen = stock, ![h].todo = Ingredients]
  /\ UNCHANGED <<stock, booked>>

\* loadManualOutstandingByIngredient: the movements of this item, without those of other kinds.
Outstanding(i) ==
  -FoldSet(LAMBDA h, sum : sum + Delta(h, i), 0, {h \in Items : i \in booked[h]})

ItemReadOutstanding(h) ==
  /\ corrector[h].pc = "restorable"
  /\ \A i \in Ingredients : Outstanding(i) >= Need[i]
  /\ Goes(h, "write")
  /\ UNCHANGED <<stock, booked>>

\* RESTORE_EXCEEDS_DEDUCTED
RestoreRefused(h) ==
  /\ corrector[h].pc = "restorable"
  /\ \E i \in Ingredients : Outstanding(i) < Need[i]
  /\ End(h)
  /\ UNCHANGED <<stock, booked>>

\* A deduction is guarded by quantity_on_hand >= required, unless stock may be negative.
UpdateMatches(h, i) == h \in Restores \/ negative \/ stock[i] >= Need[i]

\* Mutant: the quantity is changed twice.
WrittenTwice(h, i) == corrector[h].seen[i] + 2 * Delta(h, i)

Written(h, i) == corrector[h].seen[i] + Delta(h, i)

\* Mutant: the check constraint is dropped.
ItemWriteUnconstrained(h, i) ==
  /\ corrector[h].pc = "write"
  /\ h \in Items
  /\ i \in corrector[h].todo
  /\ stock' = [stock EXCEPT ![i] = IF UpdateMatches(h, i) THEN Written(h, i) ELSE @]
  /\ corrector' = [corrector EXCEPT ![h].todo = @ \ {i}, ![h].wrote = @ \union {i},
                                    ![h].pc = IF corrector[h].todo = {i} THEN "record" ELSE @]
  /\ UNCHANGED booked

\* An update that matches no row is not an error.
ItemWrite(h, i) ==
  /\ corrector[h].pc = "write"
  /\ h \in Items
  /\ i \in corrector[h].todo
  /\ UpdateMatches(h, i) => Written(h, i) >= 0
  /\ stock' = [stock EXCEPT ![i] = IF UpdateMatches(h, i) THEN Written(h, i) ELSE @]
  /\ corrector' = [corrector EXCEPT ![h].todo = @ \ {i}, ![h].wrote = @ \union {i},
                                    ![h].pc = IF corrector[h].todo = {i} THEN "record" ELSE @]
  /\ UNCHANGED booked

\* chk_ingredients_quantity_non_negative refuses the update.
ItemWriteRefused(h, i) ==
  /\ corrector[h].pc = "write"
  /\ h \in Items
  /\ i \in corrector[h].todo
  /\ UpdateMatches(h, i) /\ Written(h, i) < 0
  /\ End(h)
  /\ UNCHANGED <<stock, booked>>

KeyUsed(k) == \E g \in Items : KeyOf[g] = k /\ booked[g] # {}

\* Mutant: the movements carry no request_id.
ItemRecordUnkeyed(h) ==
  /\ corrector[h].pc = "record"
  /\ h \in Items
  /\ booked' = [booked EXCEPT ![h] = Ingredients]
  /\ End(h)
  /\ UNCHANGED stock

\* One insert for all ingredients, each row under the key of the request and the ingredient.
ItemRecord(h) ==
  /\ corrector[h].pc = "record"
  /\ h \in Items
  /\ ~KeyUsed(KeyOf[h])                 \* idx_stock_movements_tenant_branch_request_id
  /\ booked' = [booked EXCEPT ![h] = Ingredients]
  /\ End(h)
  /\ UNCHANGED stock

ItemRecordRefused(h) ==
  /\ corrector[h].pc = "record"
  /\ h \in Items
  /\ KeyUsed(KeyOf[h])
  /\ End(h)
  /\ UNCHANGED <<stock, booked>>

-----------------------------------------------------------------------------
(* add_ingredient_stock                                                         *)

ReceiptRead(h, i) ==
  /\ corrector[h].pc = "idle"
  /\ Cardinality(Active) < MaxActive
  /\ corrector' = [corrector EXCEPT ![h].pc = "write", ![h].seen = stock, ![h].todo = {i}]
  /\ UNCHANGED <<stock, booked>>

ReceiptWrite(h, i) ==
  /\ corrector[h].pc = "write"
  /\ h \in Receipts
  /\ i \in corrector[h].todo
  /\ stock' = [stock EXCEPT ![i] = Written(h, i)]
  /\ corrector' = [corrector EXCEPT ![h].pc = "record", ![h].todo = {}, ![h].wrote = {i}]
  /\ UNCHANGED booked

ReceiptRecord(h) ==
  /\ corrector[h].pc = "record"
  /\ h \in Receipts
  /\ booked' = [booked EXCEPT ![h] = corrector[h].wrote]
  /\ End(h)
  /\ UNCHANGED stock

-----------------------------------------------------------------------------
\* A database call raises and the handler answers an error, or it dies: nothing is undone.
HandlerFails(h) ==
  /\ corrector[h].pc \notin Finished
  /\ End(h)
  /\ UNCHANGED <<stock, booked>>

ItemStep(h) ==
  \/ ItemRead(h) \/ ItemReadOutstanding(h) \/ RestoreRefused(h)
  \/ \E i \in Ingredients : ItemWrite(h, i) \/ ItemWriteRefused(h, i)
  \/ ItemRecord(h) \/ ItemRecordRefused(h)

ReceiptStep(h) ==
  \/ \E i \in Ingredients : ReceiptRead(h, i) \/ ReceiptWrite(h, i)
  \/ ReceiptRecord(h)

\* Two handlers at work, or two that have begun to serve one key.
Overlapping ==
  \/ Cardinality(Active) > 1
  \/ \E g, h \in Items : g # h /\ KeyOf[g] = KeyOf[h]
                          /\ corrector[g].pc # "idle" /\ corrector[h].pc # "idle"

AdjustNext ==
  /\ \/ /\ \/ \E h \in Items : ItemStep(h)
           \/ \E h \in Receipts : ReceiptStep(h)
        /\ UNCHANGED faults
     \/ /\ faults < MaxFaults                          \* bound
        /\ faults' = faults + 1
        /\ \E h \in Handlers : HandlerFails(h)
  /\ overlap' = (overlap \/ Overlapping')
  /\ UNCHANGED negative

AdjustSpec == AdjustInit /\ [][AdjustNext]_adjustVars

-----------------------------------------------------------------------------
CorrectorState == [pc : Finished \union {"restorable", "write", "record"}, seen : [Ingredients -> Nat],
                 todo : SUBSET Ingredients, wrote : SUBSET Ingredients]

\* Stock is a natural number, whatever the handlers that write to it had read.
AdjustTypeOK ==
  /\ stock \in [Ingredients -> Nat]
  /\ booked \in [Handlers -> SUBSET Ingredients]
  /\ corrector \in [Handlers -> CorrectorState]

\* A correction that is repeated, also side by side, is booked by one of its attempts only.
BookedOncePerKey ==
  \A g, h \in Items : KeyOf[g] = KeyOf[h] /\ booked[g] # {} /\ booked[h] # {} => g = h

\* Handlers overwrite each other's updates, die, or write and are then refused the movement.  Still
\* stock is never more than there was plus everything that restores and receipts have written,
\* nor less than there was without everything that deductions have written.
SumOfWrites(i, Changes) == FoldSet(LAMBDA h, sum : sum + Delta(h, i), 0,
                                   {h \in Handlers : i \in corrector[h].wrote /\ Delta(h, i) \in Changes})
Added(i) == SumOfWrites(i, {d \in Int : d > 0})
Removed(i) == SumOfWrites(i, {d \in Int : d < 0})
Explained(i, quantity) == quantity \in (Opening[i] + Removed(i))..(Opening[i] + Added(i))
StockIsExplained == \A i \in Ingredients : Explained(i, stock[i])

Orderly == faults = 0 /\ ~overlap
Booked(i) == FoldSet(LAMBDA h, sum : sum + Delta(h, i), 0, {h \in Handlers : i \in booked[h]})

\* Corrections and receipts made one after the other, each once and without an error,
\* leave stock what the movements say, also when a restore or a shortage is refused
\* (item-ingredient-deduct, add_ingredient_stock).  Where stock may be negative the
\* check constraint refuses an update of a correction half-way, so not there.
StockMatchesMovements ==
  Orderly /\ ~negative /\ Active = {} => \A i \in Ingredients : stock[i] = Opening[i] + Booked(i)

=============================================================================
