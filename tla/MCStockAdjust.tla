--------------------------- MODULE MCStockAdjust ---------------------------
(* Instances of StockAdjust for TLC. *)
EXTENDS StockAdjust, TLC

CONSTANTS d1, d2, r1, r2, p1, k1, k2, k3, k4, flour, egg

\* d1 and d2 deduct under one key; r1 and r2 restore, each with a key of its own.
DeductionRepeatedAndRestored == (d1 :> k1) @@ (d2 :> k1) @@ (r1 :> k3) @@ (r2 :> k4)

ScarceStock == (flour :> 2) @@ (egg :> 2)
TwoIngredientNeed == (flour :> 1) @@ (egg :> 2)
=============================================================================
