---------------------------- MODULE MCStockSale ----------------------------
(* Instances of StockSale for TLC. *)
EXTENDS StockSale, TLC

CONSTANTS s1, s2, s3, s4, k1, k2, flour, egg

\* s1 and s2 serve one request, s3 a delivery with a key and s4 one without.
RetriedRequest == (s1 :> k1) @@ (s2 :> k1) @@ (s3 :> k2) @@ (s4 :> NoKey)
OneDelivery == s3 :> k2

\* s1 and s2 serve the same request in the same way.
Symmetry == Permutations({s1, s2})

\* No step and no property of the run looks at what a handler has read once it no longer deducts,
\* at why it has sold nothing, or at whether it died after its last step.
Fate(s) == IF handler[s].pc = "dead" THEN "ended" ELSE handler[s].pc
View ==
  <<stock, moved, rows, lines, negative,
    [s \in Sales |-> IF handler[s].pc \in {"read", "deduct", "move"} THEN handler[s]
                     ELSE <<Fate(s), handler[s].at, IF handler[s].answer \in {"sold", "bypassed"} THEN handler[s].answer ELSE "none">>]>>

\* Flour for two orders, eggs for one and a half.
TwoIngredientNeed == (flour :> 1) @@ (egg :> 2)
TwoIngredientStock == (flour :> 2) @@ (egg :> 3)
\* Flour for an order, and not enough eggs.
TooFewEggs == (flour :> 1) @@ (egg :> 1)
=============================================================================
