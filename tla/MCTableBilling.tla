--------------------------- MODULE MCTableBilling ---------------------------
(* Instances of TableBilling for TLC: tables, orders, sessions and requests are interchangeable. *)
EXTENDS TableBilling, TLC

Symmetry == Permutations(Tables) \union Permutations(Orders)
              \union Permutations(Sessions) \union Permutations(Requests)
=============================================================================
