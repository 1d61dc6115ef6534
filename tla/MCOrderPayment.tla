--------------------------- MODULE MCOrderPayment ---------------------------
(* Instances of OrderPayment for TLC. *)
EXTENDS OrderPayment, TLC

\* Slots and keys are interchangeable: no action tells one from another.
Symmetry == Permutations(Requests) \union Permutations(Groups)
=============================================================================
