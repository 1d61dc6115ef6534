----------------------------- MODULE MCPosLogin -----------------------------
(* Instances of PosLogin for TLC. *)
EXTENDS PosLogin, TLC

CONSTANTS cashier, manager, front, c1, r1, r2

ContextOnFront == c1 :> front
=============================================================================
