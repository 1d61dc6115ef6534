---------------------------- MODULE MCPrintQueue ----------------------------
(* A payment and two reprints of its order. *)
EXTENDS PrintQueue

CONSTANTS pay, again1, again2, counter, kitchen

MCKind == [r \in Requests |-> IF r = pay THEN "payment" ELSE "reprint"]
MCPrintersOf == [role \in Roles |-> IF role = "receipt" THEN <<counter>> ELSE <<kitchen>>]
=============================================================================
