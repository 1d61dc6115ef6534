--------------------------- MODULE PaymentLedger ---------------------------
(***************************************************************************)
(* What the payment code promises about a bill, without handlers: while it *)
(* is queued it may be re-priced or cancelled; a key settles it at most    *)
(* once, for its total, and settling completes it for good.                *)
(***************************************************************************)
EXTENDS Integers

CONSTANTS Orders, Groups, Tolerance

VARIABLES status, total, paid

lvars == <<status, total, paid>>

Init ==
  /\ status = [o \in Orders |-> "queued"]
  /\ total \in [Orders -> Nat]
  /\ paid = [o \in Orders |-> [g \in Groups |-> [rows |-> 0, sum |-> 0]]]

Reprice(o) ==
  /\ status[o] = "queued"
  /\ total' = [total EXCEPT ![o] = total'[o]]
  /\ total'[o] \in Nat
  /\ UNCHANGED <<status, paid>>

Cancel(o) ==
  /\ status[o] = "queued"
  /\ status' = [status EXCEPT ![o] = "cancelled"]
  /\ UNCHANGED <<total, paid>>

\* A second key may settle a completed bill again: the code does not forbid it.
Settle(o, g) ==
  /\ status[o] # "cancelled"
  /\ paid[o][g].rows = 0
  /\ paid' = [paid EXCEPT ![o][g] = [rows |-> 1, sum |-> paid'[o][g].sum]]
  /\ paid'[o][g].sum \in (total[o] - Tolerance) .. (total[o] + Tolerance)
  /\ status' = [status EXCEPT ![o] = "completed"]
  /\ UNCHANGED total

Next == \E o \in Orders : Reprice(o) \/ Cancel(o) \/ \E g \in Groups : Settle(o, g)

Spec == Init /\ [][Next]_lvars
=============================================================================
