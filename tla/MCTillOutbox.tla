--------------------------- MODULE MCTillOutbox ---------------------------
(* Values for TLC: a walk-in customer's basket and one from a delivery app. *)
EXTENDS TillOutbox

CONSTANTS walkIn, grab

\* After the last reload localStorage is never read again: states that differ in it only are one.
View == <<server, screen, queues, online, hydrated, busy, calls, late, issued, reloads, past,
          IF hydrated /\ ~MoreToCome THEN Memory ELSE disk>>
=============================================================================
