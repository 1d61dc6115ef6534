-------------------------- MODULE MCShiftLifecycle --------------------------
(* Instances of ShiftLifecycle for TLC. *)
EXTENDS ShiftLifecycle, TLC

CONSTANTS till, front, r1, r2, b1

Front == till :> front
\* Two requests of one till are served at once, as after a double click.
DoubleClick == (r1 :> till) @@ (r2 :> till)
=============================================================================
