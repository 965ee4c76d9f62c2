----------------------------- MODULE MCCallbacks -----------------------------
(* One runtime, two units on it one after the other, two handlers of the     *)
(* mock server beside the runner: enough for ids drawn in one order and      *)
(* pushed in another, and for a callback that the mock schedules while a     *)
(* flush is awaiting, reported in the next unit or in none.                  *)
EXTENDS Callbacks
=============================================================================
