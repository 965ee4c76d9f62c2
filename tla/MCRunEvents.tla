----------------------------- MODULE MCRunEvents -----------------------------
(* A child that writes to both outputs, a log and a channel that are smaller *)
(* than the run, and a page that connects at any moment of it.               *)
EXTENDS RunEvents
=============================================================================
