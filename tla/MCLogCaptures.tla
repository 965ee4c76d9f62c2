---------------------------- MODULE MCLogCaptures ----------------------------
(* One slot and two, each with one redis monitor and one log to follow.     *)
EXTENDS LogCaptures
=============================================================================
