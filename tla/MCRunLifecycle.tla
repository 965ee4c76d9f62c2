--------------------------- MODULE MCRunLifecycle ---------------------------
(* One slot and two, of a network and two containers each, every command,   *)
(* runtime, cleanup policy and point of failure.                            *)
EXTENDS RunLifecycle
=============================================================================
