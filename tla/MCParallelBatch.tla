--------------------------- MODULE MCParallelBatch ---------------------------
(* The executor as run() sets it up: as many slots as jobs, and twice as     *)
(* many units, so that the window slides, with --fail-fast and without.      *)
EXTENDS ParallelBatch
=============================================================================
