---------------------------- MODULE MCDualWorker ----------------------------
(* Two pairs of replays, one in each order; two faults. *)
EXTENDS DualWorker
=============================================================================
