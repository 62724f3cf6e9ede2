------------------------------ MODULE MCReplay ------------------------------
(* One case of each kind, so that every entry of a result can differ. *)
EXTENDS Replay

CONSTANTS shared, large, withheld
=============================================================================
