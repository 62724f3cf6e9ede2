----------------------------- MODULE MCOpusBatch -----------------------------
(* Two public cases and one withheld case; a file can be edited and put back. *)
EXTENDS OpusBatch
=============================================================================
