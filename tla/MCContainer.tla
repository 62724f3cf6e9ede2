----------------------------- MODULE MCContainer -----------------------------
(* Both kinds of trouble in one call. *)
EXTENDS Container
=============================================================================
