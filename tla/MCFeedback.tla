----------------------------- MODULE MCFeedback -----------------------------
(***************************************************************************)
(* Small instances of Feedback: two helpers that may race for a number,    *)
(* two sources, two slots.                                                 *)
(***************************************************************************)
EXTENDS Feedback, TLC

CONSTANTS h1, h2, a, b

Symmetry == Permutations(Helper)
=============================================================================
