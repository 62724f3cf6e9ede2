----------------------------- MODULE MCCapture -----------------------------
(***************************************************************************)
(* Small instances of Capture: the ABI header (path 1) and the kernel      *)
(* (path 2), ordinary contents of which the starter uses one, so that a    *)
(* later capture may be the first to write the other's blob, and a content *)
(* over the size limit.                                                    *)
(***************************************************************************)
EXTENDS Capture, TLC

CONSTANTS a, b, big

MCStarter == (1 :> a) @@ (2 :> a)
=============================================================================
