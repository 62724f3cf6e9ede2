---------------------------- MODULE Adjudication ----------------------------
(***************************************************************************)
(* What a scored replay promises to whoever counts its outcomes: one       *)
(* verdict at most, never taken back, and each kind of verdict only for    *)
(* what the candidate and the machine have really done by then.  It does   *)
(* not promise to notice every edit of what its scorers are run from: it   *)
(* promises to score nothing on what was edited when it last looked.       *)
(***************************************************************************)
CONSTANTS
  Harmless,    \* deeds that no score is about
  Suspect,     \* deeds that look like a broken machine
  Passing,     \* trouble that no score is about
  Charged,     \* trouble that is charged to the candidate
  Retried      \* trouble that calls for a retry

VARIABLES
  conduct, weather,    \* the deeds and the trouble there were
  overlooked,          \* inputs that are not as pinned and were not when they were looked at
  misled,              \* was a scorer run from what was edited after it was looked at?
  verdict

scene == <<conduct, weather, overlooked, misled>>

Justified(v) ==
  /\ v \in {"parity", "failure", "retry"} => overlooked = {}
  /\ \/ misled
     \/ v = "parity" /\ conduct \subseteq Harmless /\ weather \subseteq Passing
     \/ v = "failure" /\ ~(conduct = {} /\ weather \cap Charged = {})
     \/ v = "retry" /\ ~(conduct \cap Suspect = {} /\ weather \cap Retried = {})
     \/ v \in {"adjudicate", "stopped"} /\ ~(conduct = {} /\ weather = {})
     \/ v = "unscored"

Init == conduct = {} /\ weather = {} /\ overlooked = {} /\ misled = FALSE /\ verdict = "open"

Observe ==
  /\ conduct \subseteq conduct' /\ weather \subseteq weather' /\ (misled => misled')
  /\ UNCHANGED verdict

Decide ==
  /\ verdict = "open"
  /\ verdict' \in {"parity", "failure", "retry", "adjudicate", "stopped", "unscored"}
  /\ Justified(verdict')
  /\ UNCHANGED scene

Next == Observe \/ Decide

Spec == Init /\ [][Next]_<<scene, verdict>>
=============================================================================
