------------------------------ MODULE Campaign ------------------------------
(***************************************************************************)
(* What a batch of cases promises: the withheld cases are opened when all  *)
(* public ones have passed on the frozen header, and it is ready for       *)
(* review when every case has.                                             *)
(***************************************************************************)
EXTENDS Naturals

CONSTANTS NPublic, NHidden    \* the cases are numbered, public ones first

VARIABLES passed, opened, ready

Cases == 1..(NPublic + NHidden)

Init == passed = {} /\ opened = FALSE /\ ready = FALSE

Pass ==
  /\ \E c \in Cases : (opened \/ c <= NPublic) /\ passed' = passed \cup {c}
  /\ UNCHANGED <<opened, ready>>

Open == 1..NPublic \subseteq passed /\ opened' = TRUE /\ UNCHANGED <<passed, ready>>

Ready == passed = Cases /\ ready' = TRUE /\ UNCHANGED <<passed, opened>>

Next == Pass \/ Open \/ Ready

Spec == Init /\ [][Next]_<<passed, opened, ready>>

=============================================================================
