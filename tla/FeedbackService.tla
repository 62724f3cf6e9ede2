--------------------------- MODULE FeedbackService ---------------------------
(***************************************************************************)
(* What the feedback broker promises: it serves the numbered slots in      *)
(* order, once each.  A slot that is served ends with an answer or, when   *)
(* the broker fails, without one; an answer names the source that was      *)
(* asked about, or none when the request was refused; nothing changes an   *)
(* answer afterwards.                                                      *)
(***************************************************************************)
EXTENDS Naturals

CONSTANTS Slots, Source, None, Open, Refused

VARIABLES
  asked,     \* the source each slot was asked about, None while it was not
  answer,    \* Open, Refused, or the source the answer is for
  served     \* the slots taken up so far

Init ==
  /\ asked = [k \in 1 .. Slots |-> None]
  /\ answer = [k \in 1 .. Slots |-> Open]
  /\ served = 0

Ask(k) ==
  /\ asked[k] = None
  /\ \E source \in Source : asked' = [asked EXCEPT ![k] = source]
  /\ UNCHANGED <<answer, served>>

TakeUp ==
  /\ served < Slots
  /\ asked[served + 1] # None
  /\ served' = served + 1
  /\ UNCHANGED <<asked, answer>>

\* Only the slot taken up last is answered.
Answer ==
  /\ served > 0
  /\ answer[served] = Open
  /\ answer' \in {[answer EXCEPT ![served] = Refused], [answer EXCEPT ![served] = asked[served]]}
  /\ UNCHANGED <<asked, served>>

Next == TakeUp \/ Answer \/ \E k \in 1 .. Slots : Ask(k)

Spec == Init /\ [][Next]_<<asked, answer, served>>
=============================================================================
