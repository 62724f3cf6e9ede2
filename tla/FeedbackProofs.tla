--------------------------- MODULE FeedbackProofs ---------------------------
(***************************************************************************)
(* Safety of Feedback for every number of helpers, sources and slots, and  *)
(* for every bound: types, the four invariants of its runs, and that the   *)
(* broker implements FeedbackService.                                      *)
(***************************************************************************)
EXTENDS Feedback, SequenceTheorems, TLAPS

USE FeedbackAssumption

-----------------------------------------------------------------------------
(* The inductive invariant. *)

Idle    == {"look", "wait", "done"}             \* no slot is open
Before  == {"capture", "read", "copy", "score", "raw", "open"}
Scored  == {"raw", "open", "fill", "event", "classify"}
Refusal == {"refuse", "refill", "refused", "unanswered", "died"}

\* Slots taken up have a request, slots not taken up no response.
Slots ==
  /\ bpc \notin Idle => processed # 0
  /\ \A k \in Id : IF k <= processed THEN requests[k] # Absent ELSE responses[k] = Absent

\* What the open slot has so far.
Progress ==
  /\ bpc \in Before => responses[processed] = Absent
  /\ bpc \in Scored \cup {"score"} => /\ snapshots[processed] \in Content
                                      /\ snapshots[processed] = requests[processed].source
  /\ bpc \in Scored => scored[processed] = snapshots[processed] /\ outcome \in Outcome
  /\ bpc \in Scored \ {"raw"} => raws[processed] = outcome /\ outcome # "malformed"
  /\ bpc \in {"fill", "refill"} => responses[processed] = Partial
  /\ bpc \in {"event", "classify"} =>
       responses[processed] = [source |-> requests[processed].source,
                               status |-> IF outcome \in Status THEN outcome ELSE "error"]
  /\ bpc = "refused" => responses[processed] = [source |-> None, status |-> "error"]

\* The open slot's number is in no event yet, or only in the last, which commits its answer.
Unused == \A i \in DOMAIN events : events[i].id < processed
UsedLast ==
  /\ events # <<>>
  /\ events[Len(events)].id = processed /\ events[Len(events)].answered
  /\ \A i \in DOMAIN events : i # Len(events) => events[i].id < processed
\* A readable line that commits an error, or one without its newline; the slot was answered.
Spent == /\ UsedLast /\ ~tornEvent /\ events[Len(events)].whole
         /\ Answered(processed) /\ responses[processed].status = "error"
Cut   == UsedLast /\ tornEvent /\ Answered(processed)

Journal ==
  /\ \A i \in DOMAIN events : events[i].id <= processed
  /\ bpc \in Before \cup {"fill", "event", "refill", "refused"} => Unused
  /\ bpc = "classify" => UsedLast /\ events[Len(events)].whole
  /\ bpc \in {"refuse", "unanswered"} => (Unused /\ ~tornEvent) \/ Spent \/ Cut
  /\ bpc \in Refusal => errors # {}
  /\ tornEvent => bpc \in {"refuse", "unanswered", "died"} /\ faults > 0

\* Event k commits slot k.
Commits(k) ==
  /\ events[k].whole /\ events[k].raw /\ events[k].source = requests[k].source
  /\ Answered(k) /\ responses[k].status \in {"complete", "candidate"}
  /\ raws[k] = responses[k].status

\* Without an error the events are those of the slots, one by one.
Clean ==
  errors = {} =>
    /\ Len(events) = IF bpc \in Idle \cup {"classify"} THEN processed ELSE processed - 1
    /\ \A k \in 1 .. (IF bpc \in Idle THEN processed ELSE processed - 1) : Commits(k)
    /\ bpc = "classify" => /\ events[processed].whole /\ events[processed].raw
                           /\ events[processed].source = requests[processed].source

\* After the agent's end nobody writes requests; close() comes after that.
Closing ==
  /\ agent = "dead" => \A h \in Helper : hpc[h] \in {"returned", "failed", "killed"}
  /\ stop => agent = "dead"
  /\ summary # "none" => stop /\ bpc \in {"done", "died"}
  /\ summary = "complete" => errors = {} /\ Issued \subseteq 1 .. processed

\* The helpers that published a request own its number.
Owners ==
  /\ \A h \in Helper : hpc[h] \in {"link", "poll", "returned"} => hid[h] \in Id
  /\ \A h \in Helper : hpc[h] \in {"poll", "returned"} =>
       requests[hid[h]] = [source |-> hsource[h]]
  /\ \A h, other \in Helper :
       h # other /\ {hpc[h], hpc[other]} \subseteq {"poll", "returned"} => hid[h] # hid[other]
  /\ \A h \in Helper : hpc[h] = "returned" =>
       Answered(hid[h]) /\ hanswer[h] = responses[hid[h]]

Core == TypeOK /\ Slots /\ Progress

IInv == /\ Core /\ AnswerIsForRequestedSource /\ Journal /\ SlotLeavesEvent
        /\ Clean /\ Closing /\ Owners

-----------------------------------------------------------------------------
(* Who changes what. *)

AgentAct  == Edit \/ WriteByHand \/ AgentEnds \/ \E h \in Helper : HelperStep(h)
BrokerAct == Slot \/ FailRequest \/ FailRefusal \/ CloseStart \/ Close

\* Every step is the agent's, the broker's, or a stutter.
LEMMA Kinds == ASSUME [Next]_vars PROVE AgentAct \/ BrokerAct \/ UNCHANGED vars
BY DEF Next, AgentAct, BrokerAct, Terminated

\* The slots are among the numbers a file may have.
LEMMA Ids == Id \subseteq Number
BY DEF Id, Number

\* The agent's side leaves the broker alone and takes no request back.
LEMMA AgentFrame ==
  ASSUME TypeOK, AgentAct
  PROVE  /\ UNCHANGED <<responses, bpc, processed, errors, stop, outcome, snapshots, scored, raws,
                        events, tornEvent, summary, faults>>
         /\ \A k \in Id : requests[k] # Absent => requests'[k] = requests[k]
<1> USE DEF private, log
<1>1. CASE Edit
  BY <1>1 DEF Edit
<1>2. CASE WriteByHand
  BY <1>2, Ids DEF WriteByHand, TypeOK
<1>3. CASE AgentEnds
  BY <1>3 DEF AgentEnds
<1>4. ASSUME NEW h \in Helper, HelperStep(h)
      PROVE  /\ HostOnly
             /\ \A k \in Id : requests[k] # Absent => requests'[k] = requests[k]
  <2>1. CASE Prepare(h)
    BY <2>1 DEF Prepare
  <2>2. CASE LinkRequest(h)
    BY <2>2, Ids DEF LinkRequest, TypeOK
  <2>3. CASE ReadResponse(h)
    BY <2>3 DEF ReadResponse
  <2>4. CASE HelperTimeout(h)
    BY <2>4 DEF HelperTimeout
  <2> QED
    BY <1>4, <2>1, <2>2, <2>3, <2>4 DEF HelperStep
<1>5. CASE \E h \in Helper : HelperStep(h)
  BY <1>4, <1>5 DEF HostOnly
<1> QED
  BY <1>1, <1>2, <1>3, <1>5 DEF AgentAct

\* The broker's side leaves the agent alone.
LEMMA BrokerFrame ==
  ASSUME BrokerAct
  PROVE  UNCHANGED <<source, agent, edits, byHand, hpc, hid, hsource, hanswer, requests>>
<1>1. BrokerAct => AgentSide
  BY DEF BrokerAct, Slot, Look, Wait, CaptureSource, ReadRequest, CopySource, Score, WriteRaw,
         OpenResponse, FillResponse, AppendEvent, Classify, Refuse, Refill, AppendRefusal,
         FailRequest, FailRefusal, CloseStart, Close
<1> QED
  BY <1>1 DEF AgentSide, agentVars, helperVars

\* The slot in work.
LEMMA OpenSlot ==
  ASSUME TypeOK, Slots, bpc \notin Idle
  PROVE  /\ processed \in Id /\ requests[processed] \in Request
         /\ requests[processed].source \in Content \cup {None}
<1>1. processed \in Id
  BY DEF TypeOK, Slots, Id
<1>2. requests[processed] \in Request
  <2>1. processed \in Number /\ requests[processed] # Absent
    BY <1>1, Ids DEF Slots, TypeOK, Id
  <2> QED
    BY <2>1 DEF TypeOK
<1> QED
  BY <1>1, <1>2 DEF Request

-----------------------------------------------------------------------------
(* Types. *)

\* What a helper returns is a response that is there (Owners).
LEMMA AgentTypes ==
  ASSUME TypeOK, Owners, AgentAct
  PROVE  TypeOK'
<1>0. UNCHANGED <<responses, bpc, processed, errors, stop, outcome, snapshots, scored, raws,
                  events, tornEvent, summary, faults>>
  BY AgentFrame
<1>1. CASE Edit
  BY <1>0, <1>1 DEF Edit, helperVars, TypeOK
<1>2. CASE WriteByHand
  BY <1>0, <1>2 DEF WriteByHand, helperVars, TypeOK
<1>3. CASE AgentEnds
  BY <1>0, <1>3 DEF AgentEnds, TypeOK
<1>4. ASSUME NEW h \in Helper, HelperStep(h) PROVE TypeOK'
  <2>1. CASE Prepare(h)
    <3>1. PICK number \in 1 .. MaxRequests + 2 :
            IF number > MaxRequests \/ source = Missing
            THEN hpc' = [hpc EXCEPT ![h] = "failed"] /\ UNCHANGED <<hid, hsource>>
            ELSE /\ hpc' = [hpc EXCEPT ![h] = "link"]
                 /\ hid' = [hid EXCEPT ![h] = number]
                 /\ hsource' = [hsource EXCEPT ![h] = source]
      BY <2>1 DEF Prepare
    <3>2. hpc' \in [Helper -> {"ready", "link", "poll", "returned", "failed", "killed"}]
      BY <3>1 DEF TypeOK
    <3>3. hid' \in [Helper -> 0 .. MaxRequests]
      <4>1. number \in 0 .. MaxRequests \/ number > MaxRequests
        OBVIOUS
      <4> QED
        BY <3>1, <4>1 DEF TypeOK
    <3>4. hsource' \in [Helper -> Content \cup {None}]
      BY <3>1 DEF TypeOK
    <3>5. UNCHANGED <<source, agent, edits, byHand, hanswer, requests>>
      BY <2>1 DEF Prepare, agentVars
    <3> QED
      BY <1>0, <3>2, <3>3, <3>4, <3>5 DEF TypeOK
  <2>2. CASE LinkRequest(h)
    <3>1. requests' \in [Number -> Request \cup {Absent}]
      <4>1. [source |-> hsource[h]] \in Request
        BY DEF TypeOK, Request
      <4>2. \/ requests' = requests
            \/ requests' = [requests EXCEPT ![hid[h]] = [source |-> hsource[h]]]
        BY <2>2 DEF LinkRequest
      <4> QED
        BY <4>1, <4>2 DEF TypeOK
    <3>2. hpc' \in [Helper -> {"ready", "link", "poll", "returned", "failed", "killed"}]
      <4>1. hpc' = [hpc EXCEPT ![h] = "poll"] \/ hpc' = [hpc EXCEPT ![h] = "failed"]
        BY <2>2 DEF LinkRequest
      <4> QED
        BY <4>1 DEF TypeOK
    <3>3. UNCHANGED <<source, agent, edits, byHand, hid, hsource, hanswer>>
      BY <2>2 DEF LinkRequest, agentVars
    <3> QED
      BY <1>0, <3>1, <3>2, <3>3 DEF TypeOK
  <2>3. CASE ReadResponse(h)
    <3>1. /\ UNCHANGED <<source, agent, edits, byHand, hid, hsource, requests>>
          /\ hpc' \in [Helper -> {"ready", "link", "poll", "returned", "failed", "killed"}]
      BY <2>3 DEF ReadResponse, agentVars, TypeOK
    <3>2. CASE UNCHANGED hanswer
      BY <1>0, <3>1, <3>2 DEF TypeOK
    <3>3. CASE /\ hanswer' = [hanswer EXCEPT ![h] = responses[hid[h]]]
               /\ responses[hid[h]] \notin {Absent, Partial}
      <4>1. responses[hid[h]] \in Answer
        BY <2>3, <3>3 DEF ReadResponse, TypeOK, Owners
      <4> QED
        BY <1>0, <3>1, <3>3, <4>1 DEF TypeOK
    <3> QED
      BY <2>3, <3>2, <3>3 DEF ReadResponse
  <2>4. CASE HelperTimeout(h)
    BY <1>0, <2>4 DEF HelperTimeout, agentVars, TypeOK
  <2> QED
    BY <1>4, <2>1, <2>2, <2>3, <2>4 DEF HelperStep
<1> QED
  BY <1>1, <1>2, <1>3, <1>4 DEF AgentAct

\* A line of its own, or one that is glued to a torn line.
Adds(e) == ~tornEvent /\ events' = Append(events, e)
Spoils  == tornEvent /\ events' = Glued

\* The two lines there are.
LEMMA EventTypes ==
  ASSUME TypeOK, Slots, Progress, bpc \in {"event", "refused", "unanswered"}
  PROVE  /\ bpc = "event" => SlotEvent \in Event
         /\ RefusalEvent \in Event
<1>1. processed \in Id /\ None \in Content \cup {None}
  BY OpenSlot DEF Idle
<1>2. bpc = "event" => snapshots[processed] \in Content
  BY DEF Progress, Scored
<1> QED
  BY <1>1, <1>2 DEF SlotEvent, RefusalEvent, Event

\* What a step may do to the journal: it adds a line of the slot in work or spoils the torn one.
LEMMA LogStep ==
  ASSUME TypeOK, Slots, Progress,
         AppendEvent \/ AppendRefusal \/ FailRequest \/ FailRefusal
  PROVE  \/ UNCHANGED <<events, tornEvent>>
         \/ /\ bpc \in {"event", "refused", "unanswered"} /\ tornEvent' \in BOOLEAN
            /\ AppendEvent \/ AppendRefusal => tornEvent' = FALSE
            /\ FailRequest \/ FailRefusal => tornEvent' = TRUE
            /\ \/ Spoils
               \/ \E e \in Event : /\ Adds(e) /\ e.id = processed
                                   /\ bpc = "event" => e.answered
                                   /\ bpc # "event" => (e.answered <=> bpc = "refused")
                                   /\ AppendEvent \/ AppendRefusal => e.whole
                                   /\ AppendEvent => e = SlotEvent
<1> DEFINE Event1 == IF bpc = "event" THEN SlotEvent ELSE RefusalEvent
           Half   == [Event1 EXCEPT !.whole = FALSE]
<1>1. \/ UNCHANGED log
      \/ /\ bpc \in {"event", "refused", "unanswered"}
         /\ (AppendEvent \/ AppendRefusal) /\ AddLine(Event1)
      \/ /\ bpc \in {"event", "refused", "unanswered"}
         /\ (FailRequest \/ FailRefusal) /\ HalfLine(Event1)
  BY DEF AppendEvent, AppendRefusal, FailRequest, FailRefusal
<1>2. CASE UNCHANGED log
  BY <1>2 DEF log
<1>3. ~((AppendEvent \/ AppendRefusal) /\ (FailRequest \/ FailRefusal))
  BY DEF AppendEvent, AppendRefusal, FailRequest, FailRefusal, Raise
<1>4. CASE bpc \in {"event", "refused", "unanswered"}
  <2>1. /\ Event1 \in Event /\ Event1.id = processed /\ Event1.whole
        /\ bpc = "event" => Event1.answered /\ Event1 = SlotEvent
        /\ bpc # "event" => (Event1.answered <=> bpc = "refused")
    BY <1>4, EventTypes DEF SlotEvent, RefusalEvent
  <2>2. Half \in Event /\ Half.id = Event1.id /\ Half.answered = Event1.answered
    BY <2>1 DEF Event
  <2>3. AppendEvent => bpc = "event"
    BY DEF AppendEvent
  <2> HIDE DEF Event1, Half
  <2>4. CASE (AppendEvent \/ AppendRefusal) /\ AddLine(Event1)
    BY <1>3, <1>4, <2>1, <2>3, <2>4 DEF AddLine, Adds, Spoils
  <2>5. CASE (FailRequest \/ FailRefusal) /\ HalfLine(Event1)
    <3>1. CASE UNCHANGED log
      BY <3>1 DEF log
    <3>2. CASE tornEvent /\ tornEvent' = TRUE /\ events' = Glued
      BY <1>3, <1>4, <2>5, <3>2 DEF Spoils
    <3>3. CASE ~tornEvent /\ tornEvent' = TRUE /\ events' \in {Append(events, Event1), Append(events, Half)}
      BY <1>3, <1>4, <2>1, <2>2, <2>5, <3>3 DEF Adds
    <3> QED
      BY <2>5, <3>1, <3>2, <3>3 DEF HalfLine, Half
  <2> QED
    BY <1>1, <1>2, <2>4, <2>5
<1> QED
  BY <1>1, <1>2, <1>4

\* What adding a line does.
LEMMA LastEvent ==
  ASSUME TypeOK, NEW e \in Event, events' = Append(events, e)
  PROVE  /\ events' \in Seq(Event) /\ Len(events) \in Nat /\ DOMAIN events = 1 .. Len(events)
         /\ Len(events') = Len(events) + 1 /\ DOMAIN events' = 1 .. Len(events) + 1
         /\ events'[Len(events) + 1] = e
         /\ \A i \in DOMAIN events : events'[i] = events[i]
<1>1. events \in Seq(Event)
  BY DEF TypeOK
<1>2. events' \in Seq(Event)
  BY <1>1
<1> QED
  BY <1>1, <1>2

\* What spoiling the last line does.
LEMMA GluedEvent ==
  ASSUME TypeOK, events' = Glued
  PROVE  /\ events' \in Seq(Event) /\ Len(events') = Len(events)
         /\ DOMAIN events = 1 .. Len(events) /\ DOMAIN events' = 1 .. Len(events)
         /\ \A i \in DOMAIN events : /\ events'[i].id = events[i].id
                                     /\ events'[i].answered = events[i].answered
                                     /\ i # Len(events) => events'[i] = events[i]
<1>1. events \in Seq(Event) /\ DOMAIN events = 1 .. Len(events) /\ Len(events) \in Nat
  BY DEF TypeOK
<1>2. \A i \in DOMAIN events :
        /\ events[i] \in Event
        /\ i = Len(events) => events'[i] = [events[i] EXCEPT !.whole = FALSE]
        /\ i # Len(events) => events'[i] = events[i]
  <2>1. PICK n \in Nat : n = Len(events)
    BY <1>1
  <2>2. events' = [events EXCEPT ![n] = [events[n] EXCEPT !.whole = FALSE]]
    BY <2>1 DEF Glued
  <2>3. \A i \in 1..n : events'[i] = IF i = n THEN [events[n] EXCEPT !.whole = FALSE] ELSE events[i]
    <3> DEFINE spoiled == [events[n] EXCEPT !.whole = FALSE]
    <3>1. events' = [events EXCEPT ![n] = spoiled] /\ DOMAIN events = 1..n
      BY <1>1, <2>1, <2>2
    <3> HIDE DEF spoiled
    <3>2. \A i \in 1..n : events'[i] = IF i = n THEN spoiled ELSE events[i]
      BY <3>1
    <3> QED
      BY <3>2 DEF spoiled
  <2>4. \A i \in 1..n : events[i] \in Event
    BY <1>1, <2>1
  <2> QED
    BY <1>1, <2>1, <2>3, <2>4
<1>3. events' \in [1 .. Len(events) -> Event]
  <2>1. \A i \in DOMAIN events : events'[i] \in Event
    BY <1>2 DEF Event
  <2>2. events' = [i \in 1 .. Len(events) |-> events'[i]]
    BY <1>1 DEF Glued
  <2> QED
    BY <1>1, <2>1, <2>2
<1>4. events' \in Seq(Event) /\ Len(events') = Len(events) /\ DOMAIN events' = 1 .. Len(events)
  BY <1>1, <1>3
<1> QED
  BY <1>1, <1>2, <1>4 DEF Event

\* The journal keeps its type.
LEMMA LogTypes ==
  ASSUME TypeOK, Slots, Progress,
         AppendEvent \/ AppendRefusal \/ FailRequest \/ FailRefusal
  PROVE  events' \in Seq(Event) /\ tornEvent' \in BOOLEAN
<1>1. CASE UNCHANGED <<events, tornEvent>>
  BY <1>1 DEF TypeOK
<1>2. CASE tornEvent' \in BOOLEAN /\ (Spoils \/ \E e \in Event : Adds(e))
  BY <1>2, LastEvent, GluedEvent DEF Adds, Spoils
<1> QED
  BY <1>1, <1>2, LogStep

\* What the broker writes comes from the slot in work (Slots, Progress).
LEMMA BrokerTypes ==
  ASSUME TypeOK, Slots, Progress, BrokerAct
  PROVE  TypeOK'
<1> USE DEF BrokerPC, private, log
<1>0. UNCHANGED <<source, agent, edits, byHand, hpc, hid, hsource, hanswer, requests>>
  BY BrokerFrame
<1>1. CASE Look
  BY <1>0, <1>1 DEF Look, private, TypeOK
<1>2. CASE Wait
  BY <1>0, <1>2 DEF Wait, private, TypeOK
<1>3. CASE CaptureSource
  BY <1>0, <1>3 DEF CaptureSource, private, TypeOK
<1>4. CASE ReadRequest
  BY <1>0, <1>4 DEF ReadRequest, Raise, private, TypeOK
<1>5. CASE CopySource
  <2>1. snapshots' \in [Id -> Content \cup {Absent}]
    BY <1>5 DEF CopySource, TypeOK
  <2>2. bpc' \in BrokerPC
    BY <1>5 DEF CopySource, Raise, TypeOK
  <2>3. errors' = errors \/ errors' = errors \cup {"other"}
    BY <1>5 DEF CopySource, Raise
  <2>4. errors' \subseteq {"timeout", "other"}
    <3>1. errors \subseteq {"timeout", "other"}
      BY DEF TypeOK
    <3> QED
      BY <2>3, <3>1
  <2> QED
    BY <1>0, <1>5, <2>1, <2>2, <2>4 DEF CopySource, TypeOK
<1>6. CASE Score
  <2>1. scored' \in [Id -> Content \cup {Absent}]
    BY <1>6 DEF Score, Progress, Scored, TypeOK
  <2> QED
    BY <1>0, <1>6, <2>1 DEF Score, TypeOK
<1>7. CASE WriteRaw
  <2>1. raws' \in [Id -> Outcome \cup {Absent}]
    BY <1>7 DEF WriteRaw, Progress, Scored, TypeOK
  <2> QED
    BY <1>0, <1>7, <2>1 DEF WriteRaw, Raise, TypeOK
<1>8. CASE OpenResponse
  BY <1>0, <1>8 DEF OpenResponse, private, TypeOK
<1>9. CASE FillResponse
  <2>1. responses' \in [Id -> Answer \cup {Absent, Partial}]
    <3>1. [source |-> requests[processed].source,
           status |-> IF outcome \in Status THEN outcome ELSE "error"] \in Answer
      BY <1>9, OpenSlot DEF FillResponse, Idle, Answer, Status
    <3> QED
      BY <1>9, <3>1 DEF FillResponse, TypeOK
  <2> QED
    BY <1>0, <1>9, <2>1 DEF FillResponse, private, TypeOK
<1>10. CASE AppendEvent
  BY <1>0, <1>10, LogTypes DEF AppendEvent, TypeOK
<1>11. CASE Classify
  <2>1. errors' \subseteq {"timeout", "other"}
    BY <1>11 DEF Classify, TypeOK
  <2> QED
    BY <1>0, <1>11, <2>1 DEF Classify, private, TypeOK
<1>12. CASE Refuse
  <2>1. responses' \in [Id -> Answer \cup {Absent, Partial}]
    BY <1>12 DEF Refuse, TypeOK
  <2>2. bpc' \in BrokerPC
    BY <1>12 DEF Refuse, TypeOK
  <2>3. errors' = errors \/ errors' = errors \cup {"other"}
    BY <1>12 DEF Refuse
  <2>4. errors' \subseteq {"timeout", "other"}
    <3>1. errors \subseteq {"timeout", "other"}
      BY DEF TypeOK
    <3> QED
      BY <2>3, <3>1
  <2> QED
    BY <1>0, <1>12, <2>1, <2>2, <2>4 DEF Refuse, private, TypeOK
<1>13. CASE Refill
  <2>1. [source |-> None, status |-> "error"] \in Answer
    BY DEF Answer, Status
  <2> QED
    BY <1>0, <1>13, <2>1 DEF Refill, private, TypeOK
<1>14. CASE AppendRefusal
  BY <1>0, <1>14, LogTypes DEF AppendRefusal, TypeOK
<1>15. CASE FailRequest
  <2>1. events' \in Seq(Event) /\ tornEvent' \in BOOLEAN
    BY <1>15, LogTypes DEF FailRequest, TypeOK
  <2>2. errors' \subseteq {"timeout", "other"} /\ bpc' \in BrokerPC /\ faults' \in 0 .. MaxFaults
    BY <1>15 DEF FailRequest, Raise, TypeOK
  <2> QED
    BY <1>0, <1>15, <2>1, <2>2 DEF FailRequest, TypeOK
<1>16. CASE FailRefusal
  <2>1. bpc' \in BrokerPC /\ faults' \in 0 .. MaxFaults
    BY <1>16 DEF FailRefusal, TypeOK
  <2>3. errors' \subseteq {"timeout", "other"}
    <3>1. errors' = errors \/ errors' = errors \cup {"other"}
      BY <1>16 DEF FailRefusal
    <3>2. errors \subseteq {"timeout", "other"}
      BY DEF TypeOK
    <3> QED
      BY <3>1, <3>2
  <2>2. events' \in Seq(Event) /\ tornEvent' \in BOOLEAN
    BY <1>16, LogTypes DEF FailRefusal, TypeOK
  <2> QED
    BY <1>0, <1>16, <2>1, <2>2, <2>3 DEF FailRefusal, TypeOK
<1>17. CASE CloseStart
  BY <1>0, <1>17 DEF CloseStart, private, TypeOK
<1>18. CASE Close
  BY <1>0, <1>18 DEF Close, private, TypeOK
<1> QED
  BY <1>1, <1>2, <1>3, <1>4, <1>5, <1>6, <1>7, <1>8, <1>9, <1>10, <1>11, <1>12, <1>13, <1>14,
     <1>15, <1>16, <1>17, <1>18 DEF BrokerAct, Slot

-----------------------------------------------------------------------------
(* The slots, one by one. *)

\* Only the open slot changes, and an answered slot does not.
LEMMA OtherSlots ==
  ASSUME TypeOK, Slots, Progress, BrokerAct, NEW k \in Id,
         k # processed \/ bpc \in Idle \/ Answered(k)
  PROVE  /\ responses'[k] = responses[k] /\ snapshots'[k] = snapshots[k]
         /\ scored'[k] = scored[k] /\ raws'[k] = raws[k]
<1> USE DEF private, log, Idle, Before, Answered, Progress, TypeOK
<1>1. CASE CopySource
  BY <1>1 DEF CopySource
<1>2. CASE Score
  BY <1>2 DEF Score
<1>3. CASE WriteRaw
  BY <1>3 DEF WriteRaw
<1>4. CASE OpenResponse
  BY <1>4 DEF OpenResponse
<1>5. CASE FillResponse
  BY <1>5 DEF FillResponse
<1>6. CASE Refuse
  BY <1>6 DEF Refuse
<1>7. CASE Refill
  BY <1>7 DEF Refill
<1>8. CASE UNCHANGED <<responses, snapshots, scored, raws>>
  BY <1>8
<1> QED
  BY <1>1, <1>2, <1>3, <1>4, <1>5, <1>6, <1>7, <1>8
     DEF BrokerAct, Slot, Look, Wait, CaptureSource, ReadRequest, AppendEvent, Classify,
         AppendRefusal, FailRequest, FailRefusal, CloseStart, Close

\* The two steps that answer.
LEMMA NewAnswer ==
  ASSUME TypeOK, Slots, Progress, BrokerAct, NEW k \in Id, ~Answered(k), Answered(k)'
  PROVE  k = processed /\ (FillResponse \/ Refill)
<1> USE MarkAssumption DEF private, log, Answered, TypeOK
<1>1. k = processed
  BY OtherSlots
<1>2. CASE OpenResponse
  BY <1>2 DEF OpenResponse
<1>3. CASE Refuse
  BY <1>3 DEF Refuse
<1>4. CASE UNCHANGED responses
  BY <1>4
<1> QED
  BY <1>1, <1>2, <1>3, <1>4
     DEF BrokerAct, Slot, Look, Wait, CaptureSource, ReadRequest, CopySource, Score, WriteRaw,
         AppendEvent, Classify, AppendRefusal, FailRequest, FailRefusal, CloseStart, Close

\* The number goes on when the broker looks, and then only.
LEMMA NextNumber ==
  ASSUME TypeOK, BrokerAct
  PROVE  /\ processed' # processed =>
              /\ Look /\ bpc' = "capture"
              /\ processed' = processed + 1 /\ requests[processed + 1] # Absent
         /\ bpc \in Idle /\ bpc' \notin Idle => processed' = processed + 1
<1>1. CASE Look
  BY <1>1 DEF Look, Idle, TypeOK
<1>2. CASE bpc \notin Idle /\ UNCHANGED processed
  BY <1>2
<1>3. CASE Wait \/ CloseStart \/ Close
  BY <1>3 DEF Wait, CloseStart, Close, Idle
<1>4. Slot \/ FailRequest \/ FailRefusal => Look \/ Wait \/ bpc \notin Idle
  BY DEF Idle, Slot, CaptureSource, ReadRequest, CopySource, Score, WriteRaw,
         OpenResponse, FillResponse, AppendEvent, Classify, Refuse, Refill, AppendRefusal,
         FailRequest, FailRefusal
<1>5. Slot \/ FailRequest \/ FailRefusal => Look \/ UNCHANGED processed
  BY DEF Slot, Wait, CaptureSource, ReadRequest, CopySource, Score, WriteRaw,
         OpenResponse, FillResponse, AppendEvent, Classify, Refuse, Refill, AppendRefusal,
         FailRequest, FailRefusal
<1> QED
  BY <1>1, <1>2, <1>3, <1>4, <1>5 DEF BrokerAct

\* A slot is taken up only when its request is there, so no response precedes its request.
LEMMA BrokerSlots ==
  ASSUME TypeOK, Slots, Progress, BrokerAct
  PROVE  Slots'
<1>1. UNCHANGED requests
  BY BrokerFrame
<1>2. bpc' \notin Idle => processed' # 0
  BY NextNumber DEF Slots, TypeOK
<1>3. ASSUME NEW k \in Id, k <= processed' PROVE requests[k] # Absent
  <2>1. CASE k <= processed
    BY <2>1 DEF Slots
  <2>2. CASE ~(k <= processed)
    <3>1. processed' = processed + 1 /\ requests[processed + 1] # Absent
      BY <1>3, <2>2, NextNumber
    <3>2. k = processed + 1
      <4>1. processed \in Nat
        BY DEF TypeOK
      <4> QED
        BY <1>3, <2>2, <3>1, <4>1 DEF Id
    <3> QED
      BY <3>1, <3>2
  <2> QED
    BY <2>1, <2>2
<1>4. ASSUME NEW k \in Id, ~(k <= processed') PROVE responses'[k] = Absent
  <2>1. ~(k <= processed)
    BY <1>4, NextNumber DEF Id, TypeOK
  <2>2. k # processed
    BY <2>1 DEF Id, TypeOK
  <2> QED
    BY <2>1, <2>2, OtherSlots DEF Slots
<1> QED
  BY <1>1, <1>2, <1>3, <1>4 DEF Slots

\* A slot goes through its steps in order: copied, compared, scored, kept, answered.
LEMMA BrokerProgress ==
  ASSUME TypeOK, Slots, Progress, BrokerAct
  PROVE  Progress'
<1> USE DEF Idle, Before, Scored, private, log
<1>0. UNCHANGED requests
  BY BrokerFrame
<1>a. bpc \notin Idle => processed \in Id
  BY OpenSlot
<1>1. CASE Look
  <2>1. CASE bpc' = "capture"
    <3>1. processed' = processed + 1 /\ UNCHANGED responses
      BY <1>1, <2>1 DEF Look
    <3>2. processed + 1 \in Id
      BY <1>1, <2>1 DEF Look, TypeOK, Id
    <3>3. responses[processed + 1] = Absent
      BY <3>2 DEF Slots, Id, TypeOK
    <3> QED
      BY <2>1, <3>1, <3>3 DEF Progress
  <2>2. CASE bpc' \in {"done", "wait"}
    BY <2>2 DEF Progress
  <2> QED
    BY <1>1, <2>1, <2>2 DEF Look
<1>2. CASE Wait
  BY <1>2 DEF Wait, Progress
<1>3. CASE CaptureSource
  BY <1>3 DEF CaptureSource, Progress
<1>4. CASE ReadRequest
  BY <1>4 DEF ReadRequest, Raise, Progress
<1>5. CASE CopySource
  <2>1. CASE bpc' = "score"
    <3>1. source \in Content /\ snapshots' = [snapshots EXCEPT ![processed] = source]
          /\ source = requests[processed].source /\ UNCHANGED <<processed, responses>>
      BY <1>5, <2>1 DEF CopySource, Raise, TypeOK
    <3>2. snapshots'[processed] = source
      BY <1>a, <1>5, <3>1 DEF CopySource, TypeOK
    <3>3. responses[processed] = Absent
      BY <1>5 DEF CopySource, Progress
    <3> QED
      BY <1>0, <2>1, <3>1, <3>2, <3>3 DEF Progress
  <2>2. CASE bpc' = "refuse"
    BY <2>2 DEF Progress
  <2> QED
    BY <1>5, <2>1, <2>2 DEF CopySource, Raise
<1>6. CASE Score
  <2>1. scored'[processed] = snapshots[processed] /\ outcome' \in Outcome
    BY <1>a, <1>6 DEF Score, TypeOK
  <2> QED
    BY <1>0, <1>6, <2>1 DEF Score, Progress
<1>7. CASE WriteRaw
  <2>1. raws'[processed] = outcome
    BY <1>a, <1>7 DEF WriteRaw, TypeOK
  <2> QED
    BY <1>0, <1>7, <2>1 DEF WriteRaw, Raise, Progress
<1>8. CASE OpenResponse
  <2>1. responses'[processed] = Partial
    BY <1>a, <1>8 DEF OpenResponse, TypeOK
  <2> QED
    BY <1>0, <1>8, <2>1 DEF OpenResponse, Progress
<1>9. CASE FillResponse
  <2>1. responses'[processed] = [source |-> requests[processed].source,
                                 status |-> IF outcome \in Status THEN outcome ELSE "error"]
    BY <1>a, <1>9 DEF FillResponse, TypeOK
  <2> QED
    BY <1>0, <1>9, <2>1 DEF FillResponse, Progress
<1>10. CASE AppendEvent
  BY <1>0, <1>10 DEF AppendEvent, Progress
<1>11. CASE Classify
  BY <1>11 DEF Classify, Progress
<1>12. CASE Refuse
  <2>1. bpc' = "refill" => responses'[processed] = Partial
    BY <1>a, <1>12 DEF Refuse, TypeOK
  <2> QED
    BY <1>12, <2>1 DEF Refuse, Progress
<1>13. CASE Refill
  <2>1. responses'[processed] = [source |-> None, status |-> "error"]
    BY <1>a, <1>13 DEF Refill, TypeOK
  <2> QED
    BY <1>13, <2>1 DEF Refill, Progress
<1>14. CASE AppendRefusal
  BY <1>14 DEF AppendRefusal, Progress
<1>15. CASE FailRequest
  BY <1>15 DEF FailRequest, Raise, Progress
<1>16. CASE FailRefusal
  BY <1>16 DEF FailRefusal, Progress
<1>17. CASE CloseStart \/ Close
  BY <1>0, <1>17 DEF CloseStart, Close, Progress
<1> QED
  BY <1>1, <1>2, <1>3, <1>4, <1>5, <1>6, <1>7, <1>8, <1>9, <1>10, <1>11, <1>12, <1>13, <1>14,
     <1>15, <1>16, <1>17 DEF BrokerAct, Slot

\* Only FillResponse names a source, and the slot in work has it from the copy it compared.
LEMMA BrokerAnswers ==
  ASSUME TypeOK, Slots, Progress, AnswerIsForRequestedSource, BrokerAct
  PROVE  AnswerIsForRequestedSource'
<1> SUFFICES ASSUME NEW k \in Id, Answered(k)', responses'[k].source # None
             PROVE  /\ requests'[k].source = responses'[k].source
                    /\ snapshots'[k] = responses'[k].source
                    /\ scored'[k] = responses'[k].source
  BY DEF AnswerIsForRequestedSource
<1>1. UNCHANGED requests
  BY BrokerFrame
<1>2. CASE Answered(k)
  BY <1>1, <1>2, OtherSlots DEF AnswerIsForRequestedSource
<1>3. CASE ~Answered(k)
  <2>1. k = processed /\ (FillResponse \/ Refill)
    BY <1>3, NewAnswer
  <2>2. CASE Refill
    BY <2>1, <2>2 DEF Refill, TypeOK
  <2>3. CASE FillResponse
    <3>1. responses'[k].source = requests[k].source
      BY <2>1, <2>3 DEF FillResponse, TypeOK
    <3> QED
      BY <1>1, <2>1, <2>3, <3>1 DEF FillResponse, private, Progress, Scored
  <2> QED
    BY <2>1, <2>2, <2>3
<1> QED
  BY <1>2, <1>3

-----------------------------------------------------------------------------
(* The journal. *)

\* Events and slots are numbered.
LEMMA Numbers ==
  ASSUME TypeOK
  PROVE  /\ Len(events) \in Nat /\ DOMAIN events = 1 .. Len(events)
         /\ \A i \in DOMAIN events : events[i] \in Event /\ events[i].id \in Nat
         /\ processed \in Nat
<1>1. events \in Seq(Event)
  BY DEF TypeOK
<1>2. \A i \in DOMAIN events : events[i] \in Event
  BY <1>1
<1> QED
  BY <1>1, <1>2 DEF Event, Id, TypeOK

\* The open slot's number enters the journal once, or twice after an error.
LEMMA BrokerJournal ==
  ASSUME TypeOK, Slots, Progress, Journal, BrokerAct
  PROVE  Journal'
<1> USE DEF Before, Refusal, private, log
<1>0. /\ Len(events) \in Nat /\ DOMAIN events = 1 .. Len(events)
      /\ \A i \in DOMAIN events : events[i] \in Event /\ events[i].id \in Nat
      /\ processed \in Nat /\ tornEvent \in BOOLEAN
  BY Numbers DEF TypeOK
<1>1. CASE Look
  BY <1>0, <1>1 DEF Look, Journal, Unused
<1>2. ASSUME Unused, ~tornEvent, UNCHANGED <<events, tornEvent, processed>>, bpc' # "classify",
             bpc' \in Refusal => errors' # {}
      PROVE  Journal'
  BY <1>0, <1>2 DEF Journal, Unused
<1>3. CASE CaptureSource \/ Score
  BY <1>2, <1>3 DEF CaptureSource, Score, Journal
<1>4. CASE ReadRequest \/ CopySource \/ WriteRaw
  BY <1>2, <1>4 DEF ReadRequest, CopySource, WriteRaw, Raise, Journal
<1>5. CASE OpenResponse \/ FillResponse \/ Refill
  BY <1>2, <1>5 DEF OpenResponse, FillResponse, Refill, Journal
<1>6. CASE Wait \/ Classify
  BY <1>6 DEF Wait, Classify, Journal
<1>7. CASE AppendEvent
  <2>1. bpc = "event" /\ ~tornEvent /\ Unused /\ UNCHANGED <<processed, errors>> /\ bpc' = "classify"
    BY <1>7 DEF AppendEvent, Journal
  <2>2. /\ SlotEvent \in Event /\ events' = Append(events, SlotEvent) /\ tornEvent' = FALSE
        /\ SlotEvent.id = processed /\ SlotEvent.answered /\ SlotEvent.whole
    BY <1>7, <2>1, EventTypes DEF AppendEvent, AddLine, SlotEvent
  <2>3. /\ Len(events') = Len(events) + 1 /\ DOMAIN events' = 1 .. Len(events) + 1
        /\ events'[Len(events) + 1] = SlotEvent
        /\ \A i \in DOMAIN events : events'[i] = events[i]
    BY <2>2, LastEvent
  <2>4. UsedLast' /\ events'[Len(events')].whole
    <3>1. events' # <<>>
      BY <1>0, <2>3
    <3> QED
      BY <1>0, <2>1, <2>2, <2>3, <3>1 DEF UsedLast, Unused
  <2>5. \A i \in DOMAIN events' : events'[i].id <= processed
    BY <1>0, <2>1, <2>2, <2>3 DEF Unused
  <2> QED
    BY <2>1, <2>2, <2>4, <2>5 DEF Journal
<1>8. CASE AppendRefusal
  <2>1. UNCHANGED <<processed, errors>> /\ bpc' = "look" /\ bpc \in {"refused", "unanswered"}
    BY <1>8 DEF AppendRefusal
  <2>2. tornEvent' = FALSE /\ (Spoils \/ Adds(RefusalEvent))
    BY <1>0, <1>8 DEF AppendRefusal, AddLine, Adds, Spoils
  <2>3. RefusalEvent \in Event /\ RefusalEvent.id = processed
    BY <2>1, EventTypes DEF RefusalEvent
  <2>4. \A i \in DOMAIN events' : events'[i].id <= processed
    <3>1. CASE Adds(RefusalEvent)
      BY <1>0, <2>3, <3>1, LastEvent DEF Adds, Journal
    <3>2. CASE Spoils
      BY <3>2, GluedEvent DEF Spoils, Journal
    <3> QED
      BY <2>2, <3>1, <3>2
  <2> QED
    BY <2>1, <2>2, <2>4 DEF Journal
<1>9. CASE Refuse
  <2>1. CASE responses[processed] = Absent
    BY <1>2, <1>9, <2>1 DEF Refuse, Journal, Spent, Cut, Answered
  <2>2. CASE responses[processed] # Absent
    BY <1>9, <2>2 DEF Refuse, Journal, Spent, Cut, UsedLast, Unused, Answered
  <2> QED
    BY <2>1, <2>2
<1>10. CASE FailRequest
  <2>1. CASE bpc \notin {"event", "classify"}
    BY <1>2, <1>10, <2>1 DEF FailRequest, Raise, Journal
  <2>2. CASE bpc = "classify"
    <3>1. UsedLast /\ events[Len(events)].whole /\ ~tornEvent
      BY <2>2 DEF Journal
    <3>2. responses[processed] = [source |-> requests[processed].source, status |-> "error"]
      BY <1>10, <2>2 DEF FailRequest, Progress, Status
    <3>3. Answered(processed)
      <4>1. responses[processed] \in Answer
        BY <2>2, <3>2, OpenSlot DEF Idle, Answer, Status
      <4> QED
        BY <4>1, MarkAssumption DEF Answered
    <3>4. UNCHANGED <<events, tornEvent, processed, responses>> /\ bpc' = "refuse" /\ errors' # {}
      BY <1>10, <2>2 DEF FailRequest, Raise
    <3>5. Spent'
      BY <3>1, <3>2, <3>3, <3>4 DEF Spent, UsedLast, Answered
    <3> QED
      BY <3>1, <3>4, <3>5 DEF Journal
  <2>3. CASE bpc = "event"
    <3>1. /\ Unused /\ ~tornEvent /\ UNCHANGED <<processed, responses>> /\ bpc' = "refuse"
          /\ errors' # {} /\ faults' > 0
      BY <1>10, <2>3 DEF FailRequest, Raise, Journal, TypeOK
    <3>2. CASE UNCHANGED <<events, tornEvent>>
      BY <1>2, <3>1, <3>2
    <3>3. ASSUME NEW e \in Event, events' = Append(events, e), e.id = processed, e.answered,
                 tornEvent' = TRUE
          PROVE  Journal'
      <4>1. /\ Len(events') = Len(events) + 1 /\ DOMAIN events' = 1 .. Len(events) + 1
            /\ events'[Len(events) + 1] = e
            /\ \A i \in DOMAIN events : events'[i] = events[i]
        BY <3>3, LastEvent
      <4>2. UsedLast'
        <5>1. events' # <<>>
          BY <1>0, <4>1
        <5> QED
          BY <1>0, <3>1, <3>3, <4>1, <5>1 DEF UsedLast, Unused
      <4>3. \A i \in DOMAIN events' : events'[i].id <= processed
        BY <1>0, <3>1, <3>3, <4>1 DEF Unused
      <4>4. Answered(processed)'
        <5>1. responses[processed] \in Answer
          BY <2>3, OpenSlot DEF Idle, Answer, Status, Progress
        <5> QED
          BY <3>1, <5>1, MarkAssumption DEF Answered
      <4> QED
        BY <3>1, <3>3, <4>2, <4>3, <4>4 DEF Journal, Cut
    <3> QED
      BY <1>10, <2>3, <3>1, <3>2, <3>3, LogStep DEF Adds, Spoils
  <2> QED
    BY <2>1, <2>2, <2>3
<1>11. CASE FailRefusal
  <2>1. CASE bpc = "refill"
    BY <1>2, <1>11, <2>1 DEF FailRefusal, Journal
  <2>2. CASE bpc # "refill"
    <3>1. /\ UNCHANGED <<processed, errors>> /\ bpc' = "died" /\ errors # {} /\ faults' > 0
      BY <1>11, <2>2 DEF FailRefusal, Journal, TypeOK
    <3>2. \A i \in DOMAIN events' : events'[i].id <= processed
      <4>1. CASE UNCHANGED <<events, tornEvent>>
        BY <4>1 DEF Journal
      <4>2. CASE Spoils
        BY <4>2, GluedEvent DEF Spoils, Journal
      <4>3. ASSUME NEW e \in Event, Adds(e), e.id = processed
            PROVE  \A i \in DOMAIN events' : events'[i].id <= processed
        BY <1>0, <4>3, LastEvent DEF Adds, Journal
      <4> QED
        BY <1>11, <4>1, <4>2, <4>3, LogStep
    <3> QED
      BY <3>1, <3>2 DEF Journal
  <2> QED
    BY <2>1, <2>2
<1>12. CASE CloseStart \/ Close
  BY <1>12 DEF CloseStart, Close, Journal, Unused, UsedLast, Spent, Cut, Answered
<1> QED
  BY <1>1, <1>3, <1>4, <1>5, <1>6, <1>7, <1>8, <1>9, <1>10, <1>11, <1>12 DEF BrokerAct, Slot

\* Two lines of a slot are of a slot that is closed, or whose journal is.
LEMMA Twice ==
  ASSUME TypeOK, Journal, bpc \notin Idle \cup {"died"},
         NEW i \in DOMAIN events, NEW j \in DOMAIN events, i < j, events[i].id = events[j].id
  PROVE  events[i].id # processed
<1>1. Unused \/ UsedLast
  BY DEF Journal, Idle, Before, Spent, Cut, TypeOK, BrokerPC
<1>2. /\ Len(events) \in Nat /\ DOMAIN events = 1 .. Len(events) /\ processed \in Nat
      /\ \A n \in DOMAIN events : events[n].id \in Nat
  BY Numbers
<1> QED
  BY <1>1, <1>2 DEF Unused, UsedLast

\* The steps that do not write to the journal.
LEMMA LogFrame ==
  ASSUME BrokerAct, ~(AppendEvent \/ AppendRefusal \/ FailRequest \/ FailRefusal)
  PROVE  UNCHANGED <<events, tornEvent>>
BY DEF BrokerAct, Slot, Look, Wait, CaptureSource, ReadRequest, CopySource, Score, WriteRaw,
       OpenResponse, FillResponse, Classify, Refuse, Refill, CloseStart, Close, private, log

\* No line is lost, and only one without its newline is spoiled.
LEMMA EventsGrow ==
  ASSUME TypeOK, Slots, Progress, BrokerAct
  PROVE  \A i \in DOMAIN events :
           /\ i \in DOMAIN events' /\ events'[i].id = events[i].id
           /\ events'[i].answered = events[i].answered
           /\ events'[i] = events[i] \/ (tornEvent /\ i = Len(events))
<1>1. CASE UNCHANGED <<events, tornEvent>>
  BY <1>1
<1>2. CASE Spoils
  BY <1>2, GluedEvent DEF Spoils
<1>3. ASSUME NEW e \in Event, Adds(e)
      PROVE  \A i \in DOMAIN events : i \in DOMAIN events' /\ events'[i] = events[i]
  BY <1>3, LastEvent DEF Adds
<1> QED
  BY <1>1, <1>2, <1>3, LogStep, LogFrame

\* The number of slots that are done with.
Closed == IF bpc \in Idle THEN processed ELSE processed - 1

\* A slot is closed by Classify, or by a refusal's event.
LEMMA ClosedSlots ==
  ASSUME TypeOK, Slots, BrokerAct
  PROVE  \/ Closed' = Closed
         \/ (Classify \/ AppendRefusal) /\ Closed' = processed
<1>1. CASE Look
  BY <1>1 DEF Look, Closed, Idle, TypeOK
<1>2. CASE Classify \/ AppendRefusal
  BY <1>2 DEF Classify, AppendRefusal, Closed, Idle
<1>3. CASE Wait
  BY <1>3 DEF Wait, Closed, Idle
<1>4. CASE bpc \notin Idle /\ bpc' \notin Idle /\ UNCHANGED processed
  BY <1>4 DEF Closed
<1>5. CASE UNCHANGED <<bpc, processed>>
  BY <1>5 DEF Closed
<1> QED
  BY <1>1, <1>2, <1>3, <1>4, <1>5
     DEF BrokerAct, Slot, CaptureSource, ReadRequest, CopySource, Score, WriteRaw,
         OpenResponse, FillResponse, AppendEvent, Refuse, Refill, FailRequest, FailRefusal,
         CloseStart, Close, Raise, Idle

\* A slot that is closed has its line by then.
LEMMA BrokerLeavesEvent ==
  ASSUME TypeOK, Slots, Progress, Journal, SlotLeavesEvent, BrokerAct
  PROVE  \A k \in 1 .. Closed' : \E i \in DOMAIN events' : events'[i].id = k
<1> TAKE k \in 1 .. Closed'
<1>0. processed \in Nat /\ Closed \in Int
  BY Numbers DEF Closed
<1>1. CASE k \in 1 .. Closed
  <2>1. PICK i \in DOMAIN events : events[i].id = k
    BY <1>1 DEF SlotLeavesEvent, Closed, Idle
  <2> QED
    BY <2>1, EventsGrow
<1>2. CASE k \notin 1 .. Closed
  <2>1. Classify \/ AppendRefusal
    BY <1>2, ClosedSlots
  <2>2. k = processed
    BY <1>0, <1>2, <2>1, ClosedSlots DEF Closed
  <2>3. CASE UsedLast
    <3>1. Len(events) \in DOMAIN events
      BY <2>3, Numbers DEF UsedLast, TypeOK
    <3> QED
      BY <2>2, <2>3, <3>1, EventsGrow DEF UsedLast
  <2>4. CASE AppendRefusal /\ ~tornEvent
    <3>1. events' = Append(events, RefusalEvent) /\ RefusalEvent \in Event
          /\ RefusalEvent.id = processed
      BY <2>4, EventTypes DEF AppendRefusal, AddLine, RefusalEvent
    <3> QED
      BY <2>2, <3>1, LastEvent
  <2>5. Classify \/ tornEvent => UsedLast
    BY <2>1 DEF Classify, AppendRefusal, Journal, Cut, Spent
  <2> QED
    BY <2>1, <2>3, <2>4, <2>5
<1> QED
  BY <1>1, <1>2

\* Two lines are in slot order, or the second is of an error that could not be read back.
Ordered(i, j) ==
  \/ events[i].id < events[j].id
  \/ /\ events[i].id = events[j].id /\ j = i + 1
     /\ events[i].whole /\ events[i].answered /\ ~events[j].answered
     /\ responses[events[i].id].status = "error" /\ errors # {}

\* Why a line cannot be read.
Excused(i) ==
  /\ errors # {} /\ faults > 0
  /\ Answered(events[i].id) \/ (bpc = "died" /\ i = Len(events))

\* No error class and no fault is forgotten, and a dead thread writes no line.
LEMMA ErrorsStay ==
  ASSUME TypeOK, BrokerAct
  PROVE  /\ errors # {} => errors' # {}
         /\ faults > 0 => faults' > 0
         /\ bpc = "died" => bpc' = "died" /\ UNCHANGED <<events, tornEvent, responses>>
<1>1. errors # {} => errors' # {}
  BY DEF BrokerAct, Slot, Look, Wait, CaptureSource, ReadRequest, CopySource, Score, WriteRaw,
         OpenResponse, FillResponse, AppendEvent, Classify, Refuse, Refill, AppendRefusal,
         FailRequest, FailRefusal, CloseStart, Close, Raise
<1>2. faults \in Nat /\ (faults' = faults \/ faults' = faults + 1)
  BY DEF BrokerAct, Slot, Look, Wait, CaptureSource, ReadRequest, CopySource, Score, WriteRaw,
         OpenResponse, FillResponse, AppendEvent, Classify, Refuse, Refill, AppendRefusal,
         FailRequest, FailRefusal, CloseStart, Close, TypeOK
<1>3. bpc = "died" => bpc' = "died" /\ UNCHANGED <<events, tornEvent, responses>>
  BY DEF BrokerAct, Slot, Look, Wait, CaptureSource, ReadRequest, CopySource, Score, WriteRaw,
         OpenResponse, FillResponse, AppendEvent, Classify, Refuse, Refill, AppendRefusal,
         FailRequest, FailRefusal, CloseStart, Close, private, log
<1> QED
  BY <1>1, <1>2, <1>3

\* A line that is spoiled, or cut off, is of a slot whose answer is there, or the last.
LEMMA BrokerExcuses ==
  ASSUME TypeOK, Slots, Progress, Journal, SlotLeavesEvent, BrokerAct,
         NEW i \in DOMAIN events', ~events'[i].whole
  PROVE  Excused(i)'
<1>0. /\ Len(events) \in Nat /\ DOMAIN events = 1 .. Len(events)
      /\ \A n \in DOMAIN events : events[n].id \in Id
      /\ tornEvent \in BOOLEAN
  BY Numbers DEF TypeOK, Event
<1>1. CASE i \in DOMAIN events /\ events'[i] = events[i]
  <2>1. Excused(i)
    BY <1>1 DEF SlotLeavesEvent, Excused
  <2>2. CASE Answered(events[i].id)
    <3>1. responses'[events[i].id] = responses[events[i].id]
      BY <1>0, <1>1, <2>2, OtherSlots
    <3> QED
      BY <1>1, <2>1, <2>2, <3>1, ErrorsStay DEF Excused, Answered
  <2>3. CASE bpc = "died" /\ i = Len(events)
    BY <2>1, <2>3, ErrorsStay DEF Excused
  <2> QED
    BY <2>1, <2>2, <2>3 DEF Excused
<1>2. CASE i \in DOMAIN events /\ events'[i] # events[i]
  <2>1. tornEvent /\ i = Len(events) /\ events'[i].id = events[i].id
    BY <1>2, EventsGrow
  <2>2. /\ bpc \in {"refuse", "unanswered", "died"} /\ faults > 0 /\ errors # {}
    BY <2>1 DEF Journal, Refusal
  <2>3. bpc # "died"
    BY <1>2, ErrorsStay
  <2>4. UsedLast /\ Answered(processed)
    BY <2>1, <2>2, <2>3 DEF Journal, Spent, Cut
  <2>5. events[i].id \in Id /\ Answered(events[i].id)
    BY <1>0, <1>2, <2>1, <2>4 DEF UsedLast
  <2>6. responses'[events[i].id] = responses[events[i].id]
    BY <2>5, OtherSlots
  <2> QED
    BY <2>1, <2>2, <2>5, <2>6, ErrorsStay DEF Excused, Answered
<1>3. CASE i \notin DOMAIN events
  <2>1. AppendEvent \/ AppendRefusal \/ FailRequest \/ FailRefusal
    BY <1>3, LogFrame
  <2>2. PICK e \in Event : /\ Adds(e) /\ e.id = processed
                           /\ AppendEvent \/ AppendRefusal => e.whole
    BY <1>3, <2>1, LogStep, GluedEvent DEF Spoils
  <2>3. i = Len(events) + 1 /\ Len(events') = Len(events) + 1 /\ events'[i] = e
    BY <1>0, <1>3, <2>2, LastEvent DEF Adds
  <2>4. FailRequest \/ FailRefusal
    BY <2>1, <2>2, <2>3
  <2>5. bpc \in {"event", "refused", "unanswered"}
    BY <1>3, <2>1, LogStep
  <2>6. faults' > 0
    BY <2>4 DEF FailRequest, FailRefusal, TypeOK
  <2>7. CASE FailRequest
    <3>1. bpc = "event" /\ UNCHANGED <<responses, processed>> /\ errors' # {}
      BY <2>5, <2>7 DEF FailRequest, Raise
    <3>2. responses[processed] \in Answer
      BY <3>1, OpenSlot DEF Idle, Answer, Status, Progress
    <3> QED
      BY <2>2, <2>3, <2>6, <3>1, <3>2, MarkAssumption DEF Excused, Answered
  <2>8. CASE FailRefusal
    BY <2>3, <2>5, <2>6, <2>8 DEF FailRefusal, Excused, Journal, Refusal
  <2> QED
    BY <2>4, <2>7, <2>8
<1> QED
  BY <1>1, <1>2, <1>3

\* A line is appended for the highest number.
LEMMA BrokerOrdered ==
  ASSUME TypeOK, Slots, Progress, Journal, SlotLeavesEvent, BrokerAct,
         NEW i \in DOMAIN events', NEW j \in DOMAIN events', i < j
  PROVE  Ordered(i, j)'
<1>0. /\ Len(events) \in Nat /\ DOMAIN events = 1 .. Len(events)
      /\ \A n \in DOMAIN events : events[n] \in Event /\ events[n].id \in Nat
      /\ processed \in Nat
  BY Numbers
<1>1. CASE i \in DOMAIN events /\ j \in DOMAIN events
  <2>1. /\ events'[i] = events[i] /\ events'[j].id = events[j].id
        /\ events'[j].answered = events[j].answered
    <3>1. i # Len(events)
      BY <1>0, <1>1
    <3> QED
      BY <1>1, <3>1, EventsGrow
  <2>2. Ordered(i, j)
    BY <1>1 DEF SlotLeavesEvent, Ordered
  <2>3. CASE events[i].id < events[j].id
    BY <2>1, <2>3 DEF Ordered
  <2>4. CASE events[i].id = events[j].id
    <3>1. responses'[events[i].id] = responses[events[i].id]
      <4>1. events[i].id \in Id
        BY <1>0, <1>1 DEF Event
      <4>2. CASE bpc = "died"
        BY <4>2, ErrorsStay
      <4>3. CASE bpc # "died"
        BY <1>1, <2>4, <4>1, <4>3, Twice, OtherSlots
      <4> QED
        BY <4>2, <4>3
    <3> QED
      BY <1>0, <1>1, <2>1, <2>2, <2>4, <3>1, ErrorsStay DEF Ordered
  <2> QED
    BY <2>2, <2>3, <2>4 DEF Ordered
<1>2. CASE ~(i \in DOMAIN events /\ j \in DOMAIN events)
  <2>1. AppendEvent \/ AppendRefusal \/ FailRequest \/ FailRefusal
    BY <1>2, LogFrame
  <2>2. PICK e \in Event : /\ Adds(e) /\ e.id = processed
                           /\ bpc # "event" => (e.answered <=> bpc = "refused")
    BY <1>2, <2>1, LogStep, GluedEvent DEF Spoils
  <2>3. bpc \in {"event", "refused", "unanswered"}
    BY <1>2, <2>1, LogStep
  <2>4. /\ DOMAIN events' = 1 .. Len(events) + 1 /\ events'[Len(events) + 1] = e
        /\ \A n \in DOMAIN events : events'[n] = events[n]
    BY <2>2, LastEvent DEF Adds
  <2>5. j = Len(events) + 1 /\ i \in DOMAIN events
    BY <1>0, <1>2, <2>4
  <2>6. events'[j].id = processed /\ events'[i] = events[i]
    BY <2>2, <2>4, <2>5
  <2>7. CASE Unused
    BY <2>5, <2>6, <2>7 DEF Unused, Ordered
  <2>8. CASE Spent /\ bpc = "unanswered"
    <3>1. CASE i # Len(events)
      BY <2>5, <2>6, <2>8, <3>1 DEF Spent, UsedLast, Ordered
    <3>2. CASE i = Len(events)
      <4>1. ~e.answered
        BY <2>2, <2>8
      <4>2. UNCHANGED <<responses, errors>> /\ errors # {}
        BY <2>1, <2>8 DEF AppendEvent, AppendRefusal, FailRequest, FailRefusal, Journal, Refusal
      <4> QED
        BY <1>0, <2>4, <2>5, <2>6, <2>8, <3>2, <4>1, <4>2 DEF Spent, UsedLast, Ordered
    <3> QED
      BY <3>1, <3>2
  <2> QED
    BY <2>2, <2>3, <2>7, <2>8 DEF Journal, Adds, Cut
<1> QED
  BY <1>1, <1>2

\* The three parts together.
LEMMA BrokerLeaves ==
  ASSUME TypeOK, Slots, Progress, Journal, SlotLeavesEvent, BrokerAct
  PROVE  SlotLeavesEvent'
<1>1. \A k \in 1 .. Closed' : \E i \in DOMAIN events' : events'[i].id = k
  BY BrokerLeavesEvent
<1>2. \A i, j \in DOMAIN events' : i < j => Ordered(i, j)'
  BY BrokerOrdered
<1>3. \A i \in DOMAIN events' : ~events'[i].whole => Excused(i)'
  BY BrokerExcuses
<1> QED
  BY <1>1, <1>2, <1>3 DEF SlotLeavesEvent, Closed, Idle, Ordered, Excused

-----------------------------------------------------------------------------
(* A session without errors. *)

\* Without an error every closed slot went through all steps, so event k is of slot k.
LEMMA BrokerClean ==
  ASSUME TypeOK, Slots, Progress, Journal, Clean, BrokerAct
  PROVE  Clean'
<1> SUFFICES ASSUME errors' = {}
             PROVE  /\ Len(events') = IF bpc' \in Idle \cup {"classify"} THEN processed'
                                                                      ELSE processed' - 1
                    /\ \A k \in 1 .. Closed' : Commits(k)'
                    /\ bpc' = "classify" => /\ events'[processed'].whole /\ events'[processed'].raw
                                            /\ events'[processed'].source
                                                 = requests'[processed'].source
  BY DEF Clean, Closed
<1>0. /\ Len(events) \in Nat /\ DOMAIN events = 1 .. Len(events) /\ processed \in Nat
  BY Numbers
<1>1. errors = {} /\ bpc \notin Refusal /\ ~tornEvent
  BY ErrorsStay DEF Journal, Refusal
<1>2. /\ Len(events) = IF bpc \in Idle \cup {"classify"} THEN processed ELSE processed - 1
      /\ \A k \in 1 .. Closed : Commits(k)
      /\ bpc = "classify" => /\ events[processed].whole /\ events[processed].raw
                             /\ events[processed].source = requests[processed].source
  BY <1>1 DEF Clean, Closed
<1>3. \A k \in 1 .. Closed : Commits(k)'
  <2> TAKE k \in 1 .. Closed
  <2>1. k \in Id /\ k \in DOMAIN events /\ Commits(k)
    BY <1>0, <1>2 DEF Closed, Id, TypeOK
  <2>2. UNCHANGED requests /\ events'[k] = events[k] /\ responses'[k] = responses[k]
    BY <1>1, <2>1, BrokerFrame, EventsGrow, OtherSlots DEF Commits
  <2>3. raws'[k] = raws[k]
    BY <2>1, OtherSlots DEF Commits
  <2> QED
    BY <2>1, <2>2, <2>3 DEF Commits, Answered
<1>4. CASE Look
  BY <1>0, <1>2, <1>3, <1>4 DEF Look, Closed, Idle, private, log
<1>5. CASE Wait \/ CloseStart \/ Close
  BY <1>0, <1>2, <1>3, <1>5, BrokerFrame DEF Wait, CloseStart, Close, Closed, Idle, private, log
<1>6. CASE CaptureSource \/ ReadRequest \/ CopySource \/ Score \/ WriteRaw \/ OpenResponse
             \/ FillResponse
  <2>1. UNCHANGED <<events, processed>> /\ {bpc, bpc'} \cap (Idle \cup {"classify"}) = {}
    BY <1>6 DEF CaptureSource, ReadRequest, CopySource, Score, WriteRaw, OpenResponse,
         FillResponse, Raise, Idle, private, log
  <2> QED
    BY <1>2, <1>3, <2>1 DEF Closed
<1>7. CASE AppendEvent
  <2>1. bpc = "event" /\ SlotEvent \in Event
    BY <1>7, EventTypes DEF AppendEvent
  <2>2. events' = Append(events, SlotEvent)
    BY <1>1, <1>7 DEF AppendEvent, AddLine
  <2>3. /\ Len(events') = Len(events) + 1 /\ events'[Len(events) + 1] = SlotEvent
        /\ SlotEvent.whole /\ SlotEvent.raw /\ SlotEvent.source = snapshots[processed]
    BY <2>1, <2>2, LastEvent DEF SlotEvent
  <2>4. /\ UNCHANGED <<processed, requests>> /\ bpc = "event" /\ bpc' = "classify"
        /\ snapshots[processed] = requests[processed].source
    BY <1>7, BrokerFrame DEF AppendEvent, Progress, Scored
  <2>5. Len(events) + 1 = processed
    BY <1>0, <1>2, <2>4 DEF Idle
  <2> QED
    BY <1>3, <2>3, <2>4, <2>5 DEF Closed, Idle
<1>8. CASE Classify
  <2>1. outcome \in {"complete", "candidate"}
    BY <1>8 DEF Classify, Progress, Scored, Outcome
  <2>2. /\ raws[processed] = outcome /\ processed \in Id
        /\ responses[processed] = [source |-> requests[processed].source, status |-> outcome]
    BY <1>8, <2>1, OpenSlot DEF Classify, Progress, Scored, Idle, Status
  <2>3. Answered(processed)
    BY <1>8, <2>1, <2>2, OpenSlot, MarkAssumption
       DEF Classify, Answered, Answer, Status, Idle
  <2>4. Commits(processed)
    BY <1>2, <1>8, <2>1, <2>2, <2>3 DEF Classify, Commits
  <2>5. UNCHANGED <<events, processed, responses, raws, requests>> /\ bpc' = "look"
    BY <1>8, BrokerFrame DEF Classify, private, log
  <2>6. Commits(processed)'
    BY <2>4, <2>5 DEF Commits, Answered
  <2>7. Closed = processed - 1 /\ Closed' = processed
    BY <1>8, <2>5 DEF Classify, Closed, Idle
  <2> QED
    BY <1>0, <1>2, <1>3, <1>8, <2>5, <2>6, <2>7 DEF Classify, Idle
<1>9. ~(Refuse \/ Refill \/ AppendRefusal \/ FailRequest \/ FailRefusal)
  BY <1>1 DEF Refuse, Refill, AppendRefusal, FailRequest, FailRefusal, Raise, Refusal
<1> QED
  BY <1>4, <1>5, <1>6, <1>7, <1>8, <1>9 DEF BrokerAct, Slot

-----------------------------------------------------------------------------
(* The agent and its helpers. *)

\* Requests that are there stay as they are, and the broker's invariants speak of no others.
LEMMA AgentKeeps ==
  ASSUME TypeOK, Slots, Progress, AnswerIsForRequestedSource, Journal, SlotLeavesEvent, Clean,
         AgentAct
  PROVE  (Slots /\ Progress /\ AnswerIsForRequestedSource /\ Journal /\ SlotLeavesEvent /\ Clean)'
<1>1. /\ UNCHANGED <<responses, bpc, processed, errors, outcome, snapshots, scored, raws, events,
                    tornEvent, faults>>
      /\ \A k \in Id : requests[k] # Absent => requests'[k] = requests[k]
  BY AgentFrame
<1>2. \A k \in Id : k <= processed => requests'[k] = requests[k]
  BY <1>1 DEF Slots
<1>3. bpc \notin Idle => requests'[processed] = requests[processed]
  BY <1>2, OpenSlot DEF TypeOK
<1>4. Slots'
  BY <1>1, <1>2 DEF Slots
<1>5. Progress'
  <2>1. CASE bpc \notin Idle
    BY <1>1, <1>3, <2>1 DEF Progress
  <2>2. CASE bpc \in Idle
    BY <1>1, <2>2 DEF Progress, Idle, Before, Scored
  <2> QED
    BY <2>1, <2>2
<1>6. AnswerIsForRequestedSource'
  <2>1. \A k \in Id : Answered(k) => requests'[k] = requests[k]
    BY <1>2 DEF Slots, Answered
  <2> QED
    BY <1>1, <2>1 DEF AnswerIsForRequestedSource, Answered
<1>7. Journal' /\ SlotLeavesEvent'
  BY <1>1 DEF Journal, Unused, UsedLast, Spent, Cut, Answered, SlotLeavesEvent
<1>8. Clean'
  <2>1. \A k \in 1 .. Closed : requests'[k] = requests[k]
    BY <1>2, Numbers DEF Closed, Id, TypeOK
  <2>2. (\A k \in 1 .. Closed : Commits(k)) => \A k \in 1 .. Closed : Commits(k)'
    BY <1>1, <2>1 DEF Commits, Answered
  <2>3. Closed' = Closed
    BY <1>1 DEF Closed
  <2>4. bpc = "classify" => requests'[processed] = requests[processed]
    BY <1>3 DEF Idle
  <2> QED
    BY <1>1, <2>2, <2>3, <2>4 DEF Clean, Closed
<1> QED
  BY <1>4, <1>5, <1>6, <1>7, <1>8

\* A helper that polls has published its request.
LEMMA Published ==
  ASSUME TypeOK, Owners, NEW h \in Helper, hpc[h] \in {"poll", "returned"}
  PROVE  hid[h] \in Id /\ requests[hid[h]] # Absent
<1>1. hid[h] \in Id /\ requests[hid[h]] = [source |-> hsource[h]]
  BY DEF Owners
<1>2. [source |-> hsource[h]] \in Request
  BY DEF TypeOK, Request
<1> QED
  BY <1>1, <1>2, MarkAssumption

\* What each step of the agent's side does to the helpers.
LEMMA AgentOwners ==
  ASSUME TypeOK, Slots, Owners, AgentAct
  PROVE  Owners'
<1> USE DEF Owners
<1>0. /\ UNCHANGED responses
      /\ \A k \in Id : requests[k] # Absent => requests'[k] = requests[k]
  BY AgentFrame
<1>1. \A h \in Helper : hpc[h] \in {"poll", "returned"} => requests'[hid[h]] = requests[hid[h]]
  BY <1>0, Published
<1>2. CASE Edit \/ WriteByHand
  BY <1>0, <1>1, <1>2 DEF Edit, WriteByHand, helperVars, Answered
<1>3. CASE AgentEnds
  <2>1. \A h \in Helper : hpc'[h] = hpc[h] \/ hpc'[h] = "killed"
    BY <1>3 DEF AgentEnds
  <2>2. UNCHANGED <<hid, hsource, hanswer>>
    BY <1>3 DEF AgentEnds
  <2> QED
    BY <1>0, <1>1, <2>1, <2>2 DEF Answered
<1>4. ASSUME NEW h \in Helper, HelperStep(h) PROVE Owners'
  <2>1. CASE Prepare(h)
    <3>1. PICK number \in 1 .. MaxRequests + 2 :
            IF number > MaxRequests \/ source = Missing
            THEN hpc' = [hpc EXCEPT ![h] = "failed"] /\ UNCHANGED <<hid, hsource>>
            ELSE /\ hpc' = [hpc EXCEPT ![h] = "link"]
                 /\ hid' = [hid EXCEPT ![h] = number]
                 /\ hsource' = [hsource EXCEPT ![h] = source]
      BY <2>1 DEF Prepare
    <3>2. UNCHANGED hanswer
      BY <2>1 DEF Prepare
    <3>3. \A other \in Helper \ {h} : /\ hpc'[other] = hpc[other] /\ hid'[other] = hid[other]
                                      /\ hsource'[other] = hsource[other]
      BY <3>1 DEF TypeOK
    <3>4. hpc'[h] = "failed" \/ (hpc'[h] = "link" /\ hid'[h] \in Id)
      <4>1. CASE number > MaxRequests \/ source = Missing
        <5>1. hpc' = [hpc EXCEPT ![h] = "failed"]
          BY <3>1, <4>1
        <5> QED
          BY <5>1 DEF TypeOK
      <4>2. CASE ~(number > MaxRequests \/ source = Missing)
        <5>1. number \in Id
          BY <4>2 DEF Id
        <5>2. hpc' = [hpc EXCEPT ![h] = "link"] /\ hid' = [hid EXCEPT ![h] = number]
          BY <3>1, <4>2
        <5> QED
          BY <5>1, <5>2 DEF TypeOK
      <4> QED
        BY <4>1, <4>2
    <3> QED
      BY <1>0, <1>1, <3>2, <3>3, <3>4 DEF Answered
  <2>2. CASE LinkRequest(h)
    <3>1. /\ UNCHANGED <<hid, hsource, hanswer>> /\ hpc[h] = "link"
          /\ \A other \in Helper \ {h} : hpc'[other] = hpc[other]
      BY <2>2 DEF LinkRequest, TypeOK
    <3>2. CASE requests[hid[h]] = Absent
      <4>1. hpc'[h] = "poll" /\ requests'[hid[h]] = [source |-> hsource[h]]
        <5>1. hid[h] \in Number
          BY <3>1, Ids
        <5> QED
          BY <2>2, <3>1, <3>2, <5>1 DEF LinkRequest, TypeOK
      <4>2. \A other \in Helper : hpc[other] \in {"poll", "returned"} => hid[other] # hid[h]
        BY <3>2, Published
      <4> QED
        BY <1>0, <1>1, <3>1, <4>1, <4>2 DEF Answered
    <3>3. CASE requests[hid[h]] # Absent
      <4>1. hpc'[h] = "failed"
        BY <2>2, <3>3 DEF LinkRequest, TypeOK
      <4> QED
        BY <1>0, <1>1, <3>1, <4>1 DEF Answered
    <3> QED
      BY <3>2, <3>3
  <2>3. CASE ReadResponse(h)
    <3>1. /\ UNCHANGED <<hid, hsource, requests>> /\ hpc[h] = "poll"
          /\ \A other \in Helper \ {h} : /\ hpc'[other] = hpc[other]
                                         /\ hanswer'[other] = hanswer[other]
      BY <2>3 DEF ReadResponse, TypeOK
    <3>2. \/ hpc'[h] = "failed"
          \/ hpc'[h] = "returned" /\ Answered(hid[h]) /\ hanswer'[h] = responses[hid[h]]
      BY <2>3 DEF ReadResponse, TypeOK, Answered
    <3> QED
      BY <1>0, <3>1, <3>2 DEF Answered
  <2>4. CASE HelperTimeout(h)
    <3>1. /\ UNCHANGED <<hid, hsource, hanswer, requests>> /\ hpc'[h] = "failed"
          /\ \A other \in Helper \ {h} : hpc'[other] = hpc[other]
      BY <2>4 DEF HelperTimeout, TypeOK
    <3> QED
      BY <1>0, <3>1 DEF Answered
  <2> QED
    BY <1>4, <2>1, <2>2, <2>3, <2>4 DEF HelperStep
<1> QED
  BY <1>2, <1>3, <1>4 DEF AgentAct

\* An answer a helper has read is final.
LEMMA BrokerOwners ==
  ASSUME TypeOK, Slots, Progress, Owners, BrokerAct
  PROVE  Owners'
<1>1. UNCHANGED <<hpc, hid, hsource, hanswer, requests>>
  BY BrokerFrame
<1>2. \A k \in Id : Answered(k) => responses'[k] = responses[k]
  BY OtherSlots
<1> QED
  BY <1>1, <1>2 DEF Owners, Answered

\* Nothing of the agent's side runs after its end.
LEMMA AgentCloses ==
  ASSUME TypeOK, Closing, AgentAct
  PROVE  Closing'
<1>0. UNCHANGED <<bpc, processed, errors, stop, summary>>
  BY AgentFrame
<1>1. CASE agent = "running" /\ UNCHANGED agent
  BY <1>0, <1>1 DEF Closing
<1>2. CASE AgentEnds
  <2>1. \A h \in Helper : hpc'[h] \in {"returned", "failed", "killed"}
    BY <1>2 DEF AgentEnds
  <2> QED
    BY <1>0, <1>2, <2>1 DEF AgentEnds, Closing
<1>3. AgentAct => agent = "running"
  BY DEF AgentAct, Edit, WriteByHand, AgentEnds, HelperStep, Prepare, LinkRequest, ReadResponse,
         HelperTimeout, Closing, TypeOK
<1>4. AgentAct => AgentEnds \/ UNCHANGED agent
  BY DEF AgentAct, Edit, WriteByHand, HelperStep, Prepare, LinkRequest, ReadResponse,
         HelperTimeout, agentVars
<1> QED
  BY <1>1, <1>2, <1>3, <1>4

\* The summary is written last.
LEMMA BrokerCloses ==
  ASSUME TypeOK, Closing, BrokerAct
  PROVE  Closing'
<1>0. UNCHANGED <<agent, hpc, requests>>
  BY BrokerFrame
<1>1. CASE CloseStart
  BY <1>0, <1>1 DEF CloseStart, Closing, Issued
<1>2. CASE Close
  BY <1>0, <1>2 DEF Close, Closing, Issued
<1>3. CASE bpc \notin {"done", "died"} /\ UNCHANGED <<stop, summary>>
  BY <1>0, <1>3 DEF Closing
<1> QED
  BY <1>1, <1>2, <1>3
     DEF BrokerAct, Slot, Look, Wait, CaptureSource, ReadRequest, CopySource, Score, WriteRaw,
         OpenResponse, FillResponse, AppendEvent, Classify, Refuse, Refill, AppendRefusal,
         FailRequest, FailRefusal

-----------------------------------------------------------------------------
(* The invariant holds. *)

\* The invariant holds at first ...
LEMMA InvariantInit == Init => IInv
<1> SUFFICES ASSUME Init PROVE IInv
  OBVIOUS
<1>1. TypeOK
  <2>1. {MaxEdits, MaxByHand, MaxFaults, MaxRequests} \subseteq Nat
    OBVIOUS
  <2>2. /\ edits \in 0 .. MaxEdits /\ byHand \in 0 .. MaxByHand /\ faults \in 0 .. MaxFaults
        /\ processed \in 0 .. MaxRequests
    BY <2>1 DEF Init
  <2>3. /\ source \in Content \cup {Missing} /\ agent \in {"running", "dead"}
        /\ errors \subseteq {"timeout", "other"} /\ outcome \in Outcome \cup {None}
        /\ stop \in BOOLEAN /\ bpc \in BrokerPC
        /\ summary \in {"none", "complete", "protocol_error", "ambiguous"}
    BY DEF Init, BrokerPC
  <2>4. /\ hpc \in [Helper -> {"ready", "link", "poll", "returned", "failed", "killed"}]
        /\ hid \in [Helper -> 0 .. MaxRequests]
        /\ hsource \in [Helper -> Content \cup {None}]
        /\ hanswer \in [Helper -> Answer \cup {None}]
    BY DEF Init
  <2>6. requests \in [Number -> Request \cup {Absent}]
    BY DEF Init
  <2>5. /\ responses \in [Id -> Answer \cup {Absent, Partial}]
        /\ snapshots \in [Id -> Content \cup {Absent}]
        /\ scored \in [Id -> Content \cup {Absent}]
        /\ raws \in [Id -> Outcome \cup {Absent}]
    BY DEF Init
  <2>7. events = <<>> /\ tornEvent = FALSE
    BY DEF Init
  <2>8. events \in Seq(Event)
    BY <2>7
  <2>9. tornEvent \in BOOLEAN
    BY <2>7
  <2> QED
    BY <2>2, <2>3, <2>4, <2>5, <2>6, <2>8, <2>9 DEF TypeOK
<1>2. DOMAIN events = {} /\ Len(events) = 0
  BY DEF Init
<1>3. Slots /\ Progress
  BY DEF Init, Slots, Progress, Idle, Before, Scored, Id
<1>4. AnswerIsForRequestedSource /\ Journal /\ SlotLeavesEvent /\ Clean
  BY <1>2 DEF Init, AnswerIsForRequestedSource, Answered, Journal, Before, Refusal,
              SlotLeavesEvent, Clean, Idle
<1>5. Closing /\ Owners
  BY DEF Init, Closing, Owners
<1> QED
  BY <1>1, <1>3, <1>4, <1>5 DEF IInv, Core

\* ... and every step keeps it.
LEMMA InvariantStep == IInv /\ [Next]_vars => IInv'
<1> SUFFICES ASSUME IInv, [Next]_vars PROVE IInv'
  OBVIOUS
<1> USE DEF IInv, Core
<1>1. CASE AgentAct
  BY <1>1, AgentTypes, AgentKeeps, AgentCloses, AgentOwners
<1>2. CASE BrokerAct
  BY <1>2, BrokerTypes, BrokerSlots, BrokerProgress, BrokerAnswers, BrokerJournal, BrokerLeaves,
     BrokerClean, BrokerCloses, BrokerOwners
<1>3. CASE UNCHANGED vars
  BY <1>3 DEF vars, agentVars, helperVars, private, log, TypeOK, Slots, Progress,
     AnswerIsForRequestedSource, Answered, Journal, Unused, UsedLast, Spent, Cut, SlotLeavesEvent,
     Clean, Commits, Closing, Issued, Owners
<1> QED
  BY <1>1, <1>2, <1>3, Kinds

\* So it holds in every reachable state.
THEOREM Invariance == Spec => []IInv
BY InvariantInit, InvariantStep, PTL DEF Spec

-----------------------------------------------------------------------------
(* The properties of the runs. *)

\* The state of the session keeps its types; no helper takes a number above the
\* limit.
THEOREM TypeCorrect == Spec => []TypeOK
<1>1. IInv => TypeOK
  BY DEF IInv, Core
<1> QED
  BY <1>1, Invariance, PTL

\* An answer about a source is about the one requested, snapshotted and scored, however the
\* agent edits.
THEOREM AnswersRequestedSource == Spec => []AnswerIsForRequestedSource
<1>1. IInv => AnswerIsForRequestedSource
  BY DEF IInv
<1> QED
  BY <1>1, Invariance, PTL

\* One helper at most returns with a slot's answer, and it is for the source it hashed.
THEOREM OneHelperPerAnswer == Spec => []AnswerReachesItsHelper
<1>1. IInv => AnswerReachesItsHelper
  <2> SUFFICES ASSUME IInv, NEW h \in Helper, hpc[h] = "returned"
               PROVE  /\ hanswer[h] = responses[hid[h]]
                      /\ requests[hid[h]].source = hsource[h]
                      /\ \A other \in Helper \ {h} : hpc[other] = "returned" => hid[other] # hid[h]
    BY DEF AnswerReachesItsHelper
  <2>1. hanswer[h] = responses[hid[h]]
    BY DEF IInv, Owners
  <2>2. requests[hid[h]] = [source |-> hsource[h]]
    BY DEF IInv, Owners
  <2>3. \A other \in Helper \ {h} : hpc[other] = "returned" => hid[other] # hid[h]
    BY DEF IInv, Owners
  <2> QED
    BY <2>1, <2>2, <2>3
<1> QED
  BY <1>1, Invariance, PTL

\* Every slot consumed has its line in the journal, in order, whatever failed in it; one that cannot be
\* read was cut off in a write that failed, behind an answer that was complete or at the broker's end.
THEOREM SlotsLeaveEvents == Spec => []SlotLeavesEvent
<1>1. IInv => SlotLeavesEvent
  BY DEF IInv
<1> QED
  BY <1>1, Invariance, PTL

\* A session summarised as complete has answered every request file there is, under whatever number, and
\* committed it in a line of its own.
THEOREM CompleteIsCommitted == Spec => []CompleteSessionIsCommitted
<1>1. ASSUME IInv, summary = "complete", NEW k \in Issued
      PROVE  /\ k \in Id /\ Answered(k) /\ responses[k].status \in {"complete", "candidate"}
             /\ raws[k] = responses[k].status
             /\ k <= Len(events) /\ events[k].whole
             /\ events[k].raw /\ events[k].source = requests[k].source
  <2>1. errors = {} /\ bpc = "done" /\ k \in 1 .. processed
    BY <1>1 DEF IInv, Closing, Journal, Refusal
  <2>2. Len(events) = processed /\ Commits(k)
    BY <1>1, <2>1 DEF IInv, Clean, Idle
  <2> QED
    BY <1>1, <2>1, <2>2 DEF Commits, Issued, Id, IInv, Core, TypeOK
<1>2. IInv => CompleteSessionIsCommitted
  BY <1>1 DEF CompleteSessionIsCommitted
<1> QED
  BY <1>2, Invariance, PTL

-----------------------------------------------------------------------------
(* The broker implements FeedbackService. *)

Asked == [k \in Id |-> IF requests[k] = Absent THEN None ELSE requests[k]]
Given == [k \in Id |-> IF ~Answered(k) THEN Absent
                       ELSE IF responses[k].source = None THEN Missing
                       ELSE [source |-> responses[k].source]]

\* The broker starts as the service does.
LEMMA ServiceInit == Init => Service!Init
BY Ids DEF Init, Service!Init, Answered, Id

\* A request file that appears is a slot that is asked.
LEMMA AskStep ==
  ASSUME TypeOK, NEW k \in Id, NEW request \in Request, requests[k] = Absent,
         requests' = [requests EXCEPT ![k] = request]
  PROVE  Asked[k] = None /\ Asked' = [Asked EXCEPT ![k] = request]
<1>1. Asked[k] = None
  BY DEF Asked
<1>2. \A j \in Id : Asked'[j] = IF j = k THEN request ELSE Asked[j]
  BY Ids, MarkAssumption DEF Asked, TypeOK
<1> QED
  BY <1>1, <1>2 DEF Asked

\* The agent's side asks, and does nothing else to the service.
LEMMA AgentService ==
  ASSUME TypeOK, Owners, AgentAct
  PROVE  Given' = Given /\ processed' = processed
         /\ (Asked' = Asked \/ \E k \in Id, request \in Request :
               Asked[k] = None /\ Asked' = [Asked EXCEPT ![k] = request])
<1>1. Given' = Given /\ processed' = processed
  BY AgentFrame DEF Given, Answered
<1>2. CASE UNCHANGED requests
  BY <1>1, <1>2 DEF Asked
<1>3. CASE WriteByHand
  <2>1. PICK k \in Number, request \in Request :
          requests[k] = Absent /\ requests' = [requests EXCEPT ![k] = request]
    BY <1>3 DEF WriteByHand
  <2>2. CASE k \in Id
    BY <1>1, <2>1, <2>2, AskStep
  <2>3. CASE k \notin Id
    <3>1. \A j \in Id : requests'[j] = requests[j]
      BY <2>1, <2>3, Ids DEF TypeOK
    <3> QED
      BY <1>1, <3>1 DEF Asked
  <2> QED
    BY <2>2, <2>3
<1>4. ASSUME NEW h \in Helper, LinkRequest(h), requests' # requests
      PROVE  \E k \in Id, request \in Request :
               Asked[k] = None /\ Asked' = [Asked EXCEPT ![k] = request]
  <2>1. /\ requests[hid[h]] = Absent
        /\ requests' = [requests EXCEPT ![hid[h]] = [source |-> hsource[h]]]
    BY <1>4 DEF LinkRequest
  <2>2. hid[h] \in Id
    BY <1>4 DEF LinkRequest, Owners
  <2>3. [source |-> hsource[h]] \in Request
    BY DEF TypeOK, Request
  <2> QED
    BY <2>1, <2>2, <2>3, AskStep
<1>5. AgentAct => UNCHANGED requests \/ WriteByHand \/ \E h \in Helper : LinkRequest(h)
  BY DEF AgentAct, Edit, AgentEnds, HelperStep, Prepare, ReadResponse, HelperTimeout
<1> QED
  BY <1>1, <1>2, <1>3, <1>4, <1>5

\* The broker takes slots up, answers the last one once, and does nothing else to the service.
LEMMA BrokerService ==
  ASSUME TypeOK, Slots, Progress, BrokerAct
  PROVE  /\ Asked' = Asked
         /\ \/ Given' = Given /\ processed' = processed
            \/ /\ Given' = Given /\ processed' = processed + 1
               /\ processed < MaxRequests /\ Asked[processed + 1] # None
            \/ /\ processed' = processed /\ processed > 0 /\ Given[processed] = Absent
               /\ \/ Given' = [Given EXCEPT ![processed] = Missing]
                  \/ Given' = [Given EXCEPT ![processed] = Asked[processed]]
<1>1. Asked' = Asked
  BY BrokerFrame DEF Asked
<1>2. ASSUME ~FillResponse, ~Refill PROVE Given' = Given
  <2>1. \A k \in Id : Answered(k)' <=> Answered(k)
    <3>1. \A k \in Id : Answered(k) => Answered(k)'
      BY OtherSlots DEF Answered
    <3> QED
      BY <1>2, <3>1, NewAnswer
  <2>2. \A k \in Id : Answered(k) => responses'[k] = responses[k]
    BY OtherSlots
  <2> QED
    BY <2>1, <2>2 DEF Given
<1>3. CASE ~FillResponse /\ ~Refill /\ processed' = processed
  BY <1>1, <1>2, <1>3
<1>4. CASE processed' # processed
  <2>1. Look /\ bpc' = "capture" /\ processed' = processed + 1 /\ requests[processed + 1] # Absent
    BY <1>4, NextNumber
  <2>2. processed < MaxRequests /\ processed + 1 \in Id
    BY <2>1 DEF Look, TypeOK, Id
  <2>3. Asked[processed + 1] # None
    <3>1. requests[processed + 1] \in Request
      BY <2>1, <2>2, Ids DEF TypeOK
    <3> QED
      BY <2>1, <2>2, <3>1, MarkAssumption DEF Asked
  <2>4. Given' = Given
    BY <2>1, <1>2 DEF Look, FillResponse, Refill
  <2> QED
    BY <1>1, <2>1, <2>2, <2>3, <2>4
<1>5. CASE FillResponse \/ Refill
  <2>1. /\ UNCHANGED processed /\ processed \in Id /\ processed > 0
        /\ requests[processed] \in Request /\ responses[processed] = Partial
    BY <1>5, OpenSlot DEF FillResponse, Refill, Idle, Progress, Id
  <2>2. Given[processed] = Absent
    BY <2>1 DEF Given, Answered
  <2>3. \A k \in Id \ {processed} : responses'[k] = responses[k]
    BY OtherSlots
  <2>4. \A k \in Id \ {processed} : Given'[k] = Given[k]
    BY <2>3 DEF Given, Answered
  <2>5. responses'[processed] \in Answer
    <3>1. CASE Refill
      BY <2>1, <3>1 DEF Refill, TypeOK, Answer, Status
    <3>2. CASE FillResponse
      <4>1. responses'[processed] =
              [source |-> requests[processed].source,
               status |-> IF outcome \in Status THEN outcome ELSE "error"]
        BY <2>1, <3>2 DEF FillResponse, TypeOK
      <4> QED
        BY <2>1, <4>1 DEF Request, Answer, Status
    <3> QED
      BY <1>5, <3>1, <3>2
  <2>6. Answered(processed)'
    BY <2>1, <2>5, MarkAssumption DEF Answered
  <2>7. CASE Refill
    <3>1. responses'[processed].source = None
      BY <2>1, <2>7 DEF Refill, TypeOK
    <3>2. Given'[processed] = Missing
      BY <2>1, <2>6, <3>1 DEF Given
    <3>3. Given' = [Given EXCEPT ![processed] = Missing]
      BY <2>1, <2>4, <3>2 DEF Given
    <3> QED
      BY <1>1, <2>1, <2>2, <3>3
  <2>8. CASE FillResponse
    <3>1. responses'[processed].source = requests[processed].source
      BY <2>1, <2>8 DEF FillResponse, TypeOK
    <3>2. Asked[processed] = requests[processed]
      BY <2>1, MarkAssumption DEF Asked
    <3>3. requests[processed] = [source |-> requests[processed].source]
      BY <2>1 DEF Request
    <3>4. Given'[processed] \in {Missing, Asked[processed]}
      BY <2>1, <2>6, <3>1, <3>2, <3>3 DEF Given
    <3>5. \/ Given' = [Given EXCEPT ![processed] = Missing]
          \/ Given' = [Given EXCEPT ![processed] = Asked[processed]]
      BY <2>1, <2>4, <3>4 DEF Given
    <3> QED
      BY <1>1, <2>1, <2>2, <3>5
  <2> QED
    BY <1>5, <2>7, <2>8
<1> QED
  BY <1>3, <1>4, <1>5

\* Every step of the session is a step of the service or none.
LEMMA ServiceStep ==
  IInv /\ [Next]_vars => [Service!Next]_<<Asked, Given, processed>>
<1> SUFFICES ASSUME IInv, [Next]_vars PROVE [Service!Next]_<<Asked, Given, processed>>
  OBVIOUS
<1>1. CASE AgentAct
  <2>1. CASE UNCHANGED <<Asked, Given, processed>>
    BY <2>1
  <2>2. CASE \E k \in Id, request \in Request :
               Asked[k] = None /\ Asked' = [Asked EXCEPT ![k] = request]
    <3>1. \E k \in 1 .. MaxRequests : Service!Ask(k)
      BY <1>1, <2>2, AgentService DEF IInv, Core, Service!Ask, Asked, Given, Id
    <3> QED
      BY <3>1 DEF Service!Next
  <2> QED
    BY <1>1, <2>1, <2>2, AgentService DEF IInv, Core
<1>2. CASE BrokerAct
  <2>1. TypeOK /\ Slots /\ Progress
    BY DEF IInv, Core
  <2>2. CASE UNCHANGED <<Asked, Given, processed>>
    BY <2>2
  <2>3. CASE /\ Asked' = Asked /\ Given' = Given /\ processed' = processed + 1
             /\ processed < MaxRequests /\ Asked[processed + 1] # None
    <3>1. Service!TakeUp
      BY <2>3 DEF Service!TakeUp, Asked, Given
    <3> QED
      BY <3>1 DEF Service!Next
  <2>4. CASE /\ Asked' = Asked /\ processed' = processed /\ processed > 0
             /\ Given[processed] = Absent
             /\ \/ Given' = [Given EXCEPT ![processed] = Missing]
                \/ Given' = [Given EXCEPT ![processed] = Asked[processed]]
    <3>1. Service!Answer
      BY <2>4 DEF Service!Answer, Asked, Given
    <3> QED
      BY <3>1 DEF Service!Next
  <2> QED
    BY <1>2, <2>1, <2>2, <2>3, <2>4, BrokerService
<1>3. CASE UNCHANGED vars
  BY <1>3 DEF vars, agentVars, helperVars, Asked, Given, Answered
<1> QED
  BY <1>1, <1>2, <1>3, Kinds

\* The feedback session implements the service it promises: slots in order, one final answer each.
THEOREM ServiceRefined == Spec => AnswersInOrder
<1>1. Spec => Service!Init /\ [][Service!Next]_<<Asked, Given, processed>>
  BY ServiceInit, ServiceStep, Invariance, PTL DEF Spec
<1> QED
  BY <1>1, PTL DEF AnswersInOrder, Service!Spec, Asked, Given
=============================================================================
