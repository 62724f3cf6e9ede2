------------------------------- MODULE Feedback -------------------------------
(***************************************************************************)
(* Public feedback during a brokered run: the helper processes that the    *)
(* agent starts (tasks/gdr_native_optimization_v3/feedback_helper.py), the *)
(* request and response files they share with the host, and the broker     *)
(* thread (live_feedback.LiveFeedbackBroker with boundary.process_request) *)
(* with its private snapshots, raw results and event journal.              *)
(*                                                                         *)
(* A source is the content of kernel.hip and stands for its hash; Missing  *)
(* is a workspace that validate_source_tree refuses.  Copying one file is  *)
(* one step: a copy torn by an edit is a source nobody requested, like the *)
(* edited one.                                                             *)
(*                                                                         *)
(* The event journal is a sequence of lines, each of the slot that began   *)
(* it.  Text appended after a line without a newline becomes part of that  *)
(* line, and neither can be read (whole = FALSE).                          *)
(***************************************************************************)
EXTENDS Naturals, Sequences, FiniteSets

CONSTANTS
  Helper,       \* the helper processes the agent may start
  Content,      \* sources that validate_source_tree accepts
  Starter,
  MaxRequests,  \* contract["max_feedback_requests"]
  MaxEdits,     \* bound: edits of the source
  MaxByHand,    \* bound: request files that no helper wrote
  MaxFaults,    \* bound: failed captures, reads and writes of the broker
  Missing, None, Absent, Partial

ASSUME FeedbackAssumption ==
  /\ MaxRequests \in Nat \ {0} /\ {MaxEdits, MaxByHand, MaxFaults} \subseteq Nat
  /\ Starter \in Content /\ Missing \notin Content /\ None \notin Content \cup {Missing}

Id     == 1 .. MaxRequests
Number == 1 .. MaxRequests + 1     \* the agent may also write files beyond the quota

VARIABLES
  source, agent,                 \* the workspace, and is the agent alive?
  hpc, hid, hsource, hanswer,    \* the helpers: what they asked, what they returned
  edits, byHand,
  requests, responses,           \* the shared files
  bpc, processed, errors, stop,  \* the broker's thread
  outcome,                       \* local: what score_public gave
  snapshots, scored, raws,       \* its private directory; what the scorer was given
  events, tornEvent,             \* the event journal; does its last line lack a newline?
  summary, faults

agentVars  == <<source, agent, edits, byHand>>
helperVars == <<hpc, hid, hsource, hanswer>>
log        == <<events, tornEvent>>
private    == <<snapshots, scored, raws, log>>
vars == <<agentVars, helperVars, requests, responses, bpc, processed, errors, stop, outcome,
          private, summary, faults>>

Request == [source : Content \cup {None}]     \* None: not what the schema asks for
Status  == {"complete", "candidate", "ambiguous", "error"}
Answer  == [source : Content \cup {None}, status : Status]
Event   == [id : Id, source : Content \cup {None}, raw : BOOLEAN, answered : BOOLEAN,
            whole : BOOLEAN]
Outcome == {"complete", "candidate", "ambiguous", "raised", "timeout", "malformed"}

ASSUME MarkAssumption ==
  /\ Absent \notin Request \cup Answer \cup Content /\ Partial \notin Answer
  /\ Absent # Partial /\ None \notin Request

BrokerPC == {"look", "wait", "capture", "read", "copy", "score", "raw", "open", "fill",
             "event", "classify", "refuse", "refill", "refused", "unanswered", "done", "died"}

TypeOK ==
  /\ source \in Content \cup {Missing} /\ agent \in {"running", "dead"}
  /\ hpc \in [Helper -> {"ready", "link", "poll", "returned", "failed", "killed"}]
  /\ hid \in [Helper -> 0 .. MaxRequests]
  /\ hsource \in [Helper -> Content \cup {None}]
  /\ hanswer \in [Helper -> Answer \cup {None}]
  /\ edits \in 0 .. MaxEdits /\ byHand \in 0 .. MaxByHand /\ faults \in 0 .. MaxFaults
  /\ requests \in [Number -> Request \cup {Absent}]
  /\ responses \in [Id -> Answer \cup {Absent, Partial}]
  /\ bpc \in BrokerPC /\ processed \in 0 .. MaxRequests
  /\ errors \subseteq {"timeout", "other"} /\ stop \in BOOLEAN
  /\ outcome \in Outcome \cup {None}
  /\ snapshots \in [Id -> Content \cup {Absent}]
  /\ scored \in [Id -> Content \cup {Absent}]
  /\ raws \in [Id -> Outcome \cup {Absent}]
  /\ events \in Seq(Event) /\ tornEvent \in BOOLEAN
  /\ summary \in {"none", "complete", "protocol_error", "ambiguous"}

Init ==
  /\ source = Starter /\ agent = "running"
  /\ hpc = [h \in Helper |-> "ready"] /\ hid = [h \in Helper |-> 0]
  /\ hsource = [h \in Helper |-> None] /\ hanswer = [h \in Helper |-> None]
  /\ edits = 0 /\ byHand = 0 /\ faults = 0
  /\ requests = [k \in Number |-> Absent] /\ responses = [k \in Id |-> Absent]
  /\ bpc = "look" /\ processed = 0 /\ errors = {} /\ stop = FALSE /\ outcome = None
  /\ snapshots = [k \in Id |-> Absent] /\ scored = [k \in Id |-> Absent]
  /\ raws = [k \in Id |-> Absent] /\ events = <<>> /\ tornEvent = FALSE
  /\ summary = "none"

-----------------------------------------------------------------------------
(* The agent's side. *)

Edit ==
  /\ agent = "running" /\ edits < MaxEdits
  /\ edits' = edits + 1
  /\ source' \in (Content \cup {Missing}) \ {source}
  /\ UNCHANGED <<agent, byHand, helperVars, requests, responses, bpc, processed, errors, stop,
                 outcome, private, summary, faults>>

\* A request file that the agent writes itself, under any number and with any content.
WriteByHand ==
  /\ agent = "running" /\ byHand < MaxByHand
  /\ byHand' = byHand + 1
  /\ \E k \in Number, request \in Request :
       /\ requests[k] = Absent
       /\ requests' = [requests EXCEPT ![k] = request]
  /\ UNCHANGED <<source, agent, edits, helperVars, responses, bpc, processed, errors, stop,
                 outcome, private, summary, faults>>

\* The agent's end takes its processes along.
AgentEnds ==
  /\ agent = "running"
  /\ agent' = "dead"
  /\ hpc' = [h \in Helper |-> IF hpc[h] \in {"returned", "failed"} THEN hpc[h] ELSE "killed"]
  /\ UNCHANGED <<source, edits, byHand, hid, hsource, hanswer, requests, responses, bpc,
                 processed, errors, stop, outcome, private, summary, faults>>

HostOnly == UNCHANGED <<responses, bpc, processed, errors, stop, outcome, private, summary,
                        faults>>

Issued == {k \in Number : requests[k] # Absent}

\* max(issued, default=0) + 1
IsNext(number) == number - 1 \in Issued \cup {0} /\ \A k \in Issued : k < number

\* Faulty variant: the helper does not know the limit.
PrepareUnlimited(h) ==
  /\ hpc[h] = "ready" /\ agent = "running" /\ source # Missing
  /\ \E number \in 1 .. MaxRequests + 2 :
       /\ IsNext(number)
       /\ hpc' = [hpc EXCEPT ![h] = "link"]
       /\ hid' = [hid EXCEPT ![h] = number]
       /\ hsource' = [hsource EXCEPT ![h] = source]
  /\ UNCHANGED <<agentVars, hanswer, requests>>
  /\ HostOnly

\* Take the next free number and hash the source.
Prepare(h) ==
  /\ hpc[h] = "ready" /\ agent = "running"
  /\ \E number \in 1 .. MaxRequests + 2 :
       /\ IsNext(number)
       /\ IF number > MaxRequests \/ source = Missing
          THEN hpc' = [hpc EXCEPT ![h] = "failed"] /\ UNCHANGED <<hid, hsource>>
          ELSE /\ hpc' = [hpc EXCEPT ![h] = "link"]
               /\ hid' = [hid EXCEPT ![h] = number]
               /\ hsource' = [hsource EXCEPT ![h] = source]
  /\ UNCHANGED <<agentVars, hanswer, requests>>
  /\ HostOnly

\* Faulty variant: os.replace instead of os.link.
ReplaceRequest(h) ==
  /\ hpc[h] = "link"
  /\ hpc' = [hpc EXCEPT ![h] = "poll"]
  /\ requests' = [requests EXCEPT ![hid[h]] = [source |-> hsource[h]]]
  /\ UNCHANGED <<agentVars, hid, hsource, hanswer>>
  /\ HostOnly

\* os.link fails when another process took the number since.
LinkRequest(h) ==
  /\ hpc[h] = "link"
  /\ IF requests[hid[h]] = Absent
     THEN /\ hpc' = [hpc EXCEPT ![h] = "poll"]
          /\ requests' = [requests EXCEPT ![hid[h]] = [source |-> hsource[h]]]
     ELSE hpc' = [hpc EXCEPT ![h] = "failed"] /\ UNCHANGED requests
  /\ UNCHANGED <<agentVars, hid, hsource, hanswer>>
  /\ HostOnly

\* A response that is being written is no JSON: the helper dies of it.
ReadResponse(h) ==
  /\ hpc[h] = "poll" /\ responses[hid[h]] # Absent
  /\ LET response == responses[hid[h]] IN
       IF response # Partial /\ response.source \in {hsource[h], None}
       THEN /\ hpc' = [hpc EXCEPT ![h] = "returned"]
            /\ hanswer' = [hanswer EXCEPT ![h] = response]
       ELSE hpc' = [hpc EXCEPT ![h] = "failed"] /\ UNCHANGED hanswer
  /\ UNCHANGED <<agentVars, hid, hsource, requests>>
  /\ HostOnly

\* --wait-seconds passed; the request stays.
HelperTimeout(h) ==
  /\ hpc[h] = "poll"
  /\ hpc' = [hpc EXCEPT ![h] = "failed"]
  /\ UNCHANGED <<agentVars, hid, hsource, hanswer, requests>>
  /\ HostOnly

-----------------------------------------------------------------------------
(* The broker's thread, slot by slot. *)

AgentSide == UNCHANGED <<agentVars, helperVars, requests>>

\* for request_id ...: is the next request there?
Look ==
  /\ bpc = "look"
  /\ IF processed = MaxRequests THEN bpc' = "done" /\ UNCHANGED processed
     ELSE IF requests[processed + 1] # Absent
     THEN bpc' = "capture" /\ processed' = processed + 1
     ELSE bpc' = "wait" /\ UNCHANGED processed
  /\ AgentSide
  /\ UNCHANGED <<responses, errors, stop, outcome, private, summary, faults>>

\* Faulty variants: the thread waits once; it never looks at the stop event.
WaitOnce ==
  /\ bpc = "wait"
  /\ bpc' = "done"
  /\ AgentSide
  /\ UNCHANGED <<responses, processed, errors, stop, outcome, private, summary, faults>>

WaitForever ==
  /\ bpc = "wait"
  /\ bpc' = "look"
  /\ AgentSide
  /\ UNCHANGED <<responses, processed, errors, stop, outcome, private, summary, faults>>

\* self._stop.wait(poll_seconds)
Wait ==
  /\ bpc = "wait"
  /\ bpc' = IF stop THEN "done" ELSE "look"
  /\ AgentSide
  /\ UNCHANGED <<responses, processed, errors, stop, outcome, private, summary, faults>>

\* An exception in the slot: its class is recorded and _reject answers.
Raise(class) ==
  /\ bpc' = "refuse"
  /\ errors' = errors \cup {class}

\* capture_source, which may raise (module Capture).
CaptureSource ==
  /\ bpc = "capture"
  /\ bpc' = "read"
  /\ AgentSide
  /\ UNCHANGED <<responses, processed, errors, stop, outcome, private, summary, faults>>

\* The request must name the source as it is now.
ReadRequest ==
  /\ bpc = "read"
  /\ IF source # Missing /\ requests[processed].source = source
     THEN bpc' = "copy" /\ UNCHANGED errors
     ELSE Raise("other")
  /\ AgentSide
  /\ UNCHANGED <<responses, processed, stop, outcome, private, summary, faults>>

\* Faulty variant: the copy is not compared with what was requested.
CopyUnchecked ==
  /\ bpc = "copy"
  /\ IF source = Missing
     THEN Raise("other") /\ UNCHANGED snapshots
     ELSE /\ snapshots' = [snapshots EXCEPT ![processed] = source]
          /\ bpc' = "score" /\ UNCHANGED errors
  /\ AgentSide
  /\ UNCHANGED <<responses, processed, stop, outcome, scored, raws, log, summary, faults>>

\* Copy the source, edited meanwhile perhaps, and compare the copy.
CopySource ==
  /\ bpc = "copy"
  /\ IF source = Missing
     THEN Raise("other") /\ UNCHANGED snapshots
     ELSE /\ snapshots' = [snapshots EXCEPT ![processed] = source]
          /\ IF source = requests[processed].source
             THEN bpc' = "score" /\ UNCHANGED errors
             ELSE Raise("other")
  /\ AgentSide
  /\ UNCHANGED <<responses, processed, stop, outcome, scored, raws, log, summary, faults>>

\* score_public returns a result or raises; every call it makes has a timeout.
Score ==
  /\ bpc = "score"
  /\ scored' = [scored EXCEPT ![processed] = snapshots[processed]]
  /\ outcome' \in Outcome
  /\ bpc' = "raw"
  /\ AgentSide
  /\ UNCHANGED <<responses, processed, errors, stop, snapshots, raws, log, summary, faults>>

\* The raw result is kept before sanitize_feedback may refuse it.
WriteRaw ==
  /\ bpc = "raw"
  /\ raws' = [raws EXCEPT ![processed] = outcome]
  /\ IF outcome = "malformed" THEN Raise("other") ELSE bpc' = "open" /\ UNCHANGED errors
  /\ AgentSide
  /\ UNCHANGED <<responses, processed, stop, outcome, snapshots, scored, log, summary, faults>>

\* open("x"): the file is visible before it has content.
OpenResponse ==
  /\ bpc = "open"
  /\ responses' = [responses EXCEPT ![processed] = Partial]
  /\ bpc' = "fill"
  /\ AgentSide
  /\ UNCHANGED <<processed, errors, stop, outcome, private, summary, faults>>

FillResponse ==
  /\ bpc = "fill"
  /\ responses' = [responses EXCEPT ![processed] =
       [source |-> requests[processed].source,
        status |-> IF outcome \in Status THEN outcome ELSE "error"]]
  /\ bpc' = "event"
  /\ AgentSide
  /\ UNCHANGED <<processed, errors, stop, outcome, private, summary, faults>>

\* The event commits all hashes.
SlotEvent == [id |-> processed, source |-> snapshots[processed], raw |-> TRUE, answered |-> TRUE,
              whole |-> TRUE]

\* The refusal's event knows neither source nor raw result.
RefusalEvent == [id |-> processed, source |-> None, raw |-> FALSE, answered |-> bpc = "refused",
                 whole |-> TRUE]

\* Text that follows a line without a newline makes one unreadable line of the two.
Glued == [events EXCEPT ![Len(events)].whole = FALSE]

\* open("a"); write(json + "\n")
AddLine(event) ==
  /\ events' = IF tornEvent THEN Glued ELSE Append(events, event)
  /\ tornEvent' = FALSE

\* A write that fails leaves nothing, part of the line, or all of it but the newline.
HalfLine(event) ==
  \/ UNCHANGED log
  \/ /\ tornEvent' = TRUE
     /\ events' \in IF tornEvent THEN {Glued}
                   ELSE {Append(events, event), Append(events, [event EXCEPT !.whole = FALSE])}

AppendEvent ==
  /\ bpc = "event"
  /\ AddLine(SlotEvent)
  /\ bpc' = "classify"
  /\ AgentSide
  /\ UNCHANGED <<responses, processed, errors, stop, outcome, snapshots, scored, raws, summary,
                 faults>>

\* _run records the class of an error, read back from the raw result, or of a timeout.
Classify ==
  /\ bpc = "classify"
  /\ errors' = errors \cup (IF outcome \in {"timeout", "ambiguous"} THEN {"timeout"}
                            ELSE IF outcome = "raised" THEN {"other"} ELSE {})
  /\ bpc' = "look" /\ outcome' = None
  /\ AgentSide
  /\ UNCHANGED <<responses, processed, stop, private, summary, faults>>

\* The capture fails, a read or a write of process_request, or the reading back of a raw
\* error after all of them.
FailRequest ==
  /\ \/ bpc \in {"capture", "read", "copy", "raw", "open", "fill", "event"}
     \/ bpc = "classify" /\ outcome \in {"raised", "timeout"}
  /\ faults < MaxFaults /\ faults' = faults + 1
  /\ Raise("other")
  /\ IF bpc = "event" THEN HalfLine(SlotEvent) ELSE UNCHANGED log
  /\ AgentSide
  /\ UNCHANGED <<responses, processed, stop, outcome, snapshots, scored, raws, summary>>

\* Faulty variant: _reject truncates a response that is there.
RefuseAgain ==
  /\ bpc = "refuse"
  /\ responses' = [responses EXCEPT ![processed] = Partial]
  /\ bpc' = "refill"
  /\ AgentSide
  /\ UNCHANGED <<processed, errors, stop, outcome, private, summary, faults>>

\* Faulty variant: a slot whose response exists leaves no event of the error.
RefuseQuietly ==
  /\ bpc = "refuse"
  /\ IF responses[processed] = Absent
     THEN /\ responses' = [responses EXCEPT ![processed] = Partial]
          /\ bpc' = "refill" /\ UNCHANGED errors
     ELSE bpc' = "look" /\ errors' = errors \cup {"other"} /\ UNCHANGED responses
  /\ AgentSide
  /\ UNCHANGED <<processed, stop, outcome, private, summary, faults>>

\* _reject creates the response, unless process_request already did.
Refuse ==
  /\ bpc = "refuse"
  /\ IF responses[processed] = Absent
     THEN /\ responses' = [responses EXCEPT ![processed] = Partial]
          /\ bpc' = "refill" /\ UNCHANGED errors
     ELSE bpc' = "unanswered" /\ errors' = errors \cup {"other"} /\ UNCHANGED responses
  /\ AgentSide
  /\ UNCHANGED <<processed, stop, outcome, private, summary, faults>>

Refill ==
  /\ bpc = "refill"
  /\ responses' = [responses EXCEPT ![processed] = [source |-> None, status |-> "error"]]
  /\ bpc' = "refused"
  /\ AgentSide
  /\ UNCHANGED <<processed, errors, stop, outcome, private, summary, faults>>

\* Also after process_request's own event was cut off.
AppendRefusal ==
  /\ bpc \in {"refused", "unanswered"}
  /\ AddLine(RefusalEvent)
  /\ bpc' = "look" /\ outcome' = None
  /\ AgentSide
  /\ UNCHANGED <<responses, processed, errors, stop, snapshots, scored, raws, summary, faults>>

\* A failed response is recorded; a failed event ends the thread.
FailRefusal ==
  /\ bpc \in {"refill", "refused", "unanswered"}
  /\ faults < MaxFaults /\ faults' = faults + 1
  /\ IF bpc = "refill"
     THEN bpc' = "unanswered" /\ errors' = errors \cup {"other"} /\ UNCHANGED log
     ELSE bpc' = "died" /\ HalfLine(RefusalEvent) /\ UNCHANGED errors
  /\ AgentSide
  /\ UNCHANGED <<responses, processed, stop, outcome, snapshots, scored, raws, summary>>

-----------------------------------------------------------------------------
(* close(), called by the runner once the agent has ended. *)

CloseStart ==
  /\ agent = "dead" /\ ~stop
  /\ stop' = TRUE
  /\ AgentSide
  /\ UNCHANGED <<responses, bpc, processed, errors, outcome, private, summary, faults>>

\* Faulty variant: a file whose number is beyond the quota is not counted as left over.
CloseWithinQuota ==
  /\ stop /\ bpc \in {"done", "died"} /\ summary = "none"
  /\ summary' = IF "timeout" \in errors THEN "ambiguous"
                ELSE IF errors = {} /\ Issued \cap Id \subseteq 1 .. processed THEN "complete"
                ELSE "protocol_error"
  /\ AgentSide
  /\ UNCHANGED <<responses, bpc, processed, errors, stop, outcome, private, faults>>

\* Every request file whose number was not processed is left over.
Close ==
  /\ stop /\ bpc \in {"done", "died"} /\ summary = "none"
  /\ summary' = IF "timeout" \in errors THEN "ambiguous"
                ELSE IF errors = {} /\ Issued \subseteq 1 .. processed THEN "complete"
                ELSE "protocol_error"
  /\ AgentSide
  /\ UNCHANGED <<responses, bpc, processed, errors, stop, outcome, private, faults>>

-----------------------------------------------------------------------------

Slot ==
  \/ Look \/ Wait \/ CaptureSource \/ ReadRequest \/ CopySource \/ Score \/ WriteRaw
  \/ OpenResponse \/ FillResponse \/ AppendEvent \/ Classify \/ Refuse \/ Refill \/ AppendRefusal

HelperStep(h) == Prepare(h) \/ LinkRequest(h) \/ ReadResponse(h) \/ HelperTimeout(h)

Terminated == summary # "none" /\ UNCHANGED vars

Next ==
  \/ Edit \/ WriteByHand \/ AgentEnds
  \/ \E h \in Helper : HelperStep(h)
  \/ Slot \/ FailRequest \/ FailRefusal
  \/ CloseStart \/ Close
  \/ Terminated

(* The broker's thread runs, every call of the scorer has a timeout, and run_agent goes on to
   close() once the agent has ended.  Nothing is assumed of the agent and its helpers. *)
Fairness == WF_vars(Slot) /\ WF_vars(CloseStart) /\ WF_vars(Close)

Spec == Init /\ [][Next]_vars /\ Fairness

-----------------------------------------------------------------------------
(* Safety. *)

Answered(k) == responses[k] \notin {Absent, Partial}

\* "Each bound to a source SHA256 and immutable snapshot": an answer that names a source is
\* about the source that was requested, that was snapshotted, and that the scorer was given,
\* although the agent edits all the while.
AnswerIsForRequestedSource ==
  \A k \in Id : Answered(k) /\ responses[k].source # None =>
    /\ requests[k].source = responses[k].source
    /\ snapshots[k] = responses[k].source
    /\ scored[k] = responses[k].source

\* Of the helpers that raced for a number only one returns with its answer, and the answer is
\* for the source that this helper hashed, or for none.
AnswerReachesItsHelper ==
  \A h \in Helper : hpc[h] = "returned" =>
    /\ hanswer[h] = responses[hid[h]]
    /\ requests[hid[h]].source = hsource[h]
    /\ \A other \in Helper \ {h} : hpc[other] = "returned" => hid[other] # hid[h]

\* Every slot consumed leaves a line in the journal, in slot order, whatever failed in it; only a
\* broker that could not write its last refusal misses one.  The line can be read, unless a write
\* of it failed: then an error is recorded, and the slot's answer was complete before, or the
\* broker is dead.  A slot has a second line only when its first commits an error whose raw
\* result could not be read back.
SlotLeavesEvent ==
  /\ \A k \in 1 .. (IF bpc \in {"look", "wait", "done"} THEN processed ELSE processed - 1) :
       \E i \in DOMAIN events : events[i].id = k
  /\ \A i \in DOMAIN events : ~events[i].whole =>
       /\ errors # {} /\ faults > 0
       /\ Answered(events[i].id) \/ (bpc = "died" /\ i = Len(events))
  /\ \A i, j \in DOMAIN events : i < j =>
       \/ events[i].id < events[j].id
       \/ /\ events[i].id = events[j].id /\ j = i + 1
          /\ events[i].whole /\ events[i].answered /\ ~events[j].answered
          /\ responses[events[i].id].status = "error" /\ errors # {}

\* A session summarised as complete answered every request file there is, under whatever number,
\* from a raw result that is on disk and that the slot's event commits, in a line of its own.
CompleteSessionIsCommitted ==
  summary = "complete" => \A k \in Issued :
    /\ k \in Id /\ Answered(k) /\ responses[k].status \in {"complete", "candidate"}
    /\ raws[k] = responses[k].status
    /\ k <= Len(events) /\ events[k].whole
    /\ events[k].raw /\ events[k].source = requests[k].source

\* The broker implements the service: slots in order, one final answer each.
Service == INSTANCE FeedbackService WITH
  Slots   <- MaxRequests,
  Source  <- Request,
  Open    <- Absent,
  Refused <- Missing,
  asked   <- [k \in Id |-> IF requests[k] = Absent THEN None ELSE requests[k]],
  answer  <- [k \in Id |-> IF ~Answered(k) THEN Absent
                           ELSE IF responses[k].source = None THEN Missing
                           ELSE [source |-> responses[k].source]],
  served  <- processed

AnswersInOrder == Service!Spec

\* While the agent runs and nothing fails, every request is answered once those before it
\* are there, also a request that is refused and one whose scorer raised.
RequestIsAnswered ==
  \A k \in Id : (\A j \in 1 .. k : requests[j] # Absent)
                  ~> (Answered(k) \/ stop \/ faults > 0)

\* close() returns: it joins a thread that may be in the middle of a slot or waiting.
SessionCloses == (agent = "dead") ~> (summary # "none")

\* "Each call first freezes the current source": what is snapshotted for a helper's request
\* is the source it was called on, when nothing fails.
CallFreezesSource ==
  \A h \in Helper : hpc[h] = "poll" /\ Answered(hid[h]) /\ faults = 0 =>
    snapshots[hid[h]] = hsource[h]
=============================================================================
