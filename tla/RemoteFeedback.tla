---------------------------- MODULE RemoteFeedback ----------------------------
(***************************************************************************)
(* Scoring feedback requests on the GPU host: RemotePublicScorer, which    *)
(* the broker calls slot by slot, the remote-score process it starts there *)
(* over ssh (live_feedback.remote_score), and the container of that        *)
(* process (public_score.run_public), here with its use of the GPU; module *)
(* Replay has its error paths one by one.                                  *)
(*                                                                         *)
(* The caller gives up on ssh after a while, or loses it.  Nobody tells    *)
(* the process, which goes on, and so does its container while the next    *)
(* slot is scored.                                                         *)
(***************************************************************************)
EXTENDS Harness

CONSTANT NSlots    \* max_feedback_requests

ASSUME RemoteFeedbackAssumption == NSlots \in Nat \ {0}

Slot == 1..NSlots

VARIABLES
  calls,              \* how often the broker asks
  rpc, slot,          \* RemotePublicScorer: its place, the slot it is at
  kind, sent,         \* per slot: what is asked, and the uploaded snapshot
  frozen,             \* the checkouts in which the task is as it was frozen
  host, reply,        \* per slot: remote-score, its output (the hash of a file is the file)
  box,                \* per slot: the container, what happened in it, result.json
  returned            \* per slot: what __call__ gave the broker

remoteVars == <<calls, rpc, slot, kind, sent, frozen, host, reply, box, returned>>

\* The status of a result.  unscored stands for every one that says nothing of correctness or
\* speed: compile_failed, the two of a failed load, a compiler that took too long, setup_error
\* and environment_invalid.
Public == [status : {"complete", "correctness_failed", "unscored"}, pass : BOOLEAN]
Unscored == [status |-> "unscored", pass |-> FALSE]

\* An exception; module Feedback tells PublicScoreTimeout from the others.
Raised == [status |-> "raised", pass |-> FALSE]

RemoteTypeOK ==
  /\ calls \in 0..NSlots /\ rpc \in {"connect", "idle", "upload", "score", "download", "closed"}
  /\ slot \in 0..NSlots
  /\ kind \in [Slot -> {"correctness", "benchmark"}]
  /\ sent \in [Slot -> {"none", "torn", "whole"}] /\ frozen \subseteq {"local", "remote"}
  /\ host \in [Slot -> {"none", "check", "wait", "remove", "over"}]
  /\ reply \in [Slot -> {None, Torn, Raised} \cup Public]
  /\ box \in [Slot -> [at : {"none", "checks", "build", "probe", "load", "cases", "measure",
                             "postflight", "open", "fill", "exit", "gone"},
                       context : BOOLEAN, right : {"untouched", "right", "wrong"},
                       fast : BOOLEAN, typical : BOOLEAN,
                       verdict : Public, file : Public \cup {None, Torn}]]
  /\ returned \in [Slot -> {None, Raised} \cup Public]

RemoteInit ==
  /\ calls \in 0..NSlots /\ rpc = "connect" /\ slot = 0
  /\ kind = [k \in Slot |-> "correctness"] /\ sent = [k \in Slot |-> "none"]
  /\ frozen = {"local", "remote"}
  /\ host = [k \in Slot |-> "none"] /\ reply = [k \in Slot |-> None]
  /\ box = [k \in Slot |-> [at |-> "none", context |-> FALSE, right |-> "untouched",
                            fast |-> FALSE, typical |-> FALSE,
                            verdict |-> Unscored, file |-> None]]
  /\ returned = [k \in Slot |-> None]

\* validate_task: the task directory of that checkout is consistent and as frozen.
ValidTask(checkout) == checkout \in frozen

\* validate_source_tree, and the hash of the caller's snapshot.
Intact(k) == sent[k] = "whole"

BoxOnGpu(k) == box[k].context /\ box[k].at # "gone"
BoxesOnGpu == \E k \in Slot : BoxOnGpu(k)

-----------------------------------------------------------------------------
(* RemotePublicScorer. *)

RGo(from, to) == rpc = from /\ rpc' = to

CallerOnly == UNCHANGED <<calls, box>>

\* The configuration, the task, and a directory on the host that nobody has used.
Connect ==
  /\ calls > 0 /\ ValidTask("local") /\ RGo("connect", "idle")
  /\ CallerOnly /\ UNCHANGED <<slot, kind, sent, frozen, host, reply, returned>>

ConnectFails ==
  /\ calls > 0 /\ RGo("connect", "closed")
  /\ CallerOnly /\ UNCHANGED <<slot, kind, sent, frozen, host, reply, returned>>

\* __call__ begins with a directory for the request.
CallScorer ==
  /\ slot < calls /\ RGo("idle", "upload") /\ slot' = slot + 1
  /\ \E asked \in {"correctness", "benchmark"} : kind' = [kind EXCEPT ![slot + 1] = asked]
  /\ CallerOnly /\ UNCHANGED <<sent, frozen, host, reply, returned>>

Give(result) == rpc' = "idle" /\ returned' = [returned EXCEPT ![slot] = result]

\* scp, then ssh with remote-score.
Upload ==
  /\ RGo("upload", "score")
  /\ sent' = [sent EXCEPT ![slot] = "whole"] /\ host' = [host EXCEPT ![slot] = "check"]
  /\ CallerOnly /\ UNCHANGED <<slot, kind, frozen, reply, returned>>

\* _remote: an exit status raises, as a timeout if the output says so; else there must be a marker.
HostAnswers ==
  /\ rpc = "score" /\ host[slot] = "over"
  /\ IF reply[slot] = Raised THEN Give(Raised)
                              ELSE rpc' = "download" /\ UNCHANGED returned
  /\ CallerOnly /\ UNCHANGED <<slot, kind, sent, frozen, host, reply>>

\* ssh is killed after the wall limit and two minutes, or the connection ends.
AnswerIsLost ==
  /\ rpc = "score" /\ Give(Raised)
  /\ CallerOnly /\ UNCHANGED <<slot, kind, sent, frozen, host, reply>>

\* Faulty variant: the result is believed without its hash and its place in the protocol.
DownloadUnchecked ==
  /\ rpc = "score" /\ box[slot].file \notin {None, Torn} /\ Give(box[slot].file)
  /\ CallerOnly /\ UNCHANGED <<slot, kind, sent, frozen, host, reply>>

\* scp, the hash of the marker, JSON, and the pins of the task.
Download ==
  /\ rpc = "download"
  /\ Give(IF reply[slot] # Torn /\ box[slot].file = reply[slot] /\ ValidTask("local")
          THEN reply[slot] ELSE Raised)
  /\ CallerOnly /\ UNCHANGED <<slot, kind, sent, frozen, host, reply>>

\* A transfer fails or tears, a directory is there already, a snapshot has another hash.
TransferFails ==
  /\ rpc \in {"upload", "download"} /\ Give(Raised)
  /\ sent' \in {sent, [sent EXCEPT ![slot] = "torn"]}
  /\ CallerOnly /\ UNCHANGED <<slot, kind, frozen, host, reply>>

UploadTears ==
  /\ RGo("upload", "score")
  /\ sent' = [sent EXCEPT ![slot] = "torn"] /\ host' = [host EXCEPT ![slot] = "check"]
  /\ CallerOnly /\ UNCHANGED <<slot, kind, frozen, reply, returned>>

\* Somebody edits or updates a checkout.
CheckoutChanges ==
  /\ calls > 0 /\ \E c \in frozen : frozen' = frozen \ {c}
  /\ CallerOnly /\ UNCHANGED <<rpc, slot, kind, sent, host, reply, returned>>

-----------------------------------------------------------------------------
(* remote_score, the process on the host. *)

HostOnly == UNCHANGED <<calls, rpc, slot, kind, sent, frozen, returned>>

Over(k, output) == host' = [host EXCEPT ![k] = "over"] /\ reply' = [reply EXCEPT ![k] = output]

\* Another snapshot than the caller's, or another task.
HostRefuses(k) ==
  /\ host[k] = "check" /\ ~(Intact(k) /\ ValidTask("remote")) /\ Over(k, Raised)
  /\ HostOnly /\ UNCHANGED box

\* A fresh output directory, and the container with everything else mounted read-only.
HostStarts(k) ==
  /\ host[k] = "check" /\ Intact(k) /\ ValidTask("remote")
  /\ host' = [host EXCEPT ![k] = "wait"] /\ box' = [box EXCEPT ![k].at = "checks"]
  /\ HostOnly /\ UNCHANGED reply

\* run_limited: the wall limit.
HostTimeout(k) ==
  /\ host[k] = "wait" /\ host' = [host EXCEPT ![k] = "remove"]
  /\ HostOnly /\ UNCHANGED <<reply, box>>

\* _run_owned_container leaves no container behind; then the timeout is told.
HostRemoves(k) ==
  /\ host[k] = "remove" /\ box' = [box EXCEPT ![k].at = "gone"] /\ Over(k, Raised)
  /\ HostOnly

\* The container has ended; whatever its status was, its file is committed to.
HostReports(k) ==
  /\ host[k] = "wait" /\ box[k].at = "gone"
  /\ Over(k, IF box[k].file = None THEN Raised ELSE box[k].file)
  /\ HostOnly /\ UNCHANGED box

\* It is killed, or docker does not answer and the container is left as it is.
HostDies(k) ==
  /\ host[k] \in {"check", "wait", "remove"} /\ Over(k, Raised)
  /\ HostOnly /\ UNCHANGED box

-----------------------------------------------------------------------------
(* public_score in its container. *)

BoxOnly == HostOnly /\ UNCHANGED <<host, reply>>

BoxGo(k, from, to) == box[k].at = from /\ box' = [box EXCEPT ![k].at = to] /\ BoxOnly

Conclude(k, result) ==
  box' = [box EXCEPT ![k].at = "open", ![k].verdict = result] /\ BoxOnly

\* The build or the load fails; any other exception, which main turns into a result.
BoxFails(k) ==
  /\ box[k].at \in {"checks", "build", "probe", "load", "measure", "postflight"}
  /\ Conclude(k, Unscored)

BoxChecksTask(k) == ValidTask("remote") /\ BoxGo(k, "checks", "build")

\* hipcc, then a GPU context.
BoxBuilds(k) ==
  /\ box[k].at = "build" /\ box' = [box EXCEPT ![k].at = "probe", ![k].context = TRUE] /\ BoxOnly

\* The look at rocm-smi; others there raise.
BoxProbes(k, others) == ~others /\ BoxGo(k, "probe", "load")

BoxLoads(k) == BoxGo(k, "load", "cases")

\* The public cases and the default stream.
BoxRunsCases(k) ==
  /\ box[k].at = "cases" /\ BoxOnly
  /\ \E right \in {"right", "wrong"} :
       box' = [box EXCEPT ![k].right = right,
                          ![k].at = IF right = "right" /\ kind[k] = "benchmark" THEN "measure"
                                    ELSE "postflight"]

\* benchmark_case and score_buckets, of one bucket.
BoxMeasures(k) ==
  /\ box[k].at = "measure" /\ BoxOnly
  /\ \E g \in Grades :
       box' = [box EXCEPT ![k].at = "postflight", ![k].fast = g[1], ![k].typical = g[2]]

\* The second look at rocm-smi.
BoxLooksAgain(k, others) ==
  /\ box[k].at = "postflight" /\ ~others
  /\ Conclude(k, IF box[k].right = "wrong" THEN [status |-> "correctness_failed", pass |-> FALSE]
                 ELSE [status |-> "complete", pass |-> box[k].fast])

\* result.json is created, then filled.
BoxCreates(k) ==
  /\ box[k].at = "open" /\ box' = [box EXCEPT ![k].at = "fill", ![k].file = Torn] /\ BoxOnly

BoxFills(k) ==
  /\ box[k].at = "fill" /\ box' = [box EXCEPT ![k].at = "exit", ![k].file = box[k].verdict]
  /\ BoxOnly

BoxEnds(k) == BoxGo(k, "exit", "gone")

\* The candidate, or the out-of-memory killer, takes the process down.
BoxAborts(k) == \E at \in {"load", "cases", "measure", "fill"} : BoxGo(k, at, "gone")

-----------------------------------------------------------------------------

\* Is somebody else on the GPU, as container k sees it?
Crowded(k, others) == others \/ \E j \in Slot \ {k} : BoxOnGpu(j)

FeedbackStep(others) ==
  \/ Connect \/ ConnectFails \/ CallScorer \/ Upload \/ HostAnswers \/ AnswerIsLost \/ Download
  \/ \E k \in Slot :
       \/ HostRefuses(k) \/ HostStarts(k) \/ HostTimeout(k) \/ HostRemoves(k) \/ HostReports(k)
       \/ BoxFails(k) \/ BoxChecksTask(k) \/ BoxBuilds(k) \/ BoxProbes(k, Crowded(k, others))
       \/ BoxLoads(k) \/ BoxRunsCases(k) \/ BoxMeasures(k) \/ BoxLooksAgain(k, Crowded(k, others))
       \/ BoxCreates(k) \/ BoxFills(k) \/ BoxEnds(k) \/ BoxAborts(k)

FeedbackTrouble ==
  \/ TransferFails \/ UploadTears \/ CheckoutChanges
  \/ \E k \in Slot : HostDies(k)

-----------------------------------------------------------------------------

\* A result file of the public scorer that was written to its end is true: complete is that the
\* public cases were right, correctness_failed that they were not, and a passed bucket is that of
\* a correct candidate which, counting samples, was not slower.
FeedbackIsTrue ==
  \A k \in Slot : box[k].file \notin {None, Torn} =>
    /\ box[k].file.status = "complete" => box[k].right = "right"
    /\ box[k].file.status = "correctness_failed" => box[k].right = "wrong"
    /\ box[k].file.pass =>
         box[k].file.status = "complete" /\ kind[k] = "benchmark" /\ box[k].typical

\* A result that the broker is given is that of its own slot, with the uploaded snapshot, written
\* to its end by a container that is gone; whatever an earlier slot left running.
FeedbackIsFinal ==
  \A k \in Slot : returned[k] \notin {None, Raised} =>
    /\ sent[k] = "whole" /\ host[k] = "over" /\ box[k].at = "gone"
    /\ returned[k] = box[k].file /\ returned[k] = box[k].verdict

=============================================================================
