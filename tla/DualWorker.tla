----------------------------- MODULE DualWorker -----------------------------
(***************************************************************************)
(* One case of the OPUS production control (dual_worker.py): a controller  *)
(* drives two worker processes, one on pinned AITER and one on the         *)
(* candidate overlay, over socket pairs.  It prepares both, has them       *)
(* replay in turns, inspects them, stops them and writes one result file.  *)
(*                                                                         *)
(* A worker may be slow, hang, raise, die or ignore signals for as long as *)
(* the driver holds it; its kernel may write where it should not.  The     *)
(* numbers (error bounds, medians) are a yes or no here.                   *)
(***************************************************************************)
EXTENDS Naturals, Sequences

CONSTANTS
  Repeats,     \* REPEATS, the pairs of timed replays
  MaxFaults    \* bound: what goes wrong inside the workers of one behaviour

ASSUME DualWorkerAssumption == Repeats \in Nat \ {0} /\ MaxFaults \in Nat

Worker == {"aiter", "candidate"}

VARIABLES
  withheld,                        \* a correctness case: nothing is timed
  pc, place, sent, taken,          \* the controller: script position, frames sent, replies used
  rejected,                        \* the workers whose last inspection failed
  closing, verdict, report,        \* the worker being closed, result so far, the result file
  inbox, outbox,                   \* what each worker has not answered, what was not read
  phase, signalled,                \* the worker processes
  stage, dirt, stray,              \* of prepare; memory that looks wrong now; ever touched?
  misrouted,                       \* the workers whose profiled call ran other kernels
  faults

controlVars == <<pc, place, sent, taken, rejected, closing, verdict, report>>
channelVars == <<inbox, outbox>>
processVars == <<phase, signalled>>
gpuVars == <<stage, dirt, stray, misrouted>>
vars == <<withheld, controlVars, channelVars, processVars, gpuVars, faults>>

Passes == {"single_bucket_pass", "single_withheld_case_correctness_pass"}
Misses == {"correctness_failed", "post_graph_correctness_failed"}
Inconclusive == {"inconclusive_timeout_or_hang", "inconclusive_execution_error"}
Verdicts == Passes \cup Misses \cup Inconclusive \cup
            {"environment_or_noise_inconclusive", "single_bucket_performance_failed"}

(* The script of run_pair: prepare, prepare, the replays, inspect, inspect. *)
ScriptLength == IF withheld THEN 2 ELSE 2 * Repeats + 4

Command(k) == IF k <= 2 THEN "prepare"
              ELSE IF k <= 2 * Repeats + 2 THEN "replay" ELSE "inspect"

\* The baseline goes first, except in every other pair of replays.
Target(k) ==
  LET swapped == Command(k) = "replay" /\ ((k - 3) \div 2) % 2 = 1
  IN  IF (k % 2 = 1) # swapped THEN "aiter" ELSE "candidate"

(* The checks of _worker_init, each after at least one kernel call: six correctness steps, the
   profiled call, the eager call before the graph, the graph's warm-up. *)
Profiled == 7
LastStage == IF withheld THEN Profiled ELSE 9

\* What is written afresh before a stage; the call itself overwrites the output.
Renewed(s) == {"output"} \cup (IF s \in 1..6 \cup {8} THEN {"input"} ELSE {})
                         \cup (IF s \in {6, 7} THEN {"guard"} ELSE {})

\* Where a call may write: its output, the buffer that is the output of another step, the inputs,
\* the guards around all of them, and whatever lies beyond.
Memory == {"output", "inactive", "input", "guard", "beyond"}

\* What the check of a stage sees: the inactive buffer only in the one step with the other output,
\* and nothing beyond the guards at any time.
Watched(s) == {"output", "input", "guard"} \cup (IF s = 4 THEN {"inactive"} ELSE {})

Request == [n : Nat, command : {"prepare", "replay", "inspect", "close"}]
Reply == [n : Nat, ok : BOOLEAN, good : BOOLEAN]

TypeOK ==
  /\ withheld \in BOOLEAN
  /\ pc \in {"preflight", "spawn", "send", "recv", "gate", "judge", "close", "ack", "leave",
             "signal", "term", "kill", "report", "exited"}
  /\ place \in 1..(ScriptLength + 1) /\ sent \in Nat
  /\ taken \in Seq([asked : Nat, answered : Nat])
  /\ rejected \subseteq Worker /\ closing \in 1..3
  /\ verdict \in Verdicts \cup {"none"} /\ report \in Verdicts \cup {"none"}
  /\ pc = "report" => verdict \in Verdicts
  /\ inbox \in [Worker -> Seq(Request)] /\ outbox \in [Worker -> Seq(Reply)]
  /\ phase \in [Worker -> {"unborn", "alive", "leaving", "gone"}]
  /\ signalled \subseteq Worker
  /\ stage \in [Worker -> 0..9] /\ dirt \in [Worker -> SUBSET Memory]
  /\ stray \subseteq Worker /\ misrouted \subseteq Worker
  /\ faults \in 0..MaxFaults

Init ==
  /\ withheld \in BOOLEAN
  /\ pc = "preflight" /\ place = 1 /\ sent = 0 /\ taken = <<>> /\ rejected = {}
  /\ closing = 1 /\ verdict = "none" /\ report = "none"
  /\ inbox = [w \in Worker |-> <<>>] /\ outbox = [w \in Worker |-> <<>>]
  /\ phase = [w \in Worker |-> "unborn"] /\ signalled = {}
  /\ stage = [w \in Worker |-> 0] /\ dirt = [w \in Worker |-> {}] /\ stray = {}
  /\ misrouted = {} /\ faults = 0

Fault == faults < MaxFaults /\ faults' = faults + 1

-----------------------------------------------------------------------------
(* A worker process: worker_loop. *)

Doing(w, commands) ==
  /\ phase[w] = "alive" /\ inbox[w] # <<>>
  /\ Head(inbox[w]).command \in commands

Answer(w, ok, good) ==
  /\ inbox' = [inbox EXCEPT ![w] = Tail(@)]
  /\ outbox' = [outbox EXCEPT ![w] = Append(@, [n |-> Head(inbox[w]).n, ok |-> ok, good |-> good])]

\* A kernel call: what it leaves wrong where a check looks, and whether that is beyond its output.
Call(w, s, renewed) ==
  \/ /\ dirt' = [dirt EXCEPT ![w] = @ \ renewed]
     /\ UNCHANGED <<stray, faults>>
  \/ \E spot \in Memory :
       /\ Fault
       /\ dirt' = [dirt EXCEPT ![w] = (@ \ renewed) \cup ({spot} \cap Watched(s))]
       /\ stray' = IF spot \in Watched(s) \ {"output"} THEN stray \cup {w} ELSE stray

\* _dispatch_matches: which kernels the profiler has recorded is up to the candidate.
Dispatch(w, s) ==
  \/ UNCHANGED misrouted
  \/ s = Profiled /\ misrouted' = misrouted \cup {w}

\* Faulty variant: a failed step does not end the series.
RunAnyStage(w) ==
  /\ Doing(w, {"prepare"}) /\ stage[w] < LastStage
  /\ stage' = [stage EXCEPT ![w] = @ + 1]
  /\ Call(w, stage[w] + 1, Renewed(stage[w] + 1)) /\ Dispatch(w, stage[w] + 1)
  /\ UNCHANGED <<withheld, controlVars, channelVars, processVars>>

Correct(w) == dirt[w] = {} /\ w \notin misrouted

RunStage(w) ==
  /\ Doing(w, {"prepare"}) /\ stage[w] < LastStage /\ Correct(w)
  /\ stage' = [stage EXCEPT ![w] = @ + 1]
  /\ Call(w, stage[w] + 1, Renewed(stage[w] + 1)) /\ Dispatch(w, stage[w] + 1)
  /\ UNCHANGED <<withheld, controlVars, channelVars, processVars>>

AnswerPrepare(w) ==
  /\ Doing(w, {"prepare"})
  /\ ~Correct(w) \/ stage[w] = LastStage
  /\ Answer(w, TRUE, Correct(w))
  /\ UNCHANGED <<withheld, controlVars, processVars, gpuVars, faults>>

\* worker_loop's state: there is a graph to replay.
Prepared(w) == stage[w] = LastStage /\ w \notin misrouted

\* The elapsed time need not be positive.
AnswerReplay(w) ==
  /\ Doing(w, {"replay"}) /\ Prepared(w)
  /\ Call(w, LastStage, {"output"})
  /\ \E positive \in BOOLEAN : Answer(w, TRUE, positive)
  /\ UNCHANGED <<withheld, controlVars, processVars, stage, misrouted>>

AnswerInspect(w) ==
  /\ Doing(w, {"inspect"}) /\ Prepared(w)
  /\ Answer(w, TRUE, dirt[w] = {})
  /\ UNCHANGED <<withheld, controlVars, processVars, gpuVars, faults>>

\* Any exception is reported and ends the loop.
WorkerRaises(w) ==
  /\ Doing(w, {"prepare", "replay", "inspect"}) /\ Fault
  /\ Answer(w, FALSE, FALSE)
  /\ phase' = [phase EXCEPT ![w] = "leaving"]
  /\ UNCHANGED <<withheld, controlVars, signalled, gpuVars>>

AnswerClose(w) ==
  /\ Doing(w, {"close"})
  /\ Answer(w, TRUE, TRUE)
  /\ phase' = [phase EXCEPT ![w] = "leaving"]
  /\ UNCHANGED <<withheld, controlVars, signalled, gpuVars, faults>>

Gone(w) ==
  /\ phase' = [phase EXCEPT ![w] = "gone"]
  /\ UNCHANGED <<withheld, controlVars, channelVars, signalled, gpuVars>>

\* The interpreter ends, or a signal gets through, or the controller's end is closed.
WorkerEnds(w) ==
  /\ \/ phase[w] = "leaving"
     \/ phase[w] = "alive" /\ (w \in signalled \/ pc = "exited")
  /\ Gone(w) /\ UNCHANGED faults

WorkerDies(w) == phase[w] = "alive" /\ Fault /\ Gone(w)

-----------------------------------------------------------------------------
(* The controller: run_pair. *)

Workers == UNCHANGED <<withheld, processVars, gpuVars, faults>>
Current == Target(place)

\* Faulty variant: an exception leaves no status.
RaisesBare(error) ==
  /\ pc' = "close"
  /\ UNCHANGED <<place, rejected, closing, verdict, report>>

\* An exception in run_pair: main gives it a status, the finally clause closes the workers.
Raises(error) ==
  /\ pc' = "close" /\ verdict' = error
  /\ UNCHANGED <<place, rejected, closing, report>>

ExecutionError == "inconclusive_execution_error"

\* The arguments, sources or matrix are refused: nothing is written.
RefuseArguments ==
  /\ pc = "preflight" /\ pc' = "exited"
  /\ UNCHANGED <<place, sent, taken, rejected, closing, verdict, report, channelVars>> /\ Workers

\* A foreign process on the GPU stops the case before it has workers to close.
Preflight ==
  /\ pc = "preflight"
  /\ \/ pc' = "spawn" /\ UNCHANGED verdict
     \/ pc' = "report" /\ verdict' = ExecutionError
  /\ UNCHANGED <<place, sent, taken, rejected, closing, report, channelVars>> /\ Workers

Spawn ==
  /\ pc = "spawn"
  /\ LET w == IF phase["aiter"] = "unborn" THEN "aiter" ELSE "candidate" IN
     /\ phase' = [phase EXCEPT ![w] = "alive"]
     /\ pc' = IF w = "aiter" THEN "spawn" ELSE "send"
  /\ UNCHANGED <<withheld, place, sent, taken, rejected, closing, verdict, report, channelVars,
                 signalled, gpuVars, faults>>

SpawnFails ==
  /\ pc = "spawn" /\ Raises(ExecutionError)
  /\ UNCHANGED <<sent, taken, channelVars>> /\ Workers

Post(w, command) ==
  /\ sent' = sent + 1
  /\ inbox' = [inbox EXCEPT ![w] = Append(@, [n |-> sent + 1, command |-> command])]
  /\ UNCHANGED outbox

\* To send to a dead worker fails as receiving from it would.
Send ==
  /\ pc = "send" /\ pc' = "recv"
  /\ Post(Current, Command(place))
  /\ UNCHANGED <<place, taken, rejected, closing, verdict, report>> /\ Workers

Read(w) == outbox' = [outbox EXCEPT ![w] = Tail(@)] /\ UNCHANGED inbox

Advance ==
  /\ place' = place + 1
  /\ pc' = IF place = ScriptLength THEN "judge" ELSE "send"

Recv ==
  /\ pc = "recv" /\ outbox[Current] # <<>>
  /\ Read(Current)
  /\ LET reply == Head(outbox[Current])
         command == Command(place)
     IN  IF ~reply.ok THEN Raises(ExecutionError) /\ UNCHANGED taken
         ELSE /\ taken' = Append(taken, [asked |-> sent, answered |-> reply.n])
              /\ \/ /\ command = "prepare" /\ reply.good
                    /\ pc' = "gate" /\ UNCHANGED <<place, rejected, closing, verdict, report>>
                 \/ command = "prepare" /\ ~reply.good /\ Raises("correctness_failed")
                 \/ command = "replay" /\ ~reply.good /\ Raises(ExecutionError)
                 \/ /\ command = "inspect" \/ (command = "replay" /\ reply.good)
                    /\ Advance
                    /\ rejected' = IF reply.good THEN rejected ELSE rejected \cup {Current}
                    /\ UNCHANGED <<closing, verdict, report>>
  /\ UNCHANGED sent /\ Workers

Ended(w) == phase[w] \in {"leaving", "gone"} /\ outbox[w] = <<>>

RecvEof ==
  /\ pc = "recv" /\ Ended(Current)
  /\ Raises(ExecutionError)
  /\ UNCHANGED <<sent, taken, channelVars>> /\ Workers

\* Faulty variant: the command is sent once more.
RecvRetries ==
  /\ pc = "recv" /\ outbox[Current] = <<>> /\ ~Ended(Current)
  /\ pc' = "send"
  /\ UNCHANGED <<place, sent, taken, rejected, closing, verdict, report, channelVars>> /\ Workers

\* Faulty variant: the socket has no timeout.
RecvForever == RecvEof

RecvTimeout ==
  /\ pc = "recv" /\ outbox[Current] = <<>> /\ ~Ended(Current)
  /\ Raises("inconclusive_timeout_or_hang")
  /\ UNCHANGED <<sent, taken, channelVars>> /\ Workers

\* Only the two workers are on the GPU, and both report the same timed inputs.
Gate ==
  /\ pc = "gate"
  /\ \/ Advance /\ UNCHANGED <<rejected, closing, verdict, report>>
     \/ Raises(ExecutionError)
  /\ UNCHANGED <<sent, taken, channelVars>> /\ Workers

Verdict(alone, quiet, fast) ==
  IF withheld THEN "single_withheld_case_correctness_pass"
  ELSE IF rejected # {} THEN "post_graph_correctness_failed"
  ELSE IF ~(alone /\ quiet) THEN "environment_or_noise_inconclusive"
  ELSE IF fast THEN "single_bucket_pass" ELSE "single_bucket_performance_failed"

Judge ==
  /\ pc = "judge" /\ pc' = "close"
  /\ \E alone, quiet, fast \in BOOLEAN : verdict' = Verdict(alone, quiet, fast)
  /\ UNCHANGED <<place, sent, taken, rejected, closing, report, channelVars>> /\ Workers

-----------------------------------------------------------------------------
(* Worker.close for one worker after the other, whatever happened before. *)

Closing == IF closing = 1 THEN "aiter" ELSE "candidate"
Closes == UNCHANGED <<place, taken, rejected, report>>

Onward == closing' = closing + 1 /\ pc' = "close" /\ UNCHANGED verdict

AllClosed == closing > 2 \/ phase[Closing] = "unborn"

Close ==
  /\ pc = "close"
  /\ \/ /\ AllClosed
        /\ pc' = "report" /\ UNCHANGED <<sent, channelVars>>
     \/ /\ ~AllClosed /\ phase[Closing] = "gone"
        /\ pc' = "signal" /\ UNCHANGED <<sent, channelVars>>
     \/ /\ ~AllClosed /\ phase[Closing] # "gone"
        /\ pc' = "ack" /\ Post(Closing, "close")
  /\ UNCHANGED <<closing, verdict>> /\ Closes /\ Workers

\* Any reply that says ok passes for the acknowledgement; everything else goes to the signals.
Ack ==
  /\ pc = "ack"
  /\ \/ outbox[Closing] # <<>> /\ Read(Closing)
     \/ outbox[Closing] = <<>> /\ UNCHANGED channelVars
  /\ pc' = IF outbox[Closing] # <<>> /\ Head(outbox[Closing]).ok THEN "leave" ELSE "signal"
  /\ UNCHANGED <<sent, closing, verdict>> /\ Closes /\ Workers

AwaitExit ==
  /\ pc = "leave" /\ pc' = "signal"
  /\ UNCHANGED <<sent, channelVars, closing, verdict>> /\ Closes /\ Workers

Signal ==
  /\ pc = "signal"
  /\ signalled' = signalled \cup {Closing}
  /\ IF phase[Closing] = "gone" THEN Onward
     ELSE pc' = "term" /\ UNCHANGED <<closing, verdict>>
  /\ UNCHANGED <<withheld, sent, channelVars, phase, gpuVars, faults>> /\ Closes

\* Ten seconds after SIGTERM comes SIGKILL, which a process held by its driver survives too.
Term ==
  /\ pc = "term"
  /\ IF phase[Closing] = "gone" THEN Onward ELSE pc' = "kill" /\ UNCHANGED <<closing, verdict>>
  /\ UNCHANGED <<sent, channelVars>> /\ Closes /\ Workers

\* Faulty variant: a worker that cannot be killed is passed over.
KillQuietly ==
  /\ pc = "kill" /\ Onward
  /\ UNCHANGED <<sent, channelVars>> /\ Closes /\ Workers

\* The last wait raises TimeoutExpired: no TimeoutError, and the other worker is not closed.
Kill ==
  /\ pc = "kill"
  /\ IF phase[Closing] = "gone" THEN Onward
     ELSE pc' = "report" /\ verdict' = ExecutionError /\ UNCHANGED closing
  /\ UNCHANGED <<sent, channelVars>> /\ Closes /\ Workers

Report ==
  /\ pc = "report" /\ pc' = "exited" /\ report' = verdict
  /\ UNCHANGED <<place, sent, taken, rejected, closing, verdict, channelVars>> /\ Workers

\* The container's SIGTERM: no handler, no finally clause.
ControllerDies ==
  /\ pc \notin {"preflight", "exited"} /\ Fault
  /\ pc' = "exited"
  /\ UNCHANGED <<withheld, place, sent, taken, rejected, closing, verdict, report, channelVars,
                 processVars, gpuVars>>

-----------------------------------------------------------------------------

WorkerStep(w) ==
  \/ RunStage(w) \/ AnswerPrepare(w) \/ AnswerReplay(w) \/ AnswerInspect(w)
  \/ WorkerRaises(w) \/ AnswerClose(w) \/ WorkerEnds(w) \/ WorkerDies(w)

Controller ==
  \/ Preflight \/ Spawn \/ SpawnFails \/ Send \/ Recv \/ RecvEof \/ RecvTimeout
  \/ Gate \/ Judge \/ Close \/ Ack \/ AwaitExit \/ Signal \/ Term \/ Kill \/ Report

Next == Controller \/ RefuseArguments \/ ControllerDies \/ \E w \in Worker : WorkerStep(w)

\* Nothing is assumed of the workers: a hung kernel never answers.
Spec == Init /\ [][Next]_vars /\ WF_vars(Controller)

-----------------------------------------------------------------------------

\* A reply that is used for a verdict or kept as a timing belongs to the command just sent
\* (Worker.call matches nothing but the pid), and the workers never have GPU work at the same
\* time, although a worker may still be busy when the controller gave up on it.
OnGpu(w) == phase[w] = "alive" /\ inbox[w] # <<>> /\ Head(inbox[w]).command # "close"

CommandsAreSerial ==
  /\ \A i \in 1..Len(taken) : taken[i].asked = taken[i].answered
  /\ ~(OnGpu("aiter") /\ OnGpu("candidate"))

\* Inputs and guards are written afresh between the checks and outputs by every call, and nothing
\* is checked between the timed replays; still a pass means that no call of either worker, timed
\* or not, left a trace on the inputs or the guards, nor in the step that compares it on the other
\* output, and that the last output was right.  (What the guards do not see it does not say.)
\* A miss means that a worker's memory really is wrong or that its profiled call ran the wrong
\* kernels.
VerdictsAreTrue ==
  /\ report \in Passes => \A w \in Worker : w \notin stray /\ Correct(w)
  /\ report \in Misses => \E w \in Worker : ~Correct(w)

\* Whoever reads any other result file than that of an execution error finds both workers
\* gone: a worker that outlives SIGKILL takes the verdict with it.
LeftWorkerIsInconclusive ==
  report \notin {"none", ExecutionError} => \A w \in Worker : phase[w] = "gone"

\* Every wait of the controller is bounded, so the case ends.
PairEnds == <>(pc = "exited")

=============================================================================
