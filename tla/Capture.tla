------------------------------- MODULE Capture -------------------------------
(***************************************************************************)
(* One agent run as runs/runner.py records it: run_agent with its three    *)
(* threads (main, the polling watcher and, on brokered tasks, the feedback *)
(* broker) sharing one Snapshotter, the agent editing its workspace while  *)
(* they read it, and the result directory that survives the run.  Before   *)
(* the threads start, run_agent compares the task with its freeze and      *)
(* copies the starter, file by file, from a directory that others may      *)
(* write to.                                                               *)
(*                                                                         *)
(* A tree is a function from the source files to their contents.  Hashes   *)
(* are the values they name.  Snapshotter.capture holds its lock over all  *)
(* of its steps, but the agent does not take that lock: the files are read *)
(* one by one.  Reading and writing may fail (a source over the size       *)
(* limit, a full disk), and the runner may be killed.                      *)
(***************************************************************************)
EXTENDS Naturals, Sequences, FiniteSets

CONSTANTS
  File,         \* source paths, numbered in the order sorted() gives them
  Kernel,       \* the one path the agent may change (kernel.hip)
  Content,      \* contents a source may have
  Oversized,    \* the contents beyond MAX_FILE_BYTES
  Starter,      \* the starter tree that the freeze names
  Brokered,     \* a scored task with a feedback broker and a launch receipt?
  MaxMoves,     \* bound: edits of the task, then what the agent does, together
  MaxRequests,  \* contract["max_feedback_requests"]
  MaxFaults,    \* bound: failed writes and kills of the runner
  Absent, None, NoThread, NoResult,
  Garbled       \* a journal line that does not parse

Thread == {"main", "watcher", "broker"}
Tree   == [File -> Content \cup {Absent}]

ASSUME FileAssumption    == File \subseteq Nat /\ IsFiniteSet(File) /\ Kernel \in File
ASSUME ContentAssumption == Oversized \subseteq Content /\ Absent \notin Content
ASSUME StarterAssumption == Starter \in Tree /\ None \notin Tree
ASSUME ThreadAssumption  == NoThread \notin Thread
ASSUME BoundAssumption   == /\ Brokered \in BOOLEAN
                            /\ MaxMoves \in Nat /\ MaxRequests \in Nat /\ MaxFaults \in Nat

Status == {"completed", "agent_failed", "timeout"}
Result == [status : Status, count : Nat, tree : Tree \cup {None}, clean : BOOLEAN]

Entry == [sequence : Nat, parent : Tree \cup {None}, tree : Tree]
Line  == Entry \cup {Garbled}

ASSUME ResultAssumption  == NoResult \notin Result
ASSUME GarbledAssumption == Garbled \notin Entry /\ Garbled \notin Tree

VARIABLES
  task, unplaced, manifest,                            \* what run_agent prepares
  workspace, agent, agentExit, moves, pipe, issued,   \* the sandbox
  pc, stop, timedOut, requests,                       \* the runner's threads
  snapshotError, brokerError,                         \* what they recorded
  lock, step, todo, files, sequence, previousTree,    \* the Snapshotter
  blobs, journal, tornLine, receipt, result,          \* the result directory
  exitCode, faults,
  failed                      \* history: the threads whose capture has raised

preparation == <<task, unplaced, manifest>>
sandbox  == <<workspace, agent, agentExit, moves, pipe, issued>>
threads  == <<pc, stop, timedOut, requests>>
recorded == <<snapshotError, brokerError>>
locals   == <<lock, step, todo, files>>
disk     == <<blobs, journal, tornLine, receipt, result>>
vars == <<preparation, sandbox, threads, recorded, locals, sequence, previousTree, disk,
          exitCode, faults, failed>>

Preparing == {"freeze", "mkdir", "copy", "manifest"}
MainPC    == Preparing \cup {"starter", "start", "spawn", "receipt", "loop", "event", "term", "close",
              "join", "final", "build", "write", "report", "exited", "crashed"}
HelperPC  == {"off", "idle", "poll", "raised", "request", "done", "dead"}
CapturePC == {"starter", "event", "final", "poll", "request"}
Ended     == pc["main"] \in {"exited", "crashed"}

Nothing == [f \in File |-> Absent]
Present(tree) == {f \in File : tree[f] # Absent}
IsFirst(f, S) == f \in S /\ \A g \in S : f <= g

TypeOK ==
  /\ task \in Tree /\ unplaced \subseteq File /\ manifest \in {"none", "torn", "whole"}
  /\ workspace \in Tree
  /\ agent \in {"unborn", "running", "dead"}
  /\ agentExit \in {"none", "ok", "fail"}
  /\ moves \in Nat /\ pipe \in Nat /\ issued \in Nat /\ requests \in Nat /\ faults \in Nat
  /\ pc \in [Thread -> MainPC \cup HelperPC]
  /\ stop \in BOOLEAN /\ timedOut \in BOOLEAN
  /\ snapshotError \in BOOLEAN /\ brokerError \in BOOLEAN
  /\ lock \in Thread \cup {NoThread}
  /\ step \in {"none", "scan", "blobs", "entry"}
  /\ todo \subseteq File /\ files \in Tree
  /\ sequence \in Nat /\ previousTree \in Tree \cup {None}
  /\ blobs \in [Content -> {"absent", "torn", "whole"}]
  /\ journal \in Seq(Line) /\ tornLine \in BOOLEAN
  /\ receipt \in {"none", "torn", "whole"}
  /\ result \in Result \cup {NoResult}
  /\ exitCode \in {"none", "ok", "fail"}
  /\ failed \subseteq Thread

Init ==
  /\ task = Starter /\ unplaced = File /\ manifest = "none"
  /\ workspace = Nothing /\ agent = "unborn" /\ agentExit = "none"
  /\ moves = 0 /\ pipe = 0 /\ issued = 0 /\ requests = 0 /\ faults = 0
  /\ pc = [t \in Thread |-> IF t = "main" THEN "freeze" ELSE "off"]
  /\ stop = FALSE /\ timedOut = FALSE
  /\ snapshotError = FALSE /\ brokerError = FALSE
  /\ lock = NoThread /\ step = "none" /\ todo = {} /\ files = Nothing
  /\ sequence = 0 /\ previousTree = None
  /\ blobs = [c \in Content |-> "absent"] /\ journal = <<>> /\ tornLine = FALSE
  /\ receipt = "none" /\ result = NoResult /\ exitCode = "none"
  /\ failed = {}

-----------------------------------------------------------------------------
(* How a run ends other than by running to its end: an exception leaves run_agent, or
   the runner is killed.  Daemon threads stop where they are, and bwrap's
   --die-with-parent takes the sandbox down. *)

Die ==
  /\ pc' = [t \in Thread |-> IF t = "main" THEN "crashed" ELSE "dead"]
  /\ agent' = IF agent = "running" THEN "dead" ELSE agent

Fault == faults < MaxFaults /\ faults' = faults + 1

Goto(t, next) == pc' = [pc EXCEPT ![t] = next]

-----------------------------------------------------------------------------
(* run_agent before its threads start. *)

PrepareOnly == UNCHANGED <<agentExit, pipe, issued, stop, timedOut, requests, recorded, locals,
                           sequence, previousTree, disk, exitCode, faults, failed>>

\* freeze_payload hashes the task file by file; a digest that differs from the freeze never
\* gets further.
HashFile ==
  /\ pc["main"] = "freeze"
  /\ \E f \in unplaced :
       /\ IsFirst(f, unplaced)
       /\ task[f] = Starter[f]
       /\ unplaced' = unplaced \ {f}
  /\ PrepareOnly
  /\ UNCHANGED <<task, manifest, workspace, agent, moves, pc>>

\* The remaining checks passed: arguments, admission, CLI, sandbox command.
AcceptTask ==
  /\ pc["main"] = "freeze" /\ unplaced = {}
  /\ Goto("main", "mkdir")
  /\ PrepareOnly
  /\ UNCHANGED <<preparation, workspace, agent, moves>>

\* The result directory is new (exist_ok=False), and copytree lists the starter.
MakeRun ==
  /\ pc["main"] = "mkdir"
  /\ unplaced' = Present(task)
  /\ Goto("main", "copy")
  /\ PrepareOnly
  /\ UNCHANGED <<task, manifest, workspace, agent, moves>>

\* Each file as it stands now, whatever was hashed.
CopyFile ==
  /\ pc["main"] = "copy"
  /\ \E f \in unplaced :
       /\ IsFirst(f, unplaced) /\ task[f] # Absent
       /\ workspace' = [workspace EXCEPT ![f] = task[f]]
       /\ unplaced' = unplaced \ {f}
  /\ PrepareOnly
  /\ UNCHANGED <<task, manifest, agent, moves, pc>>

\* prompt.txt, and manifest.json is created.
CreateManifest ==
  /\ pc["main"] = "copy" /\ unplaced = {}
  /\ manifest' = "torn"
  /\ Goto("main", "manifest")
  /\ PrepareOnly
  /\ UNCHANGED <<task, unplaced, workspace, agent, moves>>

WriteManifest ==
  /\ pc["main"] = "manifest"
  /\ manifest' = "whole"
  /\ Goto("main", "starter")
  /\ PrepareOnly
  /\ UNCHANGED <<task, unplaced, workspace, agent, moves>>

\* A check refuses the task or the arguments, the run's directory exists (its replicate id
\* was used before), a listed file is gone, or a write fails: an exception that nothing
\* catches.
Refuse ==
  /\ pc["main"] \in Preparing
  /\ Die
  /\ PrepareOnly
  /\ UNCHANGED <<preparation, workspace, moves>>

Prepare == HashFile \/ AcceptTask \/ MakeRun \/ CopyFile \/ CreateManifest \/ WriteManifest
           \/ Refuse

\* Someone edits a file of the starter that run_agent will still read.
EditTask ==
  /\ pc["main"] \in {"freeze", "mkdir", "copy"} /\ moves < MaxMoves
  /\ moves' = moves + 1
  /\ \E f \in File, c \in Content \cup {Absent} :
       /\ pc["main"] = "copy" => f \in unplaced
       /\ c # task[f] /\ task' = [task EXCEPT ![f] = c]
  /\ PrepareOnly
  /\ UNCHANGED <<unplaced, manifest, workspace, agent, pc>>

-----------------------------------------------------------------------------
(* Snapshotter.capture, as thread t executes it. *)

\* What follows a capture that returned.
AfterCapture(t) ==
  CASE pc[t] = "starter" -> "start"
    [] pc[t] = "event"   -> "loop"
    [] pc[t] = "final"   -> "build"
    [] OTHER             -> "idle"

\* Leaving capture: the lock is released and the local variables are gone.
Unlock == lock' = NoThread /\ step' = "none" /\ todo' = {} /\ files' = Nothing

Return(t) ==
  /\ Unlock
  /\ Goto(t, AfterCapture(t))
  /\ brokerError' \in (IF t = "broker" THEN {brokerError, TRUE} ELSE {brokerError})
  /\ UNCHANGED <<agent, snapshotError, failed>>

\* An exception leaves capture: who catches it depends on the caller.  The starter
\* capture has no handler, the event loop handles RuntimeError only.
Raise(t, exception) ==
  /\ Unlock
  /\ failed' = failed \cup {t}
  /\ \/ /\ pc[t] = "starter" \/ (pc[t] = "event" /\ exception = "OSError")
        /\ Die
        /\ UNCHANGED recorded
     \/ /\ pc[t] = "final" \/ (pc[t] = "event" /\ exception = "RuntimeError")
        /\ snapshotError' = TRUE
        /\ Goto(t, AfterCapture(t))
        /\ UNCHANGED <<agent, brokerError>>
     \/ /\ pc[t] = "poll"
        /\ Goto(t, "raised")
        /\ UNCHANGED <<agent, recorded>>
     \/ /\ pc[t] = "request"
        /\ brokerError' = TRUE
        /\ Goto(t, "idle")
        /\ UNCHANGED <<agent, snapshotError>>

Acquire(t) ==
  /\ pc[t] \in CapturePC
  /\ lock = NoThread
  /\ lock' = t
  /\ step' = "scan"
  /\ todo' = Present(workspace)
  /\ UNCHANGED <<sandbox, threads, recorded, files, sequence, previousTree, disk,
                 exitCode, faults, failed>>

\* A file that vanished since the listing is skipped: it stays Absent in files.
ReadFile(t) ==
  /\ lock = t /\ step = "scan"
  /\ \E f \in todo :
       /\ IsFirst(f, todo)
       /\ workspace[f] \notin Oversized
       /\ files' = [files EXCEPT ![f] = workspace[f]]
       /\ todo' = todo \ {f}
  /\ UNCHANGED <<sandbox, threads, recorded, lock, step, sequence, previousTree, disk,
                 exitCode, faults, failed>>

RejectFile(t) ==
  /\ lock = t /\ step = "scan"
  /\ \E f \in todo : IsFirst(f, todo) /\ workspace[f] \in Oversized
  /\ Raise(t, "RuntimeError")
  /\ UNCHANGED <<workspace, agentExit, moves, pipe, issued, stop, timedOut, requests, sequence,
                 previousTree, disk, exitCode, faults>>

\* Faulty variant: the number is taken before the trees are compared.
SkipTreeNumbered(t) ==
  /\ lock = t /\ step = "scan" /\ todo = {}
  /\ files = previousTree
  /\ sequence' = sequence + 1
  /\ Return(t)
  /\ UNCHANGED <<workspace, agentExit, moves, pipe, issued, stop, timedOut, requests,
                 previousTree, disk, exitCode, faults>>

\* tree == self.previous_tree: nothing to record.
SkipTree(t) ==
  /\ lock = t /\ step = "scan" /\ todo = {}
  /\ files = previousTree
  /\ Return(t)
  /\ UNCHANGED <<workspace, agentExit, moves, pipe, issued, stop, timedOut, requests, sequence,
                 previousTree, disk, exitCode, faults>>

\* Faulty variant: without the comparison, every capture is recorded.
NewTreeAlways(t) ==
  /\ lock = t /\ step = "scan" /\ todo = {}
  /\ step' = "blobs"
  /\ todo' = Present(files)
  /\ UNCHANGED <<sandbox, threads, recorded, lock, files, sequence, previousTree, disk,
                 exitCode, faults, failed>>

NewTree(t) ==
  /\ lock = t /\ step = "scan" /\ todo = {}
  /\ files # previousTree
  /\ step' = "blobs"
  /\ todo' = Present(files)
  /\ UNCHANGED <<sandbox, threads, recorded, lock, files, sequence, previousTree, disk,
                 exitCode, faults, failed>>

\* An existing blob is kept whatever it holds, also one a failed write left truncated.
WriteBlob(t) ==
  /\ lock = t /\ step = "blobs"
  /\ \E f \in todo :
       /\ IsFirst(f, todo)
       /\ blobs' = [blobs EXCEPT ![files[f]] = IF @ = "absent" THEN "whole" ELSE @]
       /\ todo' = todo \ {f}
  /\ UNCHANGED <<sandbox, threads, recorded, lock, step, files, sequence, previousTree,
                 journal, tornLine, receipt, result, exitCode, faults, failed>>

WriteDiff(t) ==
  /\ lock = t /\ step = "blobs" /\ todo = {}
  /\ sequence' = sequence + 1
  /\ step' = "entry"
  /\ UNCHANGED <<sandbox, threads, recorded, lock, todo, files, previousTree, disk,
                 exitCode, faults, failed>>

NewEntry == [sequence |-> sequence, parent |-> previousTree, tree |-> files]

\* Text that is appended to a line without a newline makes one unparsable line of the two.
Glued == [journal EXCEPT ![Len(journal)] = Garbled]

\* Faulty variant: the writer ends a torn line before it appends.
AppendOwnLine(t) ==
  /\ lock = t /\ step = "entry"
  /\ journal' = Append(journal, NewEntry)
  /\ tornLine' = FALSE
  /\ previousTree' = files
  /\ Return(t)
  /\ UNCHANGED <<workspace, agentExit, moves, pipe, issued, stop, timedOut, requests, sequence,
                 blobs, receipt, result, exitCode, faults>>

AppendEntry(t) ==
  /\ lock = t /\ step = "entry"
  /\ journal' = IF tornLine THEN Glued ELSE Append(journal, NewEntry)
  /\ tornLine' = FALSE
  /\ previousTree' = files
  /\ Return(t)
  /\ UNCHANGED <<workspace, agentExit, moves, pipe, issued, stop, timedOut, requests, sequence,
                 blobs, receipt, result, exitCode, faults>>

\* What is left of the blob or the journal line being written when the write fails or the
\* runner is killed: nothing, a part of it, or a line that lacks only its newline.
HalfWritten ==
  \/ UNCHANGED <<blobs, journal, tornLine>>
  \/ /\ step = "blobs"
     /\ \E f \in todo : /\ IsFirst(f, todo) /\ blobs[files[f]] = "absent"
                       /\ blobs' = [blobs EXCEPT ![files[f]] = "torn"]
     /\ UNCHANGED <<journal, tornLine>>
  \/ /\ step = "entry"
     /\ tornLine' = TRUE
     /\ journal' \in IF tornLine THEN {Glued}
                    ELSE {Append(journal, Garbled), Append(journal, NewEntry)}
     /\ UNCHANGED blobs

\* The file system fails a read, a blob, the diff (its number is taken by then) or the
\* journal line.
FailCapture(t) ==
  /\ lock = t
  /\ Fault
  /\ \/ step = "scan" /\ todo # {} /\ UNCHANGED sequence
     \/ /\ step = "blobs"
        /\ \E f \in todo : IsFirst(f, todo) /\ blobs[files[f]] = "absent"
        /\ UNCHANGED sequence
     \/ step = "blobs" /\ todo = {} /\ sequence' = sequence + 1
     \/ step = "entry" /\ UNCHANGED sequence
  /\ HalfWritten
  /\ Raise(t, "OSError")
  /\ UNCHANGED <<workspace, agentExit, moves, pipe, issued, stop, timedOut, requests,
                 previousTree, receipt, result, exitCode>>

-----------------------------------------------------------------------------
(* The main thread: run_agent around its captures. *)

MainOnly == UNCHANGED <<preparation, recorded, locals, sequence, previousTree, blobs, journal, tornLine,
                        failed>>

StartThreads ==
  /\ pc["main"] = "start"
  /\ pc' = [t \in Thread |-> CASE t = "main"    -> "spawn"
                               [] t = "watcher" -> "idle"
                               [] OTHER         -> IF Brokered THEN "idle" ELSE "done"]
  /\ MainOnly
  /\ UNCHANGED <<sandbox, stop, timedOut, requests, receipt, result, exitCode, faults>>

\* Faulty variant: no receipt.
PopenOnly ==
  /\ pc["main"] = "spawn"
  /\ agent' = "running"
  /\ Goto("main", "loop")
  /\ MainOnly
  /\ UNCHANGED <<workspace, agentExit, moves, pipe, issued, stop, timedOut, requests, receipt,
                 result, exitCode, faults>>

Popen ==
  /\ pc["main"] = "spawn"
  /\ agent' = "running"
  /\ Goto("main", IF Brokered THEN "receipt" ELSE "loop")
  /\ MainOnly
  /\ UNCHANGED <<workspace, agentExit, moves, pipe, issued, stop, timedOut, requests, receipt,
                 result, exitCode, faults>>

WriteReceipt ==
  /\ pc["main"] = "receipt"
  /\ receipt' = "whole"
  /\ Goto("main", "loop")
  /\ MainOnly
  /\ UNCHANGED <<sandbox, stop, timedOut, requests, result, exitCode, faults>>

\* A line of the agent's event stream: a completion captures, an unparsable one is an error.
ReadEvent ==
  /\ pc["main"] = "loop" /\ pipe > 0
  /\ pipe' = pipe - 1
  /\ \/ Goto("main", "event") /\ UNCHANGED snapshotError
     \/ snapshotError' = TRUE /\ UNCHANGED pc
  /\ UNCHANGED <<preparation, workspace, agent, agentExit, moves, issued, stop, timedOut, requests, brokerError,
                 locals, sequence, previousTree, disk, exitCode, faults, failed>>

\* The wall limit passed and the agent is alive: SIGTERM its group and wait 5 s.
WallTimeout ==
  /\ pc["main"] = "loop" /\ agent = "running"
  /\ timedOut' = TRUE
  /\ Goto("main", "term")
  /\ MainOnly
  /\ UNCHANGED <<sandbox, stop, requests, receipt, result, exitCode, faults>>

\* It ended by itself within the grace, or SIGKILL ends it.
EndTerm ==
  /\ pc["main"] = "term"
  /\ IF agent = "running" THEN agent' = "dead" /\ agentExit' = "fail"
                          ELSE UNCHANGED <<agent, agentExit>>
  /\ Goto("main", "loop")
  /\ MainOnly
  /\ UNCHANGED <<workspace, moves, pipe, issued, stop, timedOut, requests, receipt, result,
                 exitCode, faults>>

\* process.poll() is not None and stdout reached its end: on to broker.close().
LeaveLoop ==
  /\ pc["main"] = "loop" /\ agent = "dead" /\ pipe = 0
  /\ Goto("main", "close")
  /\ MainOnly
  /\ UNCHANGED <<sandbox, stop, timedOut, requests, receipt, result, exitCode, faults>>

\* broker.close() joined its thread; stop.set().
StopWatcher ==
  /\ pc["main"] = "close" /\ pc["broker"] = "done"
  /\ stop' = TRUE
  /\ Goto("main", "join")
  /\ MainOnly
  /\ UNCHANGED <<sandbox, timedOut, requests, receipt, result, exitCode, faults>>

\* Faulty variant: no capture after the agent ended.
JoinWatcherOnly ==
  /\ pc["main"] = "join"
  /\ Goto("main", "build")
  /\ MainOnly
  /\ UNCHANGED <<sandbox, stop, timedOut, requests, receipt, result, exitCode, faults>>

\* watcher.join(timeout=2): it returns when the watcher ended, or after 2 s regardless.
JoinWatcher ==
  /\ pc["main"] = "join"
  /\ Goto("main", "final")
  /\ MainOnly
  /\ UNCHANGED <<sandbox, stop, timedOut, requests, receipt, result, exitCode, faults>>

\* Faulty variant: the agent's exit is reported as it stands.
RawStatus == IF timedOut THEN "timeout" ELSE agentExit

RunStatus == CASE timedOut         -> "timeout"
               [] agentExit = "ok" -> "completed"
               [] OTHER            -> "agent_failed"

\* The record is built from the Snapshotter without its lock; snapshot_errors is the live
\* list, serialised here too.
WriteResult ==
  /\ pc["main"] = "build"
  /\ result' = [status |-> RunStatus, count |-> sequence, tree |-> previousTree,
                clean |-> ~snapshotError]
  /\ Goto("main", "report")
  /\ MainOnly
  /\ UNCHANGED <<sandbox, stop, timedOut, requests, receipt, exitCode, faults>>

\* broker.close(): no error was recorded and no request file is left over.
FeedbackComplete == ~brokerError /\ requests = issued

\* Faulty variant: the exit code does not look at the feedback status.
ExitOnStatus ==
  /\ pc["main"] = "report"
  /\ Goto("main", "exited")
  /\ exitCode' = IF result.status = "completed" /\ ~snapshotError THEN "ok" ELSE "fail"
  /\ MainOnly
  /\ UNCHANGED <<sandbox, stop, timedOut, requests, receipt, result, faults>>

Exit ==
  /\ pc["main"] = "report"
  /\ Goto("main", "exited")
  /\ exitCode' = IF result.status = "completed" /\ ~snapshotError /\ FeedbackComplete
                 THEN "ok" ELSE "fail"
  /\ MainOnly
  /\ UNCHANGED <<sandbox, stop, timedOut, requests, receipt, result, faults>>

\* An uncaught exception or SIGKILL, at any point of the run, also within a write: the
\* receipt file exists before its text does.
RunnerDies ==
  /\ ~Ended
  /\ Fault
  /\ Die
  /\ HalfWritten
  /\ receipt' \in (IF pc["main"] = "receipt" THEN {"none", "torn"} ELSE {receipt})
  /\ UNCHANGED <<preparation, workspace, agentExit, moves, pipe, issued, stop, timedOut, requests, recorded,
                 locals, sequence, previousTree, result, exitCode, failed>>

-----------------------------------------------------------------------------
(* The watcher and the broker; they stop with the process. *)

HelperOnly == UNCHANGED <<preparation, sandbox, stop, timedOut, brokerError, locals, sequence,
                          previousTree, disk, exitCode, faults, failed>>

WatcherPoll ==
  /\ pc["watcher"] = "idle" /\ ~Ended
  /\ Goto("watcher", IF stop THEN "done" ELSE "poll")
  /\ HelperOnly
  /\ UNCHANGED <<requests, snapshotError>>

\* snapshot_error.append(...); return
WatcherRecord ==
  /\ pc["watcher"] = "raised" /\ ~Ended
  /\ snapshotError' = TRUE
  /\ Goto("watcher", "done")
  /\ HelperOnly
  /\ UNCHANGED requests

\* The next request file is there: capture before process_request (module Feedback).
BrokerRequest ==
  /\ pc["broker"] = "idle" /\ ~Ended
  /\ requests < issued /\ requests < MaxRequests
  /\ requests' = requests + 1
  /\ Goto("broker", "request")
  /\ HelperOnly
  /\ UNCHANGED snapshotError

\* Faulty variant: the broker stops only when the quota is used up.
BrokerStopOnQuota ==
  /\ pc["broker"] = "idle" /\ ~Ended
  /\ requests = MaxRequests
  /\ Goto("broker", "done")
  /\ HelperOnly
  /\ UNCHANGED <<requests, snapshotError>>

\* The quota is used up, or close() set the stop event; a request whose file appears
\* between the last look and the stop is left over.
BrokerStop ==
  /\ pc["broker"] = "idle" /\ ~Ended
  /\ pc["main"] = "close" \/ requests = MaxRequests
  /\ Goto("broker", "done")
  /\ HelperOnly
  /\ UNCHANGED <<requests, snapshotError>>

-----------------------------------------------------------------------------
(* The agent: everything inside the sandbox. *)

AgentOnly == UNCHANGED <<preparation, threads, recorded, locals, sequence, previousTree, disk,
                         exitCode, faults, failed>>

AgentEdit ==
  /\ agent = "running" /\ moves < MaxMoves
  /\ moves' = moves + 1
  /\ \E f \in File, c \in Content \cup {Absent} :
       c # workspace[f] /\ workspace' = [workspace EXCEPT ![f] = c]
  /\ UNCHANGED <<agent, agentExit, pipe, issued>>
  /\ AgentOnly

AgentEvent ==
  /\ agent = "running" /\ moves < MaxMoves
  /\ moves' = moves + 1
  /\ pipe' = pipe + 1
  /\ UNCHANGED <<workspace, agent, agentExit, issued>>
  /\ AgentOnly

\* A feedback request file.
AgentRequest ==
  /\ Brokered /\ agent = "running" /\ moves < MaxMoves
  /\ moves' = moves + 1
  /\ issued' = issued + 1
  /\ UNCHANGED <<workspace, agent, agentExit, pipe>>
  /\ AgentOnly

AgentExit ==
  /\ agent = "running"
  /\ agent' = "dead"
  /\ agentExit' \in {"ok", "fail"}
  /\ UNCHANGED <<workspace, moves, pipe, issued>>
  /\ AgentOnly

-----------------------------------------------------------------------------

CaptureStep(t) ==
  \/ Acquire(t) \/ ReadFile(t) \/ RejectFile(t) \/ SkipTree(t) \/ NewTree(t)
  \/ WriteBlob(t) \/ WriteDiff(t) \/ AppendEntry(t)

\* The capture steps of a process that still runs.
Capture(t) ==
  /\ ~Ended
  /\ CaptureStep(t) \/ FailCapture(t)
  /\ UNCHANGED preparation

MainStep ==
  \/ StartThreads \/ Popen \/ WriteReceipt \/ ReadEvent \/ EndTerm
  \/ LeaveLoop \/ StopWatcher \/ JoinWatcher \/ WriteResult \/ Exit

WatcherStep == WatcherPoll \/ WatcherRecord
BrokerStep  == BrokerRequest \/ BrokerStop
Agent       == AgentEdit \/ AgentEvent \/ AgentRequest \/ AgentExit

Terminated == Ended /\ UNCHANGED vars

Next ==
  \/ Prepare \/ EditTask
  \/ \E t \in Thread : Capture(t)
  \/ MainStep \/ WallTimeout \/ RunnerDies
  \/ WatcherStep \/ BrokerStep \/ Agent
  \/ Terminated

(* The threads are scheduled, a released lock reaches whoever waits for it (the watcher
   sleeps 0.25 s between its captures) and the wall clock passes the limit.  Nothing is
   assumed of the agent: it may run and stay silent forever. *)
Fairness ==
  /\ WF_vars(MainStep) /\ WF_vars(WallTimeout) /\ WF_vars(WatcherStep) /\ WF_vars(BrokerStep)
  /\ WF_vars(Prepare) /\ \A t \in Thread : SF_vars(Capture(t))

Spec == Init /\ [][Next]_vars /\ Fairness

-----------------------------------------------------------------------------
(* What reads the result directory: runs/gdr_native_optimization/post_agent.py and
   runner.export_snapshot. *)

\* capture_incidence_record: is the session a member of the denominator?
Counted == receipt = "whole"

Parses(i) == i \in DOMAIN journal /\ journal[i] # Garbled

\* The last line of the journal is an entry of this tree.
EndsWith(tree) == Parses(Len(journal)) /\ journal[Len(journal)].tree = tree

\* validate_capture: the gate in front of every trusted replay.
ValidCapture ==
  /\ Counted
  /\ manifest = "whole"
  /\ result # NoResult
  /\ result.status = "completed" /\ result.clean
  /\ \A i \in DOMAIN journal : Parses(i) /\ journal[i].sequence = i
  /\ journal # <<>> /\ Len(journal) = result.count
  /\ EndsWith(result.tree)
  /\ result.tree[Kernel] # Absent /\ result.tree[Kernel] = workspace[Kernel]
  /\ \A f \in File \ {Kernel} : result.tree[f] = Starter[f] /\ workspace[f] = Starter[f]

\* export_snapshot: every blob of the tree hashes to its name.
Exportable(tree) == \A f \in Present(tree) : blobs[tree[f]] = "whole"

-----------------------------------------------------------------------------
(* Safety. *)

\* The number of lines that ended.
Lines == IF tornLine THEN Len(journal) - 1 ELSE Len(journal)

\* The journal holds a line that does not parse, or a last line without its newline.
Damaged == tornLine \/ \E i \in DOMAIN journal : ~Parses(i)

\* The lines that parse are one chain, whoever appended them: each differs from its parent,
\* the parent is the tree of the line before when that parses, the numbers increase, and
\* the Snapshotter's own tree is the one of the last line that ended.  Only a capture that
\* raised, or the death of the runner, damages the journal.
JournalChain ==
  /\ \A i \in DOMAIN journal : Parses(i) =>
       /\ journal[i].tree # journal[i].parent
       /\ journal[i].sequence <= sequence
       /\ i = 1 => journal[i].parent = None
       /\ Parses(i - 1) => journal[i].parent = journal[i - 1].tree
  /\ \A i, j \in DOMAIN journal :
       i < j /\ Parses(i) /\ Parses(j) => journal[i].sequence < journal[j].sequence
  /\ previousTree = None <=> Lines = 0
  /\ Parses(Lines) => previousTree = journal[Lines].tree
  /\ Damaged => failed # {} \/ pc["main"] = "crashed"

\* result.json without snapshot errors names the source the agent left, and the journal ends
\* with an entry of it, whatever outlived its join, whichever thread erred: unless the last
\* line is torn, or was glued to a torn one, and then a capture of the broker or the watcher
\* has raised.
CleanResultIsFinalSource ==
  result # NoResult /\ result.clean =>
    /\ result.tree = workspace /\ journal # <<>>
    /\ \/ EndsWith(workspace)
       \/ /\ tornLine \/ ~Parses(Len(journal))
          /\ "watcher" \in failed \/ ("broker" \in failed /\ brokerError)

\* Interleavings alone never cost a run: when no capture raised, a completed, clean run that
\* changed only the kernel passes validate_capture and every entry of its journal can be
\* exported, not just the last.
QuietRunReplays ==
  /\ result # NoResult /\ result.clean /\ result.status = "completed"
  /\ failed = {}
  /\ workspace[Kernel] # Absent /\ \A f \in File \ {Kernel} : workspace[f] = Starter[f]
  /\ Brokered
  => ValidCapture /\ \A i \in DOMAIN journal : Exportable(journal[i].tree)

\* "Limits on file size/count fail the run visibly": exit code 0 means that no capture
\* raised, in any thread, except in a watcher that has raised and not yet recorded it after
\* join(timeout=2) gave up on it.
FailureShowsInExit ==
  exitCode = "ok" =>
    /\ failed \subseteq {"watcher"}
    /\ "watcher" \in failed => pc["watcher"] = "raised"

\* What the run directory says of the launch.  The receipt never exists for an agent that
\* was not started, and a started agent lacks it only while it is being written or when the
\* run died there.  An agent is started with a whole manifest and a journal whose first line
\* parses, stays so and names the source it was handed, also when the task changed between
\* its check and its copy: the entry then shows a tree that the freeze does not name.
LaunchIsRecorded ==
  /\ receipt # "none" => agent # "unborn"
  /\ Brokered /\ agent # "unborn" /\ ~Counted => pc["main"] \in {"receipt", "crashed"}
  /\ agent # "unborn" => manifest = "whole" /\ Parses(1) /\ Lines > 0
  /\ agent = "unborn" /\ Parses(1) => journal[1].tree = workspace

\* "Candidate source is never overwritten in the blob store", and no step takes back a
\* journal line that ended, a receipt or a result.  A torn line never becomes an entry.
ArtifactsOnlyGrow ==
  [][/\ \A c \in Content : blobs[c] # "absent" => blobs'[c] = blobs[c]
     /\ Len(journal) <= Len(journal')
     /\ \A i \in 1 .. Lines : journal'[i] = journal[i]
     /\ tornLine => journal'[Len(journal)] \in {journal[Len(journal)], Garbled}
     /\ receipt # "none" => receipt' = receipt
     /\ result # NoResult => result' = result]_disk

\* What the run promises a reader of its result: a log of source trees, and a seal on it.
Log == INSTANCE SourceLog WITH
  log    <- [i \in DOMAIN journal |-> IF Parses(i) THEN journal[i].tree ELSE Garbled],
  whole  <- ~tornLine,
  sealed <- IF result # NoResult /\ result.clean THEN result.tree ELSE None

\* A run implements the sealed source log.
RecordsSourceLog == Log!Spec

\* Every run ends, whatever the agent does.
RunEnds == <>Ended

\* "Every launched v3 agent session belongs in the incidence denominator": an ended run
\* whose agent was started has a receipt that counts it.
LaunchedIsCounted == Brokered /\ Ended /\ agent # "unborn" => Counted
=============================================================================
