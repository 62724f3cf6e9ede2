---------------------------- MODULE CaptureProofs ----------------------------
(***************************************************************************)
(* Theorems of module Capture, for every set of files and contents, every  *)
(* starter tree and every bound.                                           *)
(***************************************************************************)
EXTENDS Capture, SequenceTheorems, TLAPS

USE FileAssumption, ContentAssumption, StarterAssumption, ThreadAssumption, BoundAssumption

-----------------------------------------------------------------------------
(* The journal and its lines. *)

\* A line more.
LEMMA Appended ==
  ASSUME TypeOK, NEW line \in Line, journal' = Append(journal, line)
  PROVE  /\ journal' \in Seq(Line) /\ Len(journal) \in Nat /\ Len(journal') = Len(journal) + 1
         /\ DOMAIN journal = 1 .. Len(journal) /\ DOMAIN journal' = 1 .. Len(journal) + 1
         /\ \A i \in 1 .. Len(journal) : journal'[i] = journal[i]
         /\ journal'[Len(journal) + 1] = line
  BY DEF TypeOK

\* The last line spoiled.
LEMMA GluedLines ==
  ASSUME TypeOK, journal' = Glued
  PROVE  /\ journal' \in Seq(Line) /\ Len(journal) \in Nat /\ Len(journal') = Len(journal)
         /\ DOMAIN journal = 1 .. Len(journal) /\ DOMAIN journal' = 1 .. Len(journal)
         /\ \A i \in 1 .. Len(journal) : i # Len(journal) => journal'[i] = journal[i]
         /\ Len(journal) > 0 => journal'[Len(journal)] = Garbled
<1> DEFINE n == Len(journal)
<1>1. journal \in Seq(Line) /\ n \in Nat /\ journal \in [1..n -> Line] /\ DOMAIN journal = 1..n
  BY DEF TypeOK
<1>2. journal' = [i \in DOMAIN journal |-> IF i = n THEN Garbled ELSE journal[i]]
  BY DEF Glued
<1> HIDE DEF n
<1>3. journal' \in [1..n -> Line]
  BY <1>1, <1>2 DEF Line
<1>4. journal' \in Seq(Line) /\ Len(journal') = n /\ DOMAIN journal' = 1..n
  BY <1>1, <1>3
<1>5. \A i \in 1..n : journal'[i] = IF i = n THEN Garbled ELSE journal[i]
  BY <1>1, <1>2
<1>6. n > 0 => n \in 1..n
  BY <1>1
<1> QED
  BY <1>1, <1>4, <1>5, <1>6 DEF n

LEMMA NewEntryType == ASSUME TypeOK PROVE NewEntry \in Entry
  BY DEF TypeOK, NewEntry, Entry

\* What a step may do to the journal: nothing, or a line more, whole or cut off, or more text
\* on a line that was cut off.
AddsLine(line) == ~tornLine /\ journal' = Append(journal, line)
SpoilsLine     == tornLine /\ journal' = Glued

LEMMA HalfWrittenTypes ==
  ASSUME TypeOK, HalfWritten
  PROVE  /\ journal' \in Seq(Line) /\ tornLine' \in BOOLEAN
         /\ blobs' \in [Content -> {"absent", "torn", "whole"}]
         /\ \/ UNCHANGED <<journal, tornLine>>
            \/ /\ step = "entry" /\ tornLine'
               /\ AddsLine(NewEntry) \/ AddsLine(Garbled) \/ SpoilsLine
<1>1. blobs' \in [Content -> {"absent", "torn", "whole"}]
  BY DEF HalfWritten, TypeOK
<1>2. \/ UNCHANGED <<journal, tornLine>>
      \/ /\ step = "entry" /\ tornLine'
         /\ AddsLine(NewEntry) \/ AddsLine(Garbled) \/ SpoilsLine
  BY DEF HalfWritten, AddsLine, SpoilsLine, TypeOK
<1>3. journal' \in Seq(Line) /\ tornLine' \in BOOLEAN
  <2>1. NewEntry \in Line /\ Garbled \in Line
    BY NewEntryType DEF Line
  <2>2. CASE UNCHANGED <<journal, tornLine>>
    BY <2>2 DEF TypeOK
  <2>3. CASE journal' = Glued /\ tornLine'
    BY <1>2, <2>3, GluedLines DEF HalfWritten
  <2>4. CASE tornLine' /\ (journal' = Append(journal, NewEntry) \/ journal' = Append(journal, Garbled))
    BY <1>2, <2>1, <2>4, Appended DEF HalfWritten
  <2> QED
    BY <1>2, <2>2, <2>3, <2>4 DEF AddsLine, SpoilsLine
<1> QED
  BY <1>1, <1>2, <1>3

LEMMA AppendTypes ==
  ASSUME TypeOK, NEW t \in Thread, AppendEntry(t)
  PROVE  /\ journal' \in Seq(Line) /\ ~tornLine' /\ tornLine' = FALSE /\ step = "entry"
         /\ AddsLine(NewEntry) \/ SpoilsLine
<1>1. AddsLine(NewEntry) \/ SpoilsLine
  BY DEF AppendEntry, AddsLine, SpoilsLine
<1>2. NewEntry \in Line
  BY NewEntryType DEF Line
<1> QED
  BY <1>1, <1>2, Appended, GluedLines DEF AppendEntry, AddsLine, SpoilsLine

-----------------------------------------------------------------------------
(* Types. *)

\* The frames that the actions share.
LEMMA ReturnTypes ==
  ASSUME TypeOK, NEW t \in Thread, Return(t)
  PROVE  /\ pc' \in [Thread -> MainPC \cup HelperPC]
         /\ agent' \in {"unborn", "running", "dead"}
         /\ snapshotError' \in BOOLEAN /\ brokerError' \in BOOLEAN
         /\ lock' \in Thread \cup {NoThread} /\ step' \in {"none", "scan", "blobs", "entry"}
         /\ todo' \subseteq File /\ files' \in Tree
         /\ failed' \subseteq Thread
  BY DEF TypeOK, Return, Unlock, Goto, AfterCapture, Thread, MainPC, HelperPC, Tree, Nothing

LEMMA RaiseTypes ==
  ASSUME TypeOK, NEW t \in Thread, NEW exception, Raise(t, exception)
  PROVE  /\ pc' \in [Thread -> MainPC \cup HelperPC]
         /\ agent' \in {"unborn", "running", "dead"}
         /\ snapshotError' \in BOOLEAN /\ brokerError' \in BOOLEAN
         /\ lock' \in Thread \cup {NoThread} /\ step' \in {"none", "scan", "blobs", "entry"}
         /\ todo' \subseteq File /\ files' \in Tree
         /\ failed' \subseteq Thread
<1>1. /\ lock' \in Thread \cup {NoThread} /\ step' \in {"none", "scan", "blobs", "entry"}
      /\ todo' \subseteq File /\ files' \in Tree
  BY DEF Raise, Unlock, Tree, Nothing
<1>2. failed' \subseteq Thread
  BY DEF Raise, TypeOK
<1>3. CASE Die /\ UNCHANGED recorded
  <2>1. pc' \in [Thread -> MainPC \cup HelperPC]
    BY <1>3 DEF Die, MainPC, HelperPC
  <2>2. agent' \in {"unborn", "running", "dead"}
    BY <1>3 DEF Die, TypeOK
  <2> QED
    BY <1>1, <1>2, <1>3, <2>1, <2>2 DEF TypeOK, recorded
<1>4. CASE snapshotError' = TRUE /\ Goto(t, AfterCapture(t)) /\ UNCHANGED <<agent, brokerError>>
  BY <1>1, <1>2, <1>4 DEF TypeOK, Goto, AfterCapture, MainPC, HelperPC
<1>5. CASE Goto(t, "raised") /\ UNCHANGED <<agent, recorded>>
  BY <1>1, <1>2, <1>5 DEF TypeOK, Goto, MainPC, HelperPC, recorded
<1>6. CASE brokerError' = TRUE /\ Goto(t, "idle") /\ UNCHANGED <<agent, snapshotError>>
  BY <1>1, <1>2, <1>6 DEF TypeOK, Goto, MainPC, HelperPC
<1> QED
  BY <1>3, <1>4, <1>5, <1>6 DEF Raise

LEMMA CaptureTypes ==
  ASSUME TypeOK, NEW t \in Thread, Capture(t)
  PROVE  TypeOK'
<1>0. UNCHANGED <<task, unplaced, manifest>>
  BY DEF Capture, preparation
<1>1. CASE Acquire(t)
  BY <1>0, <1>1 DEF Acquire, TypeOK, Present, sandbox, threads, recorded, disk
<1>2. CASE ReadFile(t)
  BY <1>0, <1>2 DEF ReadFile, TypeOK, Tree, sandbox, threads, recorded, disk
<1>3. CASE RejectFile(t)
  BY <1>0, <1>3, RaiseTypes DEF RejectFile, TypeOK, disk
<1>4. CASE SkipTree(t)
  BY <1>0, <1>4, ReturnTypes DEF SkipTree, TypeOK, disk
<1>5. CASE NewTree(t)
  BY <1>0, <1>5 DEF NewTree, TypeOK, Present, sandbox, threads, recorded, disk
<1>6. CASE WriteBlob(t)
  <2>1. blobs' \in [Content -> {"absent", "torn", "whole"}]
    BY <1>6 DEF WriteBlob, TypeOK
  <2>2. todo' \subseteq File
    BY <1>6 DEF WriteBlob, TypeOK
  <2> QED
    BY <1>0, <1>6, <2>1, <2>2 DEF WriteBlob, TypeOK, sandbox, threads, recorded
<1>7. CASE WriteDiff(t)
  BY <1>0, <1>7 DEF WriteDiff, TypeOK, sandbox, threads, recorded, disk
<1>8. CASE AppendEntry(t)
  <2>1. journal' \in Seq(Line) /\ tornLine' \in BOOLEAN
    BY <1>8, AppendTypes
  <2> QED
    BY <1>0, <1>8, <2>1, ReturnTypes DEF AppendEntry, TypeOK
<1>9. CASE FailCapture(t)
  <2>1. /\ blobs' \in [Content -> {"absent", "torn", "whole"}]
        /\ journal' \in Seq(Line) /\ tornLine' \in BOOLEAN
    BY <1>9, HalfWrittenTypes DEF FailCapture
  <2>2. sequence' \in Nat
    <3>1. sequence' = sequence \/ sequence' = sequence + 1
      BY <1>9, Zenon DEF FailCapture
    <3> QED
      BY <3>1 DEF TypeOK
  <2>6. faults' \in Nat
    BY <1>9 DEF FailCapture, TypeOK, Fault
  <2>3. PICK exception \in {"OSError"} : Raise(t, exception)
    BY <1>9 DEF FailCapture
  <2>4. /\ pc' \in [Thread -> MainPC \cup HelperPC]
        /\ agent' \in {"unborn", "running", "dead"}
        /\ snapshotError' \in BOOLEAN /\ brokerError' \in BOOLEAN
        /\ lock' \in Thread \cup {NoThread} /\ step' \in {"none", "scan", "blobs", "entry"}
        /\ todo' \subseteq File /\ files' \in Tree
        /\ failed' \subseteq Thread
    BY <2>3, RaiseTypes
  <2>5. UNCHANGED <<workspace, agentExit, moves, pipe, issued, stop, timedOut, requests,
                    previousTree, receipt, result, exitCode>>
    BY <1>9 DEF FailCapture
  <2> QED
    BY <1>0, <2>1, <2>2, <2>4, <2>5, <2>6 DEF TypeOK
<1> QED
  BY <1>1, <1>2, <1>3, <1>4, <1>5, <1>6, <1>7, <1>8, <1>9 DEF Capture, CaptureStep

LEMMA MainTypes ==
  ASSUME TypeOK, MainStep \/ WallTimeout \/ RunnerDies
  PROVE  TypeOK'
<1> USE DEF MainOnly, Goto, Thread, MainPC, HelperPC, preparation, recorded, locals, sandbox
<1>1. CASE StartThreads
  BY <1>1 DEF StartThreads, TypeOK
<1>2. CASE Popen
  BY <1>2 DEF Popen, TypeOK
<1>3. CASE WriteReceipt
  BY <1>3 DEF WriteReceipt, TypeOK
<1>4. CASE ReadEvent
  <2>1. pc' \in [Thread -> MainPC \cup HelperPC]
    <3>1. CASE Goto("main", "event")
      BY <3>1 DEF TypeOK
    <3>2. CASE UNCHANGED pc
      BY <3>2 DEF TypeOK
    <3> QED
      BY <1>4, <3>1, <3>2 DEF ReadEvent
  <2>3. snapshotError' \in BOOLEAN
    BY <1>4 DEF ReadEvent, TypeOK
  <2>2. pipe' \in Nat
    BY <1>4 DEF ReadEvent, TypeOK
  <2> QED
    BY <1>4, <2>1, <2>2, <2>3 DEF ReadEvent, TypeOK, disk
<1>5. CASE EndTerm
  BY <1>5 DEF EndTerm, TypeOK
<1>6. CASE LeaveLoop
  BY <1>6 DEF LeaveLoop, TypeOK
<1>7. CASE StopWatcher
  BY <1>7 DEF StopWatcher, TypeOK
<1>8. CASE JoinWatcher
  BY <1>8 DEF JoinWatcher, TypeOK
<1>9. CASE WriteResult
  BY <1>9 DEF WriteResult, TypeOK, Result, RunStatus, Status
<1>10. CASE Exit
  BY <1>10 DEF Exit, TypeOK
<1>11. CASE WallTimeout
  BY <1>11 DEF WallTimeout, TypeOK
<1>12. CASE RunnerDies
  BY <1>12, HalfWrittenTypes DEF RunnerDies, Fault, Die, TypeOK
<1> QED
  BY <1>1, <1>2, <1>3, <1>4, <1>5, <1>6, <1>7, <1>8, <1>9, <1>10, <1>11, <1>12 DEF MainStep

LEMMA HelperTypes ==
  ASSUME TypeOK, WatcherStep \/ BrokerStep \/ Agent
  PROVE  TypeOK'
<1> USE DEF HelperOnly, Goto, Thread, MainPC, HelperPC, AgentOnly, preparation, sandbox,
            threads, recorded, locals, disk
<1>1. CASE WatcherPoll
  BY <1>1 DEF WatcherPoll, TypeOK
<1>2. CASE WatcherRecord
  BY <1>2 DEF WatcherRecord, TypeOK
<1>3. CASE BrokerRequest
  BY <1>3 DEF BrokerRequest, TypeOK
<1>4. CASE BrokerStop
  BY <1>4 DEF BrokerStop, TypeOK
<1>5. CASE AgentEdit
  BY <1>5 DEF AgentEdit, TypeOK, Tree
<1>6. CASE AgentEvent
  BY <1>6 DEF AgentEvent, TypeOK
<1>8. CASE AgentRequest
  BY <1>8 DEF AgentRequest, TypeOK
<1>7. CASE AgentExit
  BY <1>7 DEF AgentExit, TypeOK
<1> QED
  BY <1>1, <1>2, <1>3, <1>4, <1>5, <1>6, <1>7, <1>8 DEF WatcherStep, BrokerStep, Agent

LEMMA PrepareTypes ==
  ASSUME TypeOK, Prepare \/ EditTask
  PROVE  TypeOK'
<1> USE DEF PrepareOnly, Goto, Thread, MainPC, HelperPC, Preparing, preparation, recorded,
            locals, disk
<1>1. CASE HashFile
  BY <1>1 DEF HashFile, TypeOK
<1>2. CASE AcceptTask
  BY <1>2 DEF AcceptTask, TypeOK
<1>3. CASE MakeRun
  BY <1>3 DEF MakeRun, TypeOK, Present
<1>4. CASE CopyFile
  <2>1. workspace' \in Tree
    BY <1>4 DEF CopyFile, TypeOK, Tree
  <2>2. unplaced' \subseteq File
    BY <1>4 DEF CopyFile, TypeOK
  <2> QED
    BY <1>4, <2>1, <2>2 DEF CopyFile, TypeOK
<1>5. CASE CreateManifest
  BY <1>5 DEF CreateManifest, TypeOK
<1>6. CASE WriteManifest
  BY <1>6 DEF WriteManifest, TypeOK
<1>7. CASE Refuse
  BY <1>7 DEF Refuse, Die, TypeOK
<1>8. CASE EditTask
  <2>1. task' \in Tree
    BY <1>8 DEF EditTask, TypeOK, Tree
  <2>2. moves' \in Nat
    BY <1>8 DEF EditTask, TypeOK
  <2> QED
    BY <1>8, <2>1, <2>2 DEF EditTask, TypeOK
<1> QED
  BY <1>1, <1>2, <1>3, <1>4, <1>5, <1>6, <1>7, <1>8 DEF Prepare

LEMMA StutterTypes ==
  ASSUME TypeOK, UNCHANGED vars
  PROVE  TypeOK'
  BY DEF TypeOK, vars, preparation, sandbox, threads, recorded, locals, disk

LEMMA InitTypes == Init => TypeOK
<1> SUFFICES ASSUME Init PROVE TypeOK
  OBVIOUS
<1>1. pc \in [Thread -> MainPC \cup HelperPC]
  BY DEF Init, MainPC, HelperPC, Preparing
<1>2. files \in Tree /\ workspace \in Tree
  BY DEF Init, Tree, Nothing
<1>3. journal \in Seq(Line) /\ blobs \in [Content -> {"absent", "torn", "whole"}]
  BY DEF Init
<1> QED
  BY <1>1, <1>2, <1>3 DEF Init, TypeOK

LEMMA StepTypes == TypeOK /\ [Next]_vars => TypeOK'
  BY CaptureTypes, MainTypes, HelperTypes, PrepareTypes, StutterTypes DEF Next, Terminated

\* Every variable keeps its type.
THEOREM TypeCorrect == Spec => []TypeOK
  BY StepTypes, InitTypes, PTL DEF Spec

-----------------------------------------------------------------------------
(* The inductive invariant. *)

\* A helper thread is never where only the main thread can be, and conversely.
Places ==
  /\ pc["main"] \in MainPC
  /\ pc["watcher"] \in HelperPC /\ pc["broker"] \in HelperPC
  /\ pc["main"] \in Preparing \cup {"starter", "start"} =>
       pc["watcher"] = "off" /\ pc["broker"] = "off"

\* Who holds the lock is inside capture, and its local variables are only set there.
Holder ==
  /\ ~Ended => (lock # NoThread => pc[lock] \in CapturePC)
  /\ lock = NoThread <=> step = "none"
  /\ step = "none" => files = Nothing

Roles == Places /\ Holder

\* From broker.close() on the agent is dead, and a dead runner leaves no agent behind.
Outlived ==
  /\ pc["main"] \in {"close", "join", "final", "build", "report", "exited"} => agent = "dead"
  /\ pc["main"] = "crashed" => agent # "running"

\* The receipt is written once, right after the launch.
Launch ==
  /\ pc["main"] \in Preparing \cup {"starter", "start", "spawn"} => agent = "unborn"
  /\ pc["main"] \in Preparing \cup {"starter", "start", "spawn", "receipt"} => receipt = "none"
  /\ pc["main"] = "receipt" => agent # "unborn"
  /\ receipt # "none" => agent # "unborn"
  /\ Brokered /\ agent # "unborn" /\ ~Counted => pc["main"] \in {"receipt", "crashed"}

\* What the run has written about its start, and when: the manifest before the starter
\* capture, that capture before the threads and the agent.
Started ==
  /\ pc["main"] \notin Preparing \cup {"crashed"} => manifest = "whole"
  /\ pc["main"] \in Preparing \cup {"starter"} => journal = <<>> /\ ~tornLine
  /\ pc["main"] \notin Preparing \cup {"starter", "crashed"} => Parses(1) /\ Lines > 0
  /\ agent # "unborn" => manifest = "whole" /\ Parses(1) /\ Lines > 0

\* The entries that parse, one after the other.
Links ==
  /\ \A i \in DOMAIN journal : Parses(i) =>
       /\ journal[i].tree # journal[i].parent
       /\ journal[i].sequence <= sequence
       /\ i = 1 => journal[i].parent = None
       /\ Parses(i - 1) => journal[i].parent = journal[i - 1].tree
  /\ \A i, j \in DOMAIN journal :
       i < j /\ Parses(i) /\ Parses(j) => journal[i].sequence < journal[j].sequence

\* The end of the chain, which the next entry will name.
Tip ==
  /\ tornLine => Len(journal) > 0
  /\ previousTree = None <=> Lines = 0
  /\ Parses(Lines) => previousTree = journal[Lines].tree

\* The chain, and what a capture past its comparison still knows of it.
Chain ==
  /\ Links /\ Tip
  /\ step \in {"blobs", "entry"} => files # previousTree
  /\ step = "entry" /\ pc["main"] # "crashed" =>
       \A i \in DOMAIN journal : Parses(i) => journal[i].sequence < sequence

\* The run has decided that the final capture succeeded.
Sealed == \/ pc["main"] = "build" /\ ~snapshotError
          \/ result # NoResult /\ result.clean

\* What a scan of a source that nobody edits has read so far.
Faithful == files = [f \in File |-> IF f \in todo THEN Absent ELSE workspace[f]]

\* The starter capture reads the source as it was copied, and nobody edits it before the launch.
Origin ==
  /\ lock = "main" /\ pc["main"] = "starter" =>
       IF step = "scan" THEN Faithful ELSE files = workspace
  /\ agent = "unborn" /\ Parses(1) => journal[1].tree = workspace

\* The final capture reads the source as it stands, and a watcher that outlived its join
\* finds nothing new in it.
Final ==
  /\ lock = "main" /\ pc["main"] = "final" =>
       IF step = "scan" THEN Faithful ELSE files = workspace
  /\ Sealed => /\ previousTree = workspace
               /\ step \in {"none", "scan"}
               /\ (step = "scan" => Faithful)
  /\ result # NoResult => /\ pc["main"] \in {"report", "exited", "crashed"}
                          /\ agent = "dead"
                          /\ (result.clean => result.tree = workspace)

IInv == TypeOK /\ Roles /\ Outlived /\ Launch /\ Started /\ Origin /\ Chain /\ Final

-----------------------------------------------------------------------------
(* What the kinds of steps leave alone. *)

\* Only a thread inside capture touches the Snapshotter and its journal, and a death may cut
\* off what it writes.
LEMMA OthersFrame ==
  ASSUME MainStep \/ WallTimeout \/ RunnerDies \/ WatcherStep \/ BrokerStep \/ Agent
         \/ UNCHANGED vars
  PROVE  /\ UNCHANGED <<locals, sequence, previousTree, failed>>
         /\ UNCHANGED <<blobs, journal, tornLine>> \/ RunnerDies
<1> USE DEF MainOnly, HelperOnly, AgentOnly, disk, locals
<1>1. CASE MainStep \/ WallTimeout \/ RunnerDies
  BY <1>1 DEF MainStep, StartThreads, Popen, WriteReceipt, ReadEvent, EndTerm, LeaveLoop,
              StopWatcher, JoinWatcher, WriteResult, Exit, WallTimeout, RunnerDies
<1>2. CASE WatcherStep \/ BrokerStep
  BY <1>2 DEF WatcherStep, WatcherPoll, WatcherRecord, BrokerStep, BrokerRequest, BrokerStop
<1>3. CASE Agent
  BY <1>3 DEF Agent, AgentEdit, AgentEvent, AgentRequest, AgentExit
<1>4. CASE UNCHANGED vars
  BY <1>4 DEF vars
<1> QED
  BY <1>1, <1>2, <1>3, <1>4

\* It touches nothing of the capture, and either stays where it is, goes on, or ends the run.
LEMMA PrepareFrame ==
  ASSUME Prepare \/ EditTask
  PROVE  /\ pc["main"] \in Preparing
         /\ UNCHANGED <<recorded, locals, sequence, previousTree, disk, failed>>
         /\ \/ UNCHANGED <<pc, agent>>
            \/ /\ agent' = agent
               /\ \E next \in Preparing \cup {"starter"} :
                    /\ Goto("main", next)
                    /\ next = "starter" => manifest' = "whole"
            \/ Die
<1> USE DEF PrepareOnly, Preparing
<1>1. CASE HashFile \/ CopyFile
  BY <1>1 DEF HashFile, CopyFile
<1>2. CASE AcceptTask \/ MakeRun \/ CreateManifest
  BY <1>2 DEF AcceptTask, MakeRun, CreateManifest
<1>3. CASE WriteManifest
  BY <1>3 DEF WriteManifest
<1>4. CASE Refuse
  BY <1>4 DEF Refuse
<1>5. CASE EditTask
  BY <1>5 DEF EditTask
<1> QED
  BY <1>1, <1>2, <1>3, <1>4, <1>5 DEF Prepare

\* What every step may do to the journal, and when.
LEMMA JournalStep ==
  ASSUME TypeOK, [Next]_vars
  PROVE  \/ UNCHANGED <<journal, tornLine>>
         \/ /\ step = "entry" /\ tornLine' \in BOOLEAN
            /\ AddsLine(NewEntry) \/ (AddsLine(Garbled) /\ tornLine') \/ SpoilsLine
<1>1. CASE \E t \in Thread : AppendEntry(t)
  BY <1>1, AppendTypes
<1>2. CASE RunnerDies \/ \E t \in Thread : FailCapture(t)
  BY <1>2, HalfWrittenTypes DEF RunnerDies, FailCapture
<1>3. CASE \E t \in Thread : Capture(t) /\ ~AppendEntry(t) /\ ~FailCapture(t)
  BY <1>3 DEF Capture, CaptureStep, Acquire, ReadFile, RejectFile, SkipTree, NewTree, WriteBlob,
              WriteDiff, disk
<1>4. CASE Prepare \/ EditTask
  BY <1>4, PrepareFrame DEF disk
<1> QED
  BY <1>1, <1>2, <1>3, <1>4, OthersFrame DEF Next, Terminated, Capture

\* Lines that ended stay as they are, and a torn line never becomes an entry.
LEMMA LinesStay ==
  ASSUME TypeOK, tornLine => Len(journal) > 0,
         \/ UNCHANGED <<journal, tornLine>>
         \/ /\ tornLine' \in BOOLEAN
            /\ AddsLine(NewEntry) \/ (AddsLine(Garbled) /\ tornLine') \/ SpoilsLine
  PROVE  /\ Len(journal) <= Len(journal') /\ Lines \in Nat /\ Lines <= Lines'
         /\ \A i \in 1 .. Lines : journal'[i] = journal[i] /\ (Parses(i)' <=> Parses(i))
         /\ tornLine => journal'[Len(journal)] \in {journal[Len(journal)], Garbled}
         /\ tornLine' => Len(journal') > 0
<1>1. /\ journal \in Seq(Line) /\ Len(journal) \in Nat /\ DOMAIN journal = 1 .. Len(journal)
      /\ tornLine \in BOOLEAN
  BY DEF TypeOK
<1>2. /\ tornLine => Lines = Len(journal) - 1
      /\ ~tornLine => Lines = Len(journal)
      /\ tornLine' => Lines' = Len(journal') - 1
      /\ ~tornLine' => Lines' = Len(journal')
  BY DEF Lines
<1>3. Lines \in Nat /\ Lines <= Len(journal)
  <2>1. CASE tornLine
    BY <1>1, <1>2, <2>1
  <2>2. CASE ~tornLine
    BY <1>1, <1>2, <2>2
  <2> QED
    BY <2>1, <2>2
<1>4. CASE UNCHANGED <<journal, tornLine>>
  <2>1. Lines' = Lines
    BY <1>4 DEF Lines
  <2> QED
    BY <1>1, <1>3, <1>4, <2>1 DEF Parses
<1>5. ASSUME tornLine' \in BOOLEAN, SpoilsLine
      PROVE  /\ Len(journal) <= Len(journal') /\ Lines <= Lines'
             /\ \A i \in 1 .. Lines : journal'[i] = journal[i] /\ (Parses(i)' <=> Parses(i))
             /\ tornLine => journal'[Len(journal)] \in {journal[Len(journal)], Garbled}
             /\ Len(journal') > 0
  <2>1. /\ tornLine /\ Len(journal) > 0 /\ Len(journal') = Len(journal)
        /\ DOMAIN journal' = 1 .. Len(journal) /\ journal'[Len(journal)] = Garbled
        /\ \A i \in 1 .. Len(journal) : i # Len(journal) => journal'[i] = journal[i]
    BY <1>5, <1>1, GluedLines DEF SpoilsLine
  <2>2. Lines = Len(journal) - 1
    BY <1>2, <2>1
  <2>3. Lines' = Len(journal) - 1 \/ Lines' = Len(journal)
    BY <1>2, <1>5, <2>1
  <2>4. Len(journal) <= Len(journal') /\ Lines <= Lines'
    <3>1. \A n \in Nat : n <= n /\ n - 1 <= n /\ n - 1 <= n - 1
      OBVIOUS
    <3>2. Len(journal) \in Nat
      BY <1>1
    <3> QED
      BY <2>1, <2>2, <2>3, <3>1, <3>2
  <2>5. \A i \in 1 .. Lines : i \in 1 .. Len(journal) /\ i # Len(journal)
    <3>1. \A n \in Nat : \A i \in 1 .. n - 1 : i \in 1..n /\ i # n
      OBVIOUS
    <3>2. Len(journal) \in Nat
      BY <1>1
    <3> QED
      BY <2>2, <3>1, <3>2
  <2>6. ASSUME NEW i \in 1 .. Lines
        PROVE  journal'[i] = journal[i] /\ (Parses(i)' <=> Parses(i))
    <3>1. i \in 1 .. Len(journal) /\ i # Len(journal)
      BY <2>5
    <3> QED
      BY <1>1, <2>1, <3>1 DEF Parses
  <2> QED
    BY <2>1, <2>4, <2>6
<1>6. ASSUME ~tornLine, tornLine' \in BOOLEAN, NEW line \in Line, journal' = Append(journal, line)
      PROVE  /\ Len(journal) <= Len(journal') /\ Lines <= Lines'
             /\ \A i \in 1 .. Lines : journal'[i] = journal[i] /\ (Parses(i)' <=> Parses(i))
             /\ Len(journal') > 0
  <2>1. /\ Len(journal') = Len(journal) + 1 /\ DOMAIN journal' = 1 .. Len(journal) + 1
        /\ \A i \in 1 .. Len(journal) : journal'[i] = journal[i]
    BY <1>1, <1>6, Appended
  <2>2. Lines = Len(journal) /\ (Lines' = Len(journal') - 1 \/ Lines' = Len(journal'))
    BY <1>2, <1>6
  <2>3. Lines <= Lines'
    BY <1>1, <2>1, <2>2
  <2>4. ASSUME NEW i \in 1 .. Lines
        PROVE  journal'[i] = journal[i] /\ (Parses(i)' <=> Parses(i))
    <3>1. i \in 1 .. Len(journal) /\ i \in 1 .. Len(journal) + 1
      BY <1>1, <2>2
    <3> QED
      BY <1>1, <2>1, <3>1 DEF Parses
  <2> QED
    BY <1>1, <2>1, <2>3, <2>4
<1>7. NewEntry \in Line /\ Garbled \in Line
  BY NewEntryType DEF Line
<1>8. CASE tornLine' \in BOOLEAN /\ SpoilsLine
  BY <1>3, <1>5, <1>8
<1>9. CASE tornLine' \in BOOLEAN /\ (AddsLine(NewEntry) \/ AddsLine(Garbled))
  BY <1>3, <1>6, <1>7, <1>9 DEF AddsLine
<1> QED
  BY <1>4, <1>8, <1>9

\* A capture does not touch the sandbox's source, the receipt or the result.
LEMMA CaptureFrame ==
  ASSUME NEW t \in Thread, Capture(t)
  PROVE  UNCHANGED <<workspace, agentExit, receipt, result, exitCode>>
<1>1. CASE CaptureStep(t)
  BY <1>1 DEF CaptureStep, Acquire, ReadFile, RejectFile, SkipTree, NewTree, WriteBlob,
              WriteDiff, AppendEntry, sandbox, disk
<1>2. CASE FailCapture(t)
  BY <1>2 DEF FailCapture
<1> QED
  BY <1>1, <1>2 DEF Capture

\* A capture step waits for the lock, goes on under it, or leaves capture.
Inside(t) == /\ step' # "none" /\ lock' = t
             /\ UNCHANGED <<pc, agent, recorded, failed>>
             /\ \/ lock = NoThread /\ pc[t] \in CapturePC
                \/ lock = t /\ step # "none"

LEMMA CaptureKinds ==
  ASSUME NEW t \in Thread, Capture(t)
  PROVE  /\ ~Ended
         /\ \/ Inside(t)
            \/ lock = t /\ step # "none" /\ Return(t)
            \/ lock = t /\ step # "none" /\ \E exception \in {"RuntimeError", "OSError"} : Raise(t, exception)
<1>1. CASE Acquire(t)
  BY <1>1 DEF Acquire, Inside, Capture, sandbox, threads
<1>2. CASE ReadFile(t) \/ NewTree(t) \/ WriteBlob(t) \/ WriteDiff(t)
  BY <1>2 DEF ReadFile, NewTree, WriteBlob, WriteDiff, Inside, Capture, sandbox, threads
<1>3. CASE SkipTree(t) \/ AppendEntry(t)
  BY <1>3 DEF SkipTree, AppendEntry, Capture
<1>4. CASE RejectFile(t)
  BY <1>4 DEF RejectFile, Capture
<1>5. CASE FailCapture(t)
  BY <1>5 DEF FailCapture, Capture
<1> QED
  BY <1>1, <1>2, <1>3, <1>4, <1>5 DEF Capture, CaptureStep

-----------------------------------------------------------------------------
(* Every step preserves the roles. *)

LEMMA CaptureRoles ==
  ASSUME TypeOK, Roles, NEW t \in Thread, Capture(t)
  PROVE  Roles'
<1> USE DEF Thread, MainPC, HelperPC, Preparing
<1>0. t \in {"main", "watcher", "broker"} /\ ~Ended /\ pc \in [Thread -> MainPC \cup HelperPC]
  BY CaptureKinds DEF TypeOK
<1>1. ASSUME lock = t PROVE pc[t] \in CapturePC
  BY <1>0, <1>1 DEF Roles, Holder
<1>2. ASSUME pc[t] \in CapturePC, NEW next,
             next \in (IF t = "main" THEN MainPC ELSE HelperPC),
             t = "main" => /\ next \notin Preparing \cup {"starter"}
                           /\ next = "start" => pc[t] = "starter",
             pc' = [pc EXCEPT ![t] = next]
      PROVE  Places'
  <2>1. CASE t = "main"
    BY <1>0, <1>2, <2>1 DEF Roles, Places
  <2>2. CASE t = "watcher"
    BY <1>0, <1>2, <2>2 DEF Roles, Places, CapturePC
  <2>3. CASE t = "broker"
    BY <1>0, <1>2, <2>3 DEF Roles, Places, CapturePC
  <2> QED
    BY <1>0, <2>1, <2>2, <2>3
<1>3. ASSUME Unlock PROVE Holder'
  BY <1>3 DEF Unlock, Holder, Nothing
<1>4. CASE Inside(t)
  <2>1. pc[t] \in CapturePC /\ lock' = t /\ step' # "none" /\ pc' = pc
    BY <1>1, <1>4 DEF Inside
  <2> QED
    BY <1>0, <2>1, ThreadAssumption DEF Roles, Places, Holder, Ended
<1>5. ASSUME pc[t] \in CapturePC, Goto(t, AfterCapture(t)) PROVE Places'
  <2>1. AfterCapture(t) \in (IF t = "main" THEN MainPC ELSE HelperPC)
        /\ (t = "main" => /\ AfterCapture(t) \notin Preparing \cup {"starter"}
                          /\ AfterCapture(t) = "start" => pc[t] = "starter")
    BY <1>0, <1>5 DEF AfterCapture, CapturePC, Roles, Places
  <2> QED
    BY <1>2, <1>5, <2>1 DEF Goto
<1>6. ASSUME lock = t, Return(t) PROVE Roles'
  BY <1>1, <1>3, <1>5, <1>6 DEF Return, Roles
<1>7. ASSUME lock = t, NEW exception \in {"RuntimeError", "OSError"}, Raise(t, exception)
      PROVE  Roles'
  <2>1. CASE Die
    BY <2>1, <1>3, <1>7 DEF Die, Raise, Roles, Places
  <2>2. CASE Goto(t, AfterCapture(t))
    BY <1>1, <1>3, <1>5, <1>7, <2>2 DEF Raise, Roles
  <2>3. CASE t # "main" /\ (Goto(t, "raised") \/ Goto(t, "idle"))
    BY <1>1, <1>2, <1>3, <1>7, <2>3 DEF Raise, Roles, Goto
  <2>4. t = "main" => pc[t] \notin {"poll", "request"}
    BY DEF Roles, Places
  <2> QED
    BY <1>7, <2>1, <2>2, <2>3, <2>4 DEF Raise
<1> QED
  BY <1>4, <1>6, <1>7, CaptureKinds

LEMMA OthersRoles ==
  ASSUME TypeOK, Roles,
         MainStep \/ WallTimeout \/ RunnerDies \/ WatcherStep \/ BrokerStep \/ Agent
         \/ UNCHANGED vars
  PROVE  Roles'
<1> USE DEF Thread, MainPC, HelperPC, Preparing, Goto
<1>1. pc \in [Thread -> MainPC \cup HelperPC] /\ lock \in Thread \cup {NoThread}
  BY DEF TypeOK
<1>2. UNCHANGED <<lock, step, files>> /\ Nothing' = Nothing
  BY OthersFrame DEF locals, Nothing
<1>3. CASE UNCHANGED pc
  BY <1>2, <1>3 DEF Roles, Places, Holder, Ended
<1>4. CASE RunnerDies
  BY <1>2, <1>4 DEF RunnerDies, Die, Roles, Places, Holder, Ended
<1>5. CASE StartThreads
  <2>1. lock # "main"
    BY <1>5, <1>1 DEF StartThreads, Roles, Places, Holder, CapturePC, Ended
  <2>2. lock = NoThread
    BY <1>5, <1>1, <2>1 DEF StartThreads, Roles, Places, Holder, CapturePC, Ended
  <2> QED
    BY <1>1, <1>2, <1>5, <2>2 DEF StartThreads, Roles, Places, Holder, CapturePC, Ended
<1>6. ASSUME NEW next \in MainPC, pc' = [pc EXCEPT !["main"] = next],
             pc["main"] \notin CapturePC \cup {"start", "exited", "crashed"},
             next \notin Preparing \cup {"starter", "start"}
      PROVE  Roles'
  <2>1. Places'
    BY <1>1, <1>6 DEF Roles, Places, CapturePC
  <2>2. ~Ended /\ lock # "main"
    BY <1>6 DEF Roles, Holder, Ended, CapturePC
  <2>3. Holder'
    BY <1>1, <1>2, <1>6, <2>2 DEF Roles, Holder
  <2> QED
    BY <2>1, <2>3 DEF Roles
<1>7. ASSUME NEW t \in {"watcher", "broker"}, NEW next \in HelperPC, ~Ended,
             pc' = [pc EXCEPT ![t] = next], pc[t] \notin CapturePC \cup {"off"}
      PROVE  Roles'
  <2>1. Places'
    BY <1>1, <1>7 DEF Roles, Places
  <2>2. lock # t
    BY <1>7 DEF Roles, Holder
  <2>3. Holder'
    BY <1>1, <1>2, <1>7, <2>2 DEF Roles, Holder, Ended
  <2> QED
    BY <2>1, <2>3 DEF Roles
<1>8. CASE MainStep \/ WallTimeout
  <2>1. CASE Popen \/ WriteReceipt \/ EndTerm \/ LeaveLoop \/ StopWatcher \/ JoinWatcher
             \/ WriteResult \/ Exit \/ WallTimeout
    BY <1>6, <2>1 DEF Popen, WriteReceipt, EndTerm, LeaveLoop, StopWatcher, JoinWatcher,
                      WriteResult, Exit, WallTimeout, CapturePC
  <2>2. CASE ReadEvent
    BY <1>3, <1>6, <2>2 DEF ReadEvent, CapturePC
  <2> QED
    BY <1>5, <1>8, <2>1, <2>2 DEF MainStep
<1>9. CASE WatcherStep \/ BrokerStep
  BY <1>7, <1>9 DEF WatcherStep, WatcherPoll, WatcherRecord, BrokerStep, BrokerRequest,
                    BrokerStop, CapturePC
<1>10. CASE Agent \/ UNCHANGED vars
  BY <1>3, <1>10 DEF Agent, AgentEdit, AgentEvent, AgentRequest, AgentExit, AgentOnly, threads,
                     vars
<1> QED
  BY <1>4, <1>8, <1>9, <1>10

-----------------------------------------------------------------------------
(* Every step keeps the agent's life and the receipt in their order. *)

LEMMA CaptureOutlived ==
  ASSUME TypeOK, Roles, Outlived, Launch, NEW t \in Thread, Capture(t)
  PROVE  Outlived' /\ Launch'
<1> USE DEF Thread, MainPC, HelperPC, Preparing, Outlived, Launch, Counted
<1>1. ~Ended /\ pc \in [Thread -> MainPC \cup HelperPC] /\ receipt' = receipt
      /\ agent \in {"unborn", "running", "dead"}
  BY CaptureKinds, CaptureFrame DEF TypeOK
<1>2. CASE pc'["main"] = pc["main"] /\ agent' = agent
  BY <1>1, <1>2 DEF Ended
<1>3. CASE Die
  BY <1>1, <1>3 DEF Die, Ended
<1>4. CASE t = "main" /\ Goto(t, AfterCapture(t)) /\ agent' = agent /\ pc[t] \in CapturePC
  BY <1>1, <1>4 DEF Goto, AfterCapture, CapturePC, Roles, Places, Holder
<1>5. ASSUME lock = t PROVE pc[t] \in CapturePC
  BY <1>1, <1>5 DEF Roles, Places, Holder
<1>6. CASE Inside(t)
  BY <1>2, <1>6 DEF Inside
<1>7. ASSUME lock = t, Return(t) PROVE Outlived' /\ Launch'
  BY <1>1, <1>2, <1>4, <1>5, <1>7 DEF Return, Goto
<1>8. ASSUME lock = t, NEW exception \in {"RuntimeError", "OSError"}, Raise(t, exception)
      PROVE  Outlived' /\ Launch'
  <2>1. CASE Goto(t, AfterCapture(t)) /\ agent' = agent
    BY <1>1, <1>2, <1>4, <1>5, <1>8, <2>1 DEF Goto
  <2>2. CASE t # "main" /\ agent' = agent /\ (Goto(t, "raised") \/ Goto(t, "idle"))
    BY <1>1, <1>2, <2>2 DEF Goto
  <2>3. t = "main" => pc[t] \notin {"poll", "request"}
    BY DEF Roles, Places, Holder
  <2> QED
    BY <1>3, <1>8, <2>1, <2>2, <2>3 DEF Raise
<1> QED
  BY <1>6, <1>7, <1>8, CaptureKinds

LEMMA OthersOutlived ==
  ASSUME TypeOK, Roles, Outlived, Launch,
         MainStep \/ WallTimeout \/ RunnerDies \/ WatcherStep \/ BrokerStep \/ Agent
         \/ UNCHANGED vars
  PROVE  Outlived' /\ Launch'
<1> USE DEF Thread, MainPC, HelperPC, Preparing, Outlived, Launch, Counted, Goto
<1>1. /\ pc \in [Thread -> MainPC \cup HelperPC]
      /\ agent \in {"unborn", "running", "dead"} /\ receipt \in {"none", "torn", "whole"}
  BY DEF TypeOK
<1>2. CASE StartThreads \/ WriteReceipt \/ LeaveLoop \/ StopWatcher \/ JoinWatcher
           \/ WriteResult \/ Exit \/ WallTimeout
  BY <1>1, <1>2 DEF StartThreads, WriteReceipt, LeaveLoop, StopWatcher, JoinWatcher,
                    WriteResult, Exit, WallTimeout, sandbox
<1>3. CASE Popen \/ EndTerm
  BY <1>1, <1>3 DEF Popen, EndTerm
<1>4. CASE ReadEvent
  BY <1>1, <1>4 DEF ReadEvent, disk
<1>5. CASE RunnerDies
  BY <1>1, <1>5 DEF RunnerDies, Die, Ended
<1>6. CASE WatcherStep \/ BrokerStep
  BY <1>1, <1>6 DEF WatcherStep, WatcherPoll, WatcherRecord, BrokerStep, BrokerRequest,
                    BrokerStop, HelperOnly, sandbox, disk
<1>7. CASE Agent \/ UNCHANGED vars
  BY <1>1, <1>7 DEF Agent, AgentEdit, AgentEvent, AgentRequest, AgentExit, AgentOnly, threads,
                    disk, vars, sandbox
<1> QED
  BY <1>2, <1>3, <1>4, <1>5, <1>6, <1>7 DEF MainStep

-----------------------------------------------------------------------------
(* Every step preserves the chain. *)

LEMMA Numbered ==
  ASSUME TypeOK, NEW i, Parses(i)
  PROVE  journal[i] \in Entry /\ journal[i].sequence \in Nat
<1>1. journal[i] \in Entry
  BY DEF TypeOK, Line, Parses
<1> QED
  BY <1>1 DEF Entry

\* A larger number alone does not disturb them.
LEMMA LinksKept ==
  ASSUME TypeOK, Links, UNCHANGED journal, sequence' \in Nat, sequence <= sequence'
  PROVE  Links'
<1>1. \A i \in DOMAIN journal : Parses(i) => journal[i].sequence \in Nat
  BY Numbered
<1> QED
  BY <1>1 DEF Links, TypeOK, Parses

\* Nor does a line that names the tip and carries the number that was taken, nor one that
\* does not parse.
LEMMA LinksGrow ==
  ASSUME TypeOK, Chain, step = "entry", pc["main"] # "crashed", UNCHANGED sequence,
         AddsLine(NewEntry) \/ AddsLine(Garbled) \/ SpoilsLine
  PROVE  Links'
<1>0. PICK n \in Nat : n = Len(journal)
  BY DEF TypeOK
<1>1. /\ n \in Nat /\ n = Len(journal) /\ DOMAIN journal = 1..n /\ tornLine \in BOOLEAN /\ sequence \in Nat
      /\ NewEntry \in Entry /\ Garbled \notin Entry /\ Garbled \in Line /\ NewEntry \in Line
  BY <1>0, NewEntryType, GarbledAssumption DEF TypeOK, Line
<1>2. Links /\ Tip /\ files # previousTree
      /\ \A i \in 1..n : Parses(i) => journal[i].sequence < sequence
  BY <1>1 DEF Chain
\* Where an old line parses afterwards, it is what it was.
<1>3. ASSUME NEW D, DOMAIN journal' = D, D \in {1..n, 1 .. n + 1},
             \A i \in 1..n : journal'[i] \in {journal[i], Garbled},
             n + 1 \in D => journal'[n + 1] = Garbled
      PROVE  Links'
  <2>1. ASSUME NEW i \in D, Parses(i)'
        PROVE  i \in 1..n /\ Parses(i) /\ journal'[i] = journal[i]
    BY <1>1, <1>3, <2>1 DEF Parses
  <2>2. ASSUME NEW i, Parses(i)' PROVE i \in D
    BY <1>3, <2>2 DEF Parses
  <2> QED
    BY <1>1, <1>2, <1>3, <2>1, <2>2 DEF Links
<1>4. CASE SpoilsLine
  <2>1. journal' = Glued
    BY <1>4 DEF SpoilsLine
  <2>2. /\ DOMAIN journal' = 1..n /\ (n > 0 => journal'[n] = Garbled)
        /\ \A i \in 1..n : i # n => journal'[i] = journal[i]
    BY <1>1, <2>1, GluedLines
  <2>3. ASSUME NEW i \in 1..n PROVE journal'[i] \in {journal[i], Garbled}
    <3>1. n > 0
      BY <1>1
    <3> QED
      BY <2>2, <3>1
  <2>4. n + 1 \notin 1..n
    BY <1>1
  <2> QED
    BY <1>3, <2>2, <2>3, <2>4
<1>5. CASE AddsLine(Garbled)
  <2>1. /\ DOMAIN journal' = 1 .. n + 1 /\ \A i \in 1..n : journal'[i] \in {journal[i], Garbled}
        /\ journal'[n + 1] = Garbled
    BY <1>1, <1>5, Appended DEF AddsLine
  <2> QED
    BY <1>3, <2>1
<1>6. CASE AddsLine(NewEntry)
  <2>1. /\ DOMAIN journal' = 1 .. n + 1 /\ ~tornLine /\ journal'[n + 1] = NewEntry
        /\ \A i \in 1..n : journal'[i] = journal[i] /\ (Parses(i)' <=> Parses(i))
    BY <1>1, <1>6, Appended DEF AddsLine, Parses
  <2>2. /\ NewEntry.sequence = sequence /\ NewEntry.parent = previousTree
        /\ NewEntry.tree = files
    BY DEF NewEntry
  <2>3. Lines = n /\ (previousTree = None <=> n = 0)
        /\ (Parses(n) => previousTree = journal[n].tree)
    BY <1>1, <1>2, <2>1 DEF Tip, Lines
  <2>4. \A i \in 1..n : Parses(i) => journal[i].sequence \in Nat
    BY Numbered
  <2>5. ~Parses(0) /\ ~Parses(0)'
    BY <1>1, <2>1 DEF Parses
  <2>6. ASSUME NEW i \in 1 .. n + 1, Parses(i)'
        PROVE  /\ journal'[i].tree # journal'[i].parent
               /\ journal'[i].sequence <= sequence'
               /\ i = 1 => journal'[i].parent = None
               /\ Parses(i - 1)' => journal'[i].parent = journal'[i - 1].tree
    <3>1. CASE i = n + 1
      <4>1. n = 0 \/ n \in 1..n
        BY <1>1
      <4>2. Parses(n)' => Parses(n) /\ journal'[n] = journal[n]
        BY <2>1, <2>5, <4>1
      <4>3. i - 1 = n /\ (i = 1 => n = 0)
        BY <1>1, <3>1
      <4>4. journal'[i] = NewEntry
        BY <2>1, <3>1
      <4>5. Parses(i - 1)' => journal'[i].parent = journal'[i - 1].tree
        BY <2>2, <2>3, <4>2, <4>3, <4>4
      <4> QED
        BY <1>1, <1>2, <2>2, <2>3, <4>3, <4>4, <4>5
    <3>2. CASE i \in 1..n
      <4>1. /\ journal[i].tree # journal[i].parent
            /\ journal[i].sequence <= sequence
            /\ i = 1 => journal[i].parent = None
            /\ Parses(i - 1) => journal[i].parent = journal[i - 1].tree
        BY <1>1, <1>2, <2>1, <2>6, <3>2 DEF Links
      <4>2. Parses(i - 1)' => i - 1 \in 1..n /\ Parses(i - 1) /\ journal'[i - 1] = journal[i - 1]
        <5>1. i - 1 = 0 \/ i - 1 \in 1..n
          BY <1>1, <3>2
        <5> QED
          BY <2>1, <2>5, <5>1
      <4> QED
        BY <2>1, <3>2, <4>1, <4>2
    <3> QED
      BY <1>1, <3>1, <3>2
  <2>7. ASSUME NEW i \in 1 .. n + 1, NEW j \in 1 .. n + 1, i < j, Parses(i)', Parses(j)'
        PROVE  journal'[i].sequence < journal'[j].sequence
    <3>1. i \in 1..n /\ Parses(i) /\ journal'[i] = journal[i]
      BY <1>1, <2>1, <2>7
    <3>2. CASE j = n + 1
      BY <1>2, <2>1, <2>2, <3>1, <3>2
    <3>3. CASE j \in 1..n
      BY <1>1, <1>2, <2>1, <2>7, <3>1, <3>3 DEF Links
    <3> QED
      BY <1>1, <3>2, <3>3
  <2> QED
    BY <2>1, <2>6, <2>7 DEF Links
<1> QED
  BY <1>4, <1>5, <1>6

\* A write that is cut off leaves the tip where it is.
LEMMA TipKept ==
  ASSUME TypeOK, Tip, UNCHANGED previousTree,
         \/ UNCHANGED <<journal, tornLine>>
         \/ tornLine' /\ tornLine' \in BOOLEAN
            /\ (AddsLine(NewEntry) \/ AddsLine(Garbled) \/ SpoilsLine)
  PROVE  Tip'
<1>1. CASE UNCHANGED <<journal, tornLine>>
  BY <1>1 DEF Tip, Lines, Parses
<1>2. CASE /\ tornLine' /\ tornLine' \in BOOLEAN
           /\ AddsLine(NewEntry) \/ AddsLine(Garbled) \/ SpoilsLine
  <2>1. NewEntry \in Line /\ Garbled \in Line /\ tornLine \in BOOLEAN /\ Len(journal) \in Nat
    BY NewEntryType DEF Line, TypeOK
  <2>2. Lines' = Lines /\ Lines \in Nat /\ Len(journal') > 0
    <3>1. CASE SpoilsLine
      <4>1. journal' = Glued /\ tornLine
        BY <3>1 DEF SpoilsLine
      <4>2. Len(journal') = Len(journal) /\ Len(journal) > 0
        BY <4>1, GluedLines DEF Tip
      <4> QED
        BY <1>2, <2>1, <4>1, <4>2 DEF Lines
    <3>2. CASE ~tornLine /\ \E line \in Line : journal' = Append(journal, line)
      BY <1>2, <2>1, <3>2, Appended DEF Lines
    <3> QED
      BY <1>2, <2>1, <3>1, <3>2 DEF AddsLine
  <2>3. \A i \in 1 .. Lines : journal'[i] = journal[i] /\ (Parses(i)' <=> Parses(i))
    BY <1>2, LinesStay DEF Tip
  <2>4. ~Parses(0)'
    <3>1. journal' \in Seq(Line)
      BY <1>2, <2>1, Appended, GluedLines DEF AddsLine, SpoilsLine
    <3> QED
      BY <3>1 DEF Parses
  <2>5. Parses(Lines)' => Lines \in 1 .. Lines
    BY <2>2, <2>4 DEF Parses
  <2> QED
    BY <2>2, <2>3, <2>5 DEF Tip
<1> QED
  BY <1>1, <1>2

\* An append moves it.
LEMMA TipMoved ==
  ASSUME TypeOK, Tip, NEW t \in Thread, AppendEntry(t)
  PROVE  Tip'
<1>1. /\ previousTree' = files /\ files \in Tree /\ tornLine' = FALSE /\ NewEntry.tree = files
      /\ Len(journal) \in Nat
  BY DEF AppendEntry, TypeOK, NewEntry
<1>2. Lines' = Len(journal')
  BY <1>1 DEF Lines
<1>3. CASE AddsLine(NewEntry)
  <2>1. Len(journal') = Len(journal) + 1 /\ journal'[Len(journal) + 1] = NewEntry
    BY <1>3, NewEntryType, Appended DEF AddsLine, Line
  <2> QED
    BY <1>1, <1>2, <2>1, StarterAssumption DEF Tip
<1>4. CASE SpoilsLine
  <2>1. Len(journal') = Len(journal) /\ Len(journal) > 0 /\ journal'[Len(journal)] = Garbled
    BY <1>1, <1>4, GluedLines DEF SpoilsLine, Tip
  <2> QED
    BY <1>1, <1>2, <2>1, StarterAssumption DEF Tip, Parses
<1> QED
  BY <1>3, <1>4, AppendTypes

LEMMA CaptureChain ==
  ASSUME TypeOK, Chain, NEW t \in Thread, Capture(t)
  PROVE  Chain'
<1>1. Links /\ Tip /\ sequence \in Nat /\ pc["main"] # "crashed"
  BY DEF Chain, TypeOK, Capture, Ended
<1>2. ASSUME UNCHANGED <<journal, tornLine, previousTree>>, sequence' \in {sequence, sequence + 1}
      PROVE  Links' /\ Tip'
  BY <1>1, <1>2, LinksKept, TipKept
<1>3. CASE Acquire(t) \/ ReadFile(t) \/ RejectFile(t) \/ SkipTree(t)
  BY <1>2, <1>3 DEF Acquire, ReadFile, RejectFile, Raise, SkipTree, Return, Unlock, disk, Chain
<1>4. CASE NewTree(t)
  BY <1>2, <1>4 DEF NewTree, Chain, disk
<1>5. CASE WriteBlob(t)
  BY <1>2, <1>5 DEF WriteBlob, Chain
<1>6. CASE WriteDiff(t)
  <2>1. /\ sequence' = sequence + 1 /\ UNCHANGED <<journal, tornLine, previousTree, files>>
        /\ step' = "entry" /\ step = "blobs"
    BY <1>6 DEF WriteDiff, disk
  <2>2. ASSUME NEW i \in DOMAIN journal, Parses(i) PROVE journal[i].sequence < sequence'
    BY <1>1, <2>1, <2>2, Numbered DEF Links
  <2> QED
    BY <1>2, <2>1, <2>2 DEF Chain, Parses
<1>7. CASE AppendEntry(t)
  <2>1. step = "entry" /\ step' = "none" /\ UNCHANGED sequence
    BY <1>7 DEF AppendEntry, Return, Unlock
  <2> QED
    BY <1>1, <1>7, <2>1, AppendTypes, LinksGrow, TipMoved DEF Chain
<1>8. CASE FailCapture(t)
  <2>1. UNCHANGED previousTree /\ step' = "none" /\ HalfWritten
    BY <1>8 DEF FailCapture, Raise, Unlock
  <2>2. CASE UNCHANGED <<journal, tornLine>>
    <3>1. sequence' = sequence \/ sequence' = sequence + 1
      BY <1>8, Zenon DEF FailCapture
    <3> QED
      BY <1>2, <2>1, <2>2, <3>1 DEF Chain
  <2>3. CASE /\ step = "entry" /\ tornLine'
             /\ AddsLine(NewEntry) \/ AddsLine(Garbled) \/ SpoilsLine
    <3>1. UNCHANGED sequence
      BY <1>8, <2>3 DEF FailCapture
    <3> QED
      BY <1>1, <2>1, <2>3, <3>1, HalfWrittenTypes, LinksGrow, TipKept DEF Chain
  <2> QED
    BY <2>1, <2>2, <2>3, HalfWrittenTypes
<1> QED
  BY <1>3, <1>4, <1>5, <1>6, <1>7, <1>8 DEF Capture, CaptureStep

LEMMA OthersChain ==
  ASSUME TypeOK, Chain,
         MainStep \/ WallTimeout \/ RunnerDies \/ WatcherStep \/ BrokerStep \/ Agent
         \/ UNCHANGED vars \/ Prepare \/ EditTask
  PROVE  Chain'
<1>1. UNCHANGED <<step, files, sequence, previousTree>> /\ sequence \in Nat
      /\ (UNCHANGED <<journal, tornLine>> \/ RunnerDies)
  BY OthersFrame, PrepareFrame DEF locals, disk, TypeOK
<1>2. CASE UNCHANGED <<journal, tornLine>>
  <2>1. Links' /\ Tip'
    BY <1>1, <1>2, LinksKept, TipKept DEF Chain
  <2>2. step = "entry" /\ pc'["main"] # "crashed" => pc["main"] # "crashed"
    <3>1. pc["main"] # "crashed" \/ pc' = pc \/ pc'["main"] = "crashed"
      BY DEF MainStep, StartThreads, Popen, WriteReceipt, ReadEvent, EndTerm, LeaveLoop,
             StopWatcher, JoinWatcher, WriteResult, Exit, WallTimeout, RunnerDies, Ended,
             WatcherStep, WatcherPoll, WatcherRecord, BrokerStep, BrokerRequest, BrokerStop,
             Agent, AgentEdit, AgentEvent, AgentRequest, AgentExit, AgentOnly, threads, vars,
             Prepare, HashFile, AcceptTask, MakeRun, CopyFile, CreateManifest, WriteManifest,
             Refuse, EditTask, Preparing
    <3> QED
      BY <3>1
  <2> QED
    BY <1>1, <1>2, <2>1, <2>2 DEF Chain, Parses
<1>3. CASE RunnerDies
  <2>1. HalfWritten /\ pc'["main"] = "crashed" /\ pc["main"] # "crashed"
    BY <1>3 DEF RunnerDies, Die, Ended, Thread
  <2>2. CASE UNCHANGED <<journal, tornLine>>
    BY <1>1, <2>1, <2>2, LinksKept, TipKept DEF Chain
  <2>3. CASE /\ step = "entry" /\ tornLine'
             /\ AddsLine(NewEntry) \/ AddsLine(Garbled) \/ SpoilsLine
    BY <1>1, <2>1, <2>3, HalfWrittenTypes, LinksGrow, TipKept DEF Chain
  <2> QED
    BY <2>1, <2>2, <2>3, HalfWrittenTypes
<1> QED
  BY <1>1, <1>2, <1>3

-----------------------------------------------------------------------------
(* Every step preserves what is known of the final capture. *)

LEMMA ListFaithful ==
  ASSUME TypeOK, Roles, NEW t \in Thread, Capture(t), Acquire(t)
  PROVE  Faithful'
<1>1. todo' = Present(workspace) /\ files' = Nothing /\ workspace' = workspace
  BY CaptureFrame DEF Acquire, Roles, Holder
<1> QED
  BY <1>1 DEF Faithful, Present, Nothing, Tree, TypeOK

LEMMA ReadFaithful ==
  ASSUME TypeOK, NEW t \in Thread, Capture(t), ReadFile(t), Faithful
  PROVE  Faithful'
<1>1. PICK f \in todo : files' = [files EXCEPT ![f] = workspace[f]] /\ todo' = todo \ {f}
  BY DEF ReadFile
<1>2. todo \subseteq File /\ UNCHANGED workspace
  BY CaptureFrame DEF TypeOK
<1> SUFFICES ASSUME files = [g \in File |-> IF g \in todo THEN Absent ELSE workspace[g]]
             PROVE  files' = [g \in File |-> IF g \in todo' THEN Absent ELSE workspace[g]]
  BY <1>2 DEF Faithful
<1>3. \A g \in File : files'[g] = IF g \in todo' THEN Absent ELSE workspace[g]
  BY <1>1, <1>2
<1> QED
  BY <1>1, <1>3

LEMMA ScannedAll ==
  ASSUME TypeOK, Faithful, todo = {}
  PROVE  files = workspace
  BY DEF Faithful, Tree, TypeOK

LEMMA CaptureFinal ==
  ASSUME TypeOK, Roles, Outlived, Final, NEW t \in Thread, Capture(t)
  PROVE  Final'
<1> USE DEF Thread
<1>0. /\ ~Ended /\ pc \in [Thread -> MainPC \cup HelperPC] /\ workspace \in Tree
      /\ UNCHANGED <<workspace, result>> /\ (lock = t => pc[t] \in CapturePC)
  BY CaptureKinds, CaptureFrame DEF TypeOK, Roles, Holder
<1>1. ASSUME Faithful, todo = {} PROVE files = workspace
  BY <1>1, ScannedAll
\* A step inside capture changes neither seal nor result.
<1>2. ASSUME Inside(t) PROVE /\ Sealed' = Sealed /\ UNCHANGED <<pc, agent>>
  BY <1>0, <1>2 DEF Inside, Sealed, recorded
\* Leaving capture releases the lock, and only the final capture can seal.
<1>3. ASSUME Unlock, UNCHANGED agent \/ Die,
             Sealed' => previousTree' = workspace,
             pc'["main"] = pc["main"] \/ (t = "main" /\ pc["main"] \in CapturePC) \/ Die
      PROVE  Final'
  <2>1. lock' # "main" /\ step' = "none"
    BY <1>3, ThreadAssumption DEF Unlock
  <2>2. result # NoResult => /\ pc'["main"] \in {"report", "exited", "crashed"}
                            /\ agent' = "dead"
                            /\ (result.clean => result.tree = workspace)
    <3>1. ASSUME result # NoResult PROVE pc["main"] = "report" /\ agent = "dead"
      BY <1>0, <3>1 DEF Final, Ended
    <3> QED
      BY <1>0, <1>3, <3>1 DEF Final, Die, CapturePC
  <2> QED
    BY <1>0, <1>3, <2>1, <2>2 DEF Final
<1>4. ASSUME lock = t, NEW exception \in {"RuntimeError", "OSError"}, Raise(t, exception),
             UNCHANGED previousTree
      PROVE  Final'
  <2>1. Sealed' => Sealed
    <3>1. CASE Die
      BY <1>0, <3>1 DEF Die, Sealed
    <3>2. CASE snapshotError' = TRUE
      BY <1>0, <3>2 DEF Sealed
    <3>3. CASE UNCHANGED snapshotError /\ (Goto(t, "raised") \/ Goto(t, "idle"))
      BY <1>0, <3>3 DEF Sealed, Goto
    <3>4. \/ Die \/ snapshotError' = TRUE
          \/ UNCHANGED snapshotError /\ (Goto(t, "raised") \/ Goto(t, "idle"))
      <4>1. CASE pc[t] \in {"poll", "request"}
        BY <1>4, <4>1 DEF Raise, recorded
      <4>2. CASE pc[t] = "starter"
        BY <1>4, <4>2 DEF Raise
      <4>3. CASE pc[t] \in {"final", "event"}
        BY <1>4, <4>3 DEF Raise
      <4> QED
        BY <1>0, <1>4, <4>1, <4>2, <4>3 DEF CapturePC
    <3> QED
      BY <3>1, <3>2, <3>3, <3>4
  <2>2. pc'["main"] = pc["main"] \/ (t = "main" /\ pc["main"] \in CapturePC) \/ Die
    BY <1>0, <1>4 DEF Raise, Goto
  <2>3. Unlock /\ (UNCHANGED agent \/ Die)
    BY <1>4 DEF Raise
  <2>4. Sealed' => previousTree' = workspace
    BY <1>4, <2>1 DEF Final
  <2> QED
    BY <1>3, <2>2, <2>3, <2>4
<1>5. ASSUME lock = t, Return(t), t = "main" /\ pc[t] = "final" => previousTree' = workspace,
             Sealed => previousTree' = workspace
      PROVE  Final'
  <2>1. pc' = [pc EXCEPT ![t] = AfterCapture(t)] /\ UNCHANGED <<agent, snapshotError>> /\ Unlock
    BY <1>5 DEF Return, Goto
  <2>2. AfterCapture(t) = "build" => pc[t] = "final"
    BY DEF AfterCapture
  <2>3. CASE t = "main"
    <3>1. pc'["main"] = "build" => pc[t] = "final"
      BY <1>0, <2>1, <2>2, <2>3
    <3>2. Sealed' => previousTree' = workspace
      BY <1>0, <1>5, <2>3, <3>1 DEF Sealed
    <3> QED
      BY <1>0, <1>3, <1>5, <2>1, <2>3, <3>2
  <2>4. CASE t # "main"
    <3>1. pc'["main"] = pc["main"]
      BY <1>0, <2>1, <2>4
    <3>2. Sealed' => Sealed
      BY <1>0, <2>1, <3>1 DEF Sealed
    <3>3. Unlock /\ UNCHANGED agent
      BY <2>1
    <3>4. Sealed' => previousTree' = workspace
      BY <1>5, <3>2
    <3> QED
      BY <1>0, <1>3, <3>1, <3>3, <3>4
  <2> QED
    BY <2>3, <2>4
<1>6. CASE Acquire(t)
  <2>1. Inside(t) /\ step' = "scan" /\ todo' = Present(workspace) /\ files' = Nothing
        /\ UNCHANGED previousTree
    BY <1>0, <1>6 DEF Acquire, Inside, Roles, Holder, sandbox, threads
  <2>2. Faithful'
    BY <1>6, ListFaithful
  <2> QED
    BY <1>0, <1>2, <2>1, <2>2 DEF Final
<1>7. CASE ReadFile(t)
  <2>1. Inside(t) /\ step' = "scan" /\ step = "scan" /\ lock = t /\ UNCHANGED previousTree
    BY <1>7 DEF ReadFile, Inside, sandbox, threads
  <2>2. Faithful => Faithful'
    BY <1>7, ReadFaithful
  <2> QED
    BY <1>0, <1>2, <2>1, <2>2 DEF Final, Inside
<1>8. CASE RejectFile(t)
  BY <1>4, <1>8 DEF RejectFile
<1>9. CASE SkipTree(t)
  <2>1. lock = t /\ step = "scan" /\ todo = {} /\ files = previousTree /\ Return(t)
        /\ UNCHANGED previousTree
    BY <1>9 DEF SkipTree
  <2>2. t = "main" /\ pc[t] = "final" => previousTree = workspace
    BY <1>1, <2>1 DEF Final
  <2> QED
    BY <1>5, <2>1, <2>2 DEF Final
<1>10. CASE NewTree(t)
  <2>1. /\ Inside(t) /\ lock = t /\ step = "scan" /\ todo = {} /\ files # previousTree
        /\ step' = "blobs" /\ UNCHANGED <<files, previousTree>>
    BY <1>10 DEF NewTree, Inside, sandbox, threads
  <2>2. ~Sealed
    BY <1>1, <2>1 DEF Final
  <2>3. lock = "main" /\ pc["main"] = "final" => files = workspace
    BY <1>1, <2>1 DEF Final
  <2> QED
    BY <1>0, <1>2, <2>1, <2>2, <2>3 DEF Final, Inside
<1>11. CASE WriteBlob(t) \/ WriteDiff(t)
  <2>1. /\ Inside(t) /\ lock = t /\ step = "blobs" /\ step' \in {"blobs", "entry"}
        /\ UNCHANGED <<files, previousTree>>
    BY <1>11 DEF WriteBlob, WriteDiff, Inside, sandbox, threads
  <2> QED
    BY <1>0, <1>2, <2>1 DEF Final, Inside
<1>12. CASE AppendEntry(t)
  <2>1. lock = t /\ step = "entry" /\ previousTree' = files /\ Return(t)
    BY <1>12 DEF AppendEntry
  <2> QED
    BY <1>5, <2>1 DEF Final
<1>13. CASE FailCapture(t)
  BY <1>4, <1>13 DEF FailCapture
<1> QED
  BY <1>6, <1>7, <1>8, <1>9, <1>10, <1>11, <1>12, <1>13 DEF Capture, CaptureStep

LEMMA OthersFinal ==
  ASSUME TypeOK, Roles, Outlived, Chain, Final,
         MainStep \/ WallTimeout \/ RunnerDies \/ WatcherStep \/ BrokerStep \/ Agent
         \/ UNCHANGED vars
  PROVE  Final'
<1> USE DEF Thread
<1>0. /\ pc \in [Thread -> MainPC \cup HelperPC] /\ UNCHANGED <<lock, step, todo, files, previousTree>>
      /\ snapshotError \in BOOLEAN
  BY OthersFrame DEF TypeOK, locals
\* Steps that touch neither source nor result and do not lead to the final capture.
<1>1. ASSUME UNCHANGED <<workspace, result>>, snapshotError => snapshotError',
             agent = "dead" => agent' = "dead",
             \/ pc'["main"] = pc["main"] \/ pc'["main"] = "crashed"
             \/ /\ pc["main"] \notin {"join", "final"} /\ pc'["main"] # "final"
                /\ pc'["main"] # "build" /\ (result # NoResult => pc'["main"] = "exited")
             \/ pc["main"] = "join" /\ pc'["main"] = "final" /\ lock # "main"
      PROVE  Final'
  <2>1. Sealed' => Sealed
    BY <1>1 DEF Sealed
  <2>2. lock' = "main" /\ pc'["main"] = "final" => pc["main"] = "final"
    BY <1>0, <1>1
  <2> QED
    BY <1>0, <1>1, <2>1, <2>2 DEF Final, Faithful
<1>2. CASE StartThreads \/ Popen \/ WriteReceipt \/ ReadEvent \/ EndTerm \/ LeaveLoop
           \/ StopWatcher \/ WallTimeout
  <2>1. pc["main"] \in {"start", "spawn", "receipt", "loop", "term", "close"}
    BY <1>2 DEF StartThreads, Popen, WriteReceipt, ReadEvent, EndTerm, LeaveLoop, StopWatcher,
                WallTimeout
  <2>2. pc'["main"] \in {"spawn", "receipt", "loop", "event", "term", "close", "join"}
    BY <1>0, <1>2, <2>1 DEF StartThreads, Popen, WriteReceipt, ReadEvent, EndTerm, LeaveLoop,
                            StopWatcher, WallTimeout, Goto
  <2>3. UNCHANGED <<workspace, result>> /\ (snapshotError => snapshotError')
    BY <1>2 DEF StartThreads, Popen, WriteReceipt, ReadEvent, EndTerm, LeaveLoop,
                StopWatcher, WallTimeout, MainOnly, sandbox, recorded, disk
  <2>4. result = NoResult
    BY <2>1 DEF Final
  <2> QED
    BY <1>0, <2>1, <2>2, <2>3, <2>4 DEF Final, Sealed
<1>3. CASE JoinWatcher
  <2>1. pc["main"] = "join" /\ pc'["main"] = "final"
        /\ UNCHANGED <<workspace, result, snapshotError, agent>>
    BY <1>0, <1>3 DEF JoinWatcher, Goto, MainOnly, sandbox, recorded
  <2>2. lock # "main"
    BY <2>1 DEF Roles, Holder, Ended, CapturePC
  <2> QED
    BY <1>1, <2>1, <2>2
<1>4. CASE WriteResult
  <2>1. /\ pc["main"] = "build" /\ pc'["main"] = "report"
        /\ UNCHANGED <<workspace, snapshotError, agent>>
        /\ result'.tree = previousTree /\ result'.clean = ~snapshotError
    BY <1>0, <1>4 DEF WriteResult, Goto, MainOnly, sandbox, recorded
  <2>2. agent = "dead" /\ result = NoResult
    BY <2>1 DEF Outlived, Final
  <2>3. Sealed' => Sealed
    BY <2>1 DEF Sealed
  <2>4. result'.clean => Sealed
    BY <2>1 DEF Sealed
  <2> QED
    BY <1>0, <2>1, <2>2, <2>3, <2>4 DEF Final, Faithful
<1>5. CASE Exit
  <2>1. pc["main"] = "report" /\ pc'["main"] = "exited"
        /\ UNCHANGED <<workspace, result, snapshotError, agent>>
    BY <1>0, <1>5 DEF Exit, Goto, MainOnly, sandbox, recorded
  <2> QED
    BY <1>1, <2>1
<1>6. CASE RunnerDies
  <2>1. pc'["main"] = "crashed" /\ (agent = "dead" => agent' = "dead")
        /\ UNCHANGED <<workspace, result, snapshotError>>
    BY <1>6 DEF RunnerDies, Die, recorded
  <2> QED
    BY <1>1, <2>1
<1>7. CASE WatcherStep \/ BrokerStep
  <2>1. pc'["main"] = pc["main"] /\ (snapshotError => snapshotError')
        /\ UNCHANGED <<workspace, result, agent>>
    BY <1>0, <1>7 DEF WatcherStep, WatcherPoll, WatcherRecord, BrokerStep, BrokerRequest,
                      BrokerStop, HelperOnly, Goto, sandbox, disk
  <2> QED
    BY <1>1, <2>1
<1>8. CASE Agent
  <2>1. agent = "running"
    BY <1>8 DEF Agent, AgentEdit, AgentEvent, AgentRequest, AgentExit
  <2>2. UNCHANGED <<pc, snapshotError, result>>
    BY <1>8 DEF Agent, AgentEdit, AgentEvent, AgentRequest, AgentExit, AgentOnly, threads,
                recorded, disk
  <2>3. pc["main"] \notin {"final", "build"} /\ result = NoResult
    BY <2>1 DEF Outlived, Final
  <2> QED
    BY <1>0, <2>2, <2>3 DEF Final, Sealed
<1>9. CASE UNCHANGED vars
  <2>1. UNCHANGED <<pc, snapshotError, result, workspace, agent>>
    BY <1>9 DEF vars, sandbox, threads, recorded, disk
  <2> QED
    BY <1>1, <2>1
<1> QED
  BY <1>2, <1>3, <1>4, <1>5, <1>6, <1>7, <1>8, <1>9 DEF MainStep

-----------------------------------------------------------------------------
(* Every step after the preparation keeps what it has written. *)

\* A first line that ended stays, and parses if it did.
LEMMA FirstStays ==
  ASSUME TypeOK, Tip, [Next]_vars, Parses(1), Lines > 0
  PROVE  Parses(1)' /\ Lines' > 0
<1>1. /\ Lines \in Nat /\ Lines <= Lines'
      /\ \A i \in 1 .. Lines : Parses(i)' <=> Parses(i)
  BY JournalStep, LinesStay DEF Tip
<1>2. Lines' \in Int
  <2>1. journal' \in Seq(Line)
    BY StepTypes DEF TypeOK
  <2> QED
    BY <2>1 DEF Lines
<1> QED
  BY <1>1, <1>2

LEMMA CaptureStarted ==
  ASSUME TypeOK, Roles, Chain, Started, NEW t \in Thread, Capture(t)
  PROVE  Started'
<1> USE DEF Thread, Preparing, Started
<1>1. /\ ~Ended /\ pc \in [Thread -> MainPC \cup HelperPC] /\ manifest' = manifest
      /\ agent \in {"unborn", "running", "dead"} /\ files \in Tree
  BY CaptureKinds DEF TypeOK, Capture, preparation
<1>2. Parses(1) /\ Lines > 0 => Parses(1)' /\ Lines' > 0
  BY FirstStays DEF Next, Chain
<1>3. CASE /\ pc'["main"] = pc["main"] /\ agent' = agent
           /\ UNCHANGED <<journal, tornLine>> \/ pc["main"] \notin Preparing \cup {"starter"}
  BY <1>1, <1>2, <1>3
<1>4. CASE Die
  BY <1>1, <1>2, <1>4 DEF Die
\* The starter capture returns with an entry in a journal that had none.
<1>5. ASSUME SkipTree(t) \/ AppendEntry(t), pc["main"] = "starter"
      PROVE  AppendEntry(t) /\ Parses(1)' /\ Lines' > 0
  <2>1. journal = <<>> /\ ~tornLine /\ Len(journal) = 0
    BY <1>5
  <2>2. previousTree = None
    BY <2>1 DEF Chain, Tip, Lines
  <2>3. ~SkipTree(t)
    BY <1>1, <2>2, StarterAssumption DEF SkipTree
  <2>4. AddsLine(NewEntry) /\ tornLine' = FALSE
    BY <1>5, <2>1, <2>3, AppendTypes DEF SpoilsLine
  <2>5. journal'[1] = NewEntry /\ DOMAIN journal' = 1..1 /\ Len(journal') = 1
    BY <2>1, <2>4, NewEntryType, Appended DEF AddsLine, Line
  <2>6. NewEntry # Garbled
    BY NewEntryType, GarbledAssumption
  <2> QED
    BY <1>5, <2>3, <2>4, <2>5, <2>6 DEF Parses, Lines
<1>6. ASSUME lock = t PROVE pc[t] \in CapturePC
  BY <1>1, <1>6 DEF Roles, Holder
<1>7. CASE Acquire(t) \/ ReadFile(t) \/ NewTree(t) \/ WriteBlob(t) \/ WriteDiff(t)
  <2>1. UNCHANGED <<pc, agent, journal, tornLine>>
    BY <1>7 DEF Acquire, ReadFile, NewTree, WriteBlob, WriteDiff, sandbox, threads, disk
  <2> QED
    BY <1>3, <2>1
<1>10. ASSUME lock = t, t # "main" PROVE pc["main"] \notin Preparing \cup {"starter"}
  BY <1>1, <1>6, <1>10 DEF Roles, Places, CapturePC
<1>8. CASE SkipTree(t) \/ AppendEntry(t)
  <2>1. lock = t /\ Return(t)
    BY <1>8 DEF SkipTree, AppendEntry
  <2>2. agent' = agent /\ pc' = [pc EXCEPT ![t] = AfterCapture(t)]
    BY <2>1 DEF Return, Goto
  <2>3. CASE t = "main"
    <3>1. pc'["main"] \in {"start", "loop", "build"} /\ pc["main"] \in {"starter", "event", "final"}
      BY <1>1, <1>6, <2>1, <2>2, <2>3 DEF CapturePC, AfterCapture, Roles, Places, MainPC
    <3>2. Parses(1)' /\ Lines' > 0
      BY <1>2, <1>5, <1>8, <3>1
    <3> QED
      BY <1>1, <2>2, <3>1, <3>2
  <2>4. CASE t # "main"
    BY <1>1, <1>3, <1>10, <2>1, <2>2, <2>4
  <2> QED
    BY <2>3, <2>4
<1>9. CASE RejectFile(t) \/ FailCapture(t)
  <2>1. PICK exception \in {"RuntimeError", "OSError"} : lock = t /\ Raise(t, exception)
    BY <1>9 DEF RejectFile, FailCapture
  <2>2. CASE t # "main" /\ agent' = agent /\ \E next : pc' = [pc EXCEPT ![t] = next]
    BY <1>1, <1>3, <1>10, <2>1, <2>2
  <2>3. CASE /\ t = "main" /\ agent' = agent /\ pc["main"] \in {"event", "final"}
             /\ Goto(t, AfterCapture(t))
    <3>1. pc'["main"] \in {"loop", "build"}
      BY <1>1, <2>3 DEF Goto, AfterCapture
    <3> QED
      BY <1>1, <1>2, <2>3, <3>1
  <2>4. t = "main" => pc[t] \notin {"poll", "request"}
    BY DEF Roles, Places, MainPC
  <2>5. t # "main" => pc[t] \notin {"starter", "event", "final"}
    BY DEF Roles, Places, HelperPC
  <2> QED
    BY <1>4, <2>1, <2>2, <2>3, <2>4, <2>5 DEF Raise, Goto
<1> QED
  BY <1>7, <1>8, <1>9 DEF Capture, CaptureStep

LEMMA OthersStarted ==
  ASSUME TypeOK, Roles, Chain, Started,
         MainStep \/ WallTimeout \/ RunnerDies \/ WatcherStep \/ BrokerStep \/ Agent
         \/ UNCHANGED vars
  PROVE  Started'
<1> USE DEF Thread, Preparing, Started
<1>1. /\ pc \in [Thread -> MainPC \cup HelperPC]
      /\ agent \in {"unborn", "running", "dead"}
      /\ Parses(1) /\ Lines > 0 => Parses(1)' /\ Lines' > 0
  BY FirstStays DEF TypeOK, Chain, Next
<1>8. UNCHANGED <<journal, tornLine>> \/ RunnerDies
  BY OthersFrame
<1>2. manifest' = manifest
  BY DEF MainStep, StartThreads, Popen, WriteReceipt, ReadEvent, EndTerm, LeaveLoop,
         StopWatcher, JoinWatcher, WriteResult, Exit, WallTimeout, RunnerDies, WatcherStep,
         WatcherPoll, WatcherRecord, BrokerStep, BrokerRequest, BrokerStop, Agent, AgentEdit,
         AgentEvent, AgentRequest, AgentExit, MainOnly, HelperOnly, AgentOnly, preparation, vars
<1>3. CASE MainStep \/ WallTimeout
  <2>1. pc["main"] \notin Preparing \cup {"starter", "crashed"}
    BY <1>3 DEF MainStep, StartThreads, Popen, WriteReceipt, ReadEvent, EndTerm, LeaveLoop,
                StopWatcher, JoinWatcher, WriteResult, Exit, WallTimeout
  <2>2. UNCHANGED <<journal, tornLine>>
    BY <1>3, OthersFrame DEF RunnerDies, Fault, MainStep, StartThreads, Popen, WriteReceipt,
                ReadEvent, EndTerm, LeaveLoop, StopWatcher, JoinWatcher, WriteResult, Exit,
                WallTimeout, MainOnly, disk
  <2>3. pc'["main"] \notin Preparing \cup {"starter"}
    BY <1>1, <1>3 DEF MainStep, StartThreads, Popen, WriteReceipt, ReadEvent, EndTerm, LeaveLoop,
                StopWatcher, JoinWatcher, WriteResult, Exit, WallTimeout, Goto
  <2> QED
    BY <1>1, <1>2, <2>1, <2>2, <2>3
<1>4. CASE RunnerDies
  <2>1. pc'["main"] = "crashed" /\ (agent' # "unborn" => agent # "unborn")
    BY <1>1, <1>4 DEF RunnerDies, Die
  <2> QED
    BY <1>1, <1>2, <2>1
<1>5. CASE WatcherStep \/ BrokerStep
  <2>1. pc'["main"] = pc["main"] /\ UNCHANGED <<agent, journal, tornLine>>
    BY <1>1, <1>5 DEF WatcherStep, WatcherPoll, WatcherRecord, BrokerStep, BrokerRequest,
                      BrokerStop, HelperOnly, Goto, sandbox, disk
  <2> QED
    BY <1>1, <1>2, <2>1
<1>6. CASE Agent
  <2>1. agent = "running" /\ UNCHANGED <<pc, journal, tornLine>>
    BY <1>6 DEF Agent, AgentEdit, AgentEvent, AgentRequest, AgentExit, AgentOnly, threads, disk
  <2> QED
    BY <1>1, <1>2, <2>1
<1>7. CASE UNCHANGED vars
  BY <1>1, <1>2, <1>7 DEF vars, sandbox, threads, disk
<1> QED
  BY <1>3, <1>4, <1>5, <1>6, <1>7

-----------------------------------------------------------------------------
(* Every step after the preparation keeps the first entry and the source it names. *)

\* The first line: what it was, or the new entry.
LEMMA FirstOf ==
  ASSUME TypeOK, Tip, AddsLine(NewEntry) \/ AddsLine(Garbled) \/ SpoilsLine, Parses(1)'
  PROVE  \/ Parses(1) /\ journal'[1] = journal[1]
         \/ journal = <<>> /\ journal'[1].tree = files
<1>1. /\ Len(journal) \in Nat /\ NewEntry \in Line /\ Garbled \in Line
      /\ NewEntry.tree = files /\ (Len(journal) = 0 => journal = <<>>)
  BY NewEntryType DEF TypeOK, Line, NewEntry
<1>2. CASE SpoilsLine
  BY <1>1, <1>2, GluedLines DEF SpoilsLine, Parses, Tip
<1>3. CASE AddsLine(NewEntry) \/ AddsLine(Garbled)
  BY <1>1, <1>3, Appended DEF AddsLine, Parses
<1> QED
  BY <1>2, <1>3

LEMMA CaptureOrigin ==
  ASSUME TypeOK, Roles, Chain, Started, Origin, NEW t \in Thread, Capture(t)
  PROVE  Origin'
<1> USE DEF Thread
<1>0. /\ ~Ended /\ pc \in [Thread -> MainPC \cup HelperPC] /\ UNCHANGED workspace
      /\ (lock = t => pc[t] \in CapturePC) /\ agent \in {"unborn", "running", "dead"}
      /\ (pc["main"] \in Preparing \cup {"starter"} =>
            pc["watcher"] = "off" /\ pc["broker"] = "off")
  BY CaptureKinds, CaptureFrame DEF TypeOK, Roles, Holder, Places
<1>1. pc["main"] \notin Preparing
  BY <1>0, CaptureKinds DEF CapturePC, Preparing, Inside
<1>2. pc'["main"] \notin Preparing /\ (pc'["main"] = "starter" => pc["main"] = "starter")
      /\ (agent' = "unborn" => agent = "unborn")
  <2>1. CASE Inside(t)
    BY <1>0, <1>1, <2>1 DEF Inside
  <2>2. CASE lock = t /\ Return(t)
    BY <1>0, <1>1, <2>2 DEF Return, Goto, AfterCapture, Preparing
  <2>3. CASE lock = t /\ \E exception \in {"RuntimeError", "OSError"} : Raise(t, exception)
    <3>1. PICK exception \in {"RuntimeError", "OSError"} : Raise(t, exception)
      BY <2>3
    <3>2. CASE Die
      BY <1>0, <1>1, <3>2 DEF Die, Preparing
    <3>3. CASE agent' = agent /\ (Goto(t, AfterCapture(t)) \/ Goto(t, "raised") \/ Goto(t, "idle"))
      BY <1>0, <1>1, <3>3 DEF Goto, AfterCapture, Preparing
    <3> QED
      BY <3>1, <3>2, <3>3 DEF Raise
  <2> QED
    BY <2>1, <2>2, <2>3, CaptureKinds
<1>3. lock' = "main" /\ pc'["main"] = "starter" =>
        IF step' = "scan" THEN Faithful' ELSE files' = workspace'
  <2> SUFFICES ASSUME lock' = "main", pc'["main"] = "starter"
               PROVE  IF step' = "scan" THEN Faithful' ELSE files' = workspace'
    OBVIOUS
  <2>1. t = "main" /\ Inside(t)
    <3>1. t = "main"
      BY <1>0, <1>2, CaptureKinds DEF CapturePC, Inside
    <3>2. ~Unlock
      BY ThreadAssumption DEF Unlock
    <3> QED
      BY <3>1, <3>2, CaptureKinds DEF Return, Raise
  <2>2. CASE Acquire(t)
    BY <2>2, ListFaithful DEF Acquire
  <2>3. CASE ReadFile(t)
    BY <1>2, <2>1, <2>3, ReadFaithful DEF ReadFile, Origin
  <2>4. CASE NewTree(t)
    BY <1>0, <1>2, <2>1, <2>4, ScannedAll DEF NewTree, Origin
  <2>5. CASE WriteBlob(t) \/ WriteDiff(t)
    BY <1>0, <1>2, <2>1, <2>5 DEF WriteBlob, WriteDiff, Origin
  <2>6. ~(SkipTree(t) \/ AppendEntry(t) \/ RejectFile(t) \/ FailCapture(t))
    BY <2>1, ThreadAssumption DEF SkipTree, AppendEntry, RejectFile, FailCapture, Return,
                                  Raise, Unlock, Inside
  <2> QED
    BY <2>2, <2>3, <2>4, <2>5, <2>6 DEF Capture, CaptureStep
<1>4. agent' = "unborn" /\ Parses(1)' => journal'[1].tree = workspace'
  <2> SUFFICES ASSUME agent = "unborn", Parses(1)' PROVE journal'[1].tree = workspace
    BY <1>0, <1>2
  <2>1. CASE UNCHANGED <<journal, tornLine>>
    BY <2>1 DEF Origin, Parses
  <2>2. CASE step = "entry" /\ (AddsLine(NewEntry) \/ AddsLine(Garbled) \/ SpoilsLine)
    <3>1. lock = t /\ (pc["main"] = "starter" => t = "main")
      <4>1. lock = t
        BY <2>2, CaptureKinds DEF Inside, Roles, Holder
      <4> QED
        BY <1>0, <4>1 DEF CapturePC
    <3>2. pc["main"] = "starter" => files = workspace
      BY <2>2, <3>1 DEF Origin
    <3> QED
      <4>1. CASE Parses(1) /\ journal'[1] = journal[1]
        BY <4>1 DEF Origin
      <4>2. CASE journal = <<>> /\ journal'[1].tree = files
        <5>1. ~Parses(1)
          BY <4>2 DEF Parses
        <5>2. pc["main"] = "starter"
          BY <1>0, <1>1, <5>1 DEF Started, Ended
        <5> QED
          BY <3>2, <4>2, <5>2
      <4> QED
        BY <2>2, <4>1, <4>2, FirstOf DEF Chain
  <2> QED
    BY <2>1, <2>2, JournalStep DEF Next
<1> QED
  BY <1>2, <1>3, <1>4 DEF Origin

LEMMA OthersOrigin ==
  ASSUME TypeOK, Roles, Chain, Launch, Started, Origin,
         MainStep \/ WallTimeout \/ RunnerDies \/ WatcherStep \/ BrokerStep \/ Agent
         \/ UNCHANGED vars
  PROVE  Origin'
<1> USE DEF Thread
<1>1. /\ pc \in [Thread -> MainPC \cup HelperPC]
      /\ UNCHANGED <<lock, step, todo, files>> /\ (UNCHANGED <<journal, tornLine>> \/ RunnerDies)
  BY OthersFrame DEF TypeOK, locals
<1>2. ASSUME UNCHANGED <<journal, tornLine>>,
             pc'["main"] \in Preparing \cup {"starter"} => pc'["main"] = pc["main"],
             agent' = "unborn" => agent = "unborn" /\ workspace' = workspace,
             pc'["main"] = "starter" => workspace' = workspace
      PROVE  Origin'
  BY <1>1, <1>2 DEF Origin, Faithful, Preparing, Parses
<1>3. CASE MainStep \/ WallTimeout
  <2>1. pc'["main"] \notin Preparing \cup {"starter"} \/ pc' = pc
    BY <1>1, <1>3 DEF MainStep, StartThreads, Popen, WriteReceipt, ReadEvent, EndTerm,
                      LeaveLoop, StopWatcher, JoinWatcher, WriteResult, Exit, WallTimeout,
                      Goto, Preparing
  <2>2. workspace' = workspace /\ (agent' = "unborn" => agent = "unborn")
    BY <1>3 DEF MainStep, StartThreads, Popen, WriteReceipt, ReadEvent, EndTerm, LeaveLoop,
                StopWatcher, JoinWatcher, WriteResult, Exit, WallTimeout, sandbox
  <2>3. UNCHANGED <<journal, tornLine>>
    BY <1>1, <1>3 DEF RunnerDies, Fault, MainStep, StartThreads, Popen, WriteReceipt,
                ReadEvent, EndTerm, LeaveLoop, StopWatcher, JoinWatcher, WriteResult, Exit,
                WallTimeout, MainOnly, disk
  <2> QED
    BY <1>2, <2>1, <2>2, <2>3
<1>4. CASE RunnerDies
  <2>1. /\ pc'["main"] = "crashed" /\ pc["main"] # "crashed" /\ UNCHANGED workspace
        /\ (agent' = "unborn" => agent = "unborn") /\ HalfWritten
    BY <1>4 DEF RunnerDies, Die, Ended
  <2>2. CASE UNCHANGED <<journal, tornLine>>
    BY <1>2, <2>1, <2>2 DEF Preparing
  <2>3. CASE step = "entry" /\ (AddsLine(NewEntry) \/ AddsLine(Garbled) \/ SpoilsLine)
    <3>1. pc["main"] \in Preparing \cup {"starter"} => lock = "main" /\ pc["main"] = "starter"
      BY <1>4, <2>3 DEF RunnerDies, Roles, Holder, Places, CapturePC, Preparing, TypeOK
    <3>2. pc["main"] \in Preparing \cup {"starter"} => files = workspace
      BY <2>3, <3>1 DEF Origin
    <3>3. agent = "unborn" /\ Parses(1)' => journal'[1].tree = workspace
      BY <2>1, <2>3, <3>2, FirstOf DEF Started, Chain, Origin, Parses
    <3> QED
      BY <1>1, <2>1, <3>3 DEF Origin, Preparing
  <2> QED
    BY <2>1, <2>2, <2>3, HalfWrittenTypes
<1>5. CASE WatcherStep \/ BrokerStep
  <2>1. pc'["main"] = pc["main"] /\ UNCHANGED <<agent, workspace, journal, tornLine>>
    BY <1>1, <1>5 DEF WatcherStep, WatcherPoll, WatcherRecord, BrokerStep, BrokerRequest,
                      BrokerStop, HelperOnly, Goto, sandbox, disk
  <2> QED
    BY <1>2, <2>1
<1>6. CASE Agent
  <2>1. agent = "running" /\ agent' # "unborn" /\ UNCHANGED <<pc, journal, tornLine>>
    BY <1>6 DEF Agent, AgentEdit, AgentEvent, AgentRequest, AgentExit, AgentOnly, threads, disk
  <2>2. pc["main"] # "starter"
    BY <2>1 DEF Launch
  <2> QED
    BY <1>2, <2>1, <2>2
<1>7. CASE UNCHANGED vars
  BY <1>2, <1>7 DEF vars, sandbox, threads, disk
<1> QED
  BY <1>3, <1>4, <1>5, <1>6, <1>7

-----------------------------------------------------------------------------
(* The preparation. *)

LEMMA PrepareStep ==
  ASSUME IInv, Prepare \/ EditTask
  PROVE  IInv'
<1> USE DEF Thread
<1>1. TypeOK'
  BY PrepareTypes DEF IInv
<1>2. /\ pc \in [Thread -> MainPC \cup HelperPC] /\ lock \in Thread \cup {NoThread}
      /\ pc["main"] \in Preparing /\ pc["watcher"] = "off" /\ pc["broker"] = "off"
  BY PrepareFrame DEF IInv, TypeOK, Roles, Places
<1>3. /\ agent = "unborn" /\ receipt = "none" /\ result = NoResult
      /\ lock = NoThread /\ step = "none" /\ files = Nothing
  BY <1>2 DEF IInv, Launch, Final, Roles, Holder, Ended, CapturePC, Preparing
<1>4. UNCHANGED <<recorded, lock, step, todo, files, sequence, previousTree, journal, tornLine,
                  receipt, result>> /\ Nothing' = Nothing
  BY PrepareFrame DEF locals, disk, Nothing
<1>5. agent' = "unborn" /\ \/ /\ pc'["main"] \in Preparing \cup {"starter"}
                              /\ pc'["watcher"] = "off" /\ pc'["broker"] = "off"
                              /\ pc'["main"] = "starter" => manifest' = "whole"
                           \/ /\ pc'["main"] = "crashed"
                              /\ pc'["watcher"] = "dead" /\ pc'["broker"] = "dead"
  <2>1. CASE UNCHANGED <<pc, agent>>
    BY <1>2, <1>3, <2>1 DEF Preparing
  <2>2. CASE agent' = agent /\ \E next \in Preparing \cup {"starter"} :
                                 Goto("main", next) /\ (next = "starter" => manifest' = "whole")
    BY <1>2, <1>3, <2>2 DEF Goto
  <2>3. CASE Die
    BY <1>3, <2>3 DEF Die
  <2> QED
    BY <2>1, <2>2, <2>3, PrepareFrame
<1>6. Roles'
  BY <1>3, <1>4, <1>5 DEF Roles, Places, Holder, MainPC, HelperPC, Preparing
<1>7. Outlived' /\ Launch' /\ Started'
  BY <1>2, <1>3, <1>4, <1>5 DEF IInv, Outlived, Launch, Started, Preparing
<1>8. Origin'
  <2>1. journal' = <<>> /\ ~Parses(1)'
    BY <1>2, <1>4 DEF IInv, Started, Parses
  <2>2. lock' # "main"
    BY <1>3, <1>4, ThreadAssumption
  <2> QED
    BY <2>1, <2>2 DEF Origin
<1>9. Chain'
  BY OthersChain DEF IInv
<1>10. Final'
  BY <1>3, <1>4, <1>5, ThreadAssumption DEF Final, Sealed, Preparing
<1> QED
  BY <1>1, <1>6, <1>7, <1>8, <1>9, <1>10 DEF IInv

-----------------------------------------------------------------------------
(* The theorems. *)

\* The invariant is inductive.
LEMMA InvariantStep == IInv /\ [Next]_vars => IInv'
<1> SUFFICES ASSUME IInv, [Next]_vars PROVE IInv'
  OBVIOUS
<1>1. CASE \E t \in Thread : Capture(t)
  BY <1>1, CaptureTypes, CaptureRoles, CaptureOutlived, CaptureStarted, CaptureOrigin,
     CaptureChain, CaptureFinal DEF IInv
<1>2. CASE MainStep \/ WallTimeout \/ RunnerDies \/ WatcherStep \/ BrokerStep \/ Agent
           \/ UNCHANGED vars
  BY <1>2, MainTypes, HelperTypes, StutterTypes, OthersRoles, OthersOutlived,
     OthersStarted, OthersOrigin, OthersChain, OthersFinal DEF IInv
<1> QED
  BY <1>1, <1>2, PrepareStep DEF Next, Terminated

LEMMA InvariantInit == Init => IInv
<1> SUFFICES ASSUME Init PROVE IInv
  OBVIOUS
<1>1. TypeOK
  BY InitTypes
<1>2. pc["main"] = "freeze" /\ pc["watcher"] = "off" /\ pc["broker"] = "off"
  BY DEF Init, Thread
<1>3. Roles
  BY <1>2 DEF Init, Roles, Places, Holder, MainPC, HelperPC, Preparing, Ended
<1>4. Outlived /\ Launch /\ Started
  BY <1>2 DEF Init, Outlived, Launch, Started, Preparing, Counted
<1>7. Origin
  BY <1>2, ThreadAssumption DEF Init, Origin, Thread, Parses
<1>5. Chain
  BY DEF Init, Chain, Links, Tip, Parses, Lines
<1>6. Final
  BY <1>2, ThreadAssumption DEF Init, Final, Sealed, Thread
<1> QED
  BY <1>1, <1>3, <1>4, <1>5, <1>6, <1>7 DEF IInv

LEMMA Invariance == Spec => []IInv
  BY InvariantInit, InvariantStep, PTL DEF Spec

\* A run of the task that counts its sessions writes the receipt right after the launch, and
\* launches from a source that its manifest and the first entry of its journal describe.
THEOREM ReceiptCorrect == Spec => []LaunchIsRecorded
<1>1. IInv => LaunchIsRecorded
  BY DEF IInv, Launch, Started, Origin, LaunchIsRecorded
<1> QED
  BY <1>1, Invariance, PTL

\* No step takes back a blob, a journal line that ended, the receipt or the result.
THEOREM ArtifactsCorrect == Spec => ArtifactsOnlyGrow
<1> DEFINE Grow == /\ \A c \in Content : blobs[c] # "absent" => blobs'[c] = blobs[c]
                   /\ Len(journal) <= Len(journal')
                   /\ \A i \in 1 .. Lines : journal'[i] = journal[i]
                   /\ tornLine => journal'[Len(journal)] \in {journal[Len(journal)], Garbled}
                   /\ receipt # "none" => receipt' = receipt
                   /\ result # NoResult => result' = result
<1>1. ASSUME IInv, [Next]_vars PROVE Grow
  <2>1. /\ Len(journal) <= Len(journal')
        /\ \A i \in 1 .. Lines : journal'[i] = journal[i]
        /\ tornLine => journal'[Len(journal)] \in {journal[Len(journal)], Garbled}
    BY <1>1, JournalStep, LinesStay DEF IInv, Chain, Tip
  <2>2. \A c \in Content : blobs[c] # "absent" => blobs'[c] = blobs[c]
    <3>1. CASE \E t \in Thread : WriteBlob(t)
      BY <1>1, <3>1 DEF WriteBlob, IInv, TypeOK
    <3>2. CASE HalfWritten
      BY <1>1, <3>2 DEF HalfWritten, IInv, TypeOK
    <3>3. CASE \E t \in Thread : Capture(t) /\ ~WriteBlob(t) /\ ~FailCapture(t)
      BY <3>3 DEF Capture, CaptureStep, Acquire, ReadFile, RejectFile, SkipTree, NewTree, WriteDiff,
                  AppendEntry, disk
    <3>4. CASE Prepare \/ EditTask
      BY <3>4, PrepareFrame DEF disk
    <3> QED
      BY <1>1, <3>1, <3>2, <3>3, <3>4, OthersFrame DEF Next, Terminated, Capture, FailCapture,
                                                       RunnerDies
  <2>3. (receipt # "none" => receipt' = receipt) /\ (result # NoResult => result' = result)
    <3>1. CASE \E t \in Thread : Capture(t)
      BY <3>1, CaptureFrame
    <3>2. CASE Prepare \/ EditTask
      BY <3>2, PrepareFrame DEF disk
    <3>3. CASE WriteReceipt \/ RunnerDies
      BY <1>1, <3>3 DEF WriteReceipt, RunnerDies, IInv, Launch
    <3>4. CASE WriteResult
      BY <1>1, <3>4 DEF WriteResult, IInv, Final
    <3>5. CASE /\ MainStep \/ WallTimeout \/ WatcherStep \/ BrokerStep \/ Agent \/ UNCHANGED vars
               /\ ~WriteReceipt /\ ~WriteResult
      BY <3>5 DEF MainStep, StartThreads, Popen, ReadEvent, EndTerm, LeaveLoop, StopWatcher,
                  JoinWatcher, Exit, WallTimeout, WatcherStep, WatcherPoll, WatcherRecord,
                  BrokerStep, BrokerRequest, BrokerStop, Agent, AgentEdit, AgentEvent,
                  AgentRequest, AgentExit, MainOnly, HelperOnly, AgentOnly, disk, vars
    <3> QED
      BY <1>1, <3>1, <3>2, <3>3, <3>4, <3>5 DEF Next, Terminated
  <2> QED
    BY <2>1, <2>2, <2>3
<1>2. IInv /\ [Next]_vars => [Grow]_disk
  BY <1>1
<1> QED
  BY <1>2, Invariance, PTL DEF Spec, ArtifactsOnlyGrow

-----------------------------------------------------------------------------
(* What a capture that raises leaves behind, and what one that never raises keeps. *)

\* An exception is recorded where the exit code looks, or the watcher still carries it.
Visible ==
  /\ pc["watcher"] # "request" /\ pc["broker"] \notin {"poll", "raised"}
  /\ "main" \in failed => snapshotError \/ pc["main"] = "crashed"
  /\ "broker" \in failed => brokerError
  /\ "watcher" \in failed => snapshotError \/ pc["watcher"] = "raised" \/ pc["main"] = "crashed"
  /\ exitCode = "ok" => pc["main"] = "exited" /\ ~snapshotError /\ ~brokerError

Clean == result # NoResult /\ result.clean

\* No write was cut off, neither by an exception nor by the death of the runner.
Intact == failed = {} /\ (pc["main"] = "crashed" => Clean)

\* The number of the next entry is the length of the journal, and one more when it is taken.
Gapless ==
  /\ ~tornLine
  /\ sequence = IF step = "entry" THEN Len(journal) + 1 ELSE Len(journal)
  /\ \A i \in DOMAIN journal : Parses(i) /\ journal[i].sequence = i

\* The blobs of every entry are whole, and so are those that the capture under way has come to.
Stored ==
  /\ \A c \in Content : blobs[c] # "torn"
  /\ step = "blobs" => /\ todo \subseteq Present(files)
                       /\ \A f \in Present(files) \ todo : blobs[files[f]] = "whole"
  /\ step = "entry" => Exportable(files)
  /\ \A i \in DOMAIN journal : Exportable(journal[i].tree)

Quiet == Intact => Gapless /\ Stored /\ (Clean => result.count = sequence)

\* No capture of the main thread has raised in a run with a clean result.
Spotless == Clean => "main" \notin failed

\* A run with a result has its receipt.
Receipted == result # NoResult /\ Brokered => Counted

\* How an exception leaves a capture.
LEMMA CaptureFails ==
  ASSUME NEW t \in Thread, Capture(t)
  PROVE  \/ failed' = failed
         \/ /\ failed' = failed \cup {t} /\ lock = t /\ step # "none"
            /\ \E exception \in {"RuntimeError", "OSError"} : Raise(t, exception)
BY CaptureKinds DEF Inside, Return, Raise

LEMMA CaptureVisible ==
  ASSUME TypeOK, Roles, Visible, NEW t \in Thread, Capture(t)
  PROVE  Visible'
<1> USE DEF Thread
<1>0. /\ t \in {"main", "watcher", "broker"} /\ pc \in [Thread -> MainPC \cup HelperPC]
      /\ pc["main"] \notin {"exited", "crashed"} /\ exitCode' = exitCode /\ exitCode # "ok"
  BY CaptureKinds, CaptureFrame DEF TypeOK, Ended, Visible
<1>1. CASE Inside(t)
  BY <1>0, <1>1 DEF Inside, recorded, Visible
<1>2. ASSUME lock = t
      PROVE  /\ pc[t] \in CapturePC
             /\ t = "main" => pc[t] \in {"starter", "event", "final"}
             /\ t = "watcher" => pc[t] = "poll"
             /\ t = "broker" => pc[t] = "request"
  <2>1. pc[t] \in CapturePC
    BY <1>0, <1>2, ThreadAssumption DEF Roles, Holder, Ended
  <2> QED
    BY <2>1 DEF CapturePC, Roles, Places, MainPC, HelperPC, Preparing, Visible
<1>3. ASSUME lock = t, Return(t) PROVE Visible'
  <2>1. /\ pc' = [pc EXCEPT ![t] = AfterCapture(t)] /\ UNCHANGED <<snapshotError, failed>>
        /\ brokerError => brokerError'
    BY <1>3 DEF Return, Goto
  <2>2. /\ t = "main" => AfterCapture(t) \notin {"crashed", "exited"}
        /\ t # "main" => AfterCapture(t) = "idle"
    BY <1>2, <1>3 DEF AfterCapture
  <2> QED
    BY <1>0, <1>2, <1>3, <2>1, <2>2 DEF Visible
<1>4. ASSUME lock = t, NEW exception \in {"RuntimeError", "OSError"}, Raise(t, exception)
      PROVE  Visible'
  <2>1. failed' = failed \cup {t}
    BY <1>4 DEF Raise
  <2>2. CASE pc[t] \in {"starter", "event"} /\ Die /\ UNCHANGED recorded
    <3>1. t = "main" /\ failed' = failed \cup {"main"}
      BY <1>0, <1>2, <1>4, <2>1, <2>2
    <3>2. pc'["main"] = "crashed" /\ pc'["watcher"] = "dead" /\ pc'["broker"] = "dead"
      BY <2>2 DEF Die
    <3> QED
      BY <1>0, <2>2, <3>1, <3>2 DEF recorded, Visible
  <2>3. CASE /\ pc[t] \in {"final", "event"} /\ snapshotError' = TRUE
             /\ Goto(t, AfterCapture(t)) /\ UNCHANGED brokerError
    BY <1>0, <1>2, <1>4, <2>1, <2>3 DEF Goto, AfterCapture, Visible
  <2>4. CASE pc[t] = "poll" /\ Goto(t, "raised") /\ UNCHANGED recorded
    BY <1>0, <1>2, <1>4, <2>1, <2>4 DEF Goto, recorded, Visible
  <2>5. CASE pc[t] = "request" /\ brokerError' = TRUE /\ Goto(t, "idle") /\ UNCHANGED snapshotError
    BY <1>0, <1>2, <1>4, <2>1, <2>5 DEF Goto, Visible
  <2> QED
    BY <1>4, <2>2, <2>3, <2>4, <2>5 DEF Raise
<1> QED
  BY <1>1, <1>3, <1>4, CaptureKinds

LEMMA OthersVisible ==
  ASSUME TypeOK, Roles, Visible,
         MainStep \/ WallTimeout \/ RunnerDies \/ WatcherStep \/ BrokerStep \/ Agent
         \/ UNCHANGED vars
  PROVE  Visible'
<1> USE DEF Thread, Goto, Visible
<1>1. pc \in [Thread -> MainPC \cup HelperPC] /\ failed' = failed
  BY OthersFrame DEF TypeOK
<1>2. CASE StartThreads \/ Popen \/ WriteReceipt \/ EndTerm \/ LeaveLoop \/ StopWatcher \/ JoinWatcher
           \/ WriteResult \/ WallTimeout
  <2>1. UNCHANGED <<snapshotError, brokerError, exitCode>> /\ pc["main"] \notin {"exited", "crashed"}
    BY <1>2 DEF StartThreads, Popen, WriteReceipt, EndTerm, LeaveLoop, StopWatcher, JoinWatcher,
                WriteResult, WallTimeout, MainOnly, recorded
  <2>2. CASE StartThreads
    BY <1>1, <2>1, <2>2 DEF StartThreads, Roles, Places
  <2>3. CASE ~StartThreads
    <3>1. pc'["watcher"] = pc["watcher"] /\ pc'["broker"] = pc["broker"]
      BY <1>1, <1>2, <2>3 DEF Popen, WriteReceipt, EndTerm, LeaveLoop, StopWatcher, JoinWatcher,
                              WriteResult, WallTimeout
    <3> QED
      BY <1>1, <2>1, <3>1
  <2> QED
    BY <2>2, <2>3
<1>3. CASE ReadEvent
  BY <1>1, <1>3 DEF ReadEvent
<1>4. CASE Exit
  <2>1. /\ UNCHANGED <<snapshotError, brokerError>> /\ pc["main"] = "report"
        /\ exitCode' = "ok" => ~snapshotError /\ ~brokerError
        /\ pc' = [pc EXCEPT !["main"] = "exited"]
    BY <1>4 DEF Exit, MainOnly, recorded, FeedbackComplete
  <2> QED
    BY <1>1, <2>1
<1>5. CASE RunnerDies
  BY <1>1, <1>5 DEF RunnerDies, Die, Ended, recorded
<1>6. CASE WatcherStep \/ BrokerStep
  BY <1>1, <1>6 DEF WatcherStep, WatcherPoll, WatcherRecord, BrokerStep, BrokerRequest, BrokerStop,
                    HelperOnly, Ended
<1>7. CASE Agent \/ UNCHANGED vars
  BY <1>1, <1>7 DEF Agent, AgentEdit, AgentEvent, AgentRequest, AgentExit, AgentOnly, threads, recorded, vars
<1> QED
  BY <1>2, <1>3, <1>4, <1>5, <1>6, <1>7 DEF MainStep

LEMMA PrepareVisible ==
  ASSUME TypeOK, Roles, Visible, Prepare \/ EditTask
  PROVE  Visible'
<1> USE DEF Thread
<1>1. /\ pc \in [Thread -> MainPC \cup HelperPC] /\ pc["main"] \in Preparing
      /\ UNCHANGED <<snapshotError, brokerError, failed>>
  BY PrepareFrame DEF TypeOK, recorded
<1>2. exitCode' = exitCode
  BY DEF Prepare, HashFile, AcceptTask, MakeRun, CopyFile, CreateManifest, WriteManifest, Refuse, EditTask,
         PrepareOnly
<1>3. \/ pc' = pc
      \/ \E next \in Preparing \cup {"starter"} : pc' = [pc EXCEPT !["main"] = next]
      \/ Die
  BY PrepareFrame DEF Goto
<1> QED
  BY <1>1, <1>2, <1>3 DEF Visible, Preparing, Die

\* What was stored stays whole.
LEMMA ExportableStays ==
  ASSUME NEW tree \in Tree, Exportable(tree),
         \A c \in Content : blobs[c] = "whole" => blobs'[c] = "whole"
  PROVE  Exportable(tree)'
BY DEF Exportable, Present, Tree

LEMMA CaptureQuiet ==
  ASSUME IInv, Quiet, NEW t \in Thread, Capture(t)
  PROVE  Quiet'
<1> SUFFICES ASSUME failed' = {}
             PROVE  Gapless' /\ Stored' /\ (result # NoResult /\ result.clean => result.count = sequence)'
  BY DEF Quiet, Intact, Clean
<1> USE DEF IInv
<1>1. failed' = failed /\ failed = {} /\ ~RejectFile(t) /\ ~FailCapture(t)
  BY CaptureFails DEF Quiet, RejectFile, FailCapture, Raise
<1>2. /\ Gapless /\ Stored
      /\ result # NoResult /\ result.clean => result.count = sequence
  BY <1>1, CaptureKinds DEF Quiet, Intact, Ended, Clean
<1>3. /\ result' = result /\ TypeOK' /\ files \in Tree /\ todo \subseteq File
      /\ journal \in Seq(Line) /\ Len(journal) \in Nat /\ sequence \in Nat
      /\ blobs \in [Content -> {"absent", "torn", "whole"}]
  BY CaptureFrame, CaptureTypes DEF TypeOK
<1>4. \A i \in DOMAIN journal : journal[i].tree \in Tree
  <2> SUFFICES ASSUME NEW i \in DOMAIN journal PROVE journal[i].tree \in Tree
    OBVIOUS
  <2>1. journal[i] \in Entry
    BY <1>2, Numbered DEF Gapless
  <2> QED
    BY <2>1 DEF Entry
<1>5. result # NoResult /\ result.clean => step \in {"none", "scan"}
  BY DEF Final, Sealed
<1>6. CASE Acquire(t) \/ ReadFile(t) \/ SkipTree(t) \/ NewTree(t)
  <2>1. /\ UNCHANGED <<tornLine, sequence, journal, blobs>> /\ step # "entry" /\ step' # "entry"
        /\ step' = "blobs" => todo' = Present(files) /\ files' = files
    BY <1>3, <1>6 DEF Acquire, ReadFile, SkipTree, NewTree, Return, Unlock, disk, Roles, Holder, ThreadAssumption
  <2>2. Gapless'
    BY <1>2, <2>1 DEF Gapless, Parses
  <2>3. Stored'
    BY <1>2, <2>1 DEF Stored, Present, Exportable
  <2> QED
    BY <1>2, <1>3, <2>1, <2>2, <2>3
<1>7. CASE WriteBlob(t)
  <2>1. PICK f \in todo : /\ blobs' = [blobs EXCEPT ![files[f]] = IF @ = "absent" THEN "whole" ELSE @]
                          /\ todo' = todo \ {f}
    BY <1>7 DEF WriteBlob
  <2>2. UNCHANGED <<tornLine, sequence, journal, step, files>> /\ step = "blobs"
    BY <1>7 DEF WriteBlob
  <2>3. f \in Present(files) /\ files[f] \in Content
    BY <1>2, <1>3, <2>2 DEF Stored, Present, Tree
  <2>4. /\ \A c \in Content : blobs[c] # "torn"
        /\ \A c \in Content : blobs'[c] # "torn" /\ (blobs[c] = "whole" => blobs'[c] = "whole")
        /\ blobs'[files[f]] = "whole"
    BY <1>2, <1>3, <2>1, <2>3 DEF Stored
  <2>5. Gapless'
    BY <1>2, <2>2 DEF Gapless, Parses
  <2>6. \A i \in DOMAIN journal : Exportable(journal[i].tree)'
    BY <1>2, <1>4, <2>2, <2>4, ExportableStays DEF Stored
  <2>7. \A g \in Present(files) \ todo' : blobs'[files[g]] = "whole"
    <3> SUFFICES ASSUME NEW g \in Present(files), g \notin todo' PROVE blobs'[files[g]] = "whole"
      OBVIOUS
    <3>1. g = f \/ g \notin todo
      BY <2>1
    <3>2. files[g] \in Content
      BY <1>3 DEF Present, Tree
    <3> QED
      BY <1>2, <2>2, <2>4, <3>1, <3>2 DEF Stored
  <2>8. Present(files)' = Present(files) /\ todo' \subseteq Present(files)
    BY <1>2, <2>1, <2>2 DEF Present, Stored
  <2>9. Stored'
    BY <2>2, <2>4, <2>6, <2>7, <2>8 DEF Stored, Exportable
  <2> QED
    BY <1>2, <1>3, <2>2, <2>5, <2>9
<1>8. CASE WriteDiff(t)
  <2>1. /\ UNCHANGED <<tornLine, journal, blobs, files>> /\ step = "blobs" /\ todo = {}
        /\ step' = "entry" /\ sequence' = sequence + 1
    BY <1>8 DEF WriteDiff, disk
  <2>2. Gapless'
    BY <1>2, <2>1 DEF Gapless, Parses
  <2>3. Stored'
    BY <1>2, <2>1 DEF Stored, Present, Exportable
  <2> QED
    BY <1>3, <1>5, <2>1, <2>2, <2>3
<1>9. CASE AppendEntry(t)
  <2>1. /\ UNCHANGED <<sequence, blobs>> /\ tornLine' = FALSE /\ step = "entry" /\ step' = "none"
        /\ journal' = Append(journal, NewEntry)
    BY <1>2, <1>9 DEF AppendEntry, Return, Unlock, Gapless
  <2>2. /\ NewEntry \in Line /\ NewEntry # Garbled
        /\ NewEntry.sequence = sequence /\ NewEntry.tree = files
    BY NewEntryType, GarbledAssumption DEF NewEntry, Line
  <2>3. /\ Len(journal') = Len(journal) + 1 /\ DOMAIN journal' = 1 .. Len(journal) + 1
        /\ DOMAIN journal = 1 .. Len(journal)
        /\ \A i \in 1 .. Len(journal) : journal'[i] = journal[i]
        /\ journal'[Len(journal) + 1] = NewEntry
    BY <2>1, <2>2, Appended
  <2>4. sequence = Len(journal) + 1
    BY <1>2, <2>1 DEF Gapless
  <2>5. \A i \in DOMAIN journal' : i = Len(journal) + 1 \/ i \in DOMAIN journal
    BY <1>3, <2>3
  <2>6. Gapless'
    BY <1>2, <2>1, <2>2, <2>3, <2>4, <2>5 DEF Gapless, Parses
  <2>7. \A i \in DOMAIN journal' : Exportable(journal'[i].tree)
    BY <1>2, <2>1, <2>2, <2>3, <2>5 DEF Stored
  <2>8. Stored'
    BY <1>2, <2>1, <2>7 DEF Stored, Exportable, Present
  <2> QED
    BY <1>2, <1>3, <2>1, <2>6, <2>8
<1> QED
  BY <1>1, <1>6, <1>7, <1>8, <1>9 DEF Capture, CaptureStep

LEMMA OthersQuiet ==
  ASSUME IInv, Quiet,
         MainStep \/ WallTimeout \/ RunnerDies \/ WatcherStep \/ BrokerStep \/ Agent
         \/ UNCHANGED vars \/ Prepare \/ EditTask
  PROVE  Quiet'
<1> SUFFICES ASSUME Intact' PROVE Gapless' /\ Stored' /\ (Clean => result.count = sequence)'
  BY DEF Quiet
<1>1. UNCHANGED <<locals, sequence, failed>>
  BY OthersFrame, PrepareFrame DEF disk
<1>2. result' = result \/ (WriteResult /\ result'.count = sequence)
  <2>1. CASE WriteResult
    BY <2>1 DEF WriteResult
  <2>2. CASE Prepare \/ EditTask
    BY <2>2, PrepareFrame DEF disk
  <2> QED
    BY <2>1, <2>2 DEF MainStep, StartThreads, Popen, WriteReceipt, ReadEvent, EndTerm, LeaveLoop, StopWatcher,
           JoinWatcher, Exit, WallTimeout, RunnerDies, WatcherStep, WatcherPoll, WatcherRecord, BrokerStep,
           BrokerRequest, BrokerStop, Agent, AgentEdit, AgentEvent, AgentRequest, AgentExit, MainOnly,
           HelperOnly, AgentOnly, disk, vars
<1>3. Intact
  <2>1. pc["main"] = "crashed" => pc'["main"] = "crashed" /\ ~WriteResult
    BY DEF MainStep, StartThreads, Popen, WriteReceipt, ReadEvent, EndTerm, LeaveLoop,
           StopWatcher, JoinWatcher, WriteResult, Exit, WallTimeout, RunnerDies, Ended,
           WatcherStep, WatcherPoll, WatcherRecord, BrokerStep, BrokerRequest, BrokerStop,
           Agent, AgentEdit, AgentEvent, AgentRequest, AgentExit, AgentOnly, threads, vars,
           Prepare, HashFile, AcceptTask, MakeRun, CopyFile, CreateManifest, WriteManifest,
           Refuse, EditTask, Preparing
  <2> QED
    BY <1>1, <1>2, <2>1 DEF Intact, Clean
<1>4. UNCHANGED <<blobs, journal, tornLine>>
  <2>1. CASE RunnerDies
    <3>1. pc'["main"] = "crashed" /\ result' = result /\ HalfWritten
      BY <2>1 DEF RunnerDies, Die, Thread
    <3>2. step \in {"none", "scan"}
      BY <3>1 DEF Intact, Clean, IInv, Final, Sealed
    <3> QED
      BY <3>1, <3>2 DEF HalfWritten
  <2> QED
    BY <2>1, OthersFrame, PrepareFrame DEF disk
<1>5. Gapless' <=> Gapless
  BY <1>1, <1>4 DEF Gapless, Parses, locals
<1>6. Stored' <=> Stored
  BY <1>1, <1>4 DEF Stored, Present, Exportable, locals
<1> QED
  BY <1>1, <1>2, <1>3, <1>5, <1>6 DEF Quiet, Clean

LEMMA StepSpotless ==
  ASSUME IInv, Visible, Spotless, [Next]_vars
  PROVE  Spotless'
<1>1. CASE \E t \in Thread : Capture(t)
  <2>1. PICK t \in Thread : Capture(t)
    BY <1>1
  <2>2. result' = result /\ (failed' = failed \/ (failed' = failed \cup {t} /\ lock = t))
    BY <2>1, CaptureFrame, CaptureFails
  <2>3. Clean /\ lock = t => t # "main"
    BY <2>1, CaptureKinds DEF Clean, IInv, Final, Roles, Holder, CapturePC, TypeOK, Thread,
       ThreadAssumption
  <2> QED
    BY <2>2, <2>3 DEF Spotless, Clean
<1>2. CASE WriteResult
  <2>1. pc["main"] = "build" /\ failed' = failed /\ result'.clean = ~snapshotError
    BY <1>2 DEF WriteResult, MainOnly
  <2> QED
    BY <2>1 DEF Spotless, Clean, Visible
<1>3. CASE Prepare \/ EditTask
  BY <1>3, PrepareFrame DEF disk, Spotless, Clean
<1>4. CASE /\ MainStep \/ WallTimeout \/ RunnerDies \/ WatcherStep \/ BrokerStep \/ Agent \/ UNCHANGED vars
           /\ ~WriteResult
  <2>1. failed' = failed
    BY <1>4, OthersFrame
  <2>2. result' = result
    BY <1>4 DEF MainStep, StartThreads, Popen, WriteReceipt, ReadEvent, EndTerm, LeaveLoop, StopWatcher,
           JoinWatcher, Exit, WallTimeout, RunnerDies, WatcherStep, WatcherPoll, WatcherRecord, BrokerStep,
           BrokerRequest, BrokerStop, Agent, AgentEdit, AgentEvent, AgentRequest, AgentExit, MainOnly,
           HelperOnly, AgentOnly, disk, vars
  <2> QED
    BY <2>1, <2>2 DEF Spotless, Clean
<1> QED
  BY <1>1, <1>2, <1>3, <1>4 DEF Next, Terminated

LEMMA StepReceipted ==
  ASSUME IInv, Receipted, [Next]_vars
  PROVE  Receipted'
<1> USE DEF IInv
<1>1. result # NoResult => pc["main"] \in {"report", "exited", "crashed"}
  BY DEF Final
<1>2. CASE \E t \in Thread : Capture(t)
  BY <1>2, CaptureFrame DEF Receipted, Counted
<1>3. CASE Prepare \/ EditTask
  BY <1>3, PrepareFrame DEF Receipted, Counted, disk
<1>4. CASE WriteResult
  <2>1. pc["main"] = "build" /\ receipt' = receipt
    BY <1>4 DEF WriteResult
  <2>2. Brokered => Counted
    BY <2>1 DEF Outlived, Launch
  <2> QED
    BY <2>1, <2>2 DEF Receipted, Counted
<1>5. CASE /\ MainStep \/ WallTimeout \/ RunnerDies \/ WatcherStep \/ BrokerStep \/ Agent \/ UNCHANGED vars
           /\ ~WriteResult
  <2>1. result' = result
    BY <1>5 DEF MainStep, StartThreads, Popen, WriteReceipt, ReadEvent, EndTerm, LeaveLoop, StopWatcher,
           JoinWatcher, Exit, WallTimeout, RunnerDies, WatcherStep, WatcherPoll, WatcherRecord, BrokerStep,
           BrokerRequest, BrokerStop, Agent, AgentEdit, AgentEvent, AgentRequest, AgentExit, MainOnly,
           HelperOnly, AgentOnly, disk, vars
  <2>2. receipt' = receipt \/ receipt' = "whole" \/ pc["main"] = "receipt"
    BY <1>5 DEF MainStep, StartThreads, Popen, WriteReceipt, ReadEvent, EndTerm, LeaveLoop, StopWatcher,
           JoinWatcher, Exit, WallTimeout, RunnerDies, WatcherStep, WatcherPoll, WatcherRecord, BrokerStep,
           BrokerRequest, BrokerStop, Agent, AgentEdit, AgentEvent, AgentRequest, AgentExit, MainOnly,
           HelperOnly, AgentOnly, disk, vars
  <2> QED
    BY <1>1, <2>1, <2>2 DEF Receipted, Counted
<1> QED
  BY <1>2, <1>3, <1>4, <1>5 DEF Next, Terminated

\* What a run records holds on, on top of the invariant.
LEMMA Recorded == Spec => [](Visible /\ Quiet /\ Receipted /\ Spotless)
<1>1. Init => Visible /\ Quiet /\ Receipted /\ Spotless
  <2> SUFFICES ASSUME Init PROVE Visible /\ Quiet /\ Receipted /\ Spotless
    OBVIOUS
  <2>1. journal = <<>> /\ sequence = 0 /\ step = "none" /\ result = NoResult /\ tornLine = FALSE
    BY DEF Init
  <2>2. Visible
    BY DEF Init, Visible, Thread
  <2>3. Gapless
    BY <2>1 DEF Gapless
  <2>4. Stored
    BY <2>1 DEF Init, Stored
  <2> QED
    BY <2>1, <2>2, <2>3, <2>4 DEF Quiet, Receipted, Spotless, Clean
<1>2. IInv /\ Visible /\ Quiet /\ Receipted /\ Spotless /\ [Next]_vars
        => (Visible /\ Quiet /\ Receipted /\ Spotless)'
  <2> SUFFICES ASSUME IInv, Visible, Quiet, Receipted, Spotless, [Next]_vars
               PROVE  Visible' /\ Quiet' /\ Receipted' /\ Spotless'
    OBVIOUS
  <2>1. TypeOK /\ Roles
    BY DEF IInv
  <2>2. CASE \E t \in Thread : Capture(t)
    BY <2>1, <2>2, CaptureVisible, CaptureQuiet, StepReceipted, StepSpotless
  <2>3. CASE MainStep \/ WallTimeout \/ RunnerDies \/ WatcherStep \/ BrokerStep \/ Agent \/ UNCHANGED vars
    BY <2>1, <2>3, OthersVisible, OthersQuiet, StepReceipted, StepSpotless
  <2>4. CASE Prepare \/ EditTask
    BY <2>1, <2>4, PrepareVisible, OthersQuiet, StepReceipted, StepSpotless
  <2> QED
    BY <2>2, <2>3, <2>4 DEF Next, Terminated
<1> QED
  BY <1>1, <1>2, Invariance, PTL DEF Spec

\* The lines that parse are one chain in every run, however its threads interleave and fail, and
\* only an exception or a death damages a line.
THEOREM ChainCorrect == Spec => []JournalChain
<1>1. IInv /\ Quiet => JournalChain
  <2> SUFFICES ASSUME IInv, Quiet PROVE JournalChain
    OBVIOUS
  <2>1. Links /\ Tip
    BY DEF IInv, Chain
  <2>2. Damaged => ~Intact
    BY DEF Quiet, Gapless, Damaged
  <2> QED
    BY <2>1, <2>2 DEF Links, Tip, Intact, JournalChain
<1> QED
  BY <1>1, Invariance, Recorded, PTL

\* A result without snapshot errors names the source that the agent left, and so does the last
\* line of the journal, if no exception of the broker's capture or the watcher's damaged it.
THEOREM ResultCorrect == Spec => []CleanResultIsFinalSource
<1>1. IInv /\ Visible /\ Quiet /\ Spotless => CleanResultIsFinalSource
  <2> SUFFICES ASSUME IInv, Visible, Quiet, Spotless, Clean
               PROVE  /\ result.tree = workspace /\ journal # <<>>
                      /\ \/ EndsWith(workspace)
                         \/ /\ tornLine \/ ~Parses(Len(journal))
                            /\ "watcher" \in failed \/ ("broker" \in failed /\ brokerError)
    BY DEF CleanResultIsFinalSource, Clean
  <2>1. result.tree = workspace /\ previousTree = workspace /\ workspace # None
    BY StarterAssumption DEF IInv, Final, Sealed, Clean, TypeOK
  <2>2. Lines # 0 /\ (Parses(Lines) => previousTree = journal[Lines].tree)
    BY <2>1 DEF IInv, Chain, Tip
  <2>3. journal # <<>>
    BY <2>2 DEF Lines, IInv, Chain, Tip
  <2>4. CASE ~tornLine /\ Parses(Len(journal))
    BY <2>1, <2>2, <2>3, <2>4 DEF Lines, EndsWith
  <2>5. CASE tornLine \/ ~Parses(Len(journal))
    <3>1. tornLine \/ \E i \in DOMAIN journal : ~Parses(i)
      BY <2>3, <2>5 DEF IInv, TypeOK
    <3>2. failed # {}
      BY <3>1 DEF Quiet, Intact, Gapless
    <3> QED
      BY <2>1, <2>3, <2>5, <3>2 DEF Spotless, Visible, IInv, TypeOK, Thread
  <2> QED
    BY <2>4, <2>5
<1> QED
  BY <1>1, Invariance, Recorded, PTL

\* "Limits on file size/count fail the run visibly": with the exit code 0 no capture of the main thread
\* or the broker has raised, and a watcher's exception is at most on its way.
THEOREM ExitShowsFailure == Spec => []FailureShowsInExit
<1>1. TypeOK /\ Visible => FailureShowsInExit
  BY DEF TypeOK, Visible, FailureShowsInExit, Thread
<1> QED
  BY <1>1, TypeCorrect, Recorded, PTL

\* However the threads of a run interleave, a completed, clean session in which no capture raised and only
\* the kernel changed passes validate_capture, and every entry of its journal can be exported.
THEOREM QuietRunIsReplayed == Spec => []QuietRunReplays
<1>1. IInv /\ Quiet /\ Receipted => QuietRunReplays
  <2> SUFFICES ASSUME IInv, Quiet, Receipted,
                      result # NoResult, result.clean, result.status = "completed", failed = {},
                      workspace[Kernel] # Absent, \A f \in File \ {Kernel} : workspace[f] = Starter[f],
                      Brokered
               PROVE  ValidCapture /\ \A i \in DOMAIN journal : Exportable(journal[i].tree)
    BY DEF QuietRunReplays
  <2>1. Gapless /\ Stored /\ result.count = sequence
    BY DEF Quiet, Intact, Clean
  <2>2. /\ previousTree = workspace /\ result.tree = workspace /\ step \in {"none", "scan"}
        /\ agent = "dead"
    BY DEF IInv, Final, Sealed
  <2>3. journal # <<>> /\ EndsWith(result.tree)
    <3>1. workspace # None /\ ~tornLine /\ Lines # 0
      BY <2>1, <2>2, StarterAssumption DEF IInv, TypeOK, Chain, Tip, Gapless
    <3>2. Len(journal) \in Nat /\ Len(journal) # 0 /\ DOMAIN journal = 1 .. Len(journal)
      BY <3>1 DEF IInv, TypeOK, Lines
    <3>3. Parses(Len(journal))
      <4>1. Len(journal) \in DOMAIN journal
        BY <3>2
      <4> QED
        BY <2>1, <4>1 DEF Gapless
    <3> QED
      BY <2>2, <3>1, <3>2, <3>3 DEF IInv, Chain, Tip, Lines, EndsWith
  <2>4. manifest = "whole" /\ Counted
    BY <2>2 DEF IInv, Started, Receipted
  <2>5. Len(journal) = result.count
    BY <2>1, <2>2 DEF Gapless
  <2>6. ValidCapture
    BY <2>1, <2>2, <2>3, <2>4, <2>5 DEF ValidCapture, Gapless
  <2> QED
    BY <2>1, <2>6 DEF Stored
<1> QED
  BY <1>1, Invariance, Recorded, PTL

-----------------------------------------------------------------------------
(* A run implements the sealed source log. *)

Trees == [i \in DOMAIN journal |-> IF Parses(i) THEN journal[i].tree ELSE Garbled]
Seal  == IF result # NoResult /\ result.clean THEN result.tree ELSE None

LEMMA TreesOf ==
  ASSUME NEW j \in Seq(Line), NEW trees,
         trees = [i \in DOMAIN j |-> IF i \in DOMAIN j /\ j[i] # Garbled THEN j[i].tree ELSE Garbled]
  PROVE  /\ trees \in Seq(Tree \cup {Garbled}) /\ Len(trees) = Len(j) /\ Len(j) \in Nat
         /\ DOMAIN j = 1 .. Len(j)
         /\ \A i \in 1 .. Len(j) : trees[i] = IF j[i] # Garbled THEN j[i].tree ELSE Garbled
<1>1. Len(j) \in Nat /\ DOMAIN j = 1 .. Len(j)
  OBVIOUS
<1>2. ASSUME NEW i \in 1 .. Len(j), j[i] # Garbled PROVE j[i].tree \in Tree
  <2>1. j[i] \in Entry
    BY <1>1, <1>2 DEF Line
  <2> QED
    BY <2>1 DEF Entry
<1>3. trees \in [1 .. Len(j) -> Tree \cup {Garbled}]
  BY <1>1, <1>2
<1>4. trees \in Seq(Tree \cup {Garbled}) /\ Len(trees) = Len(j)
  BY <1>1, <1>3
<1> QED
  BY <1>1, <1>4

LEMMA TreesType ==
  ASSUME TypeOK
  PROVE  /\ Trees \in Seq(Tree \cup {Garbled}) /\ Len(Trees) = Len(journal) /\ Len(journal) \in Nat
         /\ DOMAIN journal = 1 .. Len(journal)
         /\ \A i \in 1 .. Len(journal) :
              Trees[i] = IF journal[i] # Garbled THEN journal[i].tree ELSE Garbled
  BY TreesOf DEF TypeOK, Trees, Parses

\* How the log follows the journal.
LEMMA TreesAppend ==
  ASSUME TypeOK, TypeOK', NEW line \in Line, AddsLine(line),
         NEW tree \in Tree \cup {Garbled},
         IF line = Garbled THEN tree = Garbled ELSE tree = line.tree
  PROVE  Trees' = Append(Trees, tree)
<1> DEFINE n == Len(journal)
<1>1. /\ Trees \in Seq(Tree \cup {Garbled}) /\ Len(Trees) = n /\ n \in Nat
      /\ \A i \in 1..n : Trees[i] = IF journal[i] # Garbled THEN journal[i].tree ELSE Garbled
  BY TreesType
<1>2. /\ Trees' \in Seq(Tree \cup {Garbled}) /\ Len(Trees') = Len(journal')
      /\ \A i \in 1 .. Len(journal') :
            Trees'[i] = IF journal'[i] # Garbled THEN journal'[i].tree ELSE Garbled
  BY TreesOf DEF TypeOK, Trees, Parses
<1>3. /\ Len(journal') = n + 1 /\ DOMAIN journal' = 1 .. n + 1 /\ DOMAIN journal = 1..n
      /\ \A i \in 1..n : journal'[i] = journal[i]
      /\ journal'[n + 1] = line
  BY Appended DEF AddsLine
<1>4. /\ Append(Trees, tree) \in Seq(Tree \cup {Garbled}) /\ Len(Append(Trees, tree)) = n + 1
      /\ \A i \in 1..n : Append(Trees, tree)[i] = Trees[i]
      /\ Append(Trees, tree)[n + 1] = tree
  BY <1>1, AppendProperties
<1> HIDE DEF n
<1>5. ASSUME NEW i \in 1 .. n + 1 PROVE Trees'[i] = Append(Trees, tree)[i]
  <2>1. CASE i = n + 1
    <3>1. Trees'[i] = IF line # Garbled THEN line.tree ELSE Garbled
      BY <1>1, <1>2, <1>3, <2>1 DEF Parses
    <3> QED
      BY <1>4, <2>1, <3>1
  <2>2. CASE i \in 1..n
    <3>1. Trees'[i] = Trees[i]
      BY <1>1, <1>2, <1>3, <2>2 DEF Parses
    <3> QED
      BY <1>4, <2>2, <3>1
  <2> QED
    BY <1>1, <2>1, <2>2
<1> QED
  BY <1>2, <1>3, <1>4, <1>5, SeqEqual

LEMMA TreesGlued ==
  ASSUME TypeOK, TypeOK', SpoilsLine, Len(journal) > 0
  PROVE  Trees' = [Trees EXCEPT ![Len(Trees)] = Garbled]
<1>0. PICK n \in Nat : n = Len(journal)
  BY DEF TypeOK
<1>1. /\ Trees \in Seq(Tree \cup {Garbled}) /\ Len(Trees) = n
      /\ \A i \in 1..n : Trees[i] = IF journal[i] # Garbled THEN journal[i].tree ELSE Garbled
  BY <1>0, TreesType
<1>2. /\ Len(journal') = n /\ \A i \in 1..n : i # n => journal'[i] = journal[i]
      /\ journal'[n] = Garbled
  BY <1>0, GluedLines DEF SpoilsLine
<1>3. /\ Trees' \in Seq(Tree \cup {Garbled}) /\ Len(Trees') = Len(journal')
      /\ \A i \in 1 .. Len(journal') :
            Trees'[i] = IF journal'[i] # Garbled THEN journal'[i].tree ELSE Garbled
  BY TreesOf DEF TypeOK, Trees, Parses
<1> DEFINE glued == [Trees EXCEPT ![n] = Garbled]
<1>4. /\ glued \in Seq(Tree \cup {Garbled}) /\ Len(glued) = n
      /\ \A i \in 1..n : glued[i] = IF i = n THEN Garbled ELSE Trees[i]
  <2>1. n \in 1 .. Len(Trees) /\ Garbled \in Tree \cup {Garbled}
    BY <1>0, <1>1
  <2>2. Trees \in Seq(Tree \cup {Garbled}) /\ Len(Trees) = n
    BY <1>1
  <2> HIDE DEF Trees
  <2> QED
    BY <2>1, <2>2, ExceptSeq
<1>5. ASSUME NEW i \in 1..n PROVE Trees'[i] = glued[i]
  <2>1. CASE i = n
    BY <1>2, <1>3, <1>4, <2>1
  <2>2. CASE i # n
    BY <1>1, <1>2, <1>3, <1>4, <2>2
  <2> QED
    BY <2>1, <2>2
<1>6. Trees' = glued
  BY <1>2, <1>3, <1>4, <1>5, SeqEqual
<1> QED
  BY <1>1, <1>6

LEMMA RefinesStep ==
  ASSUME IInv, IInv', [Next]_vars
  PROVE  [Log!Next]_<<Trees, ~tornLine, Seal>>
<1>1. TypeOK /\ TypeOK'
  BY DEF IInv
<1>2. CASE WriteResult
  <2>1. /\ UNCHANGED <<journal, tornLine>> /\ pc["main"] = "build" /\ result' \in Result
        /\ result'.tree = previousTree /\ result'.clean = ~snapshotError
    BY <1>1, <1>2 DEF WriteResult, Result, RunStatus, Status, TypeOK, MainOnly
  <2>2. result = NoResult /\ result' # NoResult
    BY <2>1, ResultAssumption DEF IInv, Final
  <2>3. Trees' = Trees
    BY <2>1 DEF Trees, Parses
  <2>4. CASE snapshotError
    BY <1>1, <2>1, <2>2, <2>3, <2>4 DEF Seal, TypeOK
  <2>5. CASE ~snapshotError
    <3>1. Seal = None /\ Seal' = previousTree
      BY <2>1, <2>2, <2>5 DEF Seal
    <3>2. previousTree = workspace /\ workspace \in Tree /\ workspace # None
      BY <1>1, <2>1, <2>5, StarterAssumption DEF IInv, Final, Sealed, TypeOK
    <3>3. /\ Len(journal) \in Nat /\ tornLine \in BOOLEAN /\ DOMAIN journal = 1 .. Len(journal)
          /\ Lines # 0 /\ (tornLine => Len(journal) > 0)
          /\ (Parses(Lines) => previousTree = journal[Lines].tree)
      BY <1>1, <3>2 DEF IInv, Chain, Tip, TypeOK
    <3>4. Len(journal) > 0
      <4>1. CASE tornLine
        BY <3>3, <4>1
      <4>2. CASE ~tornLine
        BY <3>3, <4>2 DEF Lines
      <4> QED
        BY <3>3, <4>1, <4>2
    <3>5. /\ Trees \in Seq(Tree \cup {Garbled}) /\ Len(Trees) = Len(journal)
          /\ Trees[Len(journal)] = IF journal[Len(journal)] # Garbled
                                   THEN journal[Len(journal)].tree ELSE Garbled
      BY <1>1, <3>3, <3>4, TreesType
    <3>6. ~tornLine => Trees[Len(Trees)] = Garbled \/ Trees[Len(Trees)] = previousTree
      <4>1. CASE journal[Len(journal)] = Garbled
        BY <3>5, <4>1
      <4>2. CASE ~tornLine /\ journal[Len(journal)] # Garbled
        <5>1. Lines = Len(journal) /\ Parses(Lines)
          BY <3>3, <3>4, <4>2 DEF Lines, Parses
        <5> QED
          BY <3>3, <3>5, <4>2, <5>1
      <4> QED
        BY <4>1, <4>2
    <3>7. Trees # <<>>
      BY <3>4, <3>5
    <3> QED
      BY <2>1, <2>3, <3>1, <3>2, <3>6, <3>7 DEF Log!Next, Log!Seal, Trees, Seal
  <2> QED
    BY <2>4, <2>5
<1>3. CASE ~WriteResult
  <2>1. result' = result
    <3>1. CASE \E t \in Thread : Capture(t)
      BY <3>1, CaptureFrame
    <3>2. CASE Prepare \/ EditTask
      BY <3>2, PrepareFrame DEF disk
    <3>3. CASE MainStep \/ WallTimeout \/ RunnerDies \/ WatcherStep \/ BrokerStep \/ Agent
               \/ UNCHANGED vars
      BY <1>3, <3>3 DEF MainStep, StartThreads, Popen, WriteReceipt, ReadEvent, EndTerm,
                LeaveLoop, StopWatcher, JoinWatcher, Exit, WallTimeout, RunnerDies,
                WatcherStep, WatcherPoll, WatcherRecord, BrokerStep, BrokerRequest,
                BrokerStop, Agent, AgentEdit, AgentEvent, AgentRequest, AgentExit,
                MainOnly, HelperOnly, AgentOnly, disk, vars
    <3> QED
      BY <3>1, <3>2, <3>3 DEF Next, Terminated
  <2>2. Seal' = Seal
    BY <2>1 DEF Seal
  <2>3. CASE UNCHANGED <<journal, tornLine>>
    BY <2>2, <2>3 DEF Trees, Parses
  <2>4. CASE /\ step = "entry" /\ tornLine' \in BOOLEAN
             /\ AddsLine(NewEntry) \/ (AddsLine(Garbled) /\ tornLine') \/ SpoilsLine
    <3>1. Seal = None
      <4>1. ~Sealed
        BY <2>4 DEF IInv, Final
      <4> QED
        BY <4>1 DEF Seal, Sealed
    <3>2. /\ files \in Tree /\ files # previousTree /\ files # Garbled /\ NewEntry.tree = files
          /\ NewEntry \in Line /\ NewEntry # Garbled /\ Garbled \in Line /\ tornLine \in BOOLEAN
      BY <1>1, <2>4, NewEntryType, GarbledAssumption DEF IInv, Chain, TypeOK, NewEntry, Line
    <3>3. ~tornLine => Log!Differs(files)
      <4>0. PICK n \in Nat : n = Len(journal)
        BY <1>1 DEF TypeOK
      <4>5. n > 0 => n \in 1..n
        OBVIOUS
      <4>6. /\ Len(Trees) = n /\ Trees \in Seq(Tree \cup {Garbled}) /\ DOMAIN journal = 1..n
            /\ n > 0 => Trees[n] = IF journal[n] # Garbled THEN journal[n].tree ELSE Garbled
        BY <1>1, <4>0, <4>5, TreesType
      <4>1. /\ Len(Trees) = Len(journal) /\ Len(journal) \in Nat /\ Trees \in Seq(Tree \cup {Garbled})
            /\ Len(journal) > 0 => Trees[Len(journal)] = IF Parses(Len(journal))
                                    THEN journal[Len(journal)].tree ELSE Garbled
        BY <4>0, <4>5, <4>6 DEF Parses
      <4>2. ~tornLine /\ Parses(Len(journal)) => previousTree = journal[Len(journal)].tree
        BY DEF IInv, Chain, Tip, Lines
      <4>3. Len(journal) = 0 => Trees = <<>>
        BY <4>1
      <4> QED
        BY <3>2, <4>1, <4>2, <4>3 DEF Log!Differs, Trees
    <3>4. CASE AddsLine(NewEntry)
      <4>1. Trees' = Append(Trees, files) /\ ~tornLine
        BY <1>1, <3>2, <3>4, TreesAppend DEF AddsLine
      <4>2. CASE tornLine'
        BY <2>2, <2>4, <3>1, <3>2, <3>3, <4>1, <4>2 DEF Log!Next, Log!Cut, Trees, Seal
      <4>3. CASE ~tornLine'
        BY <2>2, <2>4, <3>1, <3>2, <3>3, <4>1, <4>3 DEF Log!Next, Log!Record, Trees, Seal
      <4> QED
        BY <4>2, <4>3
    <3>5. CASE AddsLine(Garbled) /\ tornLine'
      <4>1. Trees' = Append(Trees, Garbled) /\ ~tornLine
        BY <1>1, <3>2, <3>5, TreesAppend DEF AddsLine
      <4> QED
        BY <2>2, <3>1, <3>5, <4>1 DEF Log!Next, Log!Cut, Trees, Seal
    <3>6. CASE SpoilsLine
      <4>1. Trees' = [Trees EXCEPT ![Len(Trees)] = Garbled] /\ tornLine
        BY <1>1, <3>6, TreesGlued DEF SpoilsLine, IInv, Chain, Tip
      <4> QED
        BY <2>2, <2>4, <3>1, <4>1 DEF Log!Next, Log!Glue, Trees, Seal
    <3> QED
      BY <2>4, <3>4, <3>5, <3>6
  <2> QED
    BY <1>1, <2>3, <2>4, JournalStep
<1> QED
  BY <1>2, <1>3

\* Whatever the threads, the agent and the file system do, a run records a log of source trees, each
\* different from the line before it, spoils at most the line that was cut off, and seals the log at
\* most once, with the tree of its last line if that parses, and for good.
THEOREM RunRecordsSourceLog == Spec => RecordsSourceLog
<1>1. Init => Log!Init
  BY DEF Init, Log!Init
<1>2. IInv /\ IInv' /\ [Next]_vars => [Log!Next]_<<Trees, ~tornLine, Seal>>
  BY RefinesStep
<1> QED
  BY <1>1, <1>2, Invariance, PTL DEF Spec, RecordsSourceLog, Log!Spec, Trees, Seal
=============================================================================
