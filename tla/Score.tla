-------------------------------- MODULE Score --------------------------------
(***************************************************************************)
(* Scoring of captured source snapshots, and the host it happens on.  One  *)
(* of two drivers runs the trusted harness (module Harness): `runner.py    *)
(* score` (local) compiles and scores the selected snapshots one after the *)
(* other; `remote_score score` (remote) starts a container that compiles   *)
(* and scores one exported snapshot (score_inside).  Beside them an        *)
(* analyst may run the mHC scorer (module MhcScore), and a live session    *)
(* may have its feedback requests scored (module RemoteFeedback): nothing  *)
(* locks the GPU, each scorer only looks at rocm-smi before and after it   *)
(* measures.                                                               *)
(***************************************************************************)
EXTENDS Harness, MhcScore, RemoteFeedback

CONSTANTS NSnapshots,   \* snapshots of the captured run
          MaxFaults,    \* bound: kills, lost clients and inputs that fail
          Hosts         \* what is run on the host: the driver ("none" for none), the first
                        \* snapshot it selects, the mHC cases and whether they are timed,
                        \* and the feedback requests of a live session

ASSUME ScoreAssumption ==
  /\ NSnapshots \in Nat \ {0} /\ MaxFaults \in Nat
  /\ Hosts \subseteq [driver : {"none", "local", "remote"}, first : {1, NSnapshots},
                     selected : SUBSET MhcCase, timed : BOOLEAN, calls : 0..NSlots]

VARIABLES
  faults,
  overlap,            \* the pairs of measurements that were made at once
  driver, first,      \* which driver this is, and the first snapshot it selects
  dpc, snapshot,      \* its place and the snapshot it is at
  limited,            \* run_limited's status of the process it waited for
  items, manifest,    \* local: the score records, and is score_manifest.json there
  summary, cpc,       \* remote: summary.json and the container's place
  dexit               \* the driver's exit status

hostVars == <<faults, overlap>>
driverVars == <<driver, first, dpc, snapshot, limited, items, manifest, summary, cpc, dexit>>
otherVars == <<mhcVars, remoteVars>>
vars == <<harnessVars, otherVars, hostVars, driverVars>>

\* A measurement: of the current harness, of an mHC case, of a feedback slot.
Measurement == {<<"harness", 0>>} \cup ({"mhc"} \X MhcCase) \cup ({"slot"} \X Slot)

Statuses == {"compile_input_missing", "compile_timeout", "compile_failed", "scorer_timeout",
             "scorer_result_invalid", "completed"}
Summaries == {"compile_failed", "scorer_failed", "result_invalid", "completed"}

TypeOK ==
  /\ HarnessTypeOK /\ MhcTypeOK /\ RemoteTypeOK
  /\ faults \in 0..MaxFaults /\ \A p \in overlap : p \subseteq Measurement
  /\ driver \in {"none", "local", "remote"} /\ first \in {1, NSnapshots}
  /\ dpc \in {"check", "export", "compile", "score", "validate", "next", "manifest", "wait", "summary",
              "over"}
  /\ snapshot \in 1..NSnapshots
  /\ limited \in {"none", "completed", "failed", "timeout"}
  /\ items \in [1..NSnapshots -> [status : Statuses \cup {"none"}, joint : BOOLEAN]]
  /\ manifest \in BOOLEAN
  /\ summary \in Summaries \cup {None, Torn}
  /\ cpc \in {"none", "build", "score", "validate", "fill", "exit", "gone"}
  /\ dexit \in {"none", "zero", "nonzero"}

Init ==
  /\ \E h \in Hosts :
       /\ driver = h.driver /\ first = h.first /\ selected = h.selected /\ timed = h.timed
       /\ calls = h.calls
  /\ HarnessInit /\ MhcInit /\ RemoteInit
  /\ faults = 0 /\ overlap = {} /\ dpc = "check" /\ snapshot = first
  /\ limited = "none" /\ items = [i \in 1..NSnapshots |-> [status |-> "none", joint |-> FALSE]]
  /\ manifest = FALSE /\ summary = None /\ cpc = "none" /\ dexit = "none"

Fault == faults < MaxFaults /\ faults' = faults + 1

-----------------------------------------------------------------------------
(* The GPU host. *)

Measuring ==
  {m \in Measurement :
     \/ m[1] = "harness" /\ hpc = "measure"
     \/ m[1] = "mhc" /\ mpc = "measure" /\ mcase = m[2]
     \/ m[1] = "slot" /\ box[m[2]].at = "measure"}

Overlaps == overlap' = overlap \cup {p \in {{m, n} : m, n \in Measuring'} : Cardinality(p) = 2}

\* A new process of the harness has measured nothing yet.
Unmeasured == overlap' = {p \in overlap : <<"harness", 0>> \notin p}

HarnessMoves ==
  /\ HarnessStep(MhcOnGpu \/ BoxesOnGpu)
  /\ UNCHANGED <<otherVars, faults, driverVars>> /\ Overlaps

HarnessIsKilled ==
  /\ Killed /\ Fault
  /\ UNCHANGED <<otherVars, overlap, driverVars>>

MhcMoves ==
  /\ MhcStep(OnGpu \/ BoxesOnGpu)
  /\ UNCHANGED <<harnessVars, remoteVars, faults, driverVars>> /\ Overlaps

FeedbackMoves ==
  /\ FeedbackStep(OnGpu \/ MhcOnGpu)
  /\ UNCHANGED <<harnessVars, mhcVars, faults, driverVars>> /\ Overlaps

FeedbackIsTroubled ==
  /\ FeedbackTrouble /\ Fault
  /\ UNCHANGED <<harnessVars, mhcVars, overlap, driverVars>>

-----------------------------------------------------------------------------
(* runner.py score *)

Go(from, to) == dpc = from /\ dpc' = to

\* main's handler: a ValueError, OSError or SubprocessError ends the program.
Fails == dpc' = "over" /\ dexit' = "nonzero"

Quiescent == UNCHANGED <<harnessVars, otherVars, overlap, driver, first>>

Local == driver = "local" /\ UNCHANGED <<summary, cpc>>

\* Another freeze, a preview, a run without result, a checkout that is not clean, private inputs
\* that do not match, no compiler: nothing is written.  Or only the manifest is printed.
LocalRefuses ==
  /\ Local /\ dpc = "check" /\ Fault /\ Fails
  /\ Quiescent /\ UNCHANGED <<snapshot, limited, items, manifest>>

LocalDryRun ==
  /\ Local /\ Go("check", "over") /\ dexit' = "zero"
  /\ Quiescent /\ UNCHANGED <<faults, snapshot, limited, items, manifest>>

LocalAccepts ==
  /\ Local /\ Go("check", "export")
  /\ Quiescent /\ UNCHANGED <<faults, snapshot, limited, items, manifest, dexit>>

\* export_snapshot: a blob that is not what the snapshot says ends the whole scoring.
ExportFails ==
  /\ Local /\ dpc = "export" /\ Fault /\ Fails
  /\ Quiescent /\ UNCHANGED <<snapshot, limited, items, manifest>>

Export ==
  /\ Local /\ Go("export", "compile")
  /\ Quiescent /\ UNCHANGED <<faults, snapshot, limited, items, manifest, dexit>>

Item(status, joint) == items' = [items EXCEPT ![snapshot] = [status |-> status, joint |-> joint]]

\* A frozen build source is not in the snapshot, or the compiler fails, or takes too long.
CompileFails ==
  /\ Local /\ Go("compile", "next")
  /\ \E s \in {"compile_input_missing", "compile_failed", "compile_timeout"} : Item(s, FALSE)
  /\ Quiescent /\ UNCHANGED <<faults, snapshot, limited, manifest, dexit>>

StartScorer ==
  /\ Local /\ Go("compile", "score")
  /\ \E only \in BOOLEAN : Begin([scored |-> TRUE, withheld |-> TRUE, only |-> only], "args")
  /\ Unmeasured /\ limited' = "none"
  /\ UNCHANGED <<otherVars, faults, driver, first, snapshot, items, manifest, dexit>>

Ended == IF hexit = "zero" THEN "completed" ELSE "failed"

\* run_limited: the process ended.
ScorerEnds ==
  /\ Local /\ Go("score", "validate") /\ hpc = "over" /\ limited' = Ended
  /\ Quiescent /\ UNCHANGED <<faults, snapshot, items, manifest, dexit>>

\* run_limited: time is up; TERM, then KILL to its group, and it is gone.
ScorerTimeout ==
  /\ Local /\ Go("score", "validate") /\ limited' = "timeout" /\ Killed
  /\ UNCHANGED <<otherVars, hostVars, driver, first, snapshot, items, manifest, dexit>>

\* validate_harness_result: readable, with the hashes of this snapshot and these inputs.
Valid == file \notin {None, Torn} /\ file.named

Validate ==
  /\ Local /\ Go("validate", "next")
  /\ IF limited = "timeout" THEN Item("scorer_timeout", FALSE)
     ELSE IF Valid THEN Item("completed", file.joint) ELSE Item("scorer_result_invalid", FALSE)
  /\ Quiescent /\ UNCHANGED <<faults, snapshot, limited, manifest, dexit>>

\* Faulty variant: one snapshot too many.
NextSnapshotBeyond ==
  /\ Local /\ Go("next", "export") /\ snapshot' = snapshot + 1
  /\ Quiescent /\ UNCHANGED <<faults, limited, items, manifest, dexit>>

NextSnapshot ==
  /\ Local /\ snapshot < NSnapshots /\ Go("next", "export") /\ snapshot' = snapshot + 1
  /\ Quiescent /\ UNCHANGED <<faults, limited, items, manifest, dexit>>

WriteManifest ==
  /\ Local /\ snapshot = NSnapshots /\ Go("next", "manifest") /\ manifest' = TRUE
  /\ Quiescent /\ UNCHANGED <<faults, snapshot, limited, items, dexit>>

Done == {i \in 1..NSnapshots : items[i].status # "none"}

LocalExit ==
  /\ Local /\ Go("manifest", "over")
  /\ dexit' = IF \A i \in Done : items[i].status = "completed" THEN "zero" ELSE "nonzero"
  /\ Quiescent /\ UNCHANGED <<faults, snapshot, limited, items, manifest>>

-----------------------------------------------------------------------------
(* remote_score: score_on_host, and score_inside in the container. *)

Remote == driver = "remote" /\ UNCHANGED <<snapshot, items, manifest>>

\* The bundle, the inputs, the checkouts, the image or the output directory is not as pinned.
RemoteRefuses ==
  /\ Remote /\ dpc = "check" /\ Fault /\ Fails
  /\ Quiescent /\ UNCHANGED <<limited, summary, cpc>>

StartContainer ==
  /\ Remote /\ Go("check", "wait") /\ cpc' = "build"
  /\ Quiescent /\ UNCHANGED <<faults, limited, summary, dexit>>

Inside == Remote /\ UNCHANGED <<dpc, dexit>>

ContainerEnds(status) == cpc' = "gone" /\ limited' = status

\* What the client reports, unless it is no longer there to report it.
Reported(status) == IF dpc = "wait" THEN status ELSE limited

\* The mounted spec or the sources changed, or the result cannot be read: no summary.
InsideRaises ==
  /\ Inside /\ ContainerEnds(Reported("failed")) /\ UNCHANGED summary
  /\ \/ cpc = "build" /\ Fault
     \/ cpc = "validate" /\ file = Torn /\ UNCHANGED faults
  /\ Quiescent

BuildFails ==
  /\ Inside /\ cpc = "build" /\ summary' = "compile_failed" /\ ContainerEnds(Reported("failed"))
  /\ Quiescent /\ UNCHANGED faults

StartInner ==
  /\ Inside /\ cpc = "build" /\ cpc' = "score"
  /\ \E eligible \in BOOLEAN : Begin([scored |-> eligible, withheld |-> TRUE, only |-> TRUE], "args")
  /\ Unmeasured
  /\ UNCHANGED <<otherVars, faults, driver, first, limited, summary>>

InnerEnds ==
  /\ Inside /\ cpc = "score" /\ hpc = "over" /\ cpc' = "validate"
  /\ Quiescent /\ UNCHANGED <<faults, limited, summary>>

\* The inner run_limited; its status is only recorded.
InnerTimeout ==
  /\ Inside /\ cpc = "score" /\ Killed /\ cpc' = "validate"
  /\ UNCHANGED <<otherVars, hostVars, driver, first, limited, summary>>

CreateSummary ==
  /\ Inside /\ cpc = "validate" /\ file # Torn /\ cpc' = "fill" /\ summary' = Torn
  /\ Quiescent /\ UNCHANGED <<faults, limited>>

\* The hashes, the kind of candidate, and that nothing was measured.
Acceptable == Valid /\ file.performance = "not_run" /\ (~call.scored => ~file.joint)

FillSummary ==
  /\ Inside /\ cpc = "fill" /\ cpc' = "exit"
  /\ summary' = IF file = None THEN "scorer_failed"
                ELSE IF Acceptable THEN "completed" ELSE "result_invalid"
  /\ Quiescent /\ UNCHANGED <<faults, limited>>

InsideExits ==
  /\ Inside /\ cpc = "exit"
  /\ ContainerEnds(Reported(IF summary = "completed" THEN "completed" ELSE "failed"))
  /\ Quiescent /\ UNCHANGED <<faults, summary>>

\* The client ended with the container's status.
ClientEnds ==
  /\ Remote /\ Go("wait", "summary") /\ cpc = "gone"
  /\ Quiescent /\ UNCHANGED <<faults, limited, summary, cpc, dexit>>

\* run_limited kills the client after its time, or the client loses the daemon: nobody stops
\* the container.
ClientIsLost ==
  /\ Remote /\ Go("wait", "summary") /\ cpc # "gone" /\ Fault
  /\ limited' \in {"timeout", "failed"}
  /\ Quiescent /\ UNCHANGED <<summary, cpc, dexit>>

\* Faulty variant: the summary is believed without the status of the client.
ReadSummaryOnly ==
  /\ Remote /\ Go("summary", "over")
  /\ dexit' = IF summary = "completed" THEN "zero" ELSE "nonzero"
  /\ Quiescent /\ UNCHANGED <<faults, limited, summary, cpc>>

\* deployment.json, then summary.json as it is now.
ReadSummary ==
  /\ Remote /\ Go("summary", "over")
  /\ dexit' = IF limited = "completed" /\ summary = "completed" THEN "zero" ELSE "nonzero"
  /\ Quiescent /\ UNCHANGED <<faults, limited, summary, cpc>>

-----------------------------------------------------------------------------

LocalStep ==
  \/ LocalRefuses \/ LocalDryRun \/ LocalAccepts \/ ExportFails \/ Export \/ CompileFails
  \/ StartScorer \/ ScorerEnds \/ ScorerTimeout \/ Validate \/ NextSnapshot \/ WriteManifest
  \/ LocalExit

RemoteStep ==
  \/ RemoteRefuses \/ StartContainer \/ InsideRaises \/ BuildFails \/ StartInner \/ InnerEnds
  \/ InnerTimeout \/ CreateSummary \/ FillSummary \/ InsideExits \/ ClientEnds \/ ClientIsLost
  \/ ReadSummary

Next ==
  \/ HarnessMoves \/ HarnessIsKilled \/ MhcMoves \/ FeedbackMoves \/ FeedbackIsTroubled
  \/ LocalStep \/ RemoteStep

Spec == Init /\ [][Next]_vars

-----------------------------------------------------------------------------

\* What the scorers write is true of what happened (HarnessIsTrue, MhcIsTrue, FeedbackIsTrue).
VerdictIsTrue == HarnessIsTrue /\ MhcIsTrue /\ FeedbackIsTrue

\* A verdict that is passed on is final.  Locally the completed record of a snapshot has the
\* whole result of its own harness, which is over, and the manifest has a record of every selected
\* snapshot; remotely the driver's zero means that the container is gone, its
\* summary whole and the harness's result unmeasured; a feedback result that reaches the
\* broker is that of its own slot (FeedbackIsFinal).
AcceptedIsFinal ==
  /\ dpc = "next" /\ items[snapshot].status = "completed" =>
       hpc = "over" /\ file = verdict /\ verdict.named /\ items[snapshot].joint = verdict.joint
  /\ manifest => Done = first..NSnapshots
  /\ driver = "remote" /\ dexit = "zero" =>
       cpc = "gone" /\ hpc = "over" /\ file = verdict /\ verdict.performance = "not_run"
  /\ FeedbackIsFinal

\* Nothing keeps two scorers off one GPU, and each looks only before and after it measures; still
\* of two measurements that overlapped at most one is believed, because each scorer holds the
\* GPU for as long as it measures and looks.  This covers the container of a feedback slot that
\* its caller gave up on, and the next slot's.
Believed(m) ==
  \/ m[1] = "harness" /\ file \notin {None, Torn} /\ file.performance \in {"pass", "fail"}
  \/ m[1] = "mhc" /\ timing[m[2]] # "none"
  \/ m[1] = "slot" /\ box[m[2]].file \notin {None, Torn} /\ box[m[2]].file.status = "complete"

OneIsBelieved == \A p \in overlap : \E m \in p : ~Believed(m)

=============================================================================
