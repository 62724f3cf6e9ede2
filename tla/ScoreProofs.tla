----------------------------- MODULE ScoreProofs -----------------------------
(***************************************************************************)
(* Theorems of module Score, for any number of cases, snapshots and        *)
(* feedback requests, any samples and any amount of trouble.               *)
(***************************************************************************)
EXTENDS Score, TimingProofs, WellFoundedInduction

-----------------------------------------------------------------------------
(* The harness. *)

\* What a result says is true of what happened so far.
HarnessTruth(r) ==
  /\ r.correctness \in {"pass", "visible_pass"} => \A c \in Run : did[c] = "right"
  /\ r.correctness = "pass" => Run = Case
  /\ r.correctness = "fail" =>
       /\ \A c \in Run : did[c] \in {"right", "candidate_wrong"}
       /\ \E c \in Run : did[c] = "candidate_wrong"
  /\ r.correctness = "baseline_invalid" =>
       \E c \in Run : did[c] \in {"baseline_wrong", "baseline_raised", "candidate_raised"}
  /\ r.performance = "pass" => typical /\ before = "clear"
  /\ r.joint => call.scored /\ r.correctness = "pass" /\ r.performance = "pass"

\* It judges once every case has run, and times what it judged right, having looked at the GPU.
HarnessPlace ==
  /\ hpc \in {"none", "args", "probe", "load", "cases"} => verdict = Fresh /\ quick /\ typical
  /\ hpc \in {"none", "args", "probe", "load"} => todo = 1
  /\ hpc = "cases" => \A c \in Run : c < todo => did[c] # "untouched"
  /\ hpc \in {"measure", "postflight"} =>
       /\ verdict.correctness = IF call.withheld THEN "pass" ELSE "visible_pass"
       /\ verdict.performance = "not_run" /\ ~verdict.joint
       /\ before = "clear" /\ (quick => typical)
  /\ hpc \in {"cases", "measure", "postflight"} => gpu # "none"

\* Nothing but its verdict is in the file, and that only in the end.
HarnessFile ==
  /\ hpc \notin {"fill", "exit", "over"} => file = None
  /\ hpc = "fill" => file = Torn
  /\ hpc = "exit" => file = verdict
  /\ file \in {None, Torn, verdict}

HarnessInv == HarnessTypeOK /\ HarnessTruth(verdict) /\ HarnessPlace /\ HarnessFile

-----------------------------------------------------------------------------
(* The mHC scorer. *)

\* The cases it has not come to.
Ahead(c) == mpc \in {"none", "setup"} \/ c > mcase \/ (c = mcase /\ mpc = "native")

MhcPlace ==
  /\ mpc # "none" => selected # {}
  /\ mpc \notin {"none", "setup", "over"} => mcase \in selected
  /\ mpc # "over" => mfile = "none"
  /\ \A c \in MhcCase : Ahead(c) => wrote[c] = 0 /\ entry[c] = "none" /\ timing[c] = "none"
  /\ mpc \in {"workspace", "launch", "quiet", "measure", "postrun", "review"} => timing[mcase] = "none"

\* A pass is two launches that both filled the buffers.
MhcEntries ==
  /\ mpc \in {"workspace", "launch"} => entry[mcase] = "none" /\ wrote[mcase] <= round
  /\ mpc = "workspace" => round = 0 /\ good
  /\ mpc \in {"workspace", "launch"} /\ good => wrote[mcase] = round
  /\ mpc \in {"quiet", "measure", "postrun", "review"} => entry[mcase] = "pass"
  /\ \A c \in MhcCase : entry[c] = "pass" => wrote[c] = Rounds
  /\ parity[1] => parity[2]

MhcInv == MhcTypeOK /\ MhcPlace /\ MhcEntries /\ MhcIsTrue

-----------------------------------------------------------------------------
(* The feedback of a session. *)

Unstarted == [at |-> "none", context |-> FALSE, right |-> "untouched", fast |-> FALSE,
              typical |-> FALSE, verdict |-> Unscored, file |-> None]

\* What the caller has not come to is untouched, and so is a container that was not started.
CallerPlace ==
  /\ rpc = "connect" => slot = 0
  /\ rpc \in {"upload", "score", "download"} => slot # 0 /\ returned[slot] = None
  /\ slot <= calls
  /\ \A k \in Slot :
       /\ k > slot \/ (k = slot /\ rpc = "upload") => host[k] = "none" /\ returned[k] = None
       /\ host[k] \in {"none", "check"} => box[k].at = "none" /\ reply[k] = None
       /\ host[k] \in {"wait", "remove"} => box[k].at # "none"
       /\ host[k] # "over" => reply[k] = None
       /\ box[k].at = "none" => box[k] = Unstarted

\* What a container that was asked for something has found out is so, and neither its verdict
\* nor its file says anything else.
BoxTruth(b, asked) ==
  /\ b.at \in {"checks", "build", "probe", "load", "cases", "measure", "postflight"} => b.verdict = Unscored
  /\ b.at \in {"probe", "load", "cases", "measure", "postflight"} => b.context
  /\ b.at = "measure" => b.right = "right" /\ asked = "benchmark"
  /\ b.at = "postflight" => b.right # "untouched"
  /\ b.fast => b.typical /\ asked = "benchmark"
  /\ b.verdict.status = "complete" => b.right = "right"
  /\ b.verdict.status = "correctness_failed" => b.right = "wrong"
  /\ b.verdict.pass => b.verdict.status = "complete" /\ b.fast

BoxFile(b) ==
  /\ b.at \notin {"fill", "exit", "gone"} => b.file = None
  /\ b.at = "fill" => b.file = Torn
  /\ b.at = "exit" => b.file = b.verdict
  /\ b.file \in {None, Torn, b.verdict}

InProgress(k) == k = slot /\ rpc \in {"upload", "score", "download"}

\* What a slot was answered comes from its container, which ran on what was uploaded.
Answer(k) ==
  /\ reply[k] \notin {None, Raised} => box[k].at = "gone" /\ reply[k] = box[k].file
  /\ box[k].at # "none" => sent[k] = "whole" \/ (returned[k] = Raised /\ ~InProgress(k))

FeedbackInv ==
  /\ RemoteTypeOK /\ CallerPlace /\ FeedbackIsFinal
  /\ \A k \in Slot : BoxTruth(box[k], kind[k]) /\ BoxFile(box[k]) /\ Answer(k)

-----------------------------------------------------------------------------
(* The driver of the harness. *)

DriverTypeOK ==
  /\ driver \in {"none", "local", "remote"} /\ first \in {1, NSnapshots}
  /\ dpc \in {"check", "export", "compile", "score", "validate", "next", "manifest", "wait", "summary",
              "over"}
  /\ snapshot \in 1..NSnapshots
  /\ limited \in {"none", "completed", "failed", "timeout"}
  /\ items \in [1..NSnapshots -> [status : Statuses \cup {"none"}, joint : BOOLEAN]]
  /\ manifest \in BOOLEAN
  /\ summary \in Summaries \cup {None, Torn}
  /\ cpc \in {"none", "build", "score", "validate", "fill", "exit", "gone"}
  /\ dexit \in {"none", "zero", "nonzero"}

\* The harness runs while its driver waits for it.
DriverPlace ==
  /\ driver = "local" => dpc \notin {"wait", "summary"} /\ cpc = "none"
  /\ driver # "local" => dpc \in {"check", "wait", "summary", "over"} /\ manifest = FALSE
  /\ driver = "none" => dpc = "check" /\ cpc = "none" /\ dexit = "none"
  /\ dpc # "score" /\ cpc # "score" => hpc \in {"none", "over"}
  /\ dpc \in {"validate"} \/ cpc \in {"score", "validate", "fill", "exit"} => hpc # "none"
  /\ dpc = "check" => dexit = "none" /\ cpc = "none"
  /\ dpc \in {"wait", "summary"} => dexit = "none"

\* Which snapshots have a record.
LocalItems ==
  /\ \A i \in 1..NSnapshots :
       items[i].status # "none" <=>
         /\ driver = "local" /\ first <= i
         /\ i < snapshot \/ (i = snapshot /\ (dpc \in {"next", "manifest"} \/ manifest))
  /\ first <= snapshot
  /\ manifest => dpc \in {"manifest", "over"} /\ snapshot = NSnapshots
  /\ dpc = "manifest" => manifest
  /\ dpc = "next" /\ items[snapshot].status = "completed" =>
       hpc = "over" /\ file = verdict /\ verdict.named /\ items[snapshot].joint = verdict.joint

\* A zero exit status rests on the container's, and that on the result.
WithoutTiming == hpc = "over" /\ file = verdict /\ verdict.performance = "not_run"

RemoteSummary ==
  /\ cpc = "exit" /\ summary = "completed" => WithoutTiming
  /\ driver = "remote" /\ limited = "completed" => cpc = "gone" /\ WithoutTiming
  /\ driver = "remote" /\ dexit = "zero" => limited = "completed"

DriverInv == DriverTypeOK /\ DriverPlace /\ LocalItems /\ RemoteSummary

-----------------------------------------------------------------------------
(* The GPU host. *)

\* A measurement between the looks at the GPU, and one that will not be believed any more.
Open(m) ==
  \/ m[1] = "harness" /\ hpc \in {"measure", "postflight"}
  \/ m[1] = "mhc" /\ mpc \in {"measure", "postrun"} /\ mcase = m[2]
  \/ m[1] = "slot" /\ box[m[2]].at \in {"measure", "postflight"}

Lost(m) ==
  \/ /\ m[1] = "harness" /\ hpc \in {"open", "fill", "exit", "hung", "over"}
     /\ verdict.performance \notin {"pass", "fail"}
  \/ /\ m[1] = "mhc" /\ mpc \notin {"none", "setup"} /\ timing[m[2]] = "none"
     /\ m[2] < mcase \/ (m[2] = mcase /\ mpc \in {"record", "write", "over"})
  \/ /\ m[1] = "slot" /\ box[m[2]].at \in {"open", "fill", "exit", "gone"}
     /\ box[m[2]].verdict.status # "complete"

HostInv ==
  /\ faults \in 0..MaxFaults
  /\ \A p \in overlap : /\ p \subseteq Measurement /\ \E m, n \in p : m # n
                        /\ (\A m \in p : Open(m)) \/ (\E m \in p : Lost(m))

IInv == HarnessInv /\ MhcInv /\ FeedbackInv /\ DriverInv /\ HostInv
-----------------------------------------------------------------------------
(* The harness keeps its part, whoever moves. *)

USE HarnessAssumption

LEMMA RunShape ==
  ASSUME call \in Calls
  PROVE  /\ Case = 1..(NPublic + NHidden) /\ Run \subseteq Case
         /\ Run = Case \/ Run = 1..NPublic
         /\ call.scored \in BOOLEAN /\ call.withheld \in BOOLEAN /\ call.only \in BOOLEAN
         /\ call.withheld => Run = Case
         /\ call.scored => call.withheld
BY DEF Case, Run, Calls

LEMMA NextTodo ==
  ASSUME call \in Calls, todo \in Run
  PROVE  todo + 1 \in 1..(NPublic + NHidden + 1)
<1>1. todo \in 1..(NPublic + NHidden)
  BY RunShape
<1> QED
  BY <1>1

LEMMA VerdictTypes ==
  /\ Fresh \in Results /\ Error \in Results
  /\ Fresh.named = TRUE /\ Fresh.correctness = "not_run" /\ Fresh.performance = "not_run" /\ ~Fresh.joint
  /\ Error.correctness = "not_run" /\ Error.performance = "not_run" /\ ~Error.joint
BY DEF Fresh, Error, Results, Correctness, Performance

LEMMA Regraded ==
  ASSUME NEW v \in Results, NEW performance \in Performance, NEW joint \in BOOLEAN,
         NEW correctness \in Correctness
  PROVE  /\ [v EXCEPT !.correctness = correctness, !.performance = performance] \in Results
         /\ [v EXCEPT !.performance = performance] \in Results
         /\ [v EXCEPT !.performance = performance, !.joint = joint] \in Results
BY DEF Results

LEMMA GradesAreTypical ==
  ASSUME NEW g \in Grades
  PROVE  g[1] \in BOOLEAN /\ g[2] \in BOOLEAN /\ (g[1] => g[2])
<1>1. PICK a \in Timings, c \in Timings :
        g = <<Bucket(a, c), NotSlower(a, c) /\ Gathered(a) /\ Gathered(c)>>
  BY DEF Grades
<1>2. a \in Latencies /\ c \in Latencies
  OBVIOUS
<1>3. Bucket(a, c) => NotSlower(a, c) /\ Gathered(a) /\ Gathered(c)
  BY <1>2, BucketIsTypical
<1>4. /\ g[1] = Bucket(a, c) /\ g[2] = (NotSlower(a, c) /\ Gathered(a) /\ Gathered(c))
      /\ Bucket(a, c) \in BOOLEAN /\ NotSlower(a, c) \in BOOLEAN
  BY <1>1 DEF Bucket, Calm, Quick, NotSlower
<1> QED
  BY <1>3, <1>4

LEMMA HarnessBegins ==
  ASSUME NEW c \in Calls, Begin(c, "args")
  PROVE  HarnessInv'
<1> USE DEF Begin
<1>1. HarnessTypeOK'
  BY VerdictTypes DEF HarnessTypeOK, Case
<1>2. HarnessTruth(verdict)'
  BY VerdictTypes DEF HarnessTruth
<1>3. HarnessPlace' /\ HarnessFile'
  BY DEF HarnessPlace, HarnessFile
<1> QED
  BY <1>1, <1>2, <1>3 DEF HarnessInv

LEMMA HarnessStays ==
  ASSUME HarnessInv, UNCHANGED harnessVars
  PROVE  HarnessInv'
BY DEF HarnessInv, harnessVars, HarnessTypeOK, HarnessTruth, HarnessPlace, HarnessFile, Run

LEMMA HarnessKilled ==
  ASSUME HarnessInv, Killed
  PROVE  HarnessInv'
BY DEF HarnessInv, HarnessTypeOK, HarnessTruth, HarnessPlace, HarnessFile, Run, Killed, Running

\* A verdict stays true while nothing happens that it is about.
LEMMA TruthStays ==
  ASSUME HarnessTruth(verdict), UNCHANGED <<call, did, typical, before, verdict>>
  PROVE  HarnessTruth(verdict)'
BY DEF HarnessTruth, Run

\* A verdict that says nothing is true.
LEMMA NothingIsTrue ==
  ASSUME verdict' \in {Fresh, Error}
  PROVE  HarnessTruth(verdict)'
BY VerdictTypes DEF HarnessTruth

LEMMA HarnessTyped ==
  ASSUME HarnessTypeOK, HarnessPlace, NEW others, HarnessStep(others)
  PROVE  HarnessTypeOK'
<1> USE DEF HarnessTypeOK, HGo
<1>1. CASE Refuse \/ Accept \/ Load \/ Hangs \/ Aborts \/ Measured \/ OpenResult \/ FillResult \/ Exit
  BY <1>1 DEF Refuse, Accept, Load, Hangs, Aborts, Measured, OpenResult, FillResult, Exit
<1>2. CASE Preflight(others)
  BY <1>2 DEF Preflight
<1>3. CASE Raises
  BY <1>3, VerdictTypes DEF Raises
<1>4. CASE CheckCase
  <2>1. PICK deed \in Deeds : did' = [did EXCEPT ![todo] = deed]
                               /\ gpu' \in IF deed \in {"baseline_raised", "candidate_raised"}
                                           THEN {gpu, "bad"} ELSE {gpu}
    BY <1>4 DEF CheckCase
  <2>2. deed \in Deed
    BY DEF Deeds, Deed
  <2>3. todo' \in 1..(NPublic + NHidden + 1)
    BY <1>4, NextTodo DEF CheckCase
  <2> QED
    BY <1>4, <2>1, <2>2, <2>3 DEF CheckCase
<1>5. CASE Judge
  <2>1. PICK correctness \in Correctness, performance \in Performance :
          verdict' = [verdict EXCEPT !.correctness = correctness, !.performance = performance]
    BY <1>5, Zenon DEF Judge, Correctness, Performance
  <2>2. verdict' \in Results
    BY <2>1, Regraded
  <2>3. todo' \in 1..(NPublic + NHidden + 1)
    BY <1>5 DEF Judge
  <2> QED
    BY <1>5, <2>2, <2>3 DEF Judge
<1>6. CASE BenchmarkCase
  <2>1. todo' \in 1..(NPublic + NHidden + 1)
    BY <1>6, NextTodo DEF BenchmarkCase
  <2>2. quick' \in BOOLEAN /\ typical' \in BOOLEAN
    BY <1>6 DEF BenchmarkCase
  <2> QED
    BY <1>6, <2>1, <2>2 DEF BenchmarkCase
<1>7. CASE Postflight(others)
  <2>1. PICK joint \in BOOLEAN, performance \in Performance :
          \/ verdict' = [verdict EXCEPT !.performance = performance]
          \/ verdict' = [verdict EXCEPT !.performance = performance, !.joint = joint]
    <3>1. call.scored \in BOOLEAN
      BY RunShape
    <3> QED
      BY <1>7, <3>1 DEF Postflight, Performance
  <2>2. verdict' \in Results
    <3>1. verdict \in Results /\ "fail" \in Correctness
      BY DEF Correctness
    <3> HIDE DEF HarnessTypeOK
    <3> QED
      BY <2>1, <3>1, Regraded
  <2> QED
    BY <1>7, <2>2 DEF Postflight
<1> QED
  BY <1>1, <1>2, <1>3, <1>4, <1>5, <1>6, <1>7 DEF HarnessStep

\* What the judge says of correctness is what happened.
LEMMA JudgeIsTrue ==
  ASSUME HarnessTypeOK, HarnessPlace, Judge
  PROVE  HarnessTruth(verdict)'
<1>1. Run' = Run /\ did' = did /\ call' = call /\ typical' = typical /\ before' = before
  BY DEF Judge, Run
<1>2. \A c \in Run : did[c] \in Deed
  <2> SUFFICES ASSUME NEW c \in Run PROVE did[c] \in Deed
    OBVIOUS
  <2>1. c < todo
    BY RunShape DEF Judge, HarnessTypeOK
  <2> QED
    BY <2>1, RunShape DEF HarnessTypeOK, HarnessPlace, Judge
<1>3. \A c \in Run : /\ Entry(did[c]).aiter = "pass" <=> did[c] \in {"right", "candidate_wrong"}
                     /\ Entry(did[c]).candidate = "pass" <=> did[c] = "right"
  BY <1>2 DEF Entry, Deed
<1>4. BaselineValid <=> \A c \in Run : did[c] \in {"right", "candidate_wrong"}
  BY <1>3 DEF BaselineValid
<1>5. CandidateCorrect <=> \A c \in Run : did[c] = "right"
  BY <1>3, <1>4 DEF CandidateCorrect
<1>6. /\ verdict'.correctness = IF ~CandidateCorrect THEN IF BaselineValid THEN "fail" ELSE "baseline_invalid"
                                ELSE IF call.withheld THEN "pass" ELSE "visible_pass"
      /\ verdict'.performance \in {"invalid", "not_run"} /\ ~verdict'.joint
  BY VerdictTypes DEF Judge, HarnessPlace, HarnessTypeOK, Results
<1>7. call.withheld => Run = Case
  BY RunShape DEF HarnessTypeOK
<1> HIDE DEF BaselineValid, CandidateCorrect
<1> QED
  BY <1>1, <1>2, <1>4, <1>5, <1>6, <1>7 DEF HarnessTruth, Deed

LEMMA PostflightIsTrue ==
  ASSUME HarnessTypeOK, HarnessTruth(verdict), HarnessPlace, NEW others, Postflight(others)
  PROVE  HarnessTruth(verdict)'
<1>1. Run' = Run /\ UNCHANGED <<call, did, typical, before>>
  BY DEF Postflight, Run
<1>2. /\ verdict'.correctness = verdict.correctness
      /\ verdict'.performance = "pass" => quick
      /\ verdict'.joint => quick /\ call.scored /\ verdict'.performance = "pass"
  BY DEF Postflight, HGo, HarnessTypeOK, Results, HarnessPlace, Calls
<1>3. quick => typical /\ before = "clear"
  BY DEF Postflight, HGo, HarnessPlace
<1>4. call.scored => verdict.correctness = "pass"
  BY RunShape DEF Postflight, HGo, HarnessPlace, HarnessTypeOK
<1> QED
  BY <1>1, <1>2, <1>3, <1>4 DEF HarnessTruth

LEMMA HarnessTrue ==
  ASSUME HarnessTypeOK, HarnessTruth(verdict), HarnessPlace, NEW others, HarnessStep(others)
  PROVE  HarnessTruth(verdict)'
<1>1. CASE Refuse \/ Accept \/ Load \/ Hangs \/ Aborts \/ Measured \/ OpenResult \/ FillResult \/ Exit
  BY <1>1, TruthStays DEF Refuse, Accept, Load, Hangs, Aborts, Measured, OpenResult, FillResult, Exit
<1>2. CASE Preflight(others) \/ CheckCase
  BY <1>2, NothingIsTrue DEF Preflight, CheckCase, HGo, HarnessPlace
<1>3. CASE Raises
  BY <1>3, NothingIsTrue DEF Raises
<1>4. CASE BenchmarkCase
  <2>1. Run' = Run /\ UNCHANGED <<call, did, before, verdict>> /\ verdict.performance # "pass"
    BY <1>4 DEF BenchmarkCase, HarnessPlace, Run
  <2> QED
    BY <2>1 DEF HarnessTruth
<1> QED
  BY <1>1, <1>2, <1>3, <1>4, JudgeIsTrue, PostflightIsTrue DEF HarnessStep

LEMMA HarnessPlaced ==
  ASSUME HarnessTypeOK, HarnessPlace, NEW others, HarnessStep(others)
  PROVE  HarnessPlace'
<1> USE DEF HarnessPlace, HGo, Run
<1>1. CASE Refuse \/ Accept \/ Hangs \/ Aborts \/ Measured \/ OpenResult \/ FillResult \/ Exit \/ Raises
  BY <1>1 DEF Refuse, Accept, Hangs, Aborts, Measured, OpenResult, FillResult, Exit, Raises
<1>2. CASE Preflight(others)
  BY <1>2 DEF Preflight
<1>3. CASE Load
  BY <1>3, RunShape DEF Load, HarnessTypeOK
<1>4. CASE CheckCase
  <2>1. PICK deed \in Deeds : did' = [did EXCEPT ![todo] = deed]
                               /\ gpu' \in IF deed \in {"baseline_raised", "candidate_raised"}
                                           THEN {gpu, "bad"} ELSE {gpu}
    BY <1>4 DEF CheckCase
  <2>2. deed # "untouched"
    BY DEF Deeds, Deed
  <2>3. Run' = Run /\ Run \subseteq Case /\ Run \subseteq Nat /\ todo \in Run
    <3>1. call \in Calls /\ Run' = Run /\ todo \in Run
      BY <1>4 DEF CheckCase, HarnessTypeOK
    <3> HIDE DEF Run
    <3> QED
      BY <3>1, RunShape
  <2>4. \A c \in Run' : c < todo' => did'[c] # "untouched"
    <3> SUFFICES ASSUME NEW c \in Run, c < todo + 1 PROVE did'[c] # "untouched"
      BY <1>4, <2>3 DEF CheckCase
    <3>1. c = todo \/ c < todo
      BY <2>3
    <3> QED
      BY <1>4, <2>1, <2>2, <2>3, <3>1 DEF CheckCase, HarnessTypeOK
  <2> QED
    BY <1>4, <2>1, <2>4 DEF CheckCase
<1>5. CASE Judge
  <2>1. CASE hpc' = "open"
    BY <1>5, <2>1
  <2>2. CASE CandidateCorrect /\ ~call.only /\ before = "clear"
    BY <1>5, <2>2, VerdictTypes DEF Judge, HarnessTypeOK, Results
  <2> QED
    BY <1>5, <2>1, <2>2 DEF Judge
<1>6. CASE BenchmarkCase
  <2>1. (quick => typical) => (quick' => typical')
    <3>1. CASE todo \in Benchmark
      <4>1. PICK g \in Grades : quick' = (quick /\ g[1]) /\ typical' = (typical /\ g[2])
        BY <1>6, <3>1, Zenon DEF BenchmarkCase
      <4> QED
        BY <4>1, GradesAreTypical
    <3>2. CASE todo \notin Benchmark
      BY <1>6, <3>2 DEF BenchmarkCase
    <3> QED
      BY <3>1, <3>2
  <2> QED
    BY <1>6, <2>1 DEF BenchmarkCase
<1>7. CASE Postflight(others)
  BY <1>7 DEF Postflight
<1> QED
  BY <1>1, <1>2, <1>3, <1>4, <1>5, <1>6, <1>7 DEF HarnessStep

LEMMA HarnessFiled ==
  ASSUME HarnessFile, NEW others, HarnessStep(others)
  PROVE  HarnessFile'
BY DEF HarnessFile, HGo, HarnessStep, Refuse, Accept, Preflight, Load, Raises, CheckCase, Hangs, Aborts,
       Judge, BenchmarkCase, Measured, Postflight, OpenResult, FillResult, Exit

LEMMA HarnessSteps ==
  ASSUME HarnessInv, NEW others, HarnessStep(others)
  PROVE  HarnessInv'
BY HarnessTyped, HarnessTrue, HarnessPlaced, HarnessFiled DEF HarnessInv

-----------------------------------------------------------------------------
(* The mHC scorer keeps its part. *)

LEMMA ParitiesAreTypical ==
  ASSUME NEW g \in Parities
  PROVE  g \in BOOLEAN \X BOOLEAN /\ (g[1] => g[2])
<1>1. PICK a \in Replays, c \in Replays : g = <<Parity(a, c), NotSlower(a, c) /\ Gathered(a)>>
  BY DEF Parities
<1>2. a \in Latencies /\ c \in Latencies
  BY MhcAssumption
<1>3. Parity(a, c) => NotSlower(a, c) /\ Gathered(a)
  BY <1>2, ParityIsTypical
<1>4. Parity(a, c) \in BOOLEAN /\ NotSlower(a, c) \in BOOLEAN
  BY DEF Parity, Calm, Quick, NotSlower
<1> QED
  BY <1>1, <1>3, <1>4

\* Some case is the first of those to come.
LEMMA FirstExists ==
  ASSUME NEW S \in SUBSET MhcCase, S # {}
  PROVE  First(S) \in S
<1>1. S \subseteq Nat
  BY MhcAssumption DEF MhcCase
<1>2. PICK c \in S : \A d \in S : <<d, c>> \notin OpToRel(<, Nat)
  BY <1>1, NatLessThanWellFounded, WFMin
<1>3. ASSUME NEW d \in S
      PROVE  c <= d
  <2>1. c \in Nat /\ d \in Nat /\ <<d, c>> \in Nat \X Nat
    BY <1>1
  <2>2. ~(d < c)
    BY <1>2, <2>1 DEF OpToRel
  <2> QED
    BY <2>1, <2>2
<1> QED
  BY <1>3 DEF First

LEMMA LaterShape ==
  ASSUME MhcTypeOK
  PROVE  /\ Later \in SUBSET MhcCase
         /\ \A c \in Later : c \in selected /\ c > mcase /\ c \in Nat
<1>1. selected \subseteq MhcCase /\ MhcCase \subseteq Nat
  BY MhcAssumption DEF MhcTypeOK, MhcCase
<1> QED
  BY <1>1 DEF Later

LEMMA MhcStays ==
  ASSUME MhcInv, UNCHANGED mhcVars
  PROVE  MhcInv'
BY DEF MhcInv, mhcVars, MhcTypeOK, MhcPlace, MhcEntries, MhcIsTrue, Ahead

LEMMA MhcTyped ==
  ASSUME MhcTypeOK, MhcPlace, MhcEntries, NEW others, MhcStep(others)
  PROVE  MhcTypeOK'
<1> USE DEF MhcTypeOK, MGo, Options
<1>1. CASE Invoke \/ SetupFails \/ Workspace \/ LaunchRaises \/ Launched \/ Quiet(others) \/ PostRun(others)
           \/ Review \/ WriteResult
  BY <1>1 DEF Invoke, SetupFails, Workspace, LaunchRaises, Launched, Quiet, PostRun, Review, WriteResult,
              CaseError, CaseEnds, MhcStatuses
<1>2. CASE Setup
  BY <1>2, FirstExists DEF Setup, MhcPlace
<1>3. CASE Native
  BY <1>3 DEF Native, CaseError, CaseEnds, Rounds
<1>4. CASE Launch
  <2>1. PICK filled \in {"right", "wrong", "not"} :
          /\ out' = IF filled = "not" THEN "sentinel" ELSE filled
          /\ wrote' = [wrote EXCEPT ![mcase] = IF filled = "right" THEN @ + 1 ELSE @]
          /\ good' = (good /\ out' = "right")
    BY <1>4 DEF Launch
  <2>2. wrote[mcase] \in 0..1 /\ round \in 0..1 /\ round' = round + 1
    BY <1>4 DEF Launch, Rounds, MhcEntries
  <2>3. wrote' \in [MhcCase -> 0..Rounds]
    BY <2>1, <2>2 DEF Rounds
  <2>4. round' \in 0..Rounds
    BY <2>2 DEF Rounds
  <2> QED
    BY <1>4, <2>1, <2>3, <2>4 DEF Launch
<1>5. CASE Measure
  <2>1. parity' \in BOOLEAN \X BOOLEAN
    BY <1>5, ParitiesAreTypical DEF Measure
  <2> QED
    BY <1>5, <2>1 DEF Measure, CaseError
<1>6. CASE NextCase
  BY <1>6, FirstExists DEF NextCase, Later
<1> QED
  BY <1>1, <1>2, <1>3, <1>4, <1>5, <1>6 DEF MhcStep

LEMMA MhcPlaced ==
  ASSUME MhcTypeOK, MhcPlace, NEW others, MhcStep(others)
  PROVE  MhcPlace'
<1> USE DEF MhcTypeOK, MhcPlace, MGo, Options, Ahead
<1> USE MhcAssumption DEF MhcCase
<1>1. CASE Invoke \/ SetupFails \/ Workspace \/ LaunchRaises \/ Quiet(others) \/ PostRun(others)
  BY <1>1 DEF Invoke, SetupFails, Workspace, LaunchRaises, Quiet, PostRun, CaseError, CaseEnds
<1>2. CASE Setup
  BY <1>2, FirstExists DEF Setup
<1>3. CASE Native
  BY <1>3 DEF Native, CaseError, CaseEnds
<1>4. CASE Launch
  BY <1>4 DEF Launch
<1>5. CASE Measure
  BY <1>5 DEF Measure, CaseError
<1>6. CASE NextCase
  <2>1. CASE Later = {}
    BY <1>6, <2>1 DEF NextCase
  <2>2. CASE Later # {}
    <3>1. mcase' \in selected /\ mcase' > mcase /\ mcase' \in Nat
      <4>1. Later \in SUBSET MhcCase /\ \A c \in Later : c \in selected /\ c > mcase /\ c \in Nat
        BY LaterShape
      <4>2. First(Later) \in Later
        BY <2>2, <4>1, FirstExists
      <4>3. mcase' = First(Later)
        BY <1>6, <2>2 DEF NextCase
      <4> QED
        BY <4>1, <4>2, <4>3
    <3>2. ASSUME NEW c \in MhcCase, Ahead(c)'
          PROVE  c > mcase
      BY <1>6, <2>2, <3>1, <3>2 DEF NextCase
    <3> QED
      BY <1>6, <2>2, <3>1, <3>2 DEF NextCase
  <2> QED
    BY <2>1, <2>2
<1>7. CASE Launched \/ Review \/ WriteResult
  BY <1>7 DEF Launched, Review, WriteResult
<1> QED
  BY <1>1, <1>2, <1>3, <1>4, <1>5, <1>6, <1>7 DEF MhcStep

LEMMA MhcEntered ==
  ASSUME MhcTypeOK, MhcPlace, MhcEntries, NEW others, MhcStep(others)
  PROVE  MhcEntries'
<1> USE DEF MhcTypeOK, MhcEntries, MGo, Options
<1>1. CASE Invoke \/ SetupFails \/ Workspace \/ LaunchRaises \/ Quiet(others) \/ PostRun(others)
  BY <1>1 DEF Invoke, SetupFails, Workspace, LaunchRaises, Quiet, PostRun, CaseError, CaseEnds
<1>2. CASE Setup \/ Review \/ WriteResult
  BY <1>2 DEF Setup, Review, WriteResult
<1>3. CASE Native
  <2>1. wrote[mcase] = 0 /\ entry[mcase] = "none"
    BY <1>3 DEF Native, MhcPlace, Ahead
  <2> QED
    BY <1>3, <2>1 DEF Native, CaseError, CaseEnds
<1>4. CASE Launch
  <2>1. PICK filled \in {"right", "wrong", "not"} :
          /\ out' = IF filled = "not" THEN "sentinel" ELSE filled
          /\ wrote' = [wrote EXCEPT ![mcase] = IF filled = "right" THEN @ + 1 ELSE @]
          /\ good' = (good /\ out' = "right")
    BY <1>4 DEF Launch
  <2>2. wrote'[mcase] = IF filled = "right" THEN wrote[mcase] + 1 ELSE wrote[mcase]
    BY <2>1
  <2>3. \A c \in MhcCase : c # mcase => wrote'[c] = wrote[c]
    BY <2>1
  <2>4. good' => filled = "right"
    BY <2>1
  <2>5. entry[mcase] = "none" /\ wrote[mcase] <= round /\ wrote[mcase] \in Nat /\ round \in Nat
    BY <1>4, MhcAssumption DEF Launch, Rounds
  <2> QED
    BY <1>4, <2>1, <2>2, <2>3, <2>4, <2>5 DEF Launch
<1>5. CASE Launched
  BY <1>5 DEF Launched
<1>6. CASE Measure
  BY <1>6, ParitiesAreTypical DEF Measure, CaseError
<1>7. CASE NextCase
  BY <1>7 DEF NextCase
<1> QED
  BY <1>1, <1>2, <1>3, <1>4, <1>5, <1>6, <1>7 DEF MhcStep

LEMMA MhcTrue ==
  ASSUME MhcTypeOK, MhcPlace, MhcEntries, MhcIsTrue, NEW others, MhcStep(others)
  PROVE  MhcIsTrue'
<1> USE DEF MhcTypeOK, MhcPlace, MhcIsTrue, MGo, Options
<1>1. CASE Invoke \/ Setup \/ SetupFails \/ Workspace \/ LaunchRaises \/ Quiet(others) \/ PostRun(others)
  BY <1>1 DEF Invoke, Setup, SetupFails, Workspace, LaunchRaises, Quiet, PostRun, CaseError, CaseEnds,
              MhcEntries
<1>2. CASE Native \/ Launch \/ Measure
  BY <1>2 DEF Native, Launch, Measure, CaseError, CaseEnds, MhcEntries, Ahead
<1>3. CASE Launched
  BY <1>3 DEF Launched
<1>4. CASE Review
  BY <1>4 DEF Review, MhcEntries
<1>5. CASE NextCase
  BY <1>5 DEF NextCase
<1>6. CASE WriteResult
  BY <1>6 DEF WriteResult, MhcEntries
<1> QED
  BY <1>1, <1>2, <1>3, <1>4, <1>5, <1>6 DEF MhcStep

LEMMA MhcSteps ==
  ASSUME MhcInv, NEW others, MhcStep(others)
  PROVE  MhcInv'
BY MhcTyped, MhcPlaced, MhcEntered, MhcTrue DEF MhcInv

-----------------------------------------------------------------------------
(* The feedback of a session keeps its part. *)

USE RemoteFeedbackAssumption

LEMMA PublicTypes ==
  /\ Unscored \in Public /\ Unscored.status = "unscored" /\ Unscored.pass = FALSE
  /\ Raised \notin Public
  /\ [status |-> "correctness_failed", pass |-> FALSE] \in Public
  /\ \A b \in BOOLEAN : [status |-> "complete", pass |-> b] \in Public
BY DEF Unscored, Raised, Public

\* What the actions of the three programs leave alone.
CallerActs ==
  \/ Connect \/ ConnectFails \/ CallScorer \/ Upload \/ HostAnswers \/ AnswerIsLost \/ Download
  \/ TransferFails \/ UploadTears \/ CheckoutChanges

HostActs(k) == HostRefuses(k) \/ HostStarts(k) \/ HostTimeout(k) \/ HostRemoves(k) \/ HostReports(k)
               \/ HostDies(k)

BoxActs(k, others) ==
  \/ BoxFails(k) \/ BoxChecksTask(k) \/ BoxBuilds(k) \/ BoxProbes(k, others)
  \/ BoxLoads(k) \/ BoxRunsCases(k) \/ BoxMeasures(k) \/ BoxLooksAgain(k, others)
  \/ BoxCreates(k) \/ BoxFills(k) \/ BoxEnds(k) \/ BoxAborts(k)

LEMMA FeedbackActs ==
  ASSUME NEW others, FeedbackStep(others) \/ FeedbackTrouble
  PROVE  CallerActs \/ \E k \in Slot : HostActs(k) \/ BoxActs(k, Crowded(k, others))
BY Zenon DEF FeedbackStep, FeedbackTrouble, CallerActs, HostActs, BoxActs

\* The container as a record, and one step of it.
BoxRecords == [at : {"none", "checks", "build", "probe", "load", "cases", "measure",
                     "postflight", "open", "fill", "exit", "gone"},
               context : BOOLEAN, right : {"untouched", "right", "wrong"},
               fast : BOOLEAN, typical : BOOLEAN,
               verdict : Public, file : Public \cup {None, Torn}]

\* What one step of a container may make of its record.
BoxChange(b, n, others, asked) ==
  \/ b.at \in {"checks", "build", "probe", "load", "measure", "postflight"}
     /\ n = [b EXCEPT !.at = "open", !.verdict = Unscored]
  \/ b.at = "checks" /\ n = [b EXCEPT !.at = "build"]
  \/ b.at = "build" /\ n = [b EXCEPT !.at = "probe", !.context = TRUE]
  \/ b.at = "probe" /\ n = [b EXCEPT !.at = "load"]
  \/ b.at = "load" /\ n = [b EXCEPT !.at = "cases"]
  \/ b.at = "cases" /\ \E right \in {"right", "wrong"} :
       n = [b EXCEPT !.right = right,
                     !.at = IF right = "right" /\ asked = "benchmark" THEN "measure" ELSE "postflight"]
  \/ b.at = "measure" /\ \E g \in Grades :
       n = [b EXCEPT !.at = "postflight", !.fast = g[1], !.typical = g[2]]
  \/ /\ b.at = "postflight" /\ ~others
     /\ n = [b EXCEPT !.at = "open",
               !.verdict = IF b.right = "wrong" THEN [status |-> "correctness_failed", pass |-> FALSE]
                           ELSE [status |-> "complete", pass |-> b.fast]]
  \/ b.at = "open" /\ n = [b EXCEPT !.at = "fill", !.file = Torn]
  \/ b.at = "fill" /\ n = [b EXCEPT !.at = "exit", !.file = b.verdict]
  \/ b.at \in {"exit", "load", "cases", "measure", "fill"} /\ n = [b EXCEPT !.at = "gone"]

LEMMA BoxFrame ==
  ASSUME RemoteTypeOK, NEW k \in Slot, NEW others, BoxActs(k, others)
  PROVE  /\ UNCHANGED <<calls, rpc, slot, kind, sent, frozen, returned, host, reply>>
         /\ BoxChange(box[k], box'[k], others, kind[k])
         /\ \A j \in Slot : j # k => box'[j] = box[j]
         /\ box' = [j \in Slot |-> box'[j]]
<1> USE DEF BoxOnly, HostOnly, BoxGo, Conclude
<1>1. box = [j \in Slot |-> box[j]]
  BY DEF RemoteTypeOK
<1>2. CASE BoxFails(k)
  BY <1>1, <1>2 DEF BoxFails, BoxChange
<1>3. CASE BoxChecksTask(k) \/ BoxProbes(k, others) \/ BoxLoads(k) \/ BoxEnds(k) \/ BoxAborts(k)
  BY <1>1, <1>3 DEF BoxChecksTask, BoxProbes, BoxLoads, BoxEnds, BoxAborts, BoxChange
<1>4. CASE BoxBuilds(k) \/ BoxCreates(k) \/ BoxFills(k)
  BY <1>1, <1>4 DEF BoxBuilds, BoxCreates, BoxFills, BoxChange
<1>5. CASE BoxRunsCases(k)
  BY <1>1, <1>5 DEF BoxRunsCases, BoxChange
<1>6. CASE BoxMeasures(k)
  BY <1>1, <1>6 DEF BoxMeasures, BoxChange
<1>7. CASE BoxLooksAgain(k, others)
  BY <1>1, <1>7 DEF BoxLooksAgain, BoxChange
<1> QED
  BY <1>2, <1>3, <1>4, <1>5, <1>6, <1>7 DEF BoxActs

\* The invariant of the feedback, slot by slot: what it says of a slot's host, reply, upload,
\* answer, container and kind.
SlotInv(k) ==
  /\ k > slot \/ (k = slot /\ rpc = "upload") => host[k] = "none" /\ returned[k] = None
  /\ host[k] \in {"none", "check"} => box[k].at = "none" /\ reply[k] = None
  /\ host[k] \in {"wait", "remove"} => box[k].at # "none"
  /\ host[k] # "over" => reply[k] = None
  /\ box[k].at = "none" => box[k] = Unstarted
  /\ returned[k] \notin {None, Raised} =>
       /\ sent[k] = "whole" /\ host[k] = "over" /\ box[k].at = "gone"
       /\ returned[k] = box[k].file /\ returned[k] = box[k].verdict
  /\ BoxTruth(box[k], kind[k]) /\ BoxFile(box[k]) /\ Answer(k)

CallerInv ==
  /\ rpc = "connect" => slot = 0
  /\ rpc \in {"upload", "score", "download"} => slot # 0 /\ returned[slot] = None
  /\ slot <= calls

LEMMA FeedbackBySlots ==
  /\ FeedbackInv <=> RemoteTypeOK /\ CallerInv /\ \A k \in Slot : SlotInv(k)
  /\ FeedbackInv' <=> RemoteTypeOK' /\ CallerInv' /\ \A k \in Slot : SlotInv(k)'
BY Zenon DEF FeedbackInv, CallerPlace, FeedbackIsFinal, SlotInv, CallerInv

\* A slot that nothing happens to, or only that the caller moves on without it.
LEMMA SlotStays ==
  ASSUME NEW k \in Slot, SlotInv(k),
         host'[k] = host[k], reply'[k] = reply[k], box'[k] = box[k], kind'[k] = kind[k],
         sent'[k] = sent[k], returned'[k] = returned[k],
         k > slot' \/ (k = slot' /\ rpc' = "upload") => k > slot \/ (k = slot /\ rpc = "upload"),
         InProgress(k)' => InProgress(k)
  PROVE  SlotInv(k)'
BY DEF SlotInv, BoxTruth, BoxFile, Answer

LEMMA SlotType ==
  ASSUME RemoteTypeOK
  PROVE  /\ slot \in Nat /\ calls \in Nat /\ slot \in 0..NSlots /\ calls \in 0..NSlots
         /\ Slot = 1..NSlots /\ Slot \subseteq Nat
BY DEF RemoteTypeOK, Slot

LEMMA FeedbackStays ==
  ASSUME FeedbackInv, UNCHANGED remoteVars
  PROVE  FeedbackInv'
<1>1. RemoteTypeOK' /\ CallerInv'
  BY FeedbackBySlots DEF RemoteTypeOK, CallerInv, remoteVars
<1>2. \A k \in Slot : SlotInv(k)'
  BY FeedbackBySlots, SlotStays DEF remoteVars, InProgress
<1> QED
  BY <1>1, <1>2, FeedbackBySlots

\* A step of a container keeps its record as it should be.
LEMMA BoxChangeKeeps ==
  ASSUME NEW b \in BoxRecords, NEW n, NEW others, NEW asked, BoxChange(b, n, others, asked),
         BoxTruth(b, asked), BoxFile(b)
  PROVE  n \in BoxRecords /\ BoxTruth(n, asked) /\ BoxFile(n) /\ b.at # "none" /\ b.at # "gone"
                          /\ n.at # "none"
<1> DEFINE Kept(at, context, right, fast, typ, ver, fil) ==
             n = [at |-> at, context |-> context, right |-> right, fast |-> fast, typical |-> typ,
                  verdict |-> ver, file |-> fil]
<1>0. b = [at |-> b.at, context |-> b.context, right |-> b.right, fast |-> b.fast, typical |-> b.typical,
           verdict |-> b.verdict, file |-> b.file]
      /\ b.context \in BOOLEAN /\ b.right \in {"untouched", "right", "wrong"}
      /\ b.fast \in BOOLEAN /\ b.typical \in BOOLEAN /\ b.verdict \in Public
      /\ b.file \in Public \cup {None, Torn}
  BY DEF BoxRecords
<1>1. CASE /\ b.at \in {"checks", "build", "probe", "load", "measure", "postflight"}
           /\ n = [b EXCEPT !.at = "open", !.verdict = Unscored]
  <2>1. Kept("open", b.context, b.right, b.fast, b.typical, Unscored, b.file)
    BY <1>0, <1>1
  <2> QED
    BY <1>0, <1>1, <2>1, PublicTypes DEF BoxRecords, BoxTruth, BoxFile
<1>2. CASE b.at = "checks" /\ n = [b EXCEPT !.at = "build"]
  <2>1. Kept("build", b.context, b.right, b.fast, b.typical, b.verdict, b.file)
    BY <1>0, <1>2
  <2> QED
    BY <1>0, <1>2, <2>1 DEF BoxRecords, BoxTruth, BoxFile
<1>3. CASE b.at = "build" /\ n = [b EXCEPT !.at = "probe", !.context = TRUE]
  <2>1. Kept("probe", TRUE, b.right, b.fast, b.typical, b.verdict, b.file)
    BY <1>0, <1>3
  <2> QED
    BY <1>0, <1>3, <2>1 DEF BoxRecords, BoxTruth, BoxFile
<1>4. CASE \/ b.at = "probe" /\ n = [b EXCEPT !.at = "load"]
           \/ b.at = "load" /\ n = [b EXCEPT !.at = "cases"]
  <2>1. \E at \in {"load", "cases"} :
          Kept(at, b.context, b.right, b.fast, b.typical, b.verdict, b.file)
    BY <1>0, <1>4
  <2> QED
    BY <1>0, <1>4, <2>1 DEF BoxRecords, BoxTruth, BoxFile
<1>5. CASE b.at = "cases" /\ \E right \in {"right", "wrong"} :
             n = [b EXCEPT !.right = right,
                           !.at = IF right = "right" /\ asked = "benchmark" THEN "measure"
                                  ELSE "postflight"]
  <2>1. PICK right \in {"right", "wrong"} :
          n = [b EXCEPT !.right = right,
                        !.at = IF right = "right" /\ asked = "benchmark" THEN "measure" ELSE "postflight"]
    BY <1>5
  <2>2. Kept(IF right = "right" /\ asked = "benchmark" THEN "measure" ELSE "postflight",
             b.context, right, b.fast, b.typical, b.verdict, b.file)
    BY <1>0, <2>1
  <2> QED
    BY <1>0, <1>5, <2>2, PublicTypes DEF BoxRecords, BoxTruth, BoxFile
<1>6. CASE b.at = "measure" /\ \E g \in Grades :
             n = [b EXCEPT !.at = "postflight", !.fast = g[1], !.typical = g[2]]
  <2>1. PICK g \in Grades : n = [b EXCEPT !.at = "postflight", !.fast = g[1], !.typical = g[2]]
    BY <1>6
  <2>2. g[1] \in BOOLEAN /\ g[2] \in BOOLEAN /\ (g[1] => g[2])
    BY GradesAreTypical
  <2>3. Kept("postflight", b.context, b.right, g[1], g[2], b.verdict, b.file)
    BY <1>0, <2>1
  <2> QED
    BY <1>0, <1>6, <2>2, <2>3, PublicTypes DEF BoxRecords, BoxTruth, BoxFile
<1>7. CASE /\ b.at = "postflight" /\ ~others
           /\ n = [b EXCEPT !.at = "open",
                     !.verdict = IF b.right = "wrong" THEN [status |-> "correctness_failed", pass |-> FALSE]
                                 ELSE [status |-> "complete", pass |-> b.fast]]
  <2>1. CASE b.right = "wrong"
    <3>1. PICK v \in Public : /\ v = [status |-> "correctness_failed", pass |-> FALSE]
                              /\ v.status = "correctness_failed" /\ ~v.pass
      BY PublicTypes
    <3>2. Kept("open", b.context, b.right, b.fast, b.typical, v, b.file)
      BY <1>0, <1>7, <2>1, <3>1
    <3>3. v.status = "correctness_failed" /\ ~v.pass
      BY <3>1
    <3> QED
      BY <1>0, <1>7, <2>1, <3>2, <3>3 DEF BoxRecords, BoxTruth, BoxFile
  <2>2. CASE b.right # "wrong"
    <3>1. Kept("open", b.context, b.right, b.fast, b.typical,
               [status |-> "complete", pass |-> b.fast], b.file)
      BY <1>0, <1>7, <2>2
    <3> QED
      BY <1>0, <1>7, <2>2, <3>1, PublicTypes DEF BoxRecords, BoxTruth, BoxFile
  <2> QED
    BY <2>1, <2>2
<1>8. CASE b.at = "open" /\ n = [b EXCEPT !.at = "fill", !.file = Torn]
  <2>1. Kept("fill", b.context, b.right, b.fast, b.typical, b.verdict, Torn)
    BY <1>0, <1>8
  <2> QED
    BY <1>0, <1>8, <2>1 DEF BoxRecords, BoxTruth, BoxFile
<1>9. CASE b.at = "fill" /\ n = [b EXCEPT !.at = "exit", !.file = b.verdict]
  <2>1. Kept("exit", b.context, b.right, b.fast, b.typical, b.verdict, b.verdict)
    BY <1>0, <1>9
  <2> QED
    BY <1>0, <1>9, <2>1 DEF BoxRecords, BoxTruth, BoxFile
<1>10. CASE b.at \in {"exit", "load", "cases", "measure", "fill"} /\ n = [b EXCEPT !.at = "gone"]
  <2>1. Kept("gone", b.context, b.right, b.fast, b.typical, b.verdict, b.file)
    BY <1>0, <1>10
  <2> QED
    BY <1>0, <1>10, <2>1 DEF BoxRecords, BoxTruth, BoxFile
<1> QED
  BY <1>1, <1>2, <1>3, <1>4, <1>5, <1>6, <1>7, <1>8, <1>9, <1>10 DEF BoxChange

LEMMA BoxesType ==
  /\ RemoteTypeOK => box \in [Slot -> BoxRecords]
  /\ RemoteTypeOK' <=>
       /\ calls' \in 0..NSlots
       /\ rpc' \in {"connect", "idle", "upload", "score", "download", "closed"}
       /\ slot' \in 0..NSlots
       /\ kind' \in [Slot -> {"correctness", "benchmark"}]
       /\ sent' \in [Slot -> {"none", "torn", "whole"}] /\ frozen' \subseteq {"local", "remote"}
       /\ host' \in [Slot -> {"none", "check", "wait", "remove", "over"}]
       /\ reply' \in [Slot -> {None, Torn, Raised} \cup Public]
       /\ box' \in [Slot -> BoxRecords]
       /\ returned' \in [Slot -> {None, Raised} \cup Public]
BY Zenon DEF RemoteTypeOK, BoxRecords

LEMMA BoxKeepsFeedback ==
  ASSUME FeedbackInv, NEW k \in Slot, NEW others, BoxActs(k, others)
  PROVE  FeedbackInv'
<1>1. RemoteTypeOK /\ CallerInv /\ \A j \in Slot : SlotInv(j)
  BY FeedbackBySlots
<1>2. /\ UNCHANGED <<calls, rpc, slot, kind, sent, frozen, returned, host, reply>>
      /\ BoxChange(box[k], box'[k], others, kind[k])
      /\ \A j \in Slot : j # k => box'[j] = box[j]
  BY <1>1, BoxFrame
<1>3. box[k] \in BoxRecords
  BY <1>1, BoxesType
<1>4. /\ box'[k] \in BoxRecords /\ BoxTruth(box'[k], kind[k]) /\ BoxFile(box'[k])
      /\ box[k].at # "none" /\ box[k].at # "gone" /\ box'[k].at # "none"
  <2>1. BoxTruth(box[k], kind[k]) /\ BoxFile(box[k])
    BY <1>1 DEF SlotInv
  <2> QED
    BY <1>2, <1>3, <2>1, BoxChangeKeeps
<1>5. box' \in [Slot -> BoxRecords]
  <2>1. box' = [j \in Slot |-> box'[j]]
    BY <1>1, BoxFrame
  <2>2. \A j \in Slot : box'[j] \in BoxRecords
    BY <1>1, <1>2, <1>4, BoxesType
  <2> QED
    BY <2>1, <2>2
<1>6. RemoteTypeOK' /\ CallerInv'
  BY <1>1, <1>2, <1>5, BoxesType DEF CallerInv, RemoteTypeOK
<1>7. SlotInv(k)'
  <2>1. SlotInv(k)
    BY <1>1
  <2> QED
    BY <1>2, <1>4, <2>1 DEF SlotInv, Answer, InProgress
<1>8. \A j \in Slot : j # k => SlotInv(j)'
  BY <1>1, <1>2, SlotStays DEF InProgress
<1> QED
  BY <1>6, <1>7, <1>8, FeedbackBySlots

\* A step of the process on the host.
LEMMA HostKeepsTyped ==
  ASSUME RemoteTypeOK, NEW k \in Slot, HostActs(k)
  PROVE  RemoteTypeOK'
<1> USE DEF HostOnly, Over, RemoteTypeOK
<1>1. CASE HostRefuses(k) \/ HostTimeout(k) \/ HostDies(k)
  BY <1>1 DEF HostRefuses, HostTimeout, HostDies
<1>2. CASE HostStarts(k)
  BY <1>2 DEF HostStarts
<1>3. CASE HostRemoves(k)
  BY <1>3 DEF HostRemoves
<1>4. CASE HostReports(k)
  BY <1>4 DEF HostReports
<1> QED
  BY <1>1, <1>2, <1>3, <1>4 DEF HostActs

\* What a step of the process on the host does to its slot.
LEMMA HostFrame ==
  ASSUME RemoteTypeOK, NEW k \in Slot, HostActs(k)
  PROVE  /\ UNCHANGED <<calls, rpc, slot, kind, sent, frozen, returned>>
         /\ \A j \in Slot : j # k => host'[j] = host[j] /\ reply'[j] = reply[j] /\ box'[j] = box[j]
         /\ \/ host[k] \in {"check", "wait", "remove"} /\ host'[k] = "over" /\ reply'[k] = Raised
               /\ box'[k] = box[k]
            \/ host[k] = "check" /\ sent[k] = "whole" /\ host'[k] = "wait" /\ reply'[k] = reply[k]
               /\ box'[k] = [box[k] EXCEPT !.at = "checks"]
            \/ host[k] = "wait" /\ host'[k] = "remove" /\ reply'[k] = reply[k] /\ box'[k] = box[k]
            \/ host[k] = "remove" /\ host'[k] = "over" /\ reply'[k] = Raised
               /\ box'[k] = [box[k] EXCEPT !.at = "gone"]
            \/ host[k] = "wait" /\ box[k].at = "gone" /\ host'[k] = "over" /\ box'[k] = box[k]
               /\ reply'[k] \in {Raised, box[k].file}
<1> USE DEF HostOnly, Over, RemoteTypeOK
<1>1. CASE HostRefuses(k) \/ HostTimeout(k) \/ HostDies(k)
  BY <1>1 DEF HostRefuses, HostTimeout, HostDies
<1>2. CASE HostStarts(k)
  BY <1>2 DEF HostStarts, Intact
<1>3. CASE HostRemoves(k)
  BY <1>3 DEF HostRemoves
<1>4. CASE HostReports(k)
  BY <1>4 DEF HostReports
<1> QED
  BY <1>1, <1>2, <1>3, <1>4 DEF HostActs

\* A container that starts, and one that is removed.
LEMMA StartedRecord ==
  ASSUME NEW n, n = [Unstarted EXCEPT !.at = "checks"], NEW asked
  PROVE  BoxTruth(n, asked) /\ BoxFile(n) /\ n.at = "checks"
<1>1. n = [at |-> "checks", context |-> FALSE, right |-> "untouched", fast |-> FALSE,
           typical |-> FALSE, verdict |-> Unscored, file |-> None]
  BY DEF Unstarted
<1> QED
  BY <1>1, PublicTypes DEF BoxTruth, BoxFile

LEMMA RemovedRecord ==
  ASSUME NEW b \in BoxRecords, NEW n, n = [b EXCEPT !.at = "gone"], NEW asked,
         BoxTruth(b, asked), BoxFile(b)
  PROVE  BoxTruth(n, asked) /\ BoxFile(n) /\ n.at = "gone"
<1>1. /\ n.at = "gone" /\ n.context = b.context /\ n.right = b.right /\ n.fast = b.fast
      /\ n.typical = b.typical /\ n.verdict = b.verdict /\ n.file = b.file
  BY DEF BoxRecords
<1> QED
  BY <1>1 DEF BoxTruth, BoxFile

LEMMA HostKeepsFeedback ==
  ASSUME FeedbackInv, NEW k \in Slot, HostActs(k)
  PROVE  FeedbackInv'
<1>1. RemoteTypeOK /\ CallerInv /\ (\A j \in Slot : SlotInv(j)) /\ SlotInv(k) /\ box[k] \in BoxRecords
  BY FeedbackBySlots, BoxesType
<1>2. RemoteTypeOK'
  BY <1>1, HostKeepsTyped
<1>3. UNCHANGED <<calls, rpc, slot, kind, sent, frozen, returned>>
  BY <1>1, HostFrame
<1>4. CallerInv'
  BY <1>1, <1>3 DEF CallerInv
<1>5. \A j \in Slot : j # k => SlotInv(j)'
  BY <1>1, <1>3, HostFrame, SlotStays DEF InProgress
<1>6. ~(k > slot \/ (k = slot /\ rpc = "upload"))
      /\ (returned[k] = None \/ returned[k] = Raised \/ host[k] = "over")
  BY <1>1, HostFrame DEF SlotInv
<1>7. SlotInv(k)'
  <2> USE <1>1, <1>3, <1>6 DEF SlotInv
  <2>1. CASE /\ host[k] \in {"check", "wait", "remove"} /\ host'[k] = "over" /\ reply'[k] = Raised
             /\ box'[k] = box[k]
    BY <2>1 DEF Answer, InProgress
  <2>2. CASE /\ host[k] = "check" /\ sent[k] = "whole" /\ host'[k] = "wait" /\ reply'[k] = reply[k]
             /\ box'[k] = [box[k] EXCEPT !.at = "checks"]
    <3>1. BoxTruth(box'[k], kind[k]) /\ BoxFile(box'[k]) /\ box'[k].at = "checks"
      BY <2>2, StartedRecord
    <3> QED
      BY <2>2, <3>1 DEF Answer, InProgress
  <2>3. CASE host[k] = "wait" /\ host'[k] = "remove" /\ reply'[k] = reply[k] /\ box'[k] = box[k]
    BY <2>3 DEF Answer, InProgress
  <2>4. CASE /\ host[k] = "remove" /\ host'[k] = "over" /\ reply'[k] = Raised
              /\ box'[k] = [box[k] EXCEPT !.at = "gone"]
    <3>1. BoxTruth(box'[k], kind[k]) /\ BoxFile(box'[k]) /\ box'[k].at = "gone"
      BY <2>4, RemovedRecord
    <3> QED
      BY <2>4, <3>1 DEF Answer, InProgress
  <2>5. CASE /\ host[k] = "wait" /\ box[k].at = "gone" /\ host'[k] = "over" /\ box'[k] = box[k]
              /\ reply'[k] \in {Raised, box[k].file}
    BY <2>5 DEF Answer, InProgress
  <2> QED
    BY <2>1, <2>2, <2>3, <2>4, <2>5, HostFrame
<1> QED
  BY <1>2, <1>4, <1>5, <1>7, FeedbackBySlots

\* A step of the caller.
LEMMA CallerKeepsTyped ==
  ASSUME RemoteTypeOK, CallerInv, CallerActs
  PROVE  RemoteTypeOK'
<1> USE DEF RemoteTypeOK, CallerInv, RGo, CallerOnly, Give
<1>1. CASE Connect \/ ConnectFails \/ CheckoutChanges
  BY <1>1 DEF Connect, ConnectFails, CheckoutChanges
<1>2. CASE CallScorer
  <2>1. slot' \in 0..NSlots
    BY <1>2 DEF CallScorer
  <2> QED
    BY <1>2, <2>1 DEF CallScorer
<1>3. CASE Upload \/ UploadTears
  <2>1. slot \in Slot
    BY <1>3 DEF Upload, UploadTears, Slot
  <2>2. /\ UNCHANGED <<calls, slot, kind, frozen, reply, returned, box>> /\ rpc' = "score"
        /\ host' = [host EXCEPT ![slot] = "check"]
        /\ \E s \in {"torn", "whole"} : sent' = [sent EXCEPT ![slot] = s]
    BY <1>3, Zenon DEF Upload, UploadTears
  <2>3. host' \in [Slot -> {"none", "check", "wait", "remove", "over"}]
    BY <2>1, <2>2
  <2>4. sent' \in [Slot -> {"none", "torn", "whole"}]
    BY <2>1, <2>2
  <2> QED
    BY <2>2, <2>3, <2>4
<1>4. CASE HostAnswers \/ AnswerIsLost
  BY <1>4 DEF HostAnswers, AnswerIsLost
<1>5. CASE Download
  <2>1. slot \in Slot
    BY <1>5 DEF Download, Slot
  <2> QED
    BY <1>5, <2>1 DEF Download
<1>6. CASE TransferFails
  BY <1>6 DEF TransferFails
<1> QED
  BY <1>1, <1>2, <1>3, <1>4, <1>5, <1>6 DEF CallerActs

LEMMA CallerKeepsPlace ==
  ASSUME RemoteTypeOK, CallerInv, \A k \in Slot : SlotInv(k), CallerActs
  PROVE  CallerInv'
<1> USE SlotType DEF CallerInv, RGo, CallerOnly, Give
<1>1. CASE Connect \/ ConnectFails \/ CheckoutChanges \/ Upload \/ UploadTears
  BY <1>1 DEF Connect, ConnectFails, CheckoutChanges, Upload, UploadTears
<1>2. CASE CallScorer
  <2>1. slot + 1 \in Slot /\ slot + 1 > slot
    BY <1>2 DEF CallScorer
  <2>2. returned[slot + 1] = None
    BY <2>1 DEF SlotInv
  <2> QED
    BY <1>2, <2>1, <2>2 DEF CallScorer
<1>3. CASE HostAnswers \/ AnswerIsLost \/ Download \/ TransferFails
  BY <1>3 DEF HostAnswers, AnswerIsLost, Download, TransferFails
<1> QED
  BY <1>1, <1>2, <1>3 DEF CallerActs

\* A slot that has not been called has an untouched container, whatever it will be asked.
LEMMA UnstartedIsTrue ==
  ASSUME NEW asked
  PROVE  BoxTruth(Unstarted, asked) /\ BoxFile(Unstarted)
BY PublicTypes DEF Unstarted, BoxTruth, BoxFile

LEMMA CallerKeepsSlots ==
  ASSUME RemoteTypeOK, CallerInv, NEW k \in Slot, SlotInv(k), CallerActs
  PROVE  SlotInv(k)'
<1> USE SlotType DEF CallerInv, RGo, CallerOnly, Give, RemoteTypeOK
<1>1. CASE Connect \/ ConnectFails \/ CheckoutChanges
  BY <1>1, SlotStays DEF InProgress, Connect, ConnectFails, CheckoutChanges
<1>2. CASE CallScorer
  <2>1. /\ host' = host /\ reply' = reply /\ box' = box /\ sent' = sent /\ returned' = returned
        /\ slot' = slot + 1 /\ \A j \in Slot : j # slot + 1 => kind'[j] = kind[j]
    BY <1>2 DEF CallScorer
  <2>2. CASE k # slot + 1
    BY <2>1, <2>2, SlotStays DEF InProgress
  <2>3. CASE k = slot + 1
    <3>1. host[k] = "none" /\ returned[k] = None /\ box[k] = Unstarted /\ reply[k] = None
      BY <2>3 DEF SlotInv
    <3>2. box[k].at = "none"
      BY <3>1 DEF Unstarted
    <3>3. BoxTruth(box'[k], kind'[k]) /\ BoxFile(box'[k])
      BY <2>1, <3>1, UnstartedIsTrue
    <3> QED
      BY <2>1, <3>1, <3>2, <3>3 DEF SlotInv, Answer, InProgress
  <2> QED
    BY <2>2, <2>3
<1>3. CASE Upload \/ UploadTears
  <2>1. /\ reply' = reply /\ box' = box /\ kind' = kind /\ returned' = returned /\ slot' = slot
        /\ rpc = "upload" /\ rpc' = "score" /\ host'[slot] = "check"
        /\ \A j \in Slot : j # slot => host'[j] = host[j] /\ sent'[j] = sent[j]
    BY <1>3 DEF Upload, UploadTears
  <2>2. CASE k # slot
    BY <2>1, <2>2, SlotStays DEF InProgress
  <2>3. CASE k = slot
    <3>1. host[k] = "none" /\ returned[k] = None /\ box[k].at = "none" /\ reply[k] = None
      BY <2>1, <2>3 DEF SlotInv
    <3> QED
      BY <2>1, <2>3, <3>1 DEF SlotInv, Answer, InProgress
  <2> QED
    BY <2>2, <2>3
<1>4. CASE HostAnswers \/ AnswerIsLost \/ Download \/ TransferFails
  <2>1. /\ reply' = reply /\ box' = box /\ kind' = kind /\ host' = host /\ slot' = slot
        /\ \A j \in Slot : j # slot => returned'[j] = returned[j] /\ sent'[j] = sent[j]
        /\ rpc' # "upload" /\ slot \in Slot /\ returned[slot] = None
        /\ rpc \in {"upload", "score", "download"}
    BY <1>4 DEF HostAnswers, AnswerIsLost, Download, TransferFails
  <2>2. CASE k # slot
    BY <2>1, <2>2, SlotStays DEF InProgress
  <2>3. CASE k = slot
    <3>1. \/ returned'[k] = Raised /\ rpc' = "idle"
          \/ returned' = returned /\ sent' = sent
          \/ /\ sent' = sent /\ returned'[k] = reply[k]
             /\ reply[k] # Torn /\ box[k].file = reply[k]
      BY <1>4, <2>3 DEF HostAnswers, AnswerIsLost, Download, TransferFails
    <3>2. ~(k > slot' \/ (k = slot' /\ rpc' = "upload"))
      BY <2>1, <2>3
    <3>3. CASE returned'[k] = Raised /\ rpc' = "idle"
      BY <2>1, <3>2, <3>3 DEF SlotInv, Answer, InProgress
    <3>4. CASE returned' = returned /\ sent' = sent
      BY <2>1, <3>2, <3>4 DEF SlotInv, Answer, InProgress
    <3>5. CASE sent' = sent /\ returned'[k] = reply[k] /\ reply[k] # Torn /\ box[k].file = reply[k]
      <4>1. returned'[k] \notin {None, Raised} =>
              /\ sent[k] = "whole" /\ host[k] = "over" /\ box[k].at = "gone"
              /\ reply[k] = box[k].file /\ reply[k] = box[k].verdict
        BY <2>1, <2>3, <3>5 DEF SlotInv, Answer, BoxFile, InProgress
      <4>2. box[k].at # "none" => sent[k] = "whole"
        BY <2>1, <2>3, <3>5 DEF SlotInv, Answer, InProgress
      <4> QED
        BY <2>1, <3>2, <3>5, <4>1, <4>2 DEF SlotInv, Answer, InProgress
    <3> QED
      BY <3>1, <3>3, <3>4, <3>5
  <2> QED
    BY <2>2, <2>3
<1> QED
  BY <1>1, <1>2, <1>3, <1>4 DEF CallerActs

LEMMA CallerKeepsFeedback ==
  ASSUME FeedbackInv, CallerActs
  PROVE  FeedbackInv'
BY FeedbackBySlots, CallerKeepsTyped, CallerKeepsPlace, CallerKeepsSlots

LEMMA FeedbackSteps ==
  ASSUME FeedbackInv, NEW others, FeedbackStep(others) \/ FeedbackTrouble
  PROVE  FeedbackInv'
BY FeedbackActs, CallerKeepsFeedback, HostKeepsFeedback, BoxKeepsFeedback

-----------------------------------------------------------------------------
(* The driver keeps its part. *)

USE ScoreAssumption

\* A process of the harness runs only while its driver waits for it.
LEMMA WhoRuns ==
  ASSUME DriverInv, hpc \notin {"none", "over"}
  PROVE  \/ driver = "local" /\ dpc = "score" /\ cpc = "none"
         \/ driver = "remote" /\ cpc = "score" /\ dpc \in {"wait", "summary", "over"}
BY DEF DriverInv, DriverTypeOK, DriverPlace

LEMMA DriverStays ==
  ASSUME DriverInv, UNCHANGED <<harnessVars, driverVars>>
  PROVE  DriverInv'
<1> USE DEF DriverInv, harnessVars, driverVars
<1>1. DriverTypeOK'
  BY DEF DriverTypeOK
<1>2. DriverPlace' /\ LocalItems' /\ RemoteSummary'
  BY DEF DriverPlace, LocalItems, RemoteSummary, WithoutTiming
<1> QED
  BY <1>1, <1>2

\* Whatever a running harness does is not yet passed on.
LEMMA HarnessLeavesDriver ==
  ASSUME DriverInv, hpc \notin {"none", "over"}, hpc' # "none", UNCHANGED driverVars
  PROVE  DriverInv'
<1> USE DEF DriverInv, driverVars
<1>1. DriverTypeOK'
  BY DEF DriverTypeOK
<1>2. DriverPlace'
  BY WhoRuns DEF DriverPlace
<1>3. LocalItems'
  BY WhoRuns DEF LocalItems
<1>4. RemoteSummary'
  BY WhoRuns DEF RemoteSummary
<1> QED
  BY <1>1, <1>2, <1>3, <1>4

LEMMA RunningSteps ==
  ASSUME NEW others, HarnessStep(others) \/ Killed
  PROVE  hpc \notin {"none", "over"} /\ hpc' # "none"
BY DEF HGo, HarnessStep, Refuse, Accept, Preflight, Load, Raises, CheckCase, Hangs, Aborts,
       Judge, BenchmarkCase, Measured, Postflight, OpenResult, FillResult, Exit, Killed, Running

\* The local driver.
LEMMA LocalKeepsTyped ==
  ASSUME DriverTypeOK, HarnessTypeOK, LocalStep
  PROVE  DriverTypeOK'
<1> USE DEF DriverTypeOK, Local, Go, Fails, Quiescent
<1>1. CASE LocalRefuses \/ LocalDryRun \/ LocalAccepts \/ ExportFails \/ Export \/ WriteManifest
  BY <1>1 DEF LocalRefuses, LocalDryRun, LocalAccepts, ExportFails, Export, WriteManifest
<1>6. CASE StartScorer
  BY <1>6 DEF StartScorer
<1>7. CASE ScorerTimeout
  BY <1>7 DEF ScorerTimeout, hostVars
<1>8. CASE LocalExit
  <2>1. dexit' \in {"zero", "nonzero"}
    BY <1>8 DEF LocalExit
  <2> QED
    BY <1>8, <2>1 DEF LocalExit
<1>2. CASE CompileFails
  <2>1. PICK s \in {"compile_input_missing", "compile_failed", "compile_timeout"} : Item(s, FALSE)
    BY <1>2 DEF CompileFails
  <2> QED
    BY <1>2, <2>1 DEF CompileFails, Item, Statuses
<1>3. CASE ScorerEnds
  BY <1>3 DEF ScorerEnds, Ended
<1>4. CASE Validate
  <2>1. Valid => file.joint \in BOOLEAN
    BY DEF Valid, HarnessTypeOK, Results
  <2>2. PICK s \in Statuses, joint \in BOOLEAN : Item(s, joint)
    BY <1>4, <2>1 DEF Validate, Statuses
  <2>3. items' \in [1..NSnapshots -> [status : Statuses \cup {"none"}, joint : BOOLEAN]]
    BY <2>2 DEF Item
  <2> QED
    BY <1>4, <2>3 DEF Validate
<1>5. CASE NextSnapshot
  <2>1. snapshot' \in 1..NSnapshots
    BY <1>5 DEF NextSnapshot
  <2> QED
    BY <1>5, <2>1 DEF NextSnapshot
<1> QED
  BY <1>1, <1>2, <1>3, <1>4, <1>5, <1>6, <1>7, <1>8 DEF LocalStep

LEMMA LocalKeepsPlace ==
  ASSUME DriverTypeOK, DriverPlace, LocalStep
  PROVE  DriverPlace'
<1> USE DEF DriverPlace, Local, Go, Fails, Quiescent, harnessVars
<1>1. CASE LocalRefuses \/ LocalDryRun \/ LocalAccepts \/ ExportFails \/ Export \/ WriteManifest \/ LocalExit
  BY <1>1 DEF LocalRefuses, LocalDryRun, LocalAccepts, ExportFails, Export, WriteManifest, LocalExit
<1>2. CASE StartScorer \/ ScorerTimeout
  BY <1>2 DEF StartScorer, ScorerTimeout, Begin, Killed
<1>3. CASE CompileFails \/ ScorerEnds \/ Validate \/ NextSnapshot
  BY <1>3 DEF CompileFails, ScorerEnds, Validate, NextSnapshot
<1> QED
  BY <1>1, <1>2, <1>3 DEF LocalStep

\* What one record becomes.
LEMMA ItemWritten ==
  ASSUME DriverTypeOK, NEW s, NEW joint, Item(s, joint)
  PROVE  /\ items'[snapshot] = [status |-> s, joint |-> joint]
         /\ items'[snapshot].status = s /\ items'[snapshot].joint = joint
         /\ \A i \in 1..NSnapshots : i # snapshot => items'[i] = items[i]
BY DEF DriverTypeOK, Item

LEMMA LocalKeepsItems ==
  ASSUME DriverTypeOK, HarnessInv, DriverPlace, LocalItems, LocalStep
  PROVE  LocalItems'
<1> USE DEF LocalItems, Local, Go, Fails, Quiescent, harnessVars
<1>0. snapshot \in Nat /\ first \in Nat /\ NSnapshots \in Nat /\ snapshot \in 1..NSnapshots
  BY DEF DriverTypeOK
<1>1. CASE LocalRefuses \/ LocalDryRun \/ LocalAccepts \/ ExportFails \/ Export \/ LocalExit
  BY <1>0, <1>1 DEF LocalRefuses, LocalDryRun, LocalAccepts, ExportFails, Export, LocalExit
<1>2. CASE StartScorer \/ ScorerTimeout \/ ScorerEnds
  BY <1>0, <1>2 DEF StartScorer, ScorerTimeout, ScorerEnds
<1>3. CASE CompileFails
  <2>1. PICK s \in {"compile_input_missing", "compile_failed", "compile_timeout"} : Item(s, FALSE)
    BY <1>3 DEF CompileFails
  <2>2. /\ UNCHANGED <<snapshot, driver, first, manifest>> /\ dpc = "compile" /\ dpc' = "next"
        /\ driver = "local" /\ s # "none" /\ s # "completed"
    BY <1>3, <2>1 DEF CompileFails
  <2>3. /\ items'[snapshot].status = s
        /\ \A i \in 1..NSnapshots : i # snapshot => items'[i] = items[i]
    BY <2>1, ItemWritten
  <2> QED
    BY <1>0, <2>2, <2>3
<1>4. CASE Validate
  <2>1. hpc = "over" /\ (Valid => file = verdict /\ verdict.named)
    BY <1>4 DEF Validate, DriverPlace, HarnessInv, HarnessFile, Valid
  <2>2. /\ UNCHANGED <<snapshot, driver, first, manifest>> /\ dpc = "validate" /\ dpc' = "next"
        /\ driver = "local" /\ hpc' = hpc /\ file' = file /\ verdict' = verdict
    BY <1>4 DEF Validate
  <2>3. /\ items'[snapshot].status \in {"completed", "scorer_timeout", "scorer_result_invalid"}
        /\ items'[snapshot].status = "completed" => Valid /\ items'[snapshot].joint = file.joint
        /\ \A i \in 1..NSnapshots : i # snapshot => items'[i] = items[i]
    <3>1. CASE Item("scorer_timeout", FALSE)
      BY <3>1, ItemWritten
    <3>2. CASE Valid /\ Item("completed", file.joint)
      BY <3>2, ItemWritten
    <3>3. CASE Item("scorer_result_invalid", FALSE)
      BY <3>3, ItemWritten
    <3> QED
      BY <1>4, <3>1, <3>2, <3>3 DEF Validate
  <2> QED
    BY <1>0, <2>1, <2>2, <2>3
<1>5. CASE NextSnapshot
  <2>1. /\ snapshot' = snapshot + 1 /\ items' = items /\ driver' = driver /\ first' = first
        /\ manifest' = manifest /\ dpc = "next" /\ dpc' = "export" /\ snapshot < NSnapshots
        /\ driver = "local" /\ ~manifest
    BY <1>5 DEF NextSnapshot, DriverTypeOK
  <2> QED
    BY <1>0, <2>1
<1>6. CASE WriteManifest
  BY <1>0, <1>6 DEF WriteManifest
<1> QED
  BY <1>1, <1>2, <1>3, <1>4, <1>5, <1>6 DEF LocalStep

LEMMA LocalKeepsSummary ==
  ASSUME DriverPlace, RemoteSummary, LocalStep
  PROVE  RemoteSummary'
<1>1. driver = "local" /\ driver' = driver /\ cpc' = cpc /\ cpc = "none"
  BY DEF LocalStep, LocalRefuses, LocalDryRun, LocalAccepts, ExportFails, Export, CompileFails, StartScorer,
         ScorerEnds, ScorerTimeout, Validate, NextSnapshot, WriteManifest, LocalExit, Local, Quiescent,
         DriverPlace
<1> QED
  BY <1>1 DEF RemoteSummary

LEMMA LocalKeepsDriver ==
  ASSUME DriverInv, HarnessInv, LocalStep
  PROVE  DriverInv'
BY LocalKeepsTyped, LocalKeepsPlace, LocalKeepsItems, LocalKeepsSummary DEF DriverInv, HarnessInv

\* The remote driver and its container.
LEMMA RemoteKeepsTyped ==
  ASSUME DriverTypeOK, RemoteStep
  PROVE  DriverTypeOK'
<1> USE DEF DriverTypeOK, Remote, Inside, Go, Fails, Quiescent, ContainerEnds, Reported, Summaries
<1>1. CASE RemoteRefuses \/ StartContainer \/ InsideRaises \/ BuildFails \/ StartInner
  BY <1>1 DEF RemoteRefuses, StartContainer, InsideRaises, BuildFails, StartInner
<1>2. CASE InnerEnds \/ InnerTimeout \/ CreateSummary \/ FillSummary
  BY <1>2 DEF InnerEnds, InnerTimeout, CreateSummary, FillSummary
<1>3. CASE InsideExits \/ ClientEnds \/ ClientIsLost \/ ReadSummary
  BY <1>3 DEF InsideExits, ClientEnds, ClientIsLost, ReadSummary
<1> QED
  BY <1>1, <1>2, <1>3 DEF RemoteStep

LEMMA RemoteKeepsPlace ==
  ASSUME DriverTypeOK, DriverPlace, RemoteStep
  PROVE  DriverPlace'
<1> USE DEF DriverPlace, Remote, Inside, Go, Fails, Quiescent, ContainerEnds, harnessVars
<1>1. CASE RemoteRefuses \/ StartContainer \/ InsideRaises \/ BuildFails
  BY <1>1 DEF RemoteRefuses, StartContainer, InsideRaises, BuildFails
<1>2. CASE StartInner \/ InnerTimeout
  BY <1>2 DEF StartInner, InnerTimeout, Begin, Killed
<1>3. CASE InnerEnds \/ CreateSummary \/ FillSummary \/ InsideExits
  BY <1>3 DEF InnerEnds, CreateSummary, FillSummary, InsideExits
<1>4. CASE ClientEnds \/ ClientIsLost \/ ReadSummary
  BY <1>4 DEF ClientEnds, ClientIsLost, ReadSummary
<1> QED
  BY <1>1, <1>2, <1>3, <1>4 DEF RemoteStep

LEMMA RemoteKeepsItems ==
  ASSUME DriverPlace, LocalItems, RemoteStep
  PROVE  LocalItems'
<1>1. /\ driver = "remote" /\ UNCHANGED <<driver, first, snapshot, items, manifest>>
      /\ dpc \notin {"next", "manifest"} /\ dpc' \notin {"next", "manifest"} /\ manifest = FALSE
  BY DEF RemoteStep, RemoteRefuses, StartContainer, InsideRaises, BuildFails, StartInner, InnerEnds,
         InnerTimeout, CreateSummary, FillSummary, InsideExits, ClientEnds, ClientIsLost, ReadSummary,
         Remote, Inside, Go, Fails, Quiescent, DriverPlace
<1> QED
  BY <1>1 DEF LocalItems

LEMMA RemoteKeepsSummary ==
  ASSUME HarnessInv, DriverPlace, RemoteSummary, RemoteStep
  PROVE  RemoteSummary'
<1> USE DEF RemoteSummary, Remote, Inside, Go, Fails, Quiescent, ContainerEnds, Reported, WithoutTiming,
            harnessVars
<1>1. CASE RemoteRefuses \/ StartContainer \/ InsideRaises \/ BuildFails
  BY <1>1 DEF RemoteRefuses, StartContainer, InsideRaises, BuildFails, DriverPlace
<1>2. CASE StartInner \/ InnerTimeout \/ InnerEnds \/ CreateSummary
  BY <1>2 DEF StartInner, InnerTimeout, InnerEnds, CreateSummary, DriverPlace
<1>3. CASE FillSummary
  <2>1. summary' = "completed" => file = verdict /\ verdict.performance = "not_run"
    BY <1>3 DEF FillSummary, Acceptable, Valid, HarnessInv, HarnessFile
  <2>2. hpc = "over"
    BY <1>3 DEF FillSummary, DriverPlace
  <2> QED
    BY <1>3, <2>1, <2>2 DEF FillSummary
<1>4. CASE InsideExits
  BY <1>4 DEF InsideExits, DriverPlace
<1>5. CASE ClientEnds \/ ClientIsLost \/ ReadSummary
  BY <1>5 DEF ClientEnds, ClientIsLost, ReadSummary, DriverPlace
<1> QED
  BY <1>1, <1>2, <1>3, <1>4, <1>5 DEF RemoteStep

LEMMA RemoteKeepsDriver ==
  ASSUME DriverInv, HarnessInv, RemoteStep
  PROVE  DriverInv'
BY RemoteKeepsTyped, RemoteKeepsPlace, RemoteKeepsItems, RemoteKeepsSummary DEF DriverInv

-----------------------------------------------------------------------------
(* The pairs of measurements that overlapped. *)

LEMMA MeasurementShape ==
  ASSUME NEW m \in Measurement
  PROVE  \/ m[1] = "harness" /\ m = <<"harness", 0>>
         \/ m[1] = "mhc" /\ m[2] \in MhcCase /\ m = <<"mhc", m[2]>>
         \/ m[1] = "slot" /\ m[2] \in Slot /\ m = <<"slot", m[2]>>
BY DEF Measurement

\* Who is between the looks at the GPU holds it.
LEMMA OpenHolds ==
  ASSUME HarnessPlace, \A k \in Slot : BoxTruth(box[k], kind[k]), NEW m \in Measurement, Open(m)
  PROVE  \/ m = <<"harness", 0>> /\ OnGpu
         \/ m = <<"mhc", mcase>> /\ MhcOnGpu
         \/ m = <<"slot", m[2]>> /\ m[2] \in Slot /\ BoxOnGpu(m[2])
<1>1. CASE m[1] = "harness"
  BY <1>1, MeasurementShape DEF Open, OnGpu, Running, HarnessPlace
<1>2. CASE m[1] = "mhc"
  BY <1>2, MeasurementShape DEF Open, MhcOnGpu
<1>3. CASE m[1] = "slot"
  <2>1. m[2] \in Slot /\ m = <<"slot", m[2]>> /\ box[m[2]].at \in {"measure", "postflight"}
    BY <1>3, MeasurementShape DEF Open
  <2> QED
    BY <2>1 DEF BoxOnGpu, BoxTruth
<1> QED
  BY <1>1, <1>2, <1>3, MeasurementShape

\* Two members make two.
LEMMA PairsDiffer ==
  ASSUME NEW m, NEW n, NEW p, p = {m, n}, Cardinality(p) = 2
  PROVE  m # n
<1> SUFFICES ASSUME m = n PROVE FALSE
  OBVIOUS
<1>1. p = {m}
  OBVIOUS
<1>2. Cardinality(p) = 1
  BY <1>1, FS_Singleton, Zenon
<1> QED
  BY <1>2

\* A measurement that nobody else's overlaps.
Sole(m) == \A n \in Measurement : n # m => ~Open(n)

\* The pairs stay as they should be if what is lost stays lost, and a measurement ends by being
\* lost, or with nobody else's going on.
LEMMA HostKeeps ==
  ASSUME HostInv, faults' = faults \/ Fault, Overlaps \/ UNCHANGED overlap,
         \A m \in Measurement : Lost(m) => Lost(m)',
         \A m \in Measurement : Open(m) => Open(m)' \/ Lost(m)' \/ Sole(m)
  PROVE  HostInv'
<1> USE DEF HostInv
<1>1. faults' \in 0..MaxFaults
  BY ScoreAssumption DEF Fault
<1>2. ASSUME NEW p \in overlap
      PROVE  /\ p \subseteq Measurement /\ \E m, n \in p : m # n
             /\ (\A m \in p : Open(m)') \/ (\E m \in p : Lost(m)')
  <2>1. p \subseteq Measurement /\ \E m, n \in p : m # n
    BY <1>2
  <2>2. CASE \E m \in p : Lost(m)
    BY <2>1, <2>2
  <2>3. CASE \A m \in p : Open(m)
    <3>1. \A m \in p : Open(m)' \/ Lost(m)'
      BY <2>1, <2>3 DEF Sole
    <3> QED
      BY <2>1, <3>1
  <2> QED
    BY <1>2, <2>1, <2>2, <2>3
<1>3. \A m \in Measuring' : m \in Measurement /\ Open(m)'
  <2>1. Measurement' = Measurement
    BY DEF Measurement, MhcCase, Slot
  <2> QED
    BY <2>1 DEF Measuring, Open
<1>4. ASSUME NEW p \in overlap', p \notin overlap
      PROVE  \E m \in Measuring', n \in Measuring' : m # n /\ p = {m, n}
  <2>1. PICK S : S = Measuring'
    OBVIOUS
  <2>2. p \in {q \in {{m, n} : m, n \in S} : Cardinality(q) = 2}
    BY <1>4, <2>1 DEF Overlaps
  <2>3. PICK m \in S, n \in S : p = {m, n} /\ Cardinality(p) = 2
    BY <2>2
  <2> QED
    BY <2>1, <2>3, PairsDiffer
<1>5. ASSUME NEW p \in overlap'
      PROVE  /\ p \subseteq Measurement /\ \E m, n \in p : m # n
             /\ (\A m \in p : Open(m)') \/ (\E m \in p : Lost(m)')
  <2>1. CASE p \in overlap
    BY <1>2, <2>1
  <2>2. CASE p \notin overlap
    <3>1. PICK m \in Measuring', n \in Measuring' : m # n /\ p = {m, n}
      BY <1>4, <2>2
    <3>2. m \in Measurement /\ n \in Measurement /\ Open(m)' /\ Open(n)'
      BY <1>3
    <3> QED
      BY <3>1, <3>2
  <2> QED
    BY <2>1, <2>2
<1>6. Measurement' = Measurement
  BY DEF Measurement, MhcCase, Slot
<1> QED
  BY <1>1, <1>5, <1>6

LEMMA HarnessKeepsHost ==
  ASSUME HarnessInv, FeedbackInv, HostInv, HarnessStep(MhcOnGpu \/ BoxesOnGpu) \/ Killed,
         UNCHANGED otherVars, faults' = faults \/ Fault, Overlaps \/ UNCHANGED overlap
  PROVE  HostInv'
<1>1. UNCHANGED <<mpc, mcase, timing, box>>
  BY DEF otherVars, mhcVars, remoteVars
<1>2. ASSUME NEW m \in Measurement, m[1] # "harness"
      PROVE  (Lost(m) => Lost(m)') /\ (Open(m) => Open(m)')
  BY <1>1, <1>2 DEF Lost, Open
<1>3. ASSUME hpc \in {"open", "fill", "exit", "hung", "over"}
      PROVE  hpc' \in {"open", "fill", "exit", "hung", "over"} /\ verdict' = verdict
  BY <1>3 DEF HarnessStep, HGo, Refuse, Accept, Preflight, Load, Raises, CheckCase, Hangs, Aborts,
              Judge, BenchmarkCase, Measured, Postflight, OpenResult, FillResult, Exit, Killed, Running
<1>4. ASSUME hpc \in {"measure", "postflight"}
      PROVE  \/ hpc' \in {"measure", "postflight"}
             \/ hpc' \in {"open", "hung", "over"} /\ verdict'.performance \notin {"pass", "fail"}
             \/ ~(MhcOnGpu \/ BoxesOnGpu)
  <2>1. verdict.performance = "not_run" /\ verdict \in Results
    BY <1>4 DEF HarnessInv, HarnessPlace, HarnessTypeOK
  <2>2. CASE Raises
    BY <2>2, VerdictTypes DEF Raises
  <2>3. CASE Hangs \/ Aborts \/ BenchmarkCase \/ Measured \/ Killed
    BY <1>4, <2>1, <2>3 DEF Hangs, Aborts, BenchmarkCase, Measured, Killed, HGo
  <2>4. CASE Postflight(MhcOnGpu \/ BoxesOnGpu)
    <3>1. CASE verdict' = [verdict EXCEPT !.performance = "invalid"]
      BY <2>1, <2>4, <3>1 DEF Postflight, HGo, Results
    <3> QED
      BY <2>4, <3>1 DEF Postflight
  <2> QED
    BY <1>4, <2>2, <2>3, <2>4 DEF HarnessStep, HGo, Refuse, Accept, Preflight, Load, CheckCase, Judge,
                                  OpenResult, FillResult, Exit
<1>5. ~(MhcOnGpu \/ BoxesOnGpu) => Sole(<<"harness", 0>>)
  BY OpenHolds DEF Sole, BoxesOnGpu, HarnessInv, FeedbackInv
<1>6. \A m \in Measurement : Lost(m) => Lost(m)'
  <2> SUFFICES ASSUME NEW m \in Measurement, Lost(m) PROVE Lost(m)'
    OBVIOUS
  <2>1. CASE m[1] = "harness"
    BY <1>3, <2>1 DEF Lost
  <2> QED
    BY <1>2, <2>1
<1>7. \A m \in Measurement : Open(m) => Open(m)' \/ Lost(m)' \/ Sole(m)
  <2> SUFFICES ASSUME NEW m \in Measurement, Open(m) PROVE Open(m)' \/ Lost(m)' \/ Sole(m)
    OBVIOUS
  <2>1. CASE m[1] = "harness"
    <3>1. m = <<"harness", 0>>
      BY <2>1, MeasurementShape
    <3>2. hpc \in {"measure", "postflight"}
      BY <2>1 DEF Open
    <3>3. \/ hpc' \in {"measure", "postflight"}
          \/ hpc' \in {"open", "hung", "over"} /\ verdict'.performance \notin {"pass", "fail"}
          \/ ~(MhcOnGpu \/ BoxesOnGpu)
      BY <1>4, <3>2
    <3> QED
      BY <1>5, <2>1, <3>1, <3>3 DEF Open, Lost
  <2> QED
    BY <1>2, <2>1
<1> QED
  BY <1>6, <1>7, HostKeeps

LEMMA MhcKeepsHost ==
  ASSUME HarnessInv, MhcInv, FeedbackInv, HostInv, MhcStep(OnGpu \/ BoxesOnGpu),
         UNCHANGED <<harnessVars, remoteVars, faults>>, Overlaps
  PROVE  HostInv'
<1>1. UNCHANGED <<hpc, verdict, box>>
  BY DEF harnessVars, remoteVars
<1>2. ASSUME NEW m \in Measurement, m[1] # "mhc"
      PROVE  (Lost(m) => Lost(m)') /\ (Open(m) => Open(m)')
  BY <1>1, <1>2 DEF Lost, Open
<1>3. mcase \in Nat /\ MhcCase \subseteq Nat /\ mcase \in MhcCase
  BY MhcAssumption DEF MhcInv, MhcTypeOK, MhcCase
<1>4. /\ mpc' = mpc \/ mpc \notin {"over"}
      /\ mpc \notin {"none", "setup"} => mpc' \notin {"none", "setup"}
      /\ mpc \notin {"setup", "record"} => mcase' = mcase
      /\ mpc \in {"write", "over"} => mpc' \in {"write", "over"}
      /\ mpc = "record" => mpc' \in {"write", "native"} /\ timing' = timing
      /\ mpc \in {"write", "over"} => timing' = timing
      /\ \A c \in MhcCase : c # mcase => timing'[c] = timing[c]
  BY <1>3 DEF MhcInv, MhcTypeOK, MhcStep, MGo, Invoke, Setup, SetupFails, Native, Workspace, Launch, LaunchRaises,
         Launched, Quiet, Measure, PostRun, Review, NextCase, WriteResult, CaseError, CaseEnds
<1>5. mpc = "record" => (mpc' = "write" /\ mcase' = mcase) \/ (mcase' > mcase /\ mcase' \in Nat)
  <2> SUFFICES ASSUME mpc = "record", Later # {}, NextCase
               PROVE  mcase' > mcase /\ mcase' \in Nat
    BY DEF MhcStep, MGo, Invoke, Setup, SetupFails, Native, Workspace, Launch, LaunchRaises,
           Launched, Quiet, Measure, PostRun, Review, NextCase, WriteResult
  <2>1. Later \in SUBSET MhcCase /\ \A c \in Later : c > mcase /\ c \in Nat
    BY LaterShape DEF MhcInv
  <2>2. First(Later) \in Later
    BY <2>1, FirstExists
  <2> QED
    BY <2>1, <2>2 DEF NextCase
<1>6. ASSUME mpc \in {"measure", "postrun"}
      PROVE  \/ mpc' \in {"measure", "postrun"} /\ mcase' = mcase
             \/ mpc' = "record" /\ mcase' = mcase /\ timing'[mcase] = "none"
             \/ ~(OnGpu \/ BoxesOnGpu)
  <2>1. timing' = [timing EXCEPT ![mcase] = "none"] => timing'[mcase] = "none"
    BY <1>3 DEF MhcInv, MhcTypeOK
  <2> QED
    BY <1>6, <2>1 DEF MhcStep, MGo, Invoke, Setup, SetupFails, Native, Workspace, Launch, LaunchRaises,
           Launched, Quiet, Measure, PostRun, Review, NextCase, WriteResult, CaseError
<1>7. ~(OnGpu \/ BoxesOnGpu) => Sole(<<"mhc", mcase>>)
  BY OpenHolds DEF Sole, BoxesOnGpu, HarnessInv, FeedbackInv
<1>8. \A m \in Measurement : Lost(m) => Lost(m)'
  <2> SUFFICES ASSUME NEW m \in Measurement, Lost(m) PROVE Lost(m)'
    OBVIOUS
  <2>1. CASE m[1] = "mhc"
    <3>1. /\ m[2] \in MhcCase /\ m[2] \in Nat /\ mpc \notin {"none", "setup"} /\ timing[m[2]] = "none"
          /\ m[2] < mcase \/ (m[2] = mcase /\ mpc \in {"record", "write", "over"})
      BY <1>3, <2>1, MeasurementShape DEF Lost
    <3>2. timing'[m[2]] = "none" /\ mpc' \notin {"none", "setup"}
      BY <1>3, <1>4, <3>1
    <3>3. m[2] < mcase' \/ (m[2] = mcase' /\ mpc' \in {"record", "write", "over"})
      BY <1>3, <1>4, <1>5, <3>1
    <3> QED
      BY <2>1, <3>2, <3>3 DEF Lost
  <2> QED
    BY <1>2, <2>1
<1>9. \A m \in Measurement : Open(m) => Open(m)' \/ Lost(m)' \/ Sole(m)
  <2> SUFFICES ASSUME NEW m \in Measurement, Open(m) PROVE Open(m)' \/ Lost(m)' \/ Sole(m)
    OBVIOUS
  <2>1. CASE m[1] = "mhc"
    <3>1. m = <<"mhc", mcase>> /\ m[2] = mcase /\ mpc \in {"measure", "postrun"}
      BY <2>1, MeasurementShape DEF Open
    <3> QED
      BY <1>6, <1>7, <2>1, <3>1 DEF Open, Lost
  <2> QED
    BY <1>2, <2>1
<1> QED
  BY <1>8, <1>9, HostKeeps

LEMMA FeedbackKeepsHost ==
  ASSUME HarnessInv, MhcInv, FeedbackInv, HostInv,
         FeedbackStep(OnGpu \/ MhcOnGpu) \/ FeedbackTrouble,
         UNCHANGED <<harnessVars, mhcVars>>, faults' = faults \/ Fault, Overlaps \/ UNCHANGED overlap
  PROVE  HostInv'
<1>1. UNCHANGED <<hpc, verdict, mpc, mcase, timing>>
  BY DEF harnessVars, mhcVars
<1>2. ASSUME NEW m \in Measurement, m[1] # "slot"
      PROVE  (Lost(m) => Lost(m)') /\ (Open(m) => Open(m)')
  BY <1>1, <1>2 DEF Lost, Open
<1>3. RemoteTypeOK /\ \A j \in Slot : SlotInv(j)
  BY FeedbackBySlots
\* A container goes its way, and nobody else is on the GPU when it believes what it measured.
<1> DEFINE Kept(j) ==
      /\ /\ box[j].at \in {"open", "fill", "exit", "gone"}
         /\ box[j].verdict.status # "complete"
         => /\ box'[j].at \in {"open", "fill", "exit", "gone"}
            /\ box'[j].verdict.status # "complete"
      /\ box[j].at \in {"measure", "postflight"} =>
           \/ box'[j].at \in {"measure", "postflight"}
           \/ /\ box'[j].at \in {"open", "gone"}
              /\ box'[j].verdict.status # "complete"
           \/ ~Crowded(j, OnGpu \/ MhcOnGpu)
<1>4. \A j \in Slot : Kept(j)
  <2>1. ASSUME NEW k \in Slot, HostActs(k)
        PROVE  \A j \in Slot : Kept(j)
    <3>1. box' = box \/ HostStarts(k) \/ HostRemoves(k)
      BY <2>1 DEF HostActs, HostRefuses, HostTimeout, HostReports, HostDies, HostOnly
    <3>2. CASE box' = box
      BY <3>2
    <3>3. CASE HostStarts(k)
      <4>1. box[k].at = "none" /\ \A j \in Slot : j # k => box'[j] = box[j]
        BY <1>3, <3>3 DEF HostStarts, SlotInv, RemoteTypeOK
      <4> QED
        BY <4>1
    <3>4. CASE HostRemoves(k)
      <4>1. /\ box'[k].at = "gone" /\ box'[k].verdict = box[k].verdict
            /\ \A j \in Slot : j # k => box'[j] = box[j]
        BY <1>3, <3>4 DEF HostRemoves, RemoteTypeOK
      <4>2. box[k].at \in {"measure", "postflight"} => box[k].verdict.status # "complete"
        BY <1>3, PublicTypes DEF SlotInv, BoxTruth
      <4> QED
        BY <4>1, <4>2
    <3> QED
      BY <3>1, <3>2, <3>3, <3>4
  <2>2. ASSUME NEW k \in Slot, NEW others, BoxActs(k, others), others = Crowded(k, OnGpu \/ MhcOnGpu)
        PROVE  \A j \in Slot : Kept(j)
    <3>1. BoxChange(box[k], box'[k], others, kind[k]) /\ \A j \in Slot : j # k => box'[j] = box[j]
      BY <1>3, <2>2, BoxFrame
    <3>2. box[k] \in BoxRecords /\ BoxTruth(box[k], kind[k])
      BY <1>3, BoxesType DEF SlotInv
    <3>3. Kept(k)
      <4>1. box[k].at \in {"measure", "postflight"} => box[k].verdict.status # "complete"
        BY <3>2, PublicTypes DEF BoxTruth
      <4>2. box[k].at = "open" => box'[k].at = "fill" /\ box'[k].verdict = box[k].verdict
        BY <3>1, <3>2 DEF BoxChange, BoxRecords
      <4>3. box[k].at = "fill" => box'[k].at \in {"exit", "gone"} /\ box'[k].verdict = box[k].verdict
        BY <3>1, <3>2 DEF BoxChange, BoxRecords
      <4>4. box[k].at = "exit" => box'[k].at = "gone" /\ box'[k].verdict = box[k].verdict
        BY <3>1, <3>2 DEF BoxChange, BoxRecords
      <4>5. box[k].at # "gone"
        BY <3>1 DEF BoxChange
      <4>6. box[k].at = "measure" =>
              \/ box'[k].at = "postflight"
              \/ box'[k].at \in {"open", "gone"} /\ box'[k].verdict \in {Unscored, box[k].verdict}
        BY <3>1, <3>2 DEF BoxChange, BoxRecords
      <4>7. box[k].at = "postflight" =>
              \/ box'[k].at = "open" /\ box'[k].verdict = Unscored
              \/ ~others
        BY <3>1, <3>2 DEF BoxChange, BoxRecords
      <4> QED
        BY <2>2, <4>1, <4>2, <4>3, <4>4, <4>5, <4>6, <4>7, PublicTypes
    <3> QED
      BY <3>1, <3>3
  <2>3. CallerActs => box' = box
    BY DEF CallerActs, Connect, ConnectFails, CallScorer, Upload, HostAnswers, AnswerIsLost, Download,
           TransferFails, UploadTears, CheckoutChanges, CallerOnly
  <2>4. CallerActs => \A j \in Slot : Kept(j)
    BY <2>3
  <2>5. CASE FeedbackStep(OnGpu \/ MhcOnGpu)
    <3>1. CallerActs \/ \E k \in Slot : HostActs(k) \/ BoxActs(k, Crowded(k, OnGpu \/ MhcOnGpu))
      BY <2>5, Zenon DEF FeedbackStep, CallerActs, HostActs, BoxActs
    <3> HIDE DEF Kept
    <3> QED
      BY <2>1, <2>2, <2>4, <3>1
  <2>6. CASE FeedbackTrouble
    <3>1. CallerActs \/ \E k \in Slot : HostActs(k)
      BY <2>6, Zenon DEF FeedbackTrouble, CallerActs, HostActs
    <3> HIDE DEF Kept
    <3> QED
      BY <2>1, <2>4, <3>1
  <2> QED
    BY <2>5, <2>6
<1>5. ASSUME NEW k \in Slot, ~Crowded(k, OnGpu \/ MhcOnGpu)
      PROVE  Sole(<<"slot", k>>)
  <2> SUFFICES ASSUME NEW n \in Measurement, n # <<"slot", k>>, Open(n) PROVE FALSE
    BY DEF Sole
  <2> QED
    BY <1>5, OpenHolds DEF Crowded, HarnessInv, FeedbackInv
<1>6. \A m \in Measurement : Lost(m) => Lost(m)'
  <2> SUFFICES ASSUME NEW m \in Measurement, Lost(m) PROVE Lost(m)'
    OBVIOUS
  <2>1. CASE m[1] = "slot"
    <3>1. m[2] \in Slot
      BY <2>1, MeasurementShape
    <3>2. Kept(m[2])
      BY <1>4, <3>1
    <3> QED
      BY <2>1, <3>2 DEF Lost
  <2> QED
    BY <1>2, <2>1
<1>7. \A m \in Measurement : Open(m) => Open(m)' \/ Lost(m)' \/ Sole(m)
  <2> SUFFICES ASSUME NEW m \in Measurement, Open(m) PROVE Open(m)' \/ Lost(m)' \/ Sole(m)
    OBVIOUS
  <2>1. CASE m[1] = "slot"
    <3>1. m[2] \in Slot /\ m = <<"slot", m[2]>>
      BY <2>1, MeasurementShape
    <3>2. Kept(m[2])
      BY <1>4, <3>1
    <3>3. CASE Crowded(m[2], OnGpu \/ MhcOnGpu)
      BY <2>1, <3>2, <3>3 DEF Lost, Open
    <3>4. CASE ~Crowded(m[2], OnGpu \/ MhcOnGpu)
      BY <1>5, <3>1, <3>4
    <3> QED
      BY <3>3, <3>4
  <2> QED
    BY <1>2, <2>1
<1> HIDE DEF Kept
<1> QED
  BY <1>6, <1>7, HostKeeps

\* What the drivers do to the host and to the harness.
LEMMA DriverActs ==
  ASSUME LocalStep \/ RemoteStep
  PROVE  /\ UNCHANGED otherVars
         /\ faults' = faults \/ Fault
         /\ \/ UNCHANGED <<harnessVars, overlap>>
            \/ Killed /\ UNCHANGED overlap
            \/ Unmeasured /\ \E c \in Calls : Begin(c, "args")
<1>1. CASE LocalStep /\ ~StartScorer
  BY <1>1 DEF LocalStep, LocalRefuses, LocalDryRun, LocalAccepts, ExportFails, Export, CompileFails,
         ScorerEnds, ScorerTimeout, Validate, NextSnapshot, WriteManifest, LocalExit, Local, Quiescent,
         hostVars
<1>2. CASE StartScorer \/ StartInner
  <2>1. \A b, o \in BOOLEAN : [scored |-> b, withheld |-> TRUE, only |-> o] \in Calls
    BY DEF Calls
  <2> QED
    BY <1>2, <2>1 DEF StartScorer, StartInner, Inside, Remote
<1>3. CASE RemoteStep /\ ~StartInner
  BY <1>3 DEF RemoteStep, RemoteRefuses, StartContainer, InsideRaises, BuildFails, InnerEnds,
         InnerTimeout, CreateSummary, FillSummary, InsideExits, ClientEnds, ClientIsLost, ReadSummary,
         Quiescent, hostVars
<1> QED
  BY <1>1, <1>2, <1>3

LEMMA DriverKeepsHost ==
  ASSUME HarnessInv, FeedbackInv, HostInv, LocalStep \/ RemoteStep
  PROVE  HostInv'
<1>1. UNCHANGED otherVars /\ (faults' = faults \/ Fault)
  BY DriverActs
<1>2. CASE UNCHANGED <<harnessVars, overlap>>
  <2>1. UNCHANGED <<hpc, verdict, mpc, mcase, timing, box>>
    BY <1>1, <1>2 DEF harnessVars, otherVars, mhcVars, remoteVars
  <2>2. \A m \in Measurement : (Lost(m) => Lost(m)') /\ (Open(m) => Open(m)')
    BY <2>1 DEF Lost, Open
  <2> QED
    BY <1>1, <1>2, <2>2, HostKeeps
<1>3. CASE Killed /\ UNCHANGED overlap
  BY <1>1, <1>3, HarnessKeepsHost
<1>4. CASE Unmeasured
  <2>1. UNCHANGED <<mpc, mcase, timing, box>>
    BY <1>1 DEF otherVars, mhcVars, remoteVars
  <2>2. \A m \in Measurement : m # <<"harness", 0>> => (Lost(m) => Lost(m)') /\ (Open(m) => Open(m)')
    <3> SUFFICES ASSUME NEW m \in Measurement, m # <<"harness", 0>>
                 PROVE  (Lost(m) => Lost(m)') /\ (Open(m) => Open(m)')
      OBVIOUS
    <3>1. m[1] # "harness"
      BY MeasurementShape
    <3> QED
      BY <2>1, <3>1 DEF Lost, Open
  <2>3. faults' \in 0..MaxFaults /\ Measurement' = Measurement
    BY <1>1, ScoreAssumption DEF HostInv, Fault, Measurement, MhcCase, Slot
  <2>4. \A p \in overlap' : p \in overlap /\ <<"harness", 0>> \notin p
    BY <1>4 DEF Unmeasured
  <2>5. ASSUME NEW p \in overlap'
        PROVE  /\ p \subseteq Measurement /\ \E m, n \in p : m # n
               /\ (\A m \in p : Open(m)') \/ (\E m \in p : Lost(m)')
    <3>1. /\ p \subseteq Measurement /\ \E m, n \in p : m # n
          /\ (\A m \in p : Open(m)) \/ (\E m \in p : Lost(m))
      BY <2>4, <2>5 DEF HostInv
    <3>2. \A m \in p : m \in Measurement /\ m # <<"harness", 0>>
      BY <2>4, <2>5, <3>1
    <3> QED
      BY <2>2, <3>1, <3>2
  <2> QED
    BY <2>3, <2>5 DEF HostInv
<1> QED
  BY <1>2, <1>3, <1>4, DriverActs

-----------------------------------------------------------------------------
(* The invariant holds. *)

LEMMA InitialInv ==
  ASSUME Init
  PROVE  IInv
<1>1. HarnessInv
  <2>1. call \in Calls /\ verdict = Fresh
    BY DEF Init, HarnessInit, Calls
  <2>2. HarnessTypeOK
    BY <2>1, VerdictTypes DEF Init, HarnessInit, HarnessTypeOK, Case
  <2>3. HarnessTruth(verdict)
    BY <2>1, VerdictTypes DEF HarnessTruth
  <2> QED
    BY <2>1, <2>2, <2>3 DEF Init, HarnessInit, HarnessInv, HarnessPlace, HarnessFile
<1>2. MhcInv
  <2>1. /\ mpc = "none" /\ mcase = 1 /\ selected \in SUBSET MhcCase /\ timed \in BOOLEAN
        /\ mgpu = "ok" /\ out = "sentinel" /\ round = 0 /\ good = TRUE
        /\ wrote = [c \in MhcCase |-> 0] /\ parity = <<TRUE, TRUE>>
        /\ entry = [c \in MhcCase |-> "none"] /\ timing = [c \in MhcCase |-> "none"] /\ mfile = "none"
    BY DEF Init, MhcInit
  <2>2. MhcTypeOK
    <3>1. mcase \in MhcCase /\ wrote \in [MhcCase -> 0..Rounds] /\ round \in 0..Rounds
      BY <2>1, MhcAssumption DEF MhcCase, Rounds
    <3>2. parity \in BOOLEAN \X BOOLEAN
      BY <2>1
    <3> QED
      BY <2>1, <3>1, <3>2 DEF MhcTypeOK
  <2>3. MhcPlace /\ MhcEntries /\ MhcIsTrue
    BY <2>1 DEF MhcPlace, MhcEntries, MhcIsTrue
  <2> QED
    BY <2>2, <2>3 DEF MhcInv
<1>3. FeedbackInv
  <2>1. /\ calls \in 0..NSlots /\ rpc = "connect" /\ slot = 0 /\ frozen \subseteq {"local", "remote"}
        /\ kind = [k \in Slot |-> "correctness"] /\ sent = [k \in Slot |-> "none"]
        /\ host = [k \in Slot |-> "none"] /\ reply = [k \in Slot |-> None]
        /\ box = [k \in Slot |-> Unstarted] /\ returned = [k \in Slot |-> None]
    BY DEF Init, RemoteInit, Unstarted
  <2>2. Unstarted \in BoxRecords /\ Unstarted.at = "none"
    BY PublicTypes DEF Unstarted, BoxRecords
  <2>3. RemoteTypeOK
    BY <2>1, <2>2 DEF RemoteTypeOK, BoxRecords
  <2>4. CallerInv
    BY <2>1 DEF CallerInv
  <2>5. \A k \in Slot : SlotInv(k)
    <3> SUFFICES ASSUME NEW k \in Slot PROVE SlotInv(k)
      OBVIOUS
    <3>1. /\ kind[k] = "correctness" /\ host[k] = "none" /\ reply[k] = None /\ box[k] = Unstarted
          /\ returned[k] = None
      BY <2>1
    <3>2. BoxTruth(box[k], kind[k]) /\ BoxFile(box[k])
      BY <3>1, UnstartedIsTrue
    <3> QED
      BY <2>2, <3>1, <3>2 DEF SlotInv, Answer
  <2> QED
    BY <2>3, <2>4, <2>5, FeedbackBySlots
<1>4. DriverInv
  <2>1. first \in {1, NSnapshots} /\ driver \in {"none", "local", "remote"} /\ hpc = "none"
    BY ScoreAssumption DEF Init, HarnessInit
  <2>2. DriverTypeOK
    <3>1. first \in 1..NSnapshots
      BY <2>1, ScoreAssumption
    <3>2. items \in [1..NSnapshots -> [status : Statuses \cup {"none"}, joint : BOOLEAN]]
      BY DEF Init
    <3> QED
      BY <2>1, <3>1, <3>2 DEF Init, DriverTypeOK
  <2>3. DriverPlace /\ RemoteSummary
    BY <2>1 DEF Init, DriverPlace, RemoteSummary
  <2>4. LocalItems
    BY <2>1, ScoreAssumption DEF Init, LocalItems
  <2> QED
    BY <2>2, <2>3, <2>4 DEF DriverInv
<1>5. HostInv
  BY ScoreAssumption DEF Init, HostInv
<1> QED
  BY <1>1, <1>2, <1>3, <1>4, <1>5 DEF IInv

LEMMA InvariantStep ==
  ASSUME IInv, [Next]_vars
  PROVE  IInv'
<1> USE DEF IInv
<1>1. CASE HarnessMoves
  <2>1. /\ HarnessStep(MhcOnGpu \/ BoxesOnGpu) /\ UNCHANGED <<mhcVars, remoteVars, driverVars, otherVars, faults>>
        /\ Overlaps
    BY <1>1 DEF HarnessMoves, otherVars
  <2>2. HarnessInv'
    BY <2>1, HarnessSteps
  <2>3. DriverInv'
    BY <2>1, RunningSteps, HarnessLeavesDriver
  <2>4. HostInv'
    BY <2>1, HarnessKeepsHost
  <2> QED
    BY <2>1, <2>2, <2>3, <2>4, MhcStays, FeedbackStays
<1>2. CASE HarnessIsKilled
  <2>1. /\ Killed /\ UNCHANGED <<mhcVars, remoteVars, driverVars, otherVars, overlap>> /\ Fault
    BY <1>2 DEF HarnessIsKilled, otherVars
  <2>2. HarnessInv'
    BY <2>1, HarnessKilled
  <2>3. DriverInv'
    BY <2>1, RunningSteps, HarnessLeavesDriver
  <2>4. HostInv'
    BY <2>1, HarnessKeepsHost
  <2> QED
    BY <2>1, <2>2, <2>3, <2>4, MhcStays, FeedbackStays
<1>3. CASE MhcMoves
  <2>1. /\ MhcStep(OnGpu \/ BoxesOnGpu) /\ UNCHANGED <<harnessVars, remoteVars, faults, driverVars>>
        /\ Overlaps
    BY <1>3 DEF MhcMoves
  <2>2. MhcInv'
    BY <2>1, MhcSteps
  <2>3. HostInv'
    BY <2>1, MhcKeepsHost
  <2> QED
    BY <2>1, <2>2, <2>3, HarnessStays, FeedbackStays, DriverStays
<1>4. CASE FeedbackMoves \/ FeedbackIsTroubled
  <2>1. /\ FeedbackStep(OnGpu \/ MhcOnGpu) \/ FeedbackTrouble
        /\ UNCHANGED <<harnessVars, mhcVars, driverVars>>
        /\ faults' = faults \/ Fault
        /\ Overlaps \/ UNCHANGED overlap
    BY <1>4 DEF FeedbackMoves, FeedbackIsTroubled
  <2>2. FeedbackInv'
    BY <2>1, FeedbackSteps
  <2>3. HostInv'
    BY <2>1, FeedbackKeepsHost
  <2> QED
    BY <2>1, <2>2, <2>3, HarnessStays, MhcStays, DriverStays
<1>5. CASE LocalStep \/ RemoteStep
  <2>1. UNCHANGED <<mhcVars, remoteVars>>
    BY <1>5, DriverActs DEF otherVars
  <2>2. HarnessInv'
    BY <1>5, DriverActs, HarnessStays, HarnessKilled, HarnessBegins
  <2>3. DriverInv'
    BY <1>5, LocalKeepsDriver, RemoteKeepsDriver
  <2>4. HostInv'
    BY <1>5, DriverKeepsHost
  <2> QED
    BY <2>1, <2>2, <2>3, <2>4, MhcStays, FeedbackStays
<1>6. CASE UNCHANGED vars
  <2>1. UNCHANGED <<harnessVars, mhcVars, remoteVars, driverVars, otherVars, faults, overlap>>
    BY <1>6 DEF vars, otherVars, hostVars
  <2>2. HostInv'
    <3>1. UNCHANGED <<hpc, verdict, mpc, mcase, timing, box>>
      BY <2>1 DEF harnessVars, otherVars, mhcVars, remoteVars
    <3>2. \A m \in Measurement : (Lost(m) => Lost(m)') /\ (Open(m) => Open(m)')
      BY <3>1 DEF Lost, Open
    <3> QED
      BY <2>1, <3>2, HostKeeps
  <2> QED
    BY <2>1, <2>2, HarnessStays, MhcStays, FeedbackStays, DriverStays
<1> QED
  BY <1>1, <1>2, <1>3, <1>4, <1>5, <1>6 DEF Next

LEMMA Invariance == Spec => []IInv
BY InitialInv, InvariantStep, PTL DEF Spec

-----------------------------------------------------------------------------

\* Every variable of the scorers, their drivers and the host stays in its set.
THEOREM TypeCorrect == Spec => []TypeOK
<1>1. IInv => TypeOK
  BY DEF IInv, HarnessInv, MhcInv, FeedbackInv, DriverInv, DriverTypeOK, HostInv, TypeOK
<1> QED
  BY <1>1, Invariance, PTL

\* Whatever is killed, hangs, raises or lies, and whoever else is on the GPU, a result file that was
\* written to its end says what happened: of the harness, of the mHC scorer and of every feedback
\* container.
THEOREM VerdictsAreTrue == Spec => []VerdictIsTrue
<1>1. ASSUME HarnessInv
      PROVE  HarnessIsTrue
  BY <1>1 DEF HarnessInv, HarnessTruth, HarnessFile, HarnessIsTrue
<1>2. ASSUME FeedbackInv
      PROVE  FeedbackIsTrue
  BY <1>2 DEF FeedbackInv, BoxTruth, BoxFile, FeedbackIsTrue
<1>3. IInv => VerdictIsTrue
  BY <1>1, <1>2 DEF IInv, MhcInv, VerdictIsTrue
<1> QED
  BY <1>3, Invariance, PTL

\* What is passed on is final: the completed record of a snapshot, the manifest of all of them, the
\* zero of the remote driver, and the result of a feedback slot that reached the broker.
THEOREM AcceptedStaysFinal == Spec => []AcceptedIsFinal
<1>1. ASSUME DriverInv
      PROVE  /\ dpc = "next" /\ items[snapshot].status = "completed" =>
                  hpc = "over" /\ file = verdict /\ verdict.named /\ items[snapshot].joint = verdict.joint
             /\ manifest => Done = first..NSnapshots
             /\ driver = "remote" /\ dexit = "zero" =>
                  cpc = "gone" /\ hpc = "over" /\ file = verdict /\ verdict.performance = "not_run"
  <2>1. manifest => Done = first..NSnapshots
    <3> SUFFICES ASSUME manifest PROVE Done = first..NSnapshots
      OBVIOUS
    <3>1. driver = "local" /\ snapshot = NSnapshots /\ first \in 1..NSnapshots /\ NSnapshots \in Nat
      BY <1>1, ScoreAssumption DEF DriverInv, DriverTypeOK, DriverPlace, LocalItems
    <3>2. \A i \in 1..NSnapshots : items[i].status # "none" <=> first <= i
      BY <1>1, <3>1 DEF DriverInv, LocalItems
    <3> QED
      BY <3>1, <3>2 DEF Done
  <2>2. dpc = "next" /\ items[snapshot].status = "completed" =>
          hpc = "over" /\ file = verdict /\ verdict.named /\ items[snapshot].joint = verdict.joint
    BY <1>1 DEF DriverInv, LocalItems
  <2>3. driver = "remote" /\ dexit = "zero" =>
          cpc = "gone" /\ hpc = "over" /\ file = verdict /\ verdict.performance = "not_run"
    BY <1>1 DEF DriverInv, RemoteSummary, WithoutTiming
  <2> QED
    BY <2>1, <2>2, <2>3
<1>2. IInv => AcceptedIsFinal
  BY <1>1 DEF IInv, FeedbackInv, AcceptedIsFinal
<1> QED
  BY <1>2, Invariance, PTL

\* Of two measurements that overlapped on the GPU, however many scorers there are, at most one is
\* believed.
THEOREM AtMostOneBelieved == Spec => []OneIsBelieved
<1>1. ASSUME IInv, NEW m \in Measurement, Open(m) \/ Lost(m)
      PROVE  ~Believed(m)
  <2> USE DEF IInv
  <2>1. CASE m[1] = "harness"
    <3>1. file \in {None, Torn, verdict} /\ (hpc \in {"measure", "postflight"} => file = None)
      BY <1>1 DEF HarnessInv, HarnessFile
    <3> QED
      BY <1>1, <2>1, <3>1 DEF Open, Lost, Believed
  <2>2. CASE m[1] = "mhc"
    <3>1. mpc \in {"measure", "postrun"} => timing[mcase] = "none"
      BY <1>1 DEF MhcInv, MhcPlace
    <3> QED
      BY <1>1, <2>2, <3>1 DEF Open, Lost, Believed
  <2>3. CASE m[1] = "slot"
    <3>1. m[2] \in Slot
      BY <2>3, MeasurementShape
    <3>2. BoxFile(box[m[2]])
      BY <1>1, <3>1 DEF FeedbackInv
    <3> QED
      BY <1>1, <2>3, <3>2 DEF Open, Lost, Believed, BoxFile
  <2> QED
    BY <2>1, <2>2, <2>3, MeasurementShape
<1>2. IInv => OneIsBelieved
  <2> SUFFICES ASSUME IInv, NEW p \in overlap PROVE \E m \in p : ~Believed(m)
    BY DEF OneIsBelieved
  <2>1. /\ p \subseteq Measurement /\ \E m, n \in p : m # n
        /\ (\A m \in p : Open(m)) \/ (\E m \in p : Lost(m))
    BY DEF IInv, HostInv
  <2> QED
    BY <1>1, <2>1
<1> QED
  BY <1>2, Invariance, PTL

=============================================================================
