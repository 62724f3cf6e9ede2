---------------------------- MODULE ReplayProofs ----------------------------
(***************************************************************************)
(* Theorems of module Replay, for any sets of cases and any amount of      *)
(* trouble.                                                                *)
(***************************************************************************)
EXTENDS Replay, TLAPS

\* The container as it is for one call: what there was of trouble that is not of docker's making
\* does not concern it.
Call == INSTANCE ContainerProofs WITH weather <- weather \cap {"docker", "foreign"}

\* Where the adapter, the scorer and the container are.
Place ==
  /\ stage \notin {"public", "opening", "withheld"} => caller = "idle" /\ scorer = "checks"
  /\ stage = "opening" => caller = "returned" /\ PublicPassed /\ summary = None
  /\ stopped => summary = None
  /\ Over => caller \in {"returned", "raised"} \/ (stopped /\ caller = "idle")
  /\ payload # "none" <=> scorer = "dead"
  /\ stage = "withheld" =>
       scorer \in {"checks", "load", "cases", "open", "fill", "exit", "hung", "dead"}

\* What the scorer has got to write and has written so far.
Files ==
  /\ scorer \in {"post", "open", "fill", "exit"} => report # None
  /\ scorer \notin {"post", "open", "fill", "exit", "dead"} => report = None
  /\ report # None =>
       report.status \in IF stage = "withheld" THEN {"setup_error", "pass", "fail", "baseline_invalid"}
                                               ELSE Failures \cup {"complete"}
  /\ scorer \notin {"fill", "exit", "dead"} => ResultFile = None
  /\ scorer = "fill" => ResultFile = Torn
  /\ scorer = "exit" => ResultFile = report
  /\ ResultFile \in {None, Torn, report}
  /\ stage # "withheld" => hiddenResult = None
  /\ stage \notin {"public", "opening", "withheld"} => publicResult = None
  /\ stage = "withheld" => publicResult \in Report /\ publicResult.status = "complete"
  /\ payload = "zero" => report # None /\ report.status \in {"complete", "pass"} /\ ResultFile = report

\* The cases of the scorer of this stage.
Batch == IF stage = "withheld" THEN Hidden ELSE Shared \cup Large

\* Every case has its entry once it has run, and a good status every entry.
Tested ==
  /\ todo \subseteq Batch
  /\ \A c \in Batch : entries[c] = "none" <=> c \in todo
  /\ stage # "withheld" /\ scorer \in {"checks", "build", "gpu", "load", "cases", "zero"} =>
       entries[Zero] = "none"
  /\ scorer \in {"zero", "bench"} => todo = {}
  /\ scorer = "bench" => \A c \in Public : entries[c] = "pass"
  /\ report # None /\ report.status = "complete" =>
       report.entries = entries /\ \A c \in Public : entries[c] = "pass"
  /\ report # None /\ report.status = "pass" => \A c \in Hidden : entries[c] \in {"none", "pass"}

Calm == conduct = {} /\ weather = {}

\* What a result file says has a reason in what the candidate and the machine have done.
Grounded(r) ==
  /\ r.status \in {"compile_failed", "candidate_load_failed"} => conduct # {}
  /\ r.status \in {"correctness_failed", "fail"} => conduct # {} \/ "gpu" \in weather \/ "baseline" \in weather
  /\ r.status = "environment_invalid" => "gpu" \in weather
  /\ r.status = "baseline_invalid" =>
       "leaks" \in conduct \/ "poisons" \in conduct \/ "gpu" \in weather \/ "baseline" \in weather
  /\ r.status = "complete" /\ ~r.quick => conduct # {} \/ ~r.quiet
  /\ r.status = "complete" /\ ~r.quiet => "noisy" \in conduct \/ "noise" \in weather
  /\ r.status \in Failures => ~Calm

\* So has everything else that is not as it should be ...
Reasoned ==
  /\ gpu = "poisoned" => "leaks" \in conduct \/ "poisons" \in conduct
  /\ scorer = "hung" => "hangs" \in conduct
  /\ caller = "term" \/ status = "timeout" => "hangs" \in conduct \/ "slow" \in weather
  /\ \A c \in Case :
       /\ entries[c] = "candidate" => conduct # {} \/ "gpu" \in weather
       /\ entries[c] = "aiter" => "baseline" \in weather
       /\ entries[c] = "error" => "leaks" \in conduct \/ "poisons" \in conduct \/ "gpu" \in weather
  /\ report # None => Grounded(report)
  /\ stage = "withheld" => Grounded(publicResult)
  /\ payload # "none" /\ Calm =>
       /\ ResultFile = report /\ report # None
       /\ payload = "zero" <=> report.status \in {"complete", "pass"}

\* ... as long as no scorer was run from what was edited behind the checks.
Reasons == altered = {} => Reasoned

\* And the reverse: whatever was not as it should be has left its mark.
Spoiled(r) == r.status \notin {"complete", "pass"} \/ (r.status = "complete" /\ ~(r.quick /\ r.quiet))

Blemished == ~(conduct \subseteq {"leaks"}) \/ ~(weather \subseteq {"foreign"} \cup Input)

MarkedScorer ==
  \/ scorer = "hung"
  \/ \E c \in IF stage = "withheld" THEN Hidden ELSE Public : entries[c] \notin {"none", "pass"}
  \/ report # None /\ Spoiled(report)

MarkedCall ==
  \/ exitCode = "nonzero" \/ request = "refused" \/ payload = "nonzero"
  \/ caller \in {"term", "raised"} \/ status = "timeout"

MarkedStage == stage = "withheld" /\ ~(publicResult.quick /\ publicResult.quiet)

Marks ==
  /\ exitCode = "zero" => request = "none"
  /\ altered = {} /\ Blemished => MarkedScorer \/ MarkedCall \/ MarkedStage

\* What is the matter with an edit that a check has seen: nothing is scored any more.
Caught ==
  \/ stopped
  \/ scorer = "dead" /\ report = None
  \/ report # None /\ report.status = "setup_error"

\* An edit that is not late is still to be seen or was seen, by checks that are as they were.
Sight ==
  /\ scorer = "post" => report.status # "setup_error"
  /\ altered \cap {"scorer", "image"} = {} => edited \ late \subseteq Ahead \/ Caught

IInv == TypeOK /\ Call!IInv /\ Place /\ Files /\ Tested /\ Reasons /\ Marks /\ Sight

-----------------------------------------------------------------------------
(* The steps of the replay, by who takes them. *)

\* The scorer at work: its container runs on, the adapter waits.
Work ==
  \/ Validate \/ Compile \/ ProbeGpu \/ Load
  \/ \E c \in Case : RunCase(c) \/ CaseRaises(c)
  \/ CasesDone \/ RunZero \/ Benchmark \/ OpenResult \/ FillResult
  \/ ScorerRaises \/ CandidateHangs \/ Misled

\* The end of the scorer.
End == ScorerExits \/ CandidateAborts \/ ScorerKilled \/ ManifestRefused

\* The container around it.
Around == Launch \/ Docker \/ Cleanup \/ Watchdog \/ Forwarded

\* The adapter before a stage and after it.
Adapter == Preparation \/ Verdict

LEMMA NextSteps == [Next]_vars => Work \/ End \/ Around \/ Adapter \/ Outside \/ UNCHANGED vars
BY DEF Next, ScorerStep, Disruption, Terminated, Work, End, Around, Adapter

\* The scorer at work leaves the adapter and the container alone, and its container runs.
LEMMA WorkFrame ==
  ASSUME Work
  PROVE  UNCHANGED <<replayVars, box, inputVars>> /\ own = "running"
BY DEF Work, Misled, Validate, Compile, ProbeGpu, Load, RunCase, CaseRaises, CasesDone, RunZero, Benchmark,
       OpenResult, FillResult, ScorerRaises, CandidateHangs, At

\* The scorer's trouble is of its own, and is added to what there was.
LEMMA WorkWeather ==
  ASSUME Work
  PROVE  weather' = weather \/ \E kind \in Kinds \ ({"docker", "foreign"} \cup Input) :
                                 weather' = weather \cup {kind}
BY DEF Work, Misled, Validate, Compile, ProbeGpu, Load, RunCase, CaseRaises, CasesDone, RunZero, Benchmark,
       OpenResult, FillResult, ScorerRaises, CandidateHangs, Innocent, Guilty, Trouble, Box!Trouble,
       Kinds, Input

\* The scorer of the withheld stage leaves the public result alone.
LEMMA WorkWithheld ==
  ASSUME Work, stage = "withheld"
  PROVE  UNCHANGED publicResult
BY DEF Work, Misled, Validate, Compile, ProbeGpu, Load, RunCase, CaseRaises, CasesDone, RunZero, Benchmark,
       OpenResult, FillResult, WriteTo, ScorerRaises, CandidateHangs, results

\* The inputs: who touches them, and that what a scorer was run from is not forgotten.
LEMMA InputFrame ==
  ASSUME TypeOK, [Next]_vars
  PROVE  /\ altered \subseteq altered'
         /\ weather \subseteq weather'
         /\ Work \/ End \/ Around => UNCHANGED inputVars
         /\ late' \subseteq edited' /\ edited' \subseteq Input \cap weather'
         /\ altered' \subseteq Input \cap weather'
<1>1. CASE Work
  BY <1>1, WorkFrame, WorkWeather DEF inputVars, TypeOK
<1>2. CASE End
  BY <1>2 DEF End, ScorerExits, CandidateAborts, ScorerKilled, ManifestRefused, Dies, Innocent, Guilty,
              Trouble, Box!Trouble, inputVars, TypeOK
<1>3. CASE Around
  <2>1. UNCHANGED inputVars
    BY <1>3 DEF Around, Launch, Docker, Cleanup, Watchdog, Forwarded, ScorerSide
  <2>2. weather \subseteq weather'
    BY <1>3 DEF Around, Launch, Docker, Cleanup, Watchdog, Forwarded, Innocent, Box!Trouble, Box!Launch,
         Box!Outside, Box!Client, Box!ClientCreates, Box!ClientStarts, Box!ClientRefused,
         Box!ClientReports, Box!ClientTerminated, Box!Daemon, Box!DaemonCreates, Box!DaemonStarts,
         Box!AutoRemoved, Box!Weather, Box!ClientLost, Box!DaemonFails, Box!ForeignTakesName,
         Box!ForeignLeaves, Box!DockerFails, Box!WaitReturns, Box!Term, Box!ReadCid, Box!Inspect,
         Box!Remove
  <2> QED
    BY <2>1, <2>2 DEF inputVars, TypeOK
<1>4. CASE Adapter
  <2>1. UNCHANGED weather /\ UNCHANGED edited /\ late' \subseteq late
        /\ (altered' = altered \/ altered' = altered \cup (edited \cap Exposed)')
    BY <1>4 DEF Adapter, Preparation, ValidateCheckouts, ValidatePrivateInputs, PrepareSnapshot,
                PublicCommand, Prepare, OpenWithheld, Refuse, Verdict, MissingResult, PublicFailure,
                PassPublic, WithheldInvalid, Aggregate, Contradiction, CleanupRaised, Write, Raise,
                inputVars
  <2>2. altered \subseteq altered' /\ altered' \subseteq altered \cup edited
    BY <2>1
  <2> QED
    BY <1>1, <1>2, <1>3, <2>1, <2>2 DEF TypeOK
<1>5. CASE Outside
  BY <1>1, <1>2, <1>3, <1>5 DEF Outside, Edit, Restore, Box!Trouble, TypeOK
<1>6. CASE UNCHANGED vars
  BY <1>6 DEF vars, inputVars, TypeOK
<1> QED
  BY <1>1, <1>2, <1>3, <1>4, <1>5, <1>6, NextSteps

-----------------------------------------------------------------------------
(* Types. *)

\* A result is one, whatever its outcome.
LEMMA ResultTypes ==
  ASSUME entries' \in [Case -> Entry], NEW quick \in BOOLEAN, NEW quiet \in BOOLEAN,
         NEW outcome \in Failures \cup {"complete", "pass", "fail", "baseline_invalid"}
  PROVE  Result(outcome, quick, quiet) \in Report
BY DEF Result, Report

\* The ways a scorer's handler ends give a result of the right type.
LEMMA FinishTypes ==
  ASSUME entries' \in [Case -> Entry], NEW outcome \in Failures \cup {"pass", "fail", "baseline_invalid"},
         Finish(outcome)
  PROVE  report' \in Report /\ scorer' = "open"
BY DEF Finish, Result, Report, Untested, Entry

LEMMA WorkTypes ==
  ASSUME TypeOK, Work
  PROVE  TypeOK'
<1>0. UNCHANGED inputVars /\ weather \subseteq weather'
  BY WorkFrame, WorkWeather
<1> USE <1>0 DEF TypeOK, inputVars
<1>1. UNCHANGED replayVars
  BY WorkFrame
<1>2. weather' \subseteq Kinds
  BY WorkWeather DEF Kinds
<1>3. CASE Validate
  BY <1>1, <1>2, <1>3, FinishTypes DEF Validate, results, replayVars, Innocent, Failures
<1>4. CASE Compile
  BY <1>1, <1>2, <1>4, FinishTypes DEF Compile, results, replayVars, Innocent, Guilty, Trouble, Failures
<1>5. CASE ProbeGpu
  BY <1>1, <1>2, <1>5, FinishTypes DEF ProbeGpu, results, replayVars, Innocent, Trouble, Failures
<1>6. CASE Load
  BY <1>1, <1>2, <1>6, FinishTypes DEF Load, results, replayVars, Innocent, Guilty, Trouble, Failures
<1>7. ASSUME NEW c \in Case, RunCase(c) PROVE TypeOK'
  BY <1>1, <1>2, <1>7 DEF RunCase, results, replayVars, Do, Deed, Entry
<1>8. ASSUME NEW c \in Case, CaseRaises(c) PROVE TypeOK'
  <2>1. entries' \in [Case -> Entry]
    BY <1>8 DEF CaseRaises, Entry
  <2> QED
    BY <1>1, <1>2, <1>8, <2>1, FinishTypes
       DEF CaseRaises, results, replayVars, Innocent, Trouble, Failures
<1>9. CASE CasesDone
  <2>1. CorrectnessStatus \in {"pass", "fail", "baseline_invalid"}
    BY DEF CorrectnessStatus
  <2> QED
    BY <1>1, <1>2, <1>9, <2>1, FinishTypes DEF CasesDone, results, replayVars, Innocent
<1>10. CASE RunZero
  <2>1. entries' \in [Case -> Entry]
    BY <1>10 DEF RunZero, Do, Deed, Entry
  <2>2. report' \in Report \cup {None} /\ scorer' \in {"bench", "post"}
    <3>1. Result("correctness_failed", FALSE, FALSE) \in Report
      BY <2>1, ResultTypes DEF Failures
    <3>2. \/ scorer' = "bench" /\ UNCHANGED report
          \/ scorer' = "post" /\ report' = Result("correctness_failed", FALSE, FALSE)
      BY <1>10 DEF RunZero
    <3> QED
      BY <3>1, <3>2
  <2>3. ASSUME NEW deed \in Deed, Do(deed)
        PROVE  gpu' \in {"ok", "poisoned"} /\ conduct' \subseteq conduct \cup {"leaks", "wrong", "poisons"}
    BY <2>3 DEF Do, Deed
  <2>4. gpu' \in {"ok", "poisoned"} /\ conduct' \subseteq conduct \cup {"leaks", "wrong", "poisons"}
    BY <1>10, <2>3 DEF RunZero, Innocent, Trouble
  <2>5. UNCHANGED <<todo, results>>
    BY <1>10 DEF RunZero
  <2> QED
    BY <1>1, <1>2, <2>1, <2>2, <2>4, <2>5 DEF results, replayVars
<1>11. CASE Benchmark
  <2>1. report' \in Report /\ scorer' \in {"post", "open"}
    <3>1. CASE Finish("setup_error")
      BY <1>11, <3>1, FinishTypes DEF Benchmark, Failures
    <3>2. CASE scorer' = "post" /\ \E quick, quiet \in BOOLEAN : report' = Result("complete", quick, quiet)
      BY <1>11, <3>2, ResultTypes DEF Benchmark
    <3> QED
      BY <1>11, <3>1, <3>2 DEF Benchmark
  <2> QED
    BY <1>1, <1>2, <1>11, <2>1 DEF Benchmark, results, replayVars, Innocent, Guilty, Trouble
<1>12. CASE OpenResult
  BY <1>1, <1>2, <1>12 DEF OpenResult, WriteTo, replayVars, Innocent
<1>13. CASE FillResult
  BY <1>1, <1>2, <1>13 DEF FillResult, WriteTo, replayVars, Innocent
<1>14. CASE ScorerRaises
  BY <1>1, <1>2, <1>14, FinishTypes DEF ScorerRaises, results, replayVars, Trouble, Failures
<1>15. CASE CandidateHangs
  BY <1>1, <1>2, <1>15 DEF CandidateHangs, results, replayVars, Guilty
<1>16. CASE Misled
  <2>1. CASE scorer' = "open" /\ todo' = {} /\ entries' = [c \in Case |-> "pass"]
    <3>1. entries' \in [Case -> Entry]
      BY <2>1 DEF Entry
    <3>2. PICK quick \in BOOLEAN, quiet \in BOOLEAN :
            report' = Result(IF stage = "withheld" THEN "pass" ELSE "complete", quick, quiet)
          \/ \E outcome \in Failures \cup {"fail", "baseline_invalid"} : Finish(outcome)
      BY <1>16 DEF Misled, Failures
    <3>3. report' \in Report
      BY <3>1, <3>2, ResultTypes, FinishTypes
    <3> QED
      BY <1>1, <1>2, <1>16, <2>1, <3>1, <3>3 DEF Misled, results, replayVars, Innocent
  <2>2. CASE UNCHANGED <<todo, entries>> /\ \E outcome \in Failures \cup {"fail", "baseline_invalid"} : Finish(outcome)
    BY <1>1, <1>2, <1>16, <2>2, FinishTypes DEF Misled, results, replayVars, Innocent
  <2> QED
    BY <1>16, <2>1, <2>2 DEF Misled, Failures
<1> QED
  BY <1>3, <1>4, <1>5, <1>6, <1>7, <1>8, <1>9, <1>10, <1>11, <1>12, <1>13, <1>14, <1>15, <1>16 DEF Work

LEMMA EndTypes ==
  ASSUME TypeOK, End
  PROVE  TypeOK'
BY DEF TypeOK, End, ScorerExits, CandidateAborts, ScorerKilled, ManifestRefused, Dies, Innocent, Guilty,
       Trouble, Box!Trouble, Kinds, replayVars, results, inputVars

LEMMA AroundTypes ==
  ASSUME TypeOK, Around
  PROVE  TypeOK'
<1>1. UNCHANGED <<replayVars, todo, entries, gpu, report, results, inputVars, conduct>>
      /\ scorer' \in {scorer, "dead"}
  BY DEF Around, Launch, Docker, Cleanup, Watchdog, Forwarded, ScorerSide, scorerVars, Innocent
<1>2. weather \subseteq weather' /\ weather' \subseteq weather \cup {"docker", "foreign", "slow"}
  BY DEF Around, Launch, Docker, Cleanup, Watchdog, Forwarded, Innocent, Box!Trouble, Box!Launch,
         Box!Outside, Box!Client, Box!ClientCreates, Box!ClientStarts, Box!ClientRefused,
         Box!ClientReports, Box!ClientTerminated, Box!Daemon, Box!DaemonCreates, Box!DaemonStarts,
         Box!AutoRemoved, Box!Weather, Box!ClientLost, Box!DaemonFails, Box!ForeignTakesName,
         Box!ForeignLeaves, Box!DockerFails, Box!WaitReturns, Box!Term, Box!ReadCid, Box!Inspect,
         Box!Remove
<1>3. weather' \subseteq Kinds
  BY <1>2 DEF TypeOK, Kinds
<1>4. edited \subseteq Input \cap weather' /\ altered \subseteq Input \cap weather'
  BY <1>2 DEF TypeOK
<1> QED
  BY <1>1, <1>3, <1>4 DEF TypeOK, replayVars, results, inputVars

LEMMA AdapterTypes ==
  ASSUME TypeOK, Adapter
  PROVE  TypeOK'
<1> USE DEF TypeOK
<1>1. CASE Preparation /\ ~OpenWithheld
  <2>1. CASE Refuse
    BY <2>1 DEF Refuse, scorerVars, results, inputVars
  <2>2. CASE ~Refuse
    <3>1. /\ UNCHANGED <<scored, summary, stopped, scorerVars, results, edited, late, conduct, weather>>
          /\ stage' \in {"inputs", "snapshot", "command", "public"}
          /\ altered' = altered \cup (edited \cap Exposed)'
      BY <1>1, <2>2 DEF Preparation, ValidateCheckouts, ValidatePrivateInputs, PrepareSnapshot,
                        PublicCommand, Prepare
    <3>2. altered' \subseteq Input \cap weather
      BY <3>1
    <3> QED
      BY <3>1, <3>2 DEF scorerVars, results
  <2> QED
    BY <2>1, <2>2
<1>2. CASE PassPublic
  BY <1>2 DEF PassPublic, scorerVars, results
<1>3. ASSUME NEW outcome, NEW valid, NEW retry, NEW parity, NEW withheld,
             [status |-> outcome, valid |-> valid, retry |-> retry, parity |-> parity,
              withheld |-> withheld] \in Summary,
             Write(outcome, valid, retry, parity, withheld)
      PROVE  TypeOK'
  BY <1>3 DEF Write, scorerVars, results, inputVars
<1>4. ASSUME Raise PROVE TypeOK'
  BY <1>4 DEF Raise, scorerVars, results, inputVars
<1>5. CASE MissingResult
  BY <1>3, <1>4, <1>5 DEF MissingResult, Summary
<1>6. CASE PublicFailure
  <2> USE <1>6 DEF PublicFailure
  <2>1. CASE ~scored
    BY <2>1, <1>3 DEF Summary
  <2>2. CASE scored /\ publicResult.status = "environment_invalid"
    BY <2>2, <1>3 DEF Summary
  <2>3. CASE scored /\ publicResult.status # "environment_invalid" /\ publicResult.status \in Ambiguous
    BY <2>3, <1>3 DEF Summary
  <2>4. CASE scored /\ publicResult.status # "environment_invalid" /\ publicResult.status \notin Ambiguous
    BY <2>4, <1>3 DEF Summary
  <2> QED
    BY <2>1, <2>2, <2>3, <2>4
<1>7. CASE OpenWithheld
  <2>1. altered' \subseteq Input \cap weather
    BY <1>7 DEF OpenWithheld
  <2> QED
    BY <1>7, <2>1 DEF OpenWithheld, Untested, Entry, Case, results
<1>8. CASE WithheldInvalid
  BY <1>3, <1>8 DEF WithheldInvalid, Summary
<1>9. CASE Aggregate
  BY <1>3, <1>9 DEF Aggregate, Summary
<1>10. CASE Contradiction \/ CleanupRaised
  BY <1>4, <1>10 DEF Contradiction, CleanupRaised
<1> QED
  BY <1>1, <1>2, <1>5, <1>6, <1>7, <1>8, <1>9, <1>10 DEF Adapter, Verdict

LEMMA OutsideTypes ==
  ASSUME TypeOK, Outside
  PROVE  TypeOK'
<1>1. UNCHANGED <<replayVars, scorerVars, results, conduct>>
  BY DEF Outside, Edit, Restore
<1>2. weather \subseteq weather' /\ weather' \subseteq Kinds
  BY DEF Outside, Edit, Restore, Box!Trouble, TypeOK, Kinds
<1>3. late' \subseteq edited' /\ edited' \subseteq Input \cap weather' /\ altered' \subseteq Input \cap weather'
  BY DEF Outside, Edit, Restore, Box!Trouble, TypeOK
<1> QED
  BY <1>1, <1>2, <1>3 DEF TypeOK, replayVars, scorerVars, results

\* Every variable of the replay has its type, whatever the sets of cases are.
THEOREM TypeCorrect == Spec => []TypeOK
<1>1. Init => TypeOK
  BY DEF Init, TypeOK, Untested, Entry, Case, Public, Hidden, Box!Init
<1>2. TypeOK /\ [Next]_vars => TypeOK'
  <2>1. TypeOK /\ UNCHANGED vars => TypeOK'
    BY DEF TypeOK, vars, replayVars, scorerVars, results, inputVars
  <2> QED
    BY <2>1, NextSteps, WorkTypes, EndTypes, AroundTypes, AdapterTypes, OutsideTypes
<1> QED
  BY <1>1, <1>2, PTL DEF Spec

-----------------------------------------------------------------------------
(* The call: what ContainerProofs establishes of a container on its own holds of the one of each
   stage. *)

LEMMA CallClient ==
  ASSUME Call!IInv, Box!Client \/ Box!ClientLost \/ Box!ClientTerminated
  PROVE  Call!IInv'
<1> USE DEF Call!IInv, Call!TypeOK, Call!Code, Call!Asked, Call!Served, Call!Reported, Call!Cleaned,
            Call!Fresh, Box!callerVars, Box!clientVars, Box!daemonVars
<1>1. CASE Box!ClientCreates
  BY <1>1 DEF Box!ClientCreates
<1>2. CASE Box!ClientStarts
  BY <1>2 DEF Box!ClientStarts
<1>3. CASE Box!ClientRefused
  BY <1>3 DEF Box!ClientRefused
<1>4. CASE Box!ClientReports
  BY <1>4 DEF Box!ClientReports
<1>5. CASE Box!ClientLost
  BY <1>5 DEF Box!ClientLost, Box!Trouble
<1>6. CASE Box!ClientTerminated
  BY <1>6 DEF Box!ClientTerminated
<1> QED
  BY <1>1, <1>2, <1>3, <1>4, <1>5, <1>6 DEF Box!Client

LEMMA CallDaemon ==
  ASSUME Call!IInv,
         Box!Daemon \/ Box!DaemonFails \/ Box!ForeignTakesName \/ Box!ForeignLeaves
  PROVE  Call!IInv'
<1> USE DEF Call!IInv, Call!TypeOK, Call!Code, Call!Asked, Call!Served, Call!Reported, Call!Cleaned,
            Call!Fresh, Box!callerVars, Box!clientVars, Box!daemonVars
<1>1. CASE Box!DaemonCreates
  BY <1>1 DEF Box!DaemonCreates
<1>2. CASE Box!DaemonStarts
  BY <1>2 DEF Box!DaemonStarts
<1>3. CASE Box!DaemonFails
  BY <1>3 DEF Box!DaemonFails, Box!Trouble
<1>4. CASE Box!AutoRemoved
  BY <1>4 DEF Box!AutoRemoved
<1>5. CASE Box!ForeignTakesName
  BY <1>5 DEF Box!ForeignTakesName, Box!Trouble, Box!Present
<1>6. CASE Box!ForeignLeaves
  <2>1. foreign' \in BOOLEAN /\ ~foreign'
    BY <1>6 DEF Box!ForeignLeaves
  <2>2. UNCHANGED <<caller, status, target, client, exitCode, cidfile, request, own, payload, weather>>
    BY <1>6 DEF Box!ForeignLeaves
  <2> QED
    BY <2>1, <2>2
<1> QED
  BY <1>1, <1>2, <1>3, <1>4, <1>5, <1>6 DEF Box!Daemon

\* The scorer ends, whether of its own accord or because of trouble elsewhere.
LEMMA CallPayload ==
  ASSUME Call!IInv, NEW code \in {"zero", "nonzero"}, Box!PayloadEnds(code),
         UNCHANGED (weather \cap {"docker", "foreign"})
  PROVE  Call!IInv'
BY DEF Call!IInv, Call!TypeOK, Call!Code, Call!Asked, Call!Served, Call!Reported, Call!Cleaned,
       Call!Fresh, Box!callerVars, Box!clientVars, Box!daemonVars, Box!PayloadEnds

LEMMA CallCaller ==
  ASSUME Call!IInv,
         \/ Box!Launch \/ Box!WaitReturns \/ Box!Term \/ Box!ReadCid \/ Box!Inspect \/ Box!Remove
         \/ Box!DockerFails
         \/ Box!WatchdogFires /\ UNCHANGED (weather \cap {"docker", "foreign"})
  PROVE  Call!IInv'
<1> USE DEF Call!IInv, Call!TypeOK, Call!Code, Call!Asked, Call!Served, Call!Reported, Call!Cleaned,
            Call!Fresh, Box!callerVars, Box!clientVars, Box!daemonVars
<1>1. CASE Box!Launch
  BY <1>1 DEF Box!Launch, Box!Outside
<1>2. CASE Box!WaitReturns
  BY <1>2 DEF Box!WaitReturns, Box!Outside
<1>3. CASE Box!WatchdogFires /\ UNCHANGED (weather \cap {"docker", "foreign"})
  BY <1>3 DEF Box!WatchdogFires
<1>4. CASE Box!Term
  BY <1>4 DEF Box!Term, Box!Outside
<1>5. CASE Box!ReadCid
  BY <1>5 DEF Box!ReadCid, Box!Outside
<1>6. CASE Box!Inspect
  BY <1>6 DEF Box!Inspect, Box!Named, Box!Present, Box!Outside
<1>7. CASE Box!Remove
  BY <1>7 DEF Box!Remove, Box!Named, Box!Present
<1>8. CASE Box!DockerFails
  BY <1>8 DEF Box!DockerFails, Box!Trouble
<1> QED
  BY <1>1, <1>2, <1>3, <1>4, <1>5, <1>6, <1>7, <1>8

LEMMA CallUnchanged ==
  ASSUME Call!IInv, UNCHANGED box, UNCHANGED (weather \cap {"docker", "foreign"})
  PROVE  Call!IInv'
BY DEF Call!IInv, Call!TypeOK, Call!Code, Call!Asked, Call!Served, Call!Reported, Call!Cleaned,
       Call!Fresh, box

LEMMA CallOpens ==
  ASSUME Call!IInv, OpenWithheld
  PROVE  Call!IInv'
BY DEF OpenWithheld, Call!IInv, Call!TypeOK, Call!Code, Call!Asked, Call!Served, Call!Reported,
       Call!Cleaned, Call!Fresh

LEMMA CallStep ==
  ASSUME Call!IInv, [Next]_vars
  PROVE  Call!IInv'
<1>1. ASSUME NEW kind \in Kinds \ {"docker", "foreign"}, weather' = weather \cup {kind}
      PROVE  UNCHANGED (weather \cap {"docker", "foreign"})
  BY <1>1
<1>2. CASE Work
  BY <1>1, <1>2, WorkFrame, WorkWeather, CallUnchanged
<1>3. CASE End
  <2>1. \E code \in {"zero", "nonzero"} : Box!PayloadEnds(code)
    BY <1>3 DEF End, ScorerExits, CandidateAborts, ScorerKilled, ManifestRefused, Dies
  <2>2. weather' = weather \/ weather' = weather \cup {"killed"}
    BY <1>3 DEF End, ScorerExits, CandidateAborts, ScorerKilled, ManifestRefused, Innocent, Guilty,
                Trouble, Box!Trouble
  <2> QED
    BY <1>1, <2>1, <2>2, CallPayload DEF Kinds
<1>4. CASE Around
  <2>1. CASE Launch \/ Cleanup
    BY <2>1, CallCaller DEF Launch, Cleanup
  <2>2. CASE Docker
    BY <2>2, CallClient, CallDaemon, CallCaller DEF Docker, Box!Weather
  <2>3. CASE Watchdog
    BY <2>3, <1>1, CallCaller DEF Watchdog, Box!Trouble, Kinds
  <2>4. CASE Forwarded
    BY <2>4, CallPayload DEF Forwarded, Box!Forwarded, Innocent
  <2> QED
    BY <1>4, <2>1, <2>2, <2>3, <2>4 DEF Around
<1>5. CASE Adapter
  <2>1. CASE OpenWithheld
    BY <2>1, CallOpens
  <2>2. CASE Preparation /\ ~OpenWithheld
    BY <2>2, CallUnchanged
       DEF Preparation, ValidateCheckouts, ValidatePrivateInputs, PrepareSnapshot, PublicCommand,
           Prepare, Refuse
  <2>3. CASE Verdict
    <3>1. UNCHANGED <<box, weather>>
      BY <2>3 DEF Verdict, MissingResult, PublicFailure, PassPublic, WithheldInvalid, Aggregate,
                  Contradiction, CleanupRaised, Write, Raise
    <3> QED
      BY <3>1, CallUnchanged
  <2> QED
    BY <1>5, <2>1, <2>2, <2>3 DEF Adapter
<1>6. CASE Outside
  <2>1. UNCHANGED box
    BY <1>6 DEF Outside, Edit, Restore
  <2>2. UNCHANGED (weather \cap {"docker", "foreign"})
    BY <1>6 DEF Outside, Edit, Restore, Box!Trouble, Input
  <2> QED
    BY <2>1, <2>2, CallUnchanged
<1>7. CASE UNCHANGED vars
  BY <1>7, CallUnchanged DEF vars
<1> QED
  BY <1>2, <1>3, <1>4, <1>5, <1>6, <1>7, NextSteps

-----------------------------------------------------------------------------
(* Where everybody is. *)

\* While the scorer works, the adapter has launched its container and decided nothing yet.
LEMMA Working ==
  ASSUME Call!IInv, Place, own = "running"
  PROVE  /\ stage \in {"public", "withheld"} /\ caller # "idle" /\ payload = "none"
         /\ scorer # "dead"
BY DEF Call!IInv, Call!TypeOK, Call!Asked, Call!Served, Call!Reported, Call!Fresh, Place, PublicPassed

\* A scorer that works goes on to a place of its stage.
LEMMA WorkPlaces ==
  ASSUME Work, stage = "withheld" => scorer \in {"checks", "load", "cases", "open", "fill", "exit", "hung", "dead"}
  PROVE  /\ scorer' # "dead"
         /\ stage = "withheld" => scorer' \in {"checks", "load", "cases", "open", "fill", "exit", "hung", "dead"}
<1> USE DEF At
<1>1. CASE Validate \/ Compile \/ ProbeGpu \/ Load
  BY <1>1 DEF Validate, Compile, ProbeGpu, Load, Finish
<1>2. ASSUME NEW c \in Case, RunCase(c) \/ CaseRaises(c)
      PROVE  scorer' \in {scorer, "open"} /\ scorer = "cases"
  BY <1>2 DEF RunCase, CaseRaises, Finish
<1>3. CASE CasesDone \/ RunZero \/ Benchmark
  BY <1>3 DEF CasesDone, RunZero, Benchmark, Finish
<1>4. CASE OpenResult \/ FillResult \/ ScorerRaises \/ CandidateHangs \/ Misled
  BY <1>4 DEF OpenResult, FillResult, ScorerRaises, CandidateHangs, Misled, Finish
<1> QED
  BY <1>1, <1>2, <1>3, <1>4 DEF Work

\* A scorer ends with the code of its report, or for a reason.
LEMMA EndFrame ==
  ASSUME End
  PROVE  /\ UNCHANGED <<replayVars, todo, entries, gpu, report, results, inputVars>>
         /\ UNCHANGED <<caller, status, target, client, exitCode, cidfile, request, foreign>>
         /\ own = "running" /\ scorer \notin {"hung", "dead"} /\ scorer' = "dead"
         /\ \/ /\ scorer = "exit" /\ UNCHANGED <<conduct, weather>>
               /\ payload' = IF report.status \in {"complete", "pass"} THEN "zero" ELSE "nonzero"
            \/ payload' = "nonzero" /\ conduct' = conduct \cup {"aborts"} /\ UNCHANGED weather
            \/ payload' = "nonzero" /\ UNCHANGED conduct /\ weather' = weather \cup {"killed"}
            \/ payload' = "nonzero" /\ UNCHANGED <<conduct, weather>> /\ edited # {}
BY DEF End, ScorerExits, CandidateAborts, ScorerKilled, ManifestRefused, Dies, Running, Innocent, Guilty, Trouble,
       Box!Trouble, Box!PayloadEnds, Box!callerVars, Box!clientVars

\* The container around the scorer takes nothing from it but its life.
LEMMA AroundFrame ==
  ASSUME Around
  PROVE  /\ UNCHANGED <<replayVars, todo, entries, gpu, report, results, inputVars, conduct>>
         /\ \/ UNCHANGED <<scorer, payload>>
            \/ /\ scorer' = "dead" /\ payload' = "nonzero" /\ own = "running"
               /\ caller = "term" /\ UNCHANGED <<caller, weather>>
         /\ weather' = weather \/ \E kind \in {"docker", "foreign", "slow"} :
                                    weather' = weather \cup {kind}
BY DEF Around, Launch, Docker, Cleanup, Watchdog, Forwarded, ScorerSide, scorerVars, Innocent,
       Box!Trouble, Box!callerVars, Box!clientVars, Box!daemonVars, Box!Outside,
       Box!Launch, Box!Client, Box!ClientCreates, Box!ClientStarts, Box!ClientRefused,
       Box!ClientReports, Box!ClientTerminated, Box!Daemon, Box!DaemonCreates, Box!DaemonStarts,
       Box!AutoRemoved, Box!Weather, Box!ClientLost, Box!DaemonFails, Box!ForeignTakesName,
       Box!ForeignLeaves, Box!DockerFails, Box!WaitReturns, Box!Term, Box!ReadCid, Box!Inspect,
       Box!Remove, Box!WatchdogFires, Box!Forwarded, Box!PayloadEnds

\* The adapter's way through a call.
LEMMA AroundCaller ==
  ASSUME Around
  PROVE  /\ caller' = "idle" => caller = "idle"
         /\ caller = "idle" => \/ caller' = "idle"
                               \/ stage \in {"public", "withheld"} /\ ~stopped
         /\ caller \in {"returned", "raised"} => caller' = caller
         /\ caller' = "term" => caller = "term" \/ scorer = "hung" \/ "slow" \in weather'
         /\ status' = "timeout" => status = "timeout" \/ caller = "term"
         /\ status' # status => caller \in {"wait", "term"}
         /\ caller = "raised" => caller' = "raised"
         /\ caller = "term" => caller' = "term" \/ status' = "timeout"
BY DEF Around, Launch, Docker, Cleanup, Watchdog, Forwarded, ScorerSide, scorerVars,
       Box!Trouble, Box!callerVars, Box!clientVars, Box!daemonVars, Box!Outside,
       Box!Launch, Box!Client, Box!ClientCreates, Box!ClientStarts, Box!ClientRefused,
       Box!ClientReports, Box!ClientTerminated, Box!Daemon, Box!DaemonCreates, Box!DaemonStarts,
       Box!AutoRemoved, Box!Weather, Box!ClientLost, Box!DaemonFails, Box!ForeignTakesName,
       Box!ForeignLeaves, Box!DockerFails, Box!WaitReturns, Box!Term, Box!ReadCid, Box!Inspect,
       Box!Remove, Box!WatchdogFires, Box!Forwarded, Box!PayloadEnds

\* Before and after a stage the adapter touches nothing of what the scorer has left.
LEMMA AdapterFrame ==
  ASSUME Adapter, ~OpenWithheld
  PROVE  UNCHANGED <<scored, scorerVars, results, conduct, box, weather, edited>>
BY DEF Adapter, Preparation, ValidateCheckouts, ValidatePrivateInputs, PrepareSnapshot,
       PublicCommand, Prepare, Refuse, Verdict, MissingResult, PublicFailure, PassPublic,
       WithheldInvalid, Aggregate, Contradiction, CleanupRaised, Write, Raise, replayVars, inputVars

\* And it goes from stage to stage.
LEMMA AdapterStage ==
  ASSUME TypeOK, Adapter, ~OpenWithheld
  PROVE  /\ stage' = "withheld" <=> stage = "withheld"
         /\ stage' \notin {"public", "opening", "withheld"} =>
              stage \notin {"public", "opening", "withheld"}
<1>1. CASE Preparation
  BY <1>1 DEF Preparation, ValidateCheckouts, ValidatePrivateInputs, PrepareSnapshot, PublicCommand,
              Prepare, Refuse
<1>2. CASE PassPublic
  BY <1>2 DEF PassPublic, Returned
<1>3. CASE Verdict /\ ~PassPublic
  <2>1. UNCHANGED stage
    BY <1>3 DEF Verdict, MissingResult, PublicFailure, WithheldInvalid, Aggregate, Contradiction,
                CleanupRaised, Write, Raise
  <2> QED
    BY <2>1
<1> QED
  BY <1>1, <1>2, <1>3 DEF Adapter

\* An edit touches nothing but the inputs.
LEMMA OutsideFrame ==
  ASSUME Outside
  PROVE  /\ UNCHANGED <<replayVars, scorerVars, results, conduct, box>> /\ ~Over
         /\ weather' = weather \/ \E input \in Input : weather' = weather \cup {input}
BY DEF Outside, Edit, Restore, Box!Trouble, Over

LEMMA PlaceStep ==
  ASSUME TypeOK, Call!IInv, Place, [Next]_vars
  PROVE  Place'
<1> USE DEF Place, Over
<1>1. CASE Work
  <2>1. UNCHANGED <<stage, summary, stopped, caller, payload>> /\ stage # "opening"
    BY <1>1, WorkFrame, Working DEF replayVars, box
  <2> QED
    BY <1>1, <2>1, Working, WorkFrame, WorkPlaces
<1>2. CASE End
  BY <1>2, Working, EndFrame DEF replayVars
<1>3. CASE Around
  <2>1. UNCHANGED <<stage, summary, stopped>>
        /\ (stage = "opening" => UNCHANGED <<caller, status, publicResult>>)
    BY <1>3, AroundFrame, AroundCaller DEF replayVars, results
  <2>2. stage = "opening" => PublicPassed'
    BY <2>1 DEF PublicPassed
  <2> QED
    BY <1>3, <2>1, <2>2, Working, AroundFrame, AroundCaller DEF TypeOK
<1>4. CASE OpenWithheld
  BY <1>4 DEF OpenWithheld
<1>5. CASE Preparation /\ ~OpenWithheld
  <2>1. CASE Refuse
    BY <2>1 DEF Refuse, Preparing, Rereads, PublicPassed, scorerVars, results, box, TypeOK
  <2>2. CASE ~Refuse
    BY <1>5, <2>2 DEF Preparation, ValidateCheckouts, ValidatePrivateInputs, PrepareSnapshot,
                      PublicCommand, Prepare, scorerVars, box, TypeOK
  <2> QED
    BY <2>1, <2>2
<1>6. CASE PassPublic
  BY <1>6 DEF PassPublic, Returned, PublicPassed, scorerVars, results, box
<1>7. CASE Verdict /\ ~PassPublic
  BY <1>7 DEF Verdict, MissingResult, PublicFailure, WithheldInvalid, Aggregate, Contradiction,
              CleanupRaised, Write, Raise, Returned, PublicPassed, scorerVars, results, box, TypeOK, Summary
<1>8. CASE Outside
  BY <1>8, OutsideFrame DEF PublicPassed, replayVars, scorerVars, results, box
<1>9. CASE UNCHANGED vars
  BY <1>9 DEF PublicPassed, vars, replayVars, scorerVars, results, box
<1> QED
  BY <1>1, <1>2, <1>3, <1>4, <1>5, <1>6, <1>7, <1>8, <1>9, NextSteps DEF Adapter

-----------------------------------------------------------------------------
(* What the scorer writes. *)

\* A handler's result: its outcome, and nothing in it to be timed.
LEMMA FinishResult ==
  ASSUME entries' \in [Case -> Entry], NEW outcome \in Failures \cup {"pass", "fail", "baseline_invalid"},
         Finish(outcome)
  PROVE  /\ scorer' = "open" /\ report' # None
         /\ report'.status = outcome /\ ~report'.quick /\ ~report'.quiet
<1>1. report' # None
  BY FinishTypes, FileAssumption
<1> QED
  BY <1>1 DEF Finish, Result

\* Where a scorer is before it has something to write.
Early == {"checks", "build", "gpu", "load", "cases", "zero", "bench", "hung"}

LEMMA WorkFiles ==
  ASSUME TypeOK, TypeOK', Call!IInv, Place, Files, Work
  PROVE  Files'
<1>1. UNCHANGED <<stage, payload>> /\ stage \in {"public", "withheld"} /\ payload = "none"
  BY WorkFrame, Working DEF replayVars, box
<1>2. ASSUME scorer \in Early, UNCHANGED <<report, results>>, scorer' \in Early PROVE Files'
  BY <1>1, <1>2 DEF Files, ResultFile, results, Early
<1>3. ASSUME NEW outcome \in Failures \cup {"pass", "fail", "baseline_invalid"}, Finish(outcome),
             scorer \in Early \cup {"post"}, UNCHANGED results,
             outcome \in IF stage = "withheld" THEN {"setup_error", "pass", "fail", "baseline_invalid"}
                         ELSE Failures
      PROVE  Files'
  <2>1. scorer' = "open" /\ report' # None /\ report'.status = outcome
    BY <1>3, FinishResult DEF TypeOK
  <2>2. ResultFile = None
    BY <1>3 DEF Files, Early
  <2> QED
    BY <1>1, <1>3, <2>1, <2>2 DEF Files, ResultFile, results
<1> USE DEF At
<1>4. CASE CandidateHangs
  BY <1>1, <1>2, <1>4 DEF CandidateHangs, Files, Early
<1>16. CASE Validate
  <2>1. CASE Finish("setup_error")
    BY <1>1, <1>3, <1>16, <2>1 DEF Validate, Failures, Early
  <2>2. CASE ~Finish("setup_error")
    BY <1>1, <1>2, <1>16, <2>2 DEF Validate, Early
  <2> QED
    BY <2>1, <2>2
<1>17. CASE Misled
  <2>1. scorer \in Early \cup {"post"} /\ UNCHANGED results
    BY <1>17 DEF Misled, Early
  <2>2. CASE \E outcome \in IF stage = "withheld" THEN {"fail", "baseline_invalid", "setup_error"}
                                              ELSE Failures : Finish(outcome)
    BY <1>3, <2>1, <2>2 DEF Failures
  <2>3. CASE scorer' = "open" /\ entries' = [c \in Case |-> "pass"]
             /\ \E quick, quiet \in BOOLEAN :
                  report' = Result(IF stage = "withheld" THEN "pass" ELSE "complete", quick, quiet)
    <3>1. entries' \in [Case -> Entry]
      BY <2>3 DEF Entry
    <3>2. /\ report'.status = IF stage = "withheld" THEN "pass" ELSE "complete"
          /\ report' # None
      BY <2>3, <3>1, ResultTypes, FileAssumption DEF Result
    <3>3. ResultFile = None
      BY <2>1 DEF Files, Early
    <3> QED
      BY <1>1, <2>1, <2>3, <3>2, <3>3 DEF Files, ResultFile, results
  <2> QED
    BY <1>17, <2>2, <2>3 DEF Misled
<1>5. CASE Compile
  BY <1>1, <1>2, <1>3, <1>5 DEF Compile, Failures, Early, Place
<1>6. CASE ProbeGpu
  <2>1. CASE ~Finish("environment_invalid")
    BY <1>1, <1>6, <2>1 DEF ProbeGpu, Files, ResultFile, results, Place
  <2>2. CASE Finish("environment_invalid")
    BY <1>1, <1>3, <1>6, <2>2 DEF ProbeGpu, Failures, Early, Place
  <2> QED
    BY <1>6, <2>1, <2>2 DEF ProbeGpu
<1>7. CASE Load
  BY <1>1, <1>2, <1>3, <1>7 DEF Load, Failures, Early
<1>8. ASSUME NEW c \in Case, RunCase(c) PROVE Files'
  BY <1>2, <1>8 DEF RunCase, Early
<1>9. ASSUME NEW c \in Case, CaseRaises(c) PROVE Files'
  BY <1>1, <1>2, <1>3, <1>9 DEF CaseRaises, Early, Failures
<1>10. CASE CasesDone
  <2>1. CorrectnessStatus \in {"pass", "fail", "baseline_invalid"}
    BY DEF CorrectnessStatus
  <2> QED
    BY <1>1, <1>2, <1>3, <1>10, <2>1 DEF CasesDone, Early
<1>11. CASE RunZero
  <2>1. CASE scorer' = "bench" /\ UNCHANGED report
    BY <1>2, <1>11, <2>1 DEF RunZero, Early
  <2>2. CASE scorer' = "post" /\ report' = Result("correctness_failed", FALSE, FALSE)
    <3>1. report'.status = "correctness_failed" /\ report' # None
      BY <2>2, ResultTypes, FileAssumption DEF Result, TypeOK, Failures
    <3> QED
      BY <1>1, <1>11, <2>2, <3>1, FileAssumption DEF RunZero, Files, ResultFile, results, Failures, Place
  <2> QED
    BY <1>11, <2>1, <2>2 DEF RunZero
<1>12. CASE Benchmark
  <2>1. CASE scorer' = "post"
    <3>1. \E quick, quiet \in BOOLEAN : report' = Result("complete", quick, quiet)
      BY <1>12, <2>1 DEF Benchmark, Finish
    <3>2. report'.status = "complete" /\ report' # None
      BY <3>1, ResultTypes, FileAssumption DEF Result, TypeOK
    <3> QED
      BY <1>1, <1>12, <2>1, <3>2, FileAssumption DEF Benchmark, Files, ResultFile, results, Place
  <2>2. CASE scorer' # "post"
    BY <1>1, <1>3, <1>12, <2>2 DEF Benchmark, Failures, Early, Place
  <2> QED
    BY <2>1, <2>2
<1>13. CASE OpenResult
  BY <1>1, <1>13 DEF OpenResult, WriteTo, Files, ResultFile
<1>14. CASE FillResult
  BY <1>1, <1>14 DEF FillResult, WriteTo, Files, ResultFile
<1>15. CASE ScorerRaises
  BY <1>1, <1>3, <1>15 DEF ScorerRaises, Failures, Early
<1> QED
  BY <1>4, <1>5, <1>6, <1>7, <1>8, <1>9, <1>10, <1>11, <1>12, <1>13, <1>14, <1>15, <1>16, <1>17 DEF Work

\* A scorer whose call completed has written what it found.
LEMMA Completed ==
  ASSUME TypeOK, Call!IInv, Files, status = "completed"
  PROVE  /\ payload = "zero" /\ own = "gone" /\ exitCode = "zero"
         /\ ResultFile = report /\ report \in Report /\ report.status \in {"complete", "pass"}
BY DEF TypeOK, Call!IInv, Call!TypeOK, Call!Reported, Files

LEMMA FilesStep ==
  ASSUME TypeOK, TypeOK', Call!IInv, Place, Files, Reasons, [Next]_vars
  PROVE  Files'
<1>1. CASE Work
  BY <1>1, WorkFiles
<1>2. CASE End
  BY <1>2, EndFrame DEF Files, ResultFile, replayVars, results
<1>3. CASE Around
  BY <1>3, AroundFrame, Working DEF Files, ResultFile, replayVars, results
<1>4. CASE OpenWithheld
  <2>1. stage = "opening" /\ status = "completed" /\ publicResult.status = "complete"
    BY <1>4 DEF OpenWithheld, Place, PublicPassed
  <2>2. publicResult \in Report
    BY <2>1, Completed DEF ResultFile
  <2> QED
    BY <1>4, <2>1, <2>2, FileAssumption DEF OpenWithheld, Files, ResultFile, results
<1>5. CASE Adapter /\ ~OpenWithheld
  <2>1. ResultFile' = ResultFile
    BY <1>5, AdapterFrame, AdapterStage DEF Files, ResultFile, results, Place, scorerVars
  <2> QED
    BY <1>5, <2>1, AdapterFrame, AdapterStage DEF Files, scorerVars, results, box
<1>6. CASE Outside
  BY <1>6, OutsideFrame DEF Files, ResultFile, replayVars, scorerVars, results, box
<1>7. CASE UNCHANGED vars
  BY <1>7 DEF Files, ResultFile, vars, replayVars, scorerVars, results, box
<1> QED
  BY <1>1, <1>2, <1>3, <1>4, <1>5, <1>6, <1>7, NextSteps

-----------------------------------------------------------------------------
(* The cases. *)

\* Untested places, where the case default_stream_zero has no entry yet.
LEMMA TestedKept ==
  ASSUME TypeOK, Tested, UNCHANGED <<stage, todo, entries>>,
         scorer' \in {"checks", "build", "gpu", "load", "cases", "zero"} =>
           scorer \in {"checks", "build", "gpu", "load", "cases", "zero"},
         scorer' = "zero" => scorer = "zero" \/ todo = {},
         scorer' = "bench" => scorer = "bench",
         report' # None => report' = report \/ report'.status \notin {"complete", "pass"}
  PROVE  Tested'
BY DEF Tested, Batch

LEMMA WorkTested ==
  ASSUME TypeOK, Call!IInv, Place, Files, Tested, Work
  PROVE  Tested'
<1>1. UNCHANGED stage /\ stage \in {"public", "withheld"}
  BY WorkFrame, Working DEF replayVars
<1>2. todo \subseteq Case /\ Zero \in Case /\ Zero \notin Batch
  BY ReplayAssumption DEF TypeOK, Case, Public, Hidden, Batch
<1>3. ASSUME NEW outcome \in Failures \cup {"fail", "baseline_invalid"}, Finish(outcome),
             UNCHANGED <<todo, entries>>
      PROVE  Tested'
  <2>1. entries' \in [Case -> Entry]
    BY <1>3 DEF TypeOK
  <2> QED
    BY <1>1, <1>3, <2>1, TestedKept, FinishResult DEF Failures
<1> USE DEF At
<1>4. CASE CandidateHangs \/ OpenResult \/ FillResult
  BY <1>1, <1>4, TestedKept DEF CandidateHangs, OpenResult, FillResult
<1>15. CASE Validate
  BY <1>1, <1>3, <1>15, TestedKept DEF Validate, Failures
<1>16. CASE Misled
  <2>1. CASE UNCHANGED <<todo, entries>> /\ \E outcome \in Failures \cup {"fail", "baseline_invalid"} : Finish(outcome)
    BY <1>3, <2>1
  <2>2. CASE scorer' = "open" /\ todo' = {} /\ entries' = [c \in Case |-> "pass"]
             /\ \E quick, quiet \in BOOLEAN :
                  report' = Result(IF stage = "withheld" THEN "pass" ELSE "complete", quick, quiet)
    <3>1. \A c \in Case : entries'[c] = "pass"
      BY <2>2
    <3>2. report'.entries = entries' /\ report'.status = IF stage = "withheld" THEN "pass" ELSE "complete"
      BY <2>2 DEF Result
    <3>3. Batch' \subseteq Case /\ Public \subseteq Case /\ Hidden \subseteq Case
      BY DEF Batch, Case, Public, Hidden
    <3> QED
      BY <1>1, <2>2, <3>1, <3>2, <3>3 DEF Tested
  <2> QED
    BY <1>16, <2>1, <2>2 DEF Misled, Failures
<1>5. CASE Compile
  BY <1>1, <1>3, <1>5, TestedKept DEF Compile, Failures
<1>6. CASE ProbeGpu
  BY <1>1, <1>3, <1>6, TestedKept DEF ProbeGpu, Failures
<1>7. CASE Load
  BY <1>1, <1>3, <1>7, TestedKept DEF Load, Failures
<1>8. ASSUME NEW c \in todo, todo' = todo \ {c}, NEW entry \in Entry \ {"none"},
             entries' = [entries EXCEPT ![c] = entry], UNCHANGED <<scorer, report>>, scorer = "cases"
      PROVE  Tested'
  <2>1. c \in Batch /\ c \in Case /\ c # Zero
    BY <1>2 DEF Tested
  <2>2. \A d \in Case : entries'[d] = IF d = c THEN entry ELSE entries[d]
    BY <1>8, <2>1 DEF TypeOK
  <2>3. Batch' = Batch /\ Batch \subseteq Case
    BY <1>1 DEF Batch, Case, Public, Hidden
  <2>4. report = None
    BY <1>8 DEF Files
  <2> QED
    BY <1>1, <1>2, <1>8, <2>1, <2>2, <2>3, <2>4 DEF Tested
<1>9. ASSUME NEW c \in Case, RunCase(c) PROVE Tested'
  BY <1>8, <1>9 DEF RunCase, Entry
<1>10. ASSUME NEW c \in Case, CaseRaises(c) PROVE Tested'
  BY <1>1, <1>3, <1>8, <1>10 DEF CaseRaises, Entry, Failures
<1>11. CASE CasesDone
  <2>1. CASE stage = "public"
    BY <1>1, <1>11, <2>1, TestedKept DEF CasesDone
  <2>2. CASE stage = "withheld" /\ CorrectnessStatus # "pass"
    <3>1. CorrectnessStatus \in {"fail", "baseline_invalid"}
      BY <2>2 DEF CorrectnessStatus
    <3> QED
      BY <1>1, <1>3, <1>11, <2>2, <3>1 DEF CasesDone
  <2>3. CASE stage = "withheld" /\ CorrectnessStatus = "pass"
    <3>1. \A c \in Hidden : entries[c] \in {"none", "pass"}
      BY <2>3 DEF CorrectnessStatus, TypeOK, Case, Entry
    <3>2. scorer' = "open" /\ report'.status = "pass"
      BY <1>11, <2>3 DEF CasesDone, Finish, Result
    <3> QED
      BY <1>1, <1>11, <2>3, <3>1, <3>2 DEF CasesDone, Tested, Batch
  <2> QED
    BY <1>1, <2>1, <2>2, <2>3
<1>12. CASE RunZero
  <2>1. /\ UNCHANGED todo /\ scorer = "zero" /\ stage = "public" /\ todo = {} /\ report = None
        /\ \E entry \in Entry \ {"none"} : entries' = [entries EXCEPT ![Zero] = entry]
    BY <1>1, <1>12 DEF RunZero, Place, Tested, Files, Entry
  <2>2. \A d \in Batch : entries'[d] = entries[d]
    BY <2>1, <1>2 DEF TypeOK, Batch, Case, Public, Hidden
  <2>3. CASE scorer' = "bench" /\ UNCHANGED report /\ \A c \in Public : entries'[c] = "pass"
    BY <1>1, <2>1, <2>2, <2>3 DEF Tested, Batch
  <2>4. CASE scorer' = "post" /\ report' = Result("correctness_failed", FALSE, FALSE)
    BY <1>1, <2>1, <2>2, <2>4 DEF Tested, Batch, Result
  <2> QED
    BY <1>12, <2>3, <2>4 DEF RunZero
<1>13. CASE Benchmark
  <2>1. CASE scorer' = "post"
    <3>1. report'.status = "complete" /\ report'.entries = entries
      BY <1>13, <2>1 DEF Benchmark, Finish, Result
    <3> QED
      BY <1>1, <1>13, <2>1, <3>1 DEF Benchmark, Tested, Batch
  <2>2. CASE scorer' # "post"
    BY <1>3, <1>13, <2>2 DEF Benchmark, Failures
  <2> QED
    BY <2>1, <2>2
<1>14. CASE ScorerRaises
  BY <1>3, <1>14 DEF ScorerRaises, Failures
<1> QED
  BY <1>4, <1>5, <1>6, <1>7, <1>9, <1>10, <1>11, <1>12, <1>13, <1>14, <1>15, <1>16 DEF Work

LEMMA TestedStep ==
  ASSUME TypeOK, Call!IInv, Place, Files, Tested, [Next]_vars
  PROVE  Tested'
<1>1. CASE Work
  BY <1>1, WorkTested
<1>2. CASE End
  BY <1>2, EndFrame, TestedKept DEF replayVars
<1>3. CASE Around
  BY <1>3, AroundFrame, TestedKept DEF replayVars
<1>4. CASE OpenWithheld
  BY <1>4 DEF OpenWithheld, Tested, Batch, Untested, Case
<1>5. CASE Adapter /\ ~OpenWithheld
  <2>1. Batch' = Batch /\ (stage' = "withheld" <=> stage = "withheld") /\ UNCHANGED scorerVars
    BY <1>5, AdapterFrame, AdapterStage DEF Batch
  <2> QED
    BY <2>1 DEF Tested, scorerVars
<1>6. CASE Outside
  BY <1>6, OutsideFrame DEF Tested, Batch, replayVars, scorerVars
<1>7. CASE UNCHANGED vars
  BY <1>7 DEF Tested, Batch, vars, replayVars, scorerVars
<1> QED
  BY <1>1, <1>2, <1>3, <1>4, <1>5, <1>6, <1>7, NextSteps

-----------------------------------------------------------------------------
(* Reasons. *)

Grows == conduct \subseteq conduct' /\ weather \subseteq weather'

\* Nothing is taken back of what the candidate and the machine have done.
LEMMA GrowsStep ==
  ASSUME TypeOK, [Next]_vars
  PROVE  Grows
<1> USE DEF Grows
<1>1. ASSUME NEW deed \in Deed, Do(deed) PROVE conduct \subseteq conduct'
  BY <1>1 DEF Do
<1>2. CASE Work
  <2>1. CASE RunZero
    BY <1>1, <2>1 DEF RunZero, Innocent, Trouble, Box!Trouble
  <2>2. ASSUME NEW c \in Case, RunCase(c) PROVE conduct \subseteq conduct'
    BY <1>1, <2>2 DEF RunCase
  <2>3. ASSUME Work, ~RunZero, ~\E c \in Case : RunCase(c) PROVE conduct \subseteq conduct'
    BY <2>3 DEF Work, Validate, Compile, ProbeGpu, Load, CaseRaises, CasesDone, Benchmark, OpenResult,
                FillResult, ScorerRaises, CandidateHangs, Misled, Innocent, Guilty, Trouble
  <2> QED
    BY <1>2, <2>1, <2>2, <2>3, WorkWeather
<1>3. CASE End
  BY <1>3, EndFrame
<1>4. CASE Around
  BY <1>4, AroundFrame
<1>5. CASE Adapter /\ ~OpenWithheld
  BY <1>5, AdapterFrame
<1>6. CASE OpenWithheld
  BY <1>6 DEF OpenWithheld
<1>7. CASE Outside
  BY <1>7, OutsideFrame
<1>8. CASE UNCHANGED vars
  BY <1>8 DEF vars
<1> QED
  BY <1>2, <1>3, <1>4, <1>5, <1>6, <1>7, <1>8, NextSteps

\* A reason stays a reason.
LEMMA GroundedKept ==
  ASSUME Grows
  PROVE  /\ report' = report /\ Grounded(report) => Grounded(report)'
         /\ publicResult' = publicResult /\ Grounded(publicResult) => Grounded(publicResult)'
BY DEF Grows, Grounded, Calm

\* What an entry that is not "pass" has for a reason.
EntryReason(entry) ==
  /\ entry = "candidate" => conduct # {} \/ "gpu" \in weather
  /\ entry = "aiter" => "baseline" \in weather
  /\ entry = "error" => "leaks" \in conduct \/ "poisons" \in conduct \/ "gpu" \in weather

LEMMA ReasonsKept ==
  ASSUME Reasoned, Grows, UNCHANGED <<stage, caller, status, payload>>, payload = "none",
         stage = "withheld" => UNCHANGED publicResult,
         gpu' = "poisoned" => gpu = "poisoned" \/ "leaks" \in conduct' \/ "poisons" \in conduct',
         \A c \in Case : entries'[c] = entries[c] \/ EntryReason(entries[c])',
         report' = report \/ Grounded(report)',
         scorer' = "hung" => scorer = "hung" \/ "hangs" \in conduct'
  PROVE  Reasoned'
<1>1. stage = "withheld" => Grounded(publicResult)'
  BY GroundedKept DEF Reasoned
<1>2. report' # None => Grounded(report)'
  BY GroundedKept DEF Reasoned
<1>3. ASSUME NEW c \in Case PROVE EntryReason(entries[c])'
  BY DEF Reasoned, Grows, EntryReason
<1> QED
  BY <1>1, <1>2, <1>3 DEF Reasoned, Grows, EntryReason

LEMMA WorkReasons ==
  ASSUME TypeOK, Call!IInv, Place, Files, Tested, Reasoned, Work, Grows, altered = {}
  PROVE  Reasoned'
<1>1. /\ UNCHANGED <<stage, caller, status, payload>> /\ stage \in {"public", "withheld"}
      /\ payload = "none"
  BY WorkFrame, Working DEF replayVars, box
<1>2. ASSUME NEW outcome \in Failures \cup {"pass", "fail", "baseline_invalid"}, Finish(outcome),
             entries' \in [Case -> Entry]
      PROVE  report'.status = outcome /\ ~report'.quick /\ scorer' = "open"
  BY <1>2, FinishResult
<1> USE DEF At
<1>3. CASE Validate
  <2>1. report' = report \/ Grounded(report)'
    BY <1>2, <1>3 DEF Validate, Innocent, Grounded, TypeOK, Failures, Calm
  <2> QED
    BY <1>1, <1>3, <2>1, ReasonsKept DEF Validate, Finish, results
<1>4. CASE Compile
  <2>1. report' = report \/ Grounded(report)'
    BY <1>2, <1>4 DEF Compile, Grounded, Guilty, Trouble, Box!Trouble, TypeOK, Failures, Calm
  <2> QED
    BY <1>1, <1>4, <2>1, ReasonsKept DEF Compile, Finish, results
<1>5. CASE ProbeGpu
  <2>1. report' = report \/ Grounded(report)'
    BY <1>2, <1>5 DEF ProbeGpu, Grounded, Trouble, Box!Trouble, TypeOK, Failures, Calm
  <2> QED
    BY <1>1, <1>5, <2>1, ReasonsKept DEF ProbeGpu, Finish, results
<1>6. CASE Load
  <2>1. report' = report \/ Grounded(report)'
    BY <1>2, <1>6 DEF Load, Grounded, Guilty, Trouble, Box!Trouble, TypeOK, Failures, Calm
  <2> QED
    BY <1>1, <1>6, <2>1, ReasonsKept DEF Load, Finish, results
<1>7. ASSUME NEW c \in Case, RunCase(c) PROVE Reasoned'
  <2>1. PICK deed \in Deed :
          /\ Do(deed)
          /\ \/ /\ entries' = [entries EXCEPT ![c] = IF deed \in {"wrong", "poisons"}
                                                     THEN "candidate" ELSE "pass"]
                /\ UNCHANGED weather
             \/ entries' = [entries EXCEPT ![c] = "candidate"] /\ Box!Trouble("gpu")
             \/ entries' = [entries EXCEPT ![c] = "aiter"] /\ Box!Trouble("baseline")
    BY <1>7 DEF RunCase
  <2>2. \A d \in Case : entries'[d] = entries[d] \/ EntryReason(entries[d])'
    BY <2>1 DEF EntryReason, Do, Deed, Box!Trouble, TypeOK
  <2>3. gpu' = "poisoned" => gpu = "poisoned" \/ "leaks" \in conduct' \/ "poisons" \in conduct'
    BY <2>1 DEF Do, Deed
  <2> QED
    BY <1>1, <1>7, <2>2, <2>3, ReasonsKept DEF RunCase, results
<1>8. ASSUME NEW c \in Case, CaseRaises(c) PROVE Reasoned'
  <2>1. "leaks" \in conduct' \/ "poisons" \in conduct' \/ "gpu" \in weather'
    BY <1>8 DEF CaseRaises, Innocent, Trouble, Box!Trouble, Reasoned, TypeOK
  <2>2. CASE stage = "public"
    <3>1. Grounded(report)'
      BY <1>2, <1>8, <2>1, <2>2 DEF CaseRaises, Grounded, TypeOK, Failures, Calm
    <3> QED
      BY <1>1, <1>8, <2>2, <3>1, ReasonsKept DEF CaseRaises, Finish, results
  <2>3. CASE stage # "public"
    <3>1. \A d \in Case : entries'[d] = entries[d] \/ EntryReason(entries[d])'
      BY <1>8, <2>1, <2>3 DEF CaseRaises, EntryReason, TypeOK
    <3> QED
      BY <1>1, <1>8, <2>3, <3>1, ReasonsKept DEF CaseRaises, results
  <2> QED
    BY <2>2, <2>3
<1>9. CASE CasesDone
  <2>1. CASE stage = "public"
    BY <1>1, <1>9, <2>1, ReasonsKept DEF CasesDone, results
  <2>2. CASE stage = "withheld"
    <3>1. /\ CorrectnessStatus = "baseline_invalid" => \E c \in Case : entries[c] \in {"aiter", "error"}
          /\ CorrectnessStatus = "fail" => \E c \in Case : entries[c] = "candidate"
          /\ CorrectnessStatus \in {"baseline_invalid", "fail", "pass"}
      BY DEF CorrectnessStatus, Case
    <3>2. /\ CorrectnessStatus = "baseline_invalid" =>
               "leaks" \in conduct \/ "poisons" \in conduct \/ "gpu" \in weather \/ "baseline" \in weather
          /\ CorrectnessStatus = "fail" => conduct # {} \/ "gpu" \in weather
      BY <3>1 DEF Reasoned
    <3>3. Grounded(report)'
      BY <1>2, <1>9, <2>2, <3>1, <3>2 DEF CasesDone, Innocent, Grounded, TypeOK, Failures
    <3> QED
      BY <1>1, <1>9, <2>2, <3>3, ReasonsKept DEF CasesDone, Finish, results
  <2> QED
    BY <1>1, <2>1, <2>2
<1>10. CASE RunZero
  <2>1. \A d \in Case : entries'[d] = entries[d] \/ EntryReason(entries[d])'
    <3>1. EntryReason(entries[Zero])'
      BY <1>10 DEF RunZero, EntryReason, Do, Deed, Innocent, Trouble, Box!Trouble, TypeOK, Case, Public,
                   Reasoned
    <3>2. \A d \in Case \ {Zero} : entries'[d] = entries[d]
      BY <1>10 DEF RunZero, TypeOK
    <3> QED
      BY <3>1, <3>2
  <2>2. gpu' = "poisoned" => gpu = "poisoned" \/ "leaks" \in conduct' \/ "poisons" \in conduct'
    BY <1>10 DEF RunZero, Do, Deed
  <2>3. CASE scorer' = "post" /\ report' = Result("correctness_failed", FALSE, FALSE)
             /\ ~\A c \in Public : entries'[c] = "pass"
    <3>1. PICK c \in Public : entries'[c] # "pass"
      BY <2>3
    <3>2. entries'[c] \in {"candidate", "aiter", "error"}
      <4>1. todo = {} /\ scorer = "zero" /\ stage = "public"
        BY <1>1, <1>10 DEF RunZero, Tested, Place
      <4>2. entries'[c] # "none"
        BY <1>10, <4>1 DEF RunZero, Tested, Batch, Public, Do, Deed, TypeOK, Case
      <4> QED
        BY <3>1, <4>2, <1>10, WorkTypes DEF TypeOK, Entry, Case, Work
    <3>3. conduct' # {} \/ "gpu" \in weather' \/ "baseline" \in weather'
      BY <2>1, <3>1, <3>2 DEF EntryReason, Reasoned, Grows, Case
    <3>4. Grounded(report)'
      BY <2>3, <3>3 DEF Grounded, Result, Failures, Calm
    <3> QED
      BY <1>1, <1>10, <2>1, <2>2, <2>3, <3>4, ReasonsKept DEF RunZero, results
  <2>4. CASE scorer' = "bench" /\ UNCHANGED report
    BY <1>1, <1>10, <2>1, <2>2, <2>4, ReasonsKept DEF RunZero, results
  <2> QED
    BY <1>10, <2>3, <2>4 DEF RunZero
<1>11. CASE Benchmark
  <2>1. report' = report \/ Grounded(report)'
    BY <1>2, <1>11 DEF Benchmark, Result, Grounded, Innocent, Guilty, Trouble, Box!Trouble, TypeOK,
                       Failures, Calm, Reasoned
  <2> QED
    BY <1>1, <1>11, <2>1, ReasonsKept DEF Benchmark, Finish, results
<1>12. CASE OpenResult \/ FillResult
  BY <1>1, <1>12, ReasonsKept DEF OpenResult, FillResult, WriteTo
<1>13. CASE ScorerRaises
  <2>1. Grounded(report)'
    BY <1>2, <1>13 DEF ScorerRaises, Grounded, Trouble, Box!Trouble, TypeOK, Failures, Calm
  <2> QED
    BY <1>1, <1>13, <2>1, ReasonsKept DEF ScorerRaises, Finish, results
<1>14. CASE CandidateHangs
  BY <1>1, <1>14, ReasonsKept DEF CandidateHangs, Guilty, results
<1>15. ~Misled
  BY DEF Misled
<1> QED
  BY <1>3, <1>4, <1>5, <1>6, <1>7, <1>8, <1>9, <1>10, <1>11, <1>12, <1>13, <1>14, <1>15 DEF Work

\* What nobody touches keeps its reason.
LEMMA ReasonsFrame ==
  ASSUME Reasoned, Grows, UNCHANGED <<entries, gpu, report, publicResult>>,
         stage' = "withheld" <=> stage = "withheld",
         scorer' = "hung" => "hangs" \in conduct',
         caller' = "term" \/ status' = "timeout" => "hangs" \in conduct' \/ "slow" \in weather',
         payload' # "none" /\ Calm' => /\ ResultFile' = report' /\ report' # None
                                       /\ payload' = "zero" <=> report'.status \in {"complete", "pass"}
  PROVE  Reasoned'
<1>1. /\ report # None => Grounded(report)'
      /\ stage = "withheld" => Grounded(publicResult)'
  BY GroundedKept DEF Reasoned
<1>2. \A c \in Case : EntryReason(entries[c])'
  BY DEF Reasoned, Grows, EntryReason
<1>3. gpu' = "poisoned" => "leaks" \in conduct' \/ "poisons" \in conduct'
  BY DEF Reasoned, Grows
<1>5. report' # None => Grounded(report)'
  BY <1>1
<1>6. stage' = "withheld" => Grounded(publicResult)'
  BY <1>1
<1> QED
  BY <1>2, <1>3, <1>5, <1>6 DEF Reasoned, EntryReason

LEMMA ReasonedStep ==
  ASSUME TypeOK, Call!IInv, Place, Files, Tested, Reasoned, [Next]_vars, altered = {}
  PROVE  Reasoned'
<1>1. Grows
  BY GrowsStep
<1>2. CASE Work
  BY <1>1, <1>2, WorkReasons
<1>3. CASE End
  <2>1. UNCHANGED <<stage, report, publicResult, hiddenResult, entries, gpu, caller, status>>
    BY <1>3, EndFrame DEF replayVars, results
  <2>2. payload' # "none" /\ Calm' => /\ ResultFile' = report' /\ report' # None
                                      /\ payload' = "zero" <=> report'.status \in {"complete", "pass"}
    <3>1. payload' = "nonzero" /\ edited # {} /\ UNCHANGED weather => ~Calm'
      BY DEF Calm, TypeOK
    <3> QED
      BY <1>3, <2>1, <3>1, EndFrame DEF Calm, Files, ResultFile
  <2>3. /\ scorer' # "hung"
        /\ caller' = "term" \/ status' = "timeout" => "hangs" \in conduct' \/ "slow" \in weather'
    BY <1>1, <1>3, <2>1, EndFrame DEF Reasoned, Grows
  <2> QED
    BY <1>1, <2>1, <2>2, <2>3, ReasonsFrame
<1>4. CASE Around
  <2>1. UNCHANGED <<stage, report, publicResult, hiddenResult, entries, gpu>>
    BY <1>4, AroundFrame DEF replayVars, results
  <2>2. caller' = "term" \/ status' = "timeout" => "hangs" \in conduct' \/ "slow" \in weather'
    BY <1>1, <1>4, AroundCaller DEF Reasoned, Grows
  <2>3. scorer' = "hung" => "hangs" \in conduct'
    BY <1>1, <1>4, AroundFrame DEF Reasoned, Grows
  <2>4. payload' # "none" /\ Calm' => /\ ResultFile' = report' /\ report' # None
                                      /\ payload' = "zero" <=> report'.status \in {"complete", "pass"}
    <3>1. ResultFile' = ResultFile
      BY <2>1 DEF ResultFile
    <3>2. Calm' => Calm /\ caller # "term"
      BY <1>1, <1>4, AroundFrame DEF Reasoned, Calm, Grows
    <3>3. Calm' => UNCHANGED payload
      BY <1>4, <3>2, AroundFrame
    <3> QED
      BY <2>1, <3>1, <3>2, <3>3 DEF Reasoned
  <2> QED
    BY <1>1, <2>1, <2>2, <2>3, <2>4, ReasonsFrame
<1>5. CASE OpenWithheld
  <2>1. stage = "opening" /\ status = "completed" /\ UNCHANGED <<publicResult, conduct, weather>>
    BY <1>5 DEF OpenWithheld, Place, PublicPassed, results
  <2>2. publicResult = report /\ report \in Report /\ report # None
    BY <2>1, Completed, FileAssumption DEF ResultFile
  <2>3. Grounded(publicResult)'
    BY <2>1, <2>2, <1>1, GroundedKept DEF Reasoned
  <2>4. \A c \in Case : entries'[c] = "none"
    BY <1>5 DEF OpenWithheld, Untested
  <2>5. gpu' = "ok" /\ scorer' = "checks" /\ caller' = "idle" /\ status' = "none" /\ payload' = "none"
        /\ report' = None
    BY <1>5 DEF OpenWithheld
  <2> QED
    BY <2>1, <2>2, <2>3, <2>4, <2>5 DEF Reasoned
<1>6. CASE Adapter /\ ~OpenWithheld
  <2>1. /\ UNCHANGED <<report, entries, gpu, scorer, publicResult, hiddenResult, caller, status, payload>>
        /\ stage' = "withheld" <=> stage = "withheld"
    BY <1>6, AdapterFrame, AdapterStage DEF scorerVars, results, box
  <2>2. ResultFile' = ResultFile
    BY <1>6, <2>1, AdapterStage DEF ResultFile
  <2> QED
    BY <1>1, <2>1, <2>2, ReasonsFrame DEF Reasoned, Calm, Grows
<1>7. CASE Outside
  <2>1. UNCHANGED <<stage, report, entries, gpu, scorer, publicResult, hiddenResult, caller, status, payload>>
    BY <1>7, OutsideFrame DEF replayVars, scorerVars, results, box
  <2>2. ResultFile' = ResultFile
    BY <2>1 DEF ResultFile
  <2> QED
    BY <1>1, <2>1, <2>2, ReasonsFrame DEF Reasoned, Calm, Grows
<1>8. CASE UNCHANGED vars
  BY <1>8 DEF Reasoned, Grounded, Calm, ResultFile, vars, replayVars, scorerVars, results, box
<1> QED
  BY <1>2, <1>3, <1>4, <1>5, <1>6, <1>7, <1>8, NextSteps

LEMMA ReasonsStep ==
  ASSUME TypeOK, Call!IInv, Place, Files, Tested, Reasons, [Next]_vars
  PROVE  Reasons'
<1>1. altered \subseteq altered'
  BY InputFrame
<1> QED
  BY <1>1, ReasonedStep DEF Reasons

-----------------------------------------------------------------------------
(* Marks. *)

\* A mark stays, and a deed or trouble that no mark is left of is one that no score is about.
LEMMA WorkMarks ==
  ASSUME TypeOK, TypeOK', Call!IInv, Place, Files, Tested, Work, altered = {}
  PROVE  /\ MarkedScorer => MarkedScorer'
         /\ Blemished' => Blemished \/ MarkedScorer'
<1>1. UNCHANGED stage /\ stage \in {"public", "withheld"}
  BY WorkFrame, Working DEF replayVars
<1> DEFINE Cases == IF stage = "withheld" THEN Hidden ELSE Public
           Clean == conduct' \subseteq conduct \cup {"leaks"} /\ UNCHANGED weather
<1>2. Cases' = Cases /\ todo \subseteq Cases /\ Cases \subseteq Case /\ Batch \subseteq Cases
  BY <1>1 DEF Tested, Batch, Public, Hidden, Case
<1>3. Clean => (Blemished' => Blemished)
  BY DEF Blemished
<1>4. ASSUME NEW outcome \in Failures \cup {"fail", "baseline_invalid"}, Finish(outcome)
      PROVE  MarkedScorer'
  BY <1>4, FinishResult DEF TypeOK, MarkedScorer, Spoiled, Failures
<1>5. ASSUME scorer # "hung", UNCHANGED <<entries, report>> PROVE MarkedScorer => MarkedScorer'
  BY <1>1, <1>5 DEF MarkedScorer, Spoiled
<1>6. ASSUME NEW c \in Cases, entries[c] = "none", NEW entry \in Entry, entries' = [entries EXCEPT ![c] = entry],
             scorer # "hung", report = None
      PROVE  /\ MarkedScorer => MarkedScorer'
             /\ entry \notin {"none", "pass"} => MarkedScorer'
  <2>1. c \in Case /\ \A d \in Case : entries'[d] = IF d = c THEN entry ELSE entries[d]
    BY <1>2, <1>6 DEF TypeOK
  <2> QED
    BY <1>1, <1>2, <1>6, <2>1 DEF MarkedScorer
<1> USE DEF At
<1>7. CASE Validate \/ OpenResult \/ FillResult
  BY <1>3, <1>4, <1>5, <1>7 DEF Validate, OpenResult, FillResult, Innocent, Failures
<1>8. CASE Compile
  BY <1>3, <1>4, <1>5, <1>8 DEF Compile, Innocent, Failures
<1>9. CASE ProbeGpu
  BY <1>3, <1>4, <1>5, <1>9 DEF ProbeGpu, Innocent, Failures
<1>10. CASE Load
  BY <1>3, <1>4, <1>5, <1>10 DEF Load, Innocent, Failures
<1>11. ASSUME NEW c \in Case, RunCase(c)
       PROVE  (MarkedScorer => MarkedScorer') /\ (Blemished' => Blemished \/ MarkedScorer')
  <2>1. c \in Cases /\ entries[c] = "none" /\ scorer # "hung" /\ report = None
    BY <1>2, <1>11 DEF RunCase, Tested, Files
  <2>2. PICK deed \in Deed :
          /\ Do(deed)
          /\ \/ /\ entries' = [entries EXCEPT ![c] = IF deed \in {"wrong", "poisons"}
                                                     THEN "candidate" ELSE "pass"]
                /\ UNCHANGED weather
             \/ entries' = [entries EXCEPT ![c] = "candidate"] /\ Box!Trouble("gpu")
             \/ entries' = [entries EXCEPT ![c] = "aiter"] /\ Box!Trouble("baseline")
    BY <1>11 DEF RunCase
  <2>3. PICK entry \in Entry : /\ entries' = [entries EXCEPT ![c] = entry]
                               /\ entry \notin {"none", "pass"} \/ Clean
    BY <2>2 DEF Entry, Do, Deed
  <2> QED
    BY <1>3, <1>6, <2>1, <2>3
<1>12. ASSUME NEW c \in Case, CaseRaises(c)
       PROVE  (MarkedScorer => MarkedScorer') /\ (Blemished' => Blemished \/ MarkedScorer')
  <2>1. c \in Cases /\ entries[c] = "none" /\ scorer # "hung" /\ report = None
    BY <1>2, <1>12 DEF CaseRaises, Tested, Files
  <2> QED
    BY <1>4, <1>6, <1>12, <2>1 DEF CaseRaises, Failures, Entry
<1>13. CASE CasesDone
  <2>1. CASE stage = "public"
    BY <1>3, <1>5, <1>13, <2>1 DEF CasesDone, Innocent
  <2>2. CASE stage = "withheld" /\ CorrectnessStatus # "pass"
    BY <1>4, <1>13, <2>2 DEF CasesDone, CorrectnessStatus
  <2>3. CASE stage = "withheld" /\ CorrectnessStatus = "pass"
    <3>1. ~MarkedScorer
      BY <1>13, <2>3 DEF CasesDone, CorrectnessStatus, MarkedScorer, Files, TypeOK, Entry, Case
    <3> QED
      BY <1>3, <1>13, <3>1 DEF CasesDone, Innocent
  <2> QED
    BY <1>1, <2>1, <2>2, <2>3
<1>14. CASE RunZero
  <2>1. Zero \in Cases /\ entries[Zero] = "none" /\ scorer # "hung" /\ report = None
    BY <1>1, <1>14 DEF RunZero, Tested, Files, Place, Public
  <2>2. PICK entry \in Entry : /\ entries' = [entries EXCEPT ![Zero] = entry]
                               /\ entry \notin {"none", "pass"} \/ Clean
    <3>1. CASE entries' = [entries EXCEPT ![Zero] = "candidate"]
      BY <3>1 DEF Entry
    <3>2. CASE gpu = "ok" /\ \E deed \in Deed :
                /\ Do(deed) /\ UNCHANGED weather
                /\ entries' = [entries EXCEPT ![Zero] = IF deed \in {"wrong", "poisons"}
                                                        THEN "candidate" ELSE "pass"]
      BY <3>2 DEF Entry, Do, Deed
    <3> QED
      BY <1>14, <3>1, <3>2 DEF RunZero
  <2> QED
    BY <1>3, <1>6, <2>1, <2>2
<1>15. CASE Benchmark
  <2>1. CASE scorer' = "post" /\ report' = Result("complete", TRUE, TRUE) /\ Innocent
    <3>1. ~MarkedScorer
      BY <1>1, <1>15, <2>1 DEF Benchmark, MarkedScorer, Tested, Files, Place
    <3> QED
      BY <1>3, <2>1, <3>1 DEF Innocent
  <2>2. CASE Finish("setup_error")
    BY <1>4, <2>2 DEF Failures
  <2>3. CASE scorer' = "post" /\ \E quiet \in BOOLEAN : report' = Result("complete", FALSE, quiet)
    <3>1. PICK quiet \in BOOLEAN : report' = Result("complete", FALSE, quiet)
      BY <2>3
    <3>2. report' # None
      BY <3>1, ResultTypes, FileAssumption DEF TypeOK
    <3>3. report'.status = "complete" /\ ~report'.quick
      BY <3>1 DEF Result
    <3> QED
      BY <3>2, <3>3 DEF MarkedScorer, Spoiled
  <2> QED
    BY <1>15, <2>1, <2>2, <2>3 DEF Benchmark
<1>16. CASE ScorerRaises
  BY <1>4, <1>16 DEF ScorerRaises, Failures
<1>17. CASE CandidateHangs
  BY <1>17 DEF CandidateHangs, MarkedScorer
<1>18. ~Misled
  BY DEF Misled
<1> QED
  BY <1>7, <1>8, <1>9, <1>10, <1>11, <1>12, <1>13, <1>14, <1>15, <1>16, <1>17, <1>18 DEF Work

\* The marks the container keeps of a call: what the client reported or was refused, what the
\* scorer ended with, and how the adapter got out of it.
LEMMA AroundMarks ==
  ASSUME TypeOK, Call!IInv, exitCode = "zero" => request = "none", Around
  PROVE  /\ MarkedCall => MarkedCall'
         /\ exitCode' = "zero" => request' = "none"
         /\ Blemished' => Blemished \/ MarkedCall'
<1> USE DEF Box!callerVars, Box!clientVars, Box!daemonVars, Call!IInv, Call!TypeOK, Call!Asked,
            Call!Served, Call!Reported, Call!Fresh, Call!Code, MarkedCall, Blemished
<1>1. UNCHANGED conduct
  BY AroundFrame
<1>2. CASE Launch \/ Cleanup
  BY <1>1, <1>2 DEF Launch, Cleanup, Box!Launch, Box!Outside, Box!WaitReturns, Box!Term, Box!ReadCid,
                    Box!Inspect, Box!Remove
<1>3. CASE Docker /\ (Box!Client \/ Box!ClientTerminated)
  BY <1>1, <1>3 DEF Box!Client, Box!ClientCreates, Box!ClientStarts, Box!ClientRefused,
                    Box!ClientReports, Box!ClientTerminated
<1>4. CASE Docker /\ Box!Daemon
  BY <1>1, <1>4 DEF Box!Daemon, Box!DaemonCreates, Box!DaemonStarts, Box!AutoRemoved
<1>5. CASE Docker /\ Box!Weather
  BY <1>1, <1>5 DEF Box!Weather, Box!ClientLost, Box!DaemonFails, Box!ForeignTakesName,
                    Box!ForeignLeaves, Box!DockerFails, Box!Trouble
<1>6. CASE Watchdog
  BY <1>1, <1>6 DEF Watchdog, Box!WatchdogFires, Box!Trouble
<1>7. CASE Forwarded
  BY <1>1, <1>7 DEF Forwarded, Box!Forwarded, Box!PayloadEnds, Innocent
<1> QED
  BY <1>2, <1>3, <1>4, <1>5, <1>6, <1>7 DEF Around, Docker

LEMMA MarksStep ==
  ASSUME TypeOK, TypeOK', Call!IInv, Place, Files, Tested, Reasons, Marks, [Next]_vars
  PROVE  Marks'
<1> DEFINE Marked == MarkedScorer \/ MarkedCall \/ MarkedStage
<1>1. altered' = {} => altered = {}
  BY InputFrame
<1>2. CASE Work
  <2>1. /\ UNCHANGED <<stage, exitCode, request, payload, caller, status>>
        /\ stage = "withheld" => UNCHANGED publicResult
    BY <1>2, WorkFrame, WorkWithheld DEF replayVars, box
  <2>2. (MarkedCall => MarkedCall') /\ (MarkedStage => MarkedStage')
    BY <2>1 DEF MarkedCall, MarkedStage
  <2> QED
    BY <1>1, <1>2, <2>1, <2>2, WorkMarks DEF Marks
<1>3. CASE End
  <2>1. UNCHANGED <<stage, entries, report, publicResult, hiddenResult, exitCode, request, caller, status>>
        /\ scorer # "hung" /\ payload = "none"
    BY <1>3, EndFrame, Working DEF replayVars, results
  <2>2. Marked => Marked'
    BY <2>1 DEF MarkedScorer, Spoiled, MarkedCall, MarkedStage
  <2>3. Blemished' => Blemished \/ MarkedCall'
    BY <1>3, EndFrame DEF Blemished, MarkedCall
  <2> QED
    BY <1>1, <2>1, <2>2, <2>3 DEF Marks
<1>4. CASE Around
  <2>1. UNCHANGED <<stage, entries, report, publicResult>> /\ (scorer = "hung" => MarkedCall' \/ scorer' = "hung")
    BY <1>4, AroundFrame DEF replayVars, results, MarkedCall
  <2>2. MarkedScorer \/ MarkedStage => Marked'
    BY <2>1 DEF MarkedScorer, Spoiled, MarkedStage
  <2> QED
    BY <1>1, <1>4, <2>2, AroundMarks DEF Marks
<1>5. CASE OpenWithheld
  <2>1. /\ stage = "opening" /\ caller = "returned" /\ PublicPassed /\ stage' = "withheld"
        /\ exitCode' = "none" /\ UNCHANGED <<conduct, weather, publicResult>>
    BY <1>5 DEF OpenWithheld, Place, results
  <2>2. publicResult = report /\ report.status = "complete" /\ exitCode = "zero" /\ payload = "zero"
    BY <2>1, Completed DEF PublicPassed, ResultFile
  <2>3. ~MarkedCall /\ ~MarkedStage
    BY <2>1, <2>2 DEF Marks, MarkedCall, MarkedStage, PublicPassed
  <2>4. scorer = "dead" /\ ~\E c \in Public : entries[c] \notin {"none", "pass"}
    BY <2>1, <2>2, Completed, FileAssumption DEF Place, Tested, PublicPassed
  <2>5. altered = {} /\ Blemished => Spoiled(report)
    BY <2>1, <2>3, <2>4 DEF Marks, MarkedScorer
  <2>6. altered' = {} /\ Blemished' => MarkedStage'
    BY <1>1, <2>1, <2>2, <2>5 DEF Blemished, MarkedStage, Spoiled
  <2> QED
    BY <2>1, <2>6 DEF Marks
<1>6. CASE Adapter /\ ~OpenWithheld
  <2>1. UNCHANGED <<scorer, entries, report, publicResult, conduct, weather, exitCode, request, payload,
                    caller, status>>
        /\ (stage' = "withheld" <=> stage = "withheld")
    BY <1>6, AdapterFrame, AdapterStage DEF scorerVars, results, box
  <2>2. Marked => Marked'
    BY <2>1 DEF MarkedScorer, Spoiled, MarkedCall, MarkedStage
  <2> QED
    BY <1>1, <2>1, <2>2 DEF Marks, Blemished
<1>7. CASE Outside
  <2>1. UNCHANGED <<stage, scorer, entries, report, publicResult, conduct, exitCode, request, payload,
                    caller, status>>
    BY <1>7, OutsideFrame DEF replayVars, scorerVars, results, box
  <2>2. Marked => Marked'
    BY <2>1 DEF MarkedScorer, Spoiled, MarkedCall, MarkedStage
  <2>3. Blemished' => Blemished
    BY <1>7, <2>1, OutsideFrame DEF Blemished
  <2> QED
    BY <1>1, <2>1, <2>2, <2>3 DEF Marks
<1>8. CASE UNCHANGED vars
  BY <1>1, <1>8 DEF Marks, MarkedScorer, Spoiled, MarkedCall, MarkedStage, Blemished, vars,
                    replayVars, scorerVars, results, box
<1> QED
  BY <1>2, <1>3, <1>4, <1>5, <1>6, <1>7, <1>8, NextSteps

-----------------------------------------------------------------------------
(* What is seen of the edits. *)

\* A scorer that has begun looks at its inputs no more, and what made it stop looking is on record.
LEMMA WorkSight ==
  ASSUME TypeOK, Call!IInv, Place, Files, Sight, Work
  PROVE  Sight'
<1>1. /\ UNCHANGED <<stage, stopped, caller, edited, late, altered>> /\ stage \in {"public", "withheld"}
      /\ scorer # "dead"
  BY WorkFrame, Working DEF replayVars, box, inputVars
<1>2. Ahead = IF scorer = "checks" THEN ScorerRereads ELSE {}
  BY <1>1 DEF Ahead
<1>3. ASSUME NEW outcome \in Failures \cup {"pass", "fail", "baseline_invalid"}, Finish(outcome)
      PROVE  scorer' = "open" /\ report' # None /\ report'.status = outcome
  <2>1. entries' \in [Case -> Entry]
    BY WorkTypes DEF TypeOK
  <2> QED
    BY <1>3, <2>1, FinishResult
<1>4. ASSUME scorer # "checks", scorer' # "post", Caught => Caught' PROVE Sight'
  BY <1>1, <1>2, <1>4 DEF Sight
<1>5. ASSUME scorer \in Early PROVE ~Caught \/ stopped
  BY <1>1, <1>5 DEF Caught, Files, Early
<1> USE DEF At
<1>6. CASE Validate
  <2>1. CASE Finish("setup_error")
    BY <1>3, <2>1 DEF Sight, Caught, Failures
  <2>2. CASE edited \cap ScorerRereads = {} /\ scorer' \in {"load", "build"}
    <3>1. altered' \cap {"scorer", "image"} = {} => edited' \ late' = {} \/ Caught'
      BY <1>1, <1>2, <1>5, <1>6, <2>2 DEF Validate, Sight, Caught, Early
    <3> QED
      BY <2>2, <3>1 DEF Sight
  <2> QED
    BY <1>6, <2>1, <2>2 DEF Validate
<1>7. CASE Misled
  <2>1. CASE scorer = "checks"
    <3>1. altered' \cap {"scorer", "image"} # {} /\ scorer' # "post"
      BY <1>1, <1>7, <2>1 DEF Misled, Finish
    <3> QED
      BY <3>1 DEF Sight
  <2>2. CASE scorer # "checks"
    <3>1. scorer' = "open" /\ scorer \in Early \cup {"post"}
      BY <1>7 DEF Misled, Finish, Early
    <3>2. ~Caught \/ stopped
      BY <1>1, <1>5, <3>1 DEF Caught, Sight
    <3> QED
      BY <1>1, <1>4, <2>2, <3>1, <3>2 DEF Caught
  <2> QED
    BY <2>1, <2>2
<1>8. CASE Compile \/ Load \/ CandidateHangs
  <2>1. scorer \in Early \ {"checks"} /\ scorer' # "post"
    BY <1>8 DEF Compile, Load, CandidateHangs, Finish, Early
  <2> QED
    BY <1>1, <1>4, <1>5, <2>1 DEF Caught
<1>9. CASE ProbeGpu
  <2>1. scorer \in {"gpu", "post"} /\ scorer' # "post"
    BY <1>9 DEF ProbeGpu, Finish
  <2>2. ~Caught \/ stopped
    BY <1>1, <1>5, <2>1 DEF Caught, Sight, Early
  <2> QED
    BY <1>1, <1>4, <2>1, <2>2 DEF Caught
<1>10. ASSUME NEW c \in Case, RunCase(c) \/ CaseRaises(c) PROVE Sight'
  <2>1. scorer = "cases" /\ scorer' # "post"
    BY <1>10 DEF RunCase, CaseRaises, Finish
  <2> QED
    BY <1>1, <1>4, <1>5, <2>1 DEF Caught, Early
<1>11. CASE CasesDone
  <2>1. scorer = "cases" /\ scorer' # "post"
    BY <1>11 DEF CasesDone, Finish
  <2> QED
    BY <1>1, <1>4, <1>5, <2>1 DEF Caught, Early
<1>12. CASE RunZero \/ Benchmark
  <2>1. scorer \in {"zero", "bench"}
    BY <1>12 DEF RunZero, Benchmark
  <2>2. scorer' = "post" => report'.status # "setup_error"
    BY <1>12 DEF RunZero, Benchmark, Finish, Result
  <2>3. altered' \cap {"scorer", "image"} = {} => edited' \ late' \subseteq Ahead' \/ Caught'
    BY <1>1, <1>2, <1>5, <2>1 DEF Sight, Caught, Early
  <2> QED
    BY <2>2, <2>3 DEF Sight
<1>13. CASE OpenResult \/ FillResult
  BY <1>1, <1>4, <1>13 DEF OpenResult, FillResult, Caught
<1>14. CASE ScorerRaises
  BY <1>3, <1>14 DEF ScorerRaises, Sight, Caught, Failures
<1> QED
  BY <1>6, <1>7, <1>8, <1>9, <1>10, <1>11, <1>12, <1>13, <1>14 DEF Work

LEMMA SightStep ==
  ASSUME TypeOK, TypeOK', Call!IInv, Place, Files, Sight, [Next]_vars
  PROVE  Sight'
<1>1. altered' \cap {"scorer", "image"} = {} => altered \cap {"scorer", "image"} = {}
  BY InputFrame
<1>2. CASE Work
  BY <1>2, WorkSight
<1>3. CASE End \/ Around
  <2>1. UNCHANGED <<stage, stopped, edited, late, altered, report>>
    BY <1>3, EndFrame, AroundFrame DEF replayVars, inputVars
  <2>2. scorer' = scorer \/ (scorer' = "dead" /\ stage \in {"public", "withheld"})
    BY <1>3, EndFrame, AroundFrame, Working
  <2>3. CASE scorer' = scorer
    <3>1. Ahead' = Ahead /\ Caught' = Caught
      BY <2>1, <2>3 DEF Ahead, ScorerRereads, Caught
    <3> QED
      BY <2>1, <2>3, <3>1 DEF Sight
  <2>4. CASE scorer' = "dead" /\ stage \in {"public", "withheld"}
    <3>1. scorer = "checks" => Caught'
      BY <2>1, <2>4 DEF Files, Caught
    <3>2. scorer # "checks" => Ahead = {}
      BY <2>4 DEF Ahead
    <3>3. Caught => Caught'
      BY <2>1, <2>4 DEF Caught
    <3> QED
      BY <2>1, <2>4, <3>1, <3>2, <3>3 DEF Sight
  <2> QED
    BY <2>2, <2>3, <2>4
<1>4. ASSUME NEW from, NEW to, Prepare(from, to),
             <<from, to>> \in {<<"checkouts", "inputs">>, <<"inputs", "snapshot">>,
                              <<"snapshot", "command">>, <<"command", "public">>}
      PROVE  Sight'
  <2>1. /\ stage = from /\ stage' = to /\ Pinned /\ scorer = "checks" /\ report = None
        /\ UNCHANGED <<scorer, report, stopped, edited, late>> /\ ~stopped
    BY <1>4 DEF Prepare, Place, Files, scorerVars
  <2>2. ~Caught
    BY <2>1 DEF Caught
  <2>3. edited \cap Ahead \subseteq Ahead'
    BY <1>4, <2>1 DEF Ahead, ScorerRereads, Pinned, Rereads, TypeOK
  <2> QED
    BY <1>1, <2>1, <2>2, <2>3 DEF Sight
<1>5. CASE Refuse
  BY <1>5 DEF Refuse, Sight, Caught, scorerVars
<1>6. ASSUME stage \in {"public", "opening"}, status = "completed" PROVE report # None /\ report.status # "setup_error"
  BY <1>6, Completed, FileAssumption
<1>7. CASE PassPublic
  <2>1. /\ stage = "public" /\ stage' = "opening" /\ status = "completed" /\ ~stopped /\ late' = late \ Ahead'
        /\ UNCHANGED <<scorer, report, stopped, edited, altered>>
    BY <1>7 DEF PassPublic, Returned, PublicPassed, Over, scorerVars
  <2>2. ~Caught
    BY <1>6, <2>1 DEF Caught
  <2>3. Ahead = {}
    BY <1>6, <2>1 DEF Ahead, Files
  <2> QED
    BY <2>1, <2>2, <2>3 DEF Sight
<1>8. CASE OpenWithheld
  <2>1. /\ stage = "opening" /\ stage' = "withheld" /\ status = "completed" /\ ~stopped /\ Pinned
        /\ scorer' = "checks" /\ UNCHANGED <<stopped, edited, late>>
    BY <1>8 DEF OpenWithheld, Place, PublicPassed
  <2>2. ~Caught
    BY <1>6, <2>1 DEF Caught
  <2>3. edited \cap Ahead \subseteq Ahead'
    BY <2>1 DEF Ahead, ScorerRereads, Pinned, Rereads
  <2> QED
    BY <1>1, <2>1, <2>2, <2>3 DEF Sight
<1>9. CASE Verdict /\ ~PassPublic
  <2>1. UNCHANGED <<stage, scorer, report, edited, late, altered>> /\ (stopped => stopped')
    BY <1>9 DEF Verdict, MissingResult, PublicFailure, WithheldInvalid, Aggregate, Contradiction,
                CleanupRaised, Write, Raise, scorerVars, inputVars
  <2>2. Ahead' = Ahead /\ (Caught => Caught')
    BY <2>1 DEF Ahead, ScorerRereads, Caught
  <2> QED
    BY <2>1, <2>2 DEF Sight
<1>10. CASE Outside
  <2>1. UNCHANGED <<stage, stopped, scorer, report>>
    BY <1>10, OutsideFrame DEF replayVars, scorerVars
  <2>2. Ahead' = Ahead /\ Caught' = Caught
    BY <2>1 DEF Ahead, ScorerRereads, Caught
  <2>3. edited' \ late' \subseteq (edited \ late) \cup Ahead
    BY <1>10 DEF Outside, Edit, Restore
  <2> QED
    BY <1>1, <2>1, <2>2, <2>3 DEF Sight
<1>11. CASE UNCHANGED vars
  BY <1>11 DEF Sight, Ahead, ScorerRereads, Caught, vars, replayVars, scorerVars, inputVars
<1>12. CASE Preparation
  BY <1>4, <1>5, <1>8, <1>12 DEF Preparation, ValidateCheckouts, ValidatePrivateInputs, PrepareSnapshot,
                                 PublicCommand
<1> QED
  BY <1>2, <1>3, <1>7, <1>9, <1>10, <1>11, <1>12, NextSteps DEF Adapter

-----------------------------------------------------------------------------
(* The invariant. *)

LEMMA InvariantStep ==
  ASSUME IInv, [Next]_vars
  PROVE  IInv'
<1>1. TypeOK'
  <2>1. TypeOK /\ UNCHANGED vars => TypeOK'
    BY DEF TypeOK, vars, replayVars, scorerVars, results, inputVars
  <2> QED
    BY <2>1, NextSteps, WorkTypes, EndTypes, AroundTypes, AdapterTypes, OutsideTypes DEF IInv
<1> QED
  BY <1>1, CallStep, PlaceStep, FilesStep, TestedStep, ReasonsStep, MarksStep, SightStep DEF IInv

LEMMA InvariantInit == Init => IInv
<1> SUFFICES ASSUME Init PROVE IInv
  OBVIOUS
<1> USE DEF Init, Box!Init, Box!Fresh
<1>1. TypeOK
  BY DEF TypeOK, Untested, Entry, Case, Public, Hidden
<1>2. Call!IInv
  BY DEF Call!IInv, Call!TypeOK, Call!Code, Call!Asked, Call!Served, Call!Reported, Call!Cleaned,
         Call!Fresh
<1>3. Place /\ Files
  BY DEF Place, Over, Files, ResultFile
<1>4. Tested
  BY ReplayAssumption DEF Tested, Batch, Untested, Case, Public, Hidden
<1>5. Reasons
  BY DEF Reasons, Reasoned, Untested
<1>6. Marks
  BY DEF Marks, Blemished
<1>7. Sight
  BY DEF Sight
<1> QED
  BY <1>1, <1>2, <1>3, <1>4, <1>5, <1>6, <1>7 DEF IInv

LEMMA Invariance == Spec => []IInv
BY InvariantInit, InvariantStep, PTL DEF Spec

\* The withheld stage is opened by a public scorer that ended well, and whose container is gone.
THEOREM WithheldOpensLate == Spec => WithheldAfterPublic
<1>1. ASSUME IInv, [Next]_vars, stage' = "withheld", stage # "withheld"
      PROVE  /\ publicResult.status = "complete" /\ payload = "zero" /\ own = "gone"
             /\ \A c \in Public : publicResult.entries[c] = "pass"
  <2>1. stage' # stage
    BY <1>1
  <2>2. OpenWithheld
    BY <1>1, <2>1, NextSteps, WorkFrame, EndFrame, AroundFrame, AdapterStage, OutsideFrame
       DEF replayVars, vars, IInv
  <2>3. PublicPassed
    BY <1>1, <2>2 DEF OpenWithheld, IInv, Place
  <2> QED
    BY <1>1, <2>3, Completed DEF PublicPassed, IInv
<1> QED
  BY <1>1, Invariance, PTL DEF Spec, WithheldAfterPublic

-----------------------------------------------------------------------------
(* Timeouts. *)

\* How a replay is over that timed out, and that nothing is decided twice.
LEMMA TimeoutStep ==
  ASSUME IInv, TimeoutIsAmbiguous, [Next]_vars
  PROVE  TimeoutIsAmbiguous'
<1> USE DEF TimeoutIsAmbiguous, Over
<1>1. ASSUME UNCHANGED <<scored, summary, stopped>>,
             Over => UNCHANGED status /\ (caller = "raised" => caller' = "raised")
      PROVE  TimeoutIsAmbiguous'
  BY <1>1
<1>2. CASE Work
  BY <1>1, <1>2, WorkFrame DEF replayVars, box
<1>3. CASE End
  BY <1>1, <1>3, EndFrame DEF replayVars
<1>4. CASE Around
  BY <1>1, <1>4, AroundFrame, AroundCaller DEF replayVars, IInv, Place
<1>5. CASE Preparation /\ ~OpenWithheld
  <2>1. CASE Refuse
    <3>1. status # "timeout"
      BY <2>1 DEF Refuse, Preparing, Rereads, PublicPassed, IInv, Place, Call!IInv, Call!Asked, Call!Fresh
    <3> QED
      BY <2>1, <3>1 DEF Refuse, box
  <2>2. CASE ~Refuse
    BY <1>5, <2>2 DEF Preparation, ValidateCheckouts, ValidatePrivateInputs, PrepareSnapshot,
                      PublicCommand, Prepare, box, IInv, Place
  <2> QED
    BY <2>1, <2>2
<1>11. CASE PassPublic
  BY <1>11 DEF PassPublic, box
<1>12. CASE Outside
  BY <1>12, OutsideFrame DEF replayVars, box
<1>6. CASE OpenWithheld
  BY <1>6 DEF OpenWithheld
<1>7. CASE MissingResult
  <2>1. CASE scored
    <3>1. UNCHANGED <<scored, stopped>> /\ ~stopped /\ ~summary'.valid /\ summary'.retry = "none"
          /\ summary'.parity = "none"
      BY <1>7, <2>1 DEF MissingResult, Write, Returned
    <3> QED
      BY <3>1
  <2>2. CASE ~scored
    BY <1>7, <2>2 DEF MissingResult, Raise
  <2> QED
    BY <2>1, <2>2
<1>8. CASE PublicFailure \/ WithheldInvalid \/ Aggregate \/ Contradiction
  <2>1. status # "timeout"
    BY <1>8 DEF PublicFailure, WithheldInvalid, Aggregate, Contradiction, Readable, Missing
  <2>2. UNCHANGED status
    BY <1>8, AdapterFrame DEF Adapter, Verdict, box, PublicFailure, WithheldInvalid, Aggregate,
                              Contradiction, Write, Raise
  <2> QED
    BY <2>1, <2>2
<1>9. CASE CleanupRaised
  BY <1>9 DEF CleanupRaised, Raise, box
<1>10. CASE UNCHANGED vars
  BY <1>10 DEF vars, replayVars, box
<1> QED
  BY <1>2, <1>3, <1>4, <1>5, <1>6, <1>7, <1>8, <1>9, <1>10, <1>11, <1>12, NextSteps DEF Adapter, Verdict

\* A stage the watchdog stopped decides nothing, whatever its scorer had written by then.
THEOREM TimeoutsAreAmbiguous == Spec => []TimeoutIsAmbiguous
<1>1. Init => TimeoutIsAmbiguous
  BY DEF Init, Box!Init, Box!Fresh, TimeoutIsAmbiguous
<1> QED
  BY <1>1, TimeoutStep, Invariance, PTL DEF Spec

-----------------------------------------------------------------------------
(* Justice: a replay implements module Adjudication. *)

Undecided == ~stopped /\ summary = None

\* With nothing amiss, a call that returned reports what its scorer has written.
LEMMA CalmStage ==
  ASSUME IInv, Calm, caller = "returned"
  PROVE  /\ status # "timeout" /\ ResultFile = report /\ report # None
         /\ status = "completed" <=> report.status \in {"complete", "pass"}
         /\ status \in {"completed", "failed"}
<1>0. Reasoned
  BY DEF Calm, IInv, TypeOK, Reasons
<1>1. weather \cap {"docker", "foreign"} = {} /\ status # "timeout"
  BY <1>0 DEF Calm, Reasoned
<1>2. status \in {"completed", "failed"} /\ payload # "none" /\ payload \in {"zero", "nonzero"}
      /\ (status = "failed" => payload = "nonzero") /\ (status = "completed" => payload = "zero")
  BY <1>1 DEF IInv, Call!IInv, Call!TypeOK, Call!Code, Call!Asked, Call!Reported
<1> QED
  BY <1>0, <1>1, <1>2 DEF Reasoned

\* The statuses of calm.
LEMMA CalmReport ==
  ASSUME IInv, Calm, report # None
  PROVE  /\ stage = "public" => report.status = "complete"
         /\ stage = "withheld" => report.status = "pass"
<1>1. Reasoned
  BY DEF Calm, IInv, TypeOK, Reasons
<1> QED
  BY <1>1 DEF IInv, Files, Reasoned, Grounded, Calm, Failures

\* A replay that raises has seen a deed or trouble.
LEMMA RaisedJustified ==
  ASSUME IInv, [Next]_vars, (MissingResult /\ Raise) \/ Contradiction \/ CleanupRaised \/ Refuse
  PROVE  ~Calm
<1> SUFFICES ASSUME Calm PROVE FALSE
  OBVIOUS
<1>1. CASE Refuse
  BY <1>1 DEF Refuse, Pinned, Calm, IInv, TypeOK
<1>2. CASE MissingResult
  BY <1>2, CalmStage DEF MissingResult, Missing, Returned
<1>3. CASE CleanupRaised
  <2>1. status # "timeout"
    BY DEF Calm, IInv, TypeOK, Reasons, Reasoned
  <2> QED
    BY <1>3, <2>1 DEF CleanupRaised, Calm, IInv, Call!IInv, Call!TypeOK, Call!Asked, Call!Reported
<1>4. CASE Contradiction
  <2>1. caller = "returned"
    BY <1>4 DEF Contradiction, Returned
  <2>2. ResultFile = report /\ report # None /\ report \in Report
        /\ (status = "completed" <=> report.status \in {"complete", "pass"})
    BY <2>1, CalmStage DEF IInv, TypeOK
  <2>3. ResultFile # Torn
    BY <2>2, FileAssumption
  <2>4. CASE stage = "public"
    <3>1. publicResult = report /\ report.status = "complete" /\ status = "completed"
      BY <2>2, <2>4, CalmReport DEF ResultFile
    <3>2. PublicPassed
      BY <2>2, <3>1 DEF PublicPassed, IInv, Tested
    <3> QED
      BY <1>4, <2>3, <2>4, <3>2 DEF Contradiction, Returned
  <2>5. CASE stage = "withheld"
    <3>1. hiddenResult = report /\ report.status = "pass" /\ status = "completed"
      BY <2>2, <2>5, CalmReport DEF ResultFile
    <3> QED
      BY <1>4, <2>3, <2>5, <3>1 DEF Contradiction, Returned
  <2> QED
    BY <1>4, <2>4, <2>5 DEF Contradiction, Returned
<1> QED
  BY <1>1, <1>2, <1>3, <1>4

\* Parity is given to a candidate that did no wrong on a machine that worked: else there would
\* be a mark.
LEMMA ParityJustified ==
  ASSUME IInv, stage = "withheld", status = "completed", caller = "returned",
         hiddenResult.status = "pass", publicResult.quick, publicResult.quiet, altered = {}
  PROVE  conduct \subseteq {"leaks"} /\ weather \subseteq {"foreign"} \cup Input
<1>1. payload = "zero" /\ exitCode = "zero" /\ hiddenResult = report /\ report # None
  BY Completed, FileAssumption DEF IInv, ResultFile
<1>2. ~MarkedScorer
  BY <1>1 DEF IInv, Place, Tested, MarkedScorer, Spoiled
<1>3. ~MarkedCall
  BY <1>1 DEF IInv, Marks, MarkedCall
<1>4. ~MarkedStage
  BY DEF IInv, Place, MarkedStage
<1> QED
  BY <1>2, <1>3, <1>4 DEF IInv, Marks, Blemished

\* What a result file says of the stage has its reason.
LEMMA ResultGrounded ==
  ASSUME IInv, Readable, altered = {}
  PROVE  ResultFile = report /\ Grounded(ResultFile)
<1>1. ResultFile = report /\ report # None
  BY DEF IInv, Files, Readable, Missing
<1> QED
  BY <1>1 DEF IInv, Reasons, Reasoned, Grounded

\* A result that is not the one of a failed setup is of a scorer that has looked at its inputs: there
\* is no edit that it should have seen.
LEMMA ResultSees ==
  ASSUME IInv, Readable, stage \in {"public", "withheld"}, ~stopped, ResultFile.status # "setup_error"
  PROVE  altered \cap {"scorer", "image"} = {} => edited \ late = {}
<1>1. ResultFile = report /\ report # None
  BY DEF IInv, Files, Readable, Missing
<1>2. ~Caught /\ scorer # "checks"
  BY <1>1 DEF Caught, IInv, Files
<1> QED
  BY <1>2 DEF IInv, Sight, Ahead

\* The outcomes of a replay that writes a summary.
LEMMA WriteDecides ==
  ASSUME Undecided, NEW outcome, NEW valid, NEW retry, NEW parity, NEW withheld,
         [status |-> outcome, valid |-> valid, retry |-> retry, parity |-> parity,
          withheld |-> withheld] \in Summary,
         Write(outcome, valid, retry, parity, withheld),
         Adjudicated!Justified(IF ~scored THEN "unscored"
                               ELSE IF parity = "yes" THEN "parity"
                               ELSE IF valid THEN "failure"
                               ELSE IF retry = "yes" THEN "retry" ELSE "adjudicate")
  PROVE  Adjudicated!Decide
<1>1. summary' # None /\ summary'.valid = valid /\ summary'.retry = retry /\ summary'.parity = parity
      /\ UNCHANGED <<scored, stopped, conduct, weather, edited, late, altered>>
  BY FileAssumption DEF Write, inputVars
<1> QED
  BY <1>1 DEF Undecided, Adjudicated!Decide, Adjudicated!Justified, Adjudicated!scene

\* A replay that raises is stopped, with reason.
LEMMA RaiseDecides ==
  ASSUME Undecided, Raise, ~Calm
  PROVE  Adjudicated!Decide
BY DEF Undecided, Raise, Calm, inputVars, Adjudicated!Decide, Adjudicated!Justified, Adjudicated!scene

LEMMA PublicDecides ==
  ASSUME IInv, Undecided, PublicFailure
  PROVE  Adjudicated!Decide
<1> USE DEF PublicFailure
<1>1. altered = {} => Grounded(publicResult)
  BY ResultGrounded DEF Returned, ResultFile
<1>6. publicResult.status # "setup_error" => (altered \cap {"scorer", "image"} = {} => edited \ late = {})
  BY ResultSees DEF Returned, Over, ResultFile
<1>2. CASE ~scored
  BY <1>2, WriteDecides DEF Summary, Adjudicated!Justified
<1>3. CASE scored /\ publicResult.status = "environment_invalid"
  <2>1. altered = {} => ~(weather \cap {"gpu", "baseline", "noise"} = {})
    BY <1>1, <1>3 DEF Grounded
  <2>2. Adjudicated!Justified("retry")
    BY <1>3, <1>6, <2>1 DEF Adjudicated!Justified
  <2> QED
    BY <1>3, <2>2, WriteDecides DEF Summary
<1>4. CASE scored /\ publicResult.status # "environment_invalid" /\ publicResult.status \in Ambiguous
  <2>1. altered = {} => ~(conduct = {} /\ weather = {})
    BY <1>1, <1>4 DEF Grounded, Calm
  <2>2. Adjudicated!Justified("adjudicate")
    BY <2>1 DEF Adjudicated!Justified
  <2> QED
    BY <1>4, <2>2, WriteDecides DEF Summary
<1>5. CASE scored /\ publicResult.status # "environment_invalid" /\ publicResult.status \notin Ambiguous
  <2>1. publicResult.status \in {"compile_failed", "candidate_load_failed", "correctness_failed"}
    BY <1>5 DEF Failures, Ambiguous
  <2>2. altered = {} => ~(conduct = {} /\ weather \cap {"gpu", "baseline"} = {})
    BY <1>1, <2>1 DEF Grounded
  <2>3. Adjudicated!Justified("failure")
    BY <1>6, <2>1, <2>2 DEF Adjudicated!Justified
  <2> QED
    BY <1>5, <2>3, WriteDecides DEF Summary
<1> QED
  BY <1>2, <1>3, <1>4, <1>5

LEMMA AggregateDecides ==
  ASSUME IInv, Undecided, Aggregate
  PROVE  Adjudicated!Decide
<1> DEFINE valid  == publicResult.quiet /\ hiddenResult.status # "baseline_invalid"
           parity == hiddenResult.status = "pass" /\ publicResult.quick
<1>1. stage = "withheld" /\ caller = "returned" /\ publicResult \in Report /\ publicResult.status = "complete"
  BY DEF Aggregate, Returned, IInv, Files
<1>7. altered = {} => Grounded(publicResult) /\ Grounded(hiddenResult)
  BY <1>1, ResultGrounded DEF Aggregate, ResultFile, IInv, Reasons, Reasoned
<1>8. altered \cap {"scorer", "image"} = {} => edited \ late = {}
  BY <1>1, ResultSees DEF Aggregate, Returned, Over, ResultFile
<1>2. /\ hiddenResult.status \in {"pass", "fail", "baseline_invalid"}
      /\ (status = "completed") <=> (hiddenResult.status = "pass")
      /\ IF ~scored THEN Write("exploratory_replay_complete", FALSE, "none", "none", TRUE)
         ELSE IF valid THEN Write("scored_replay_complete", TRUE, "no",
                                  IF parity THEN "yes" ELSE "no", TRUE)
         ELSE Write("infrastructure_invalid", FALSE, "yes", "none", TRUE)
  BY DEF Aggregate
<1>3. CASE ~scored
  BY <1>2, <1>3, WriteDecides DEF Summary, Adjudicated!Justified
<1>4. CASE scored /\ valid /\ parity
  <2>1. altered = {} => conduct \subseteq {"leaks"} /\ weather \subseteq {"foreign"} \cup Input
    BY <1>1, <1>2, <1>4, ParityJustified
  <2>2. Adjudicated!Justified("parity")
    BY <1>8, <2>1 DEF Adjudicated!Justified
  <2> QED
    BY <1>2, <1>4, <2>2, WriteDecides DEF Summary
<1>5. CASE scored /\ valid /\ ~parity
  <2>1. altered = {} => ~(conduct = {} /\ weather \cap {"gpu", "baseline"} = {})
    BY <1>1, <1>2, <1>5, <1>7 DEF Grounded
  <2>2. Adjudicated!Justified("failure")
    BY <1>8, <2>1 DEF Adjudicated!Justified
  <2> QED
    BY <1>2, <1>5, <2>2, WriteDecides DEF Summary
<1>6. CASE scored /\ ~valid
  <2>1. altered = {} =>
          ~(conduct \cap {"leaks", "poisons", "noisy"} = {} /\ weather \cap {"gpu", "baseline", "noise"} = {})
    BY <1>1, <1>2, <1>6, <1>7 DEF Grounded
  <2>2. Adjudicated!Justified("retry")
    BY <1>8, <2>1 DEF Adjudicated!Justified
  <2> QED
    BY <1>2, <1>6, <2>2, WriteDecides DEF Summary
<1> QED
  BY <1>3, <1>4, <1>5, <1>6

\* The verdict of the abstract replay.
Outcome ==
  IF stopped THEN "stopped"
  ELSE IF summary = None THEN "open"
  ELSE IF ~scored THEN "unscored"
  ELSE IF summary.parity = "yes" THEN "parity"
  ELSE IF summary.valid THEN "failure"
  ELSE IF summary.retry = "yes" THEN "retry" ELSE "adjudicate"

LEMMA JusticeStep ==
  ASSUME IInv, [Next]_vars
  PROVE  Adjudicated!Next
<1>1. ASSUME UNCHANGED <<scored, summary, stopped>> PROVE Adjudicated!Next
  <2>1. Grows /\ altered \subseteq altered'
    BY GrowsStep, InputFrame DEF IInv
  <2> QED
    BY <1>1, <2>1 DEF Grows, Adjudicated!Next, Adjudicated!Observe
<1>2. CASE Work
  BY <1>1, <1>2, WorkFrame DEF replayVars
<1>3. CASE End
  BY <1>1, <1>3, EndFrame DEF replayVars
<1>4. CASE Around
  BY <1>1, <1>4, AroundFrame DEF replayVars
<1>5. CASE PassPublic \/ (Preparation /\ ~Refuse)
  BY <1>1, <1>5 DEF PassPublic, OpenWithheld, Preparation, ValidateCheckouts, ValidatePrivateInputs,
                    PrepareSnapshot, PublicCommand, Prepare
<1>13. CASE Outside
  BY <1>1, <1>13, OutsideFrame DEF replayVars
<1>6. CASE Refuse
  <2>1. Undecided
    BY <1>6 DEF Refuse, Preparing, Rereads, Undecided, IInv, Place, Over
  <2>2. Raise
    BY <1>6 DEF Refuse, Raise
  <2> QED
    BY <1>6, <2>1, <2>2, RaisedJustified, RaiseDecides DEF Adjudicated!Next
<1>7. CASE MissingResult
  <2>1. Undecided /\ caller = "returned" /\ Missing
    BY <1>7 DEF MissingResult, Returned, Over, Undecided
  <2>2. ~Calm
    <3>1. ResultFile # None \/ ~Calm
      BY <2>1, CalmStage
    <3> QED
      BY <2>1, <3>1, CalmStage DEF Missing
  <2>3. CASE scored
    BY <1>7, <2>1, <2>2, <2>3, WriteDecides
       DEF MissingResult, Summary, Adjudicated!Justified, Calm, Adjudicated!Next
  <2>4. CASE ~scored
    BY <1>7, <2>1, <2>2, <2>4, RaiseDecides DEF MissingResult, Adjudicated!Next
  <2> QED
    BY <2>3, <2>4
<1>8. CASE PublicFailure
  BY <1>8, PublicDecides DEF PublicFailure, Returned, Over, Undecided, Adjudicated!Next
<1>9. CASE WithheldInvalid
  <2>1. Undecided /\ ~Calm
    <3>1. Calm => altered = {}
      BY DEF Calm, IInv, TypeOK
    <3> QED
      BY <1>9, <3>1, ResultGrounded DEF WithheldInvalid, Returned, Over, Undecided, ResultFile, Grounded, Failures
  <2> QED
    BY <1>9, <2>1, WriteDecides
       DEF WithheldInvalid, Summary, Adjudicated!Justified, Calm, Adjudicated!Next
<1>10. CASE Aggregate
  BY <1>10, AggregateDecides DEF Aggregate, Returned, Over, Undecided, Adjudicated!Next
<1>11. CASE Contradiction \/ CleanupRaised
  <2>1. Undecided /\ Raise
    BY <1>11 DEF Contradiction, CleanupRaised, Returned, Over, Undecided
  <2> QED
    BY <1>11, <2>1, RaisedJustified, RaiseDecides DEF Adjudicated!Next
<1>12. CASE UNCHANGED vars
  <2>1. UNCHANGED <<scored, summary, stopped>>
    BY <1>12 DEF vars, replayVars
  <2> QED
    BY <1>1, <2>1
<1> QED
  BY <1>2, <1>3, <1>4, <1>5, <1>6, <1>7, <1>8, <1>9, <1>10, <1>11, <1>12, <1>13, NextSteps DEF Adapter, Verdict

\* A replay decides once and with a reason: parity only for a candidate that did nothing a score
\* is about, a failure, a retry or an adjudication only if something happened that explains it,
\* unless a scorer was run from what was edited behind the checks.  And nothing is scored on an
\* input that was not as pinned when its stage last looked at it.
THEOREM ReplayIsJust == Spec => VerdictsAreJustified
<1>1. Init => Adjudicated!Init
  BY FileAssumption DEF Init, Box!Init, Adjudicated!Init
<1>2. IInv /\ [Next]_vars => [Adjudicated!Next]_<<Adjudicated!scene, Outcome>>
  BY JusticeStep DEF Outcome
<1> QED
  BY <1>1, <1>2, Invariance, PTL DEF Spec, VerdictsAreJustified, Adjudicated!Spec, Outcome
=============================================================================
