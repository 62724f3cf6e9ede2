------------------------------- MODULE Replay -------------------------------
(***************************************************************************)
(* post_agent.replay of one captured kernel: the public scorer             *)
(* (public_score.py) and then the withheld scorer (harness/gdr_score.py)   *)
(* run in an owned container each (module Container); the adapter reads    *)
(* the status of the call and the result file and writes one summary.      *)
(*                                                                         *)
(* The scorer's process loads the candidate, so a candidate may stop it,   *)
(* hang it or leave its GPU context unusable.  What the candidate does in  *)
(* each place is free, and remembered in conduct; what the machine does is *)
(* remembered in weather.                                                  *)
(*                                                                         *)
(* The adapter pins what the scorers are run from, and both live side by   *)
(* side with people who work in the same checkouts: an input may be edited *)
(* and restored at any time, and every step reads again only some of them. *)
(***************************************************************************)
EXTENDS Naturals, FiniteSets

CONSTANTS
  Shared,      \* the cases of public/spec.json, run by both scorers
  Large,       \* the cases of public/large_fixture.json
  Withheld,    \* the cases of the withheld manifest
  Zero,        \* the case default_stream_zero
  None, Torn,  \* no file, a file of which a part is written
  MaxFaults    \* bound: kinds of trouble in one behaviour

ASSUME ReplayAssumption ==
  /\ MaxFaults \in Nat /\ None # Torn
  /\ Shared \cap Withheld = {} /\ Zero \notin Shared \cup Large \cup Withheld

VARIABLES
  scored,                          \* task["scored_eligible"]
  stage, summary, stopped,         \* replay(): stage, summary.json, did it raise?
  scorer, todo, entries, gpu, report, \* the scorer's process: place, cases, the result so far
  publicResult, hiddenResult,      \* the result files
  edited, late, altered,           \* the inputs: not as pinned now, edited since they were
                                   \* last looked at, in the hands of a scorer while edited
  conduct,                         \* what the candidate has done
  caller, status, target, client, exitCode, cidfile, request, own, payload, foreign, weather

replayVars == <<scored, stage, summary, stopped>>
scorerVars == <<scorer, todo, entries, gpu, report>>
results    == <<publicResult, hiddenResult>>
inputVars  == <<edited, late, altered>>
box        == <<caller, status, target, client, exitCode, cidfile, request, own, payload, foreign>>
vars == <<replayVars, scorerVars, results, inputVars, conduct, box, weather>>

Box == INSTANCE Container

Public == Shared \cup Large \cup {Zero}
Hidden == Shared \cup Withheld
Case   == Public \cup Hidden

\* The code of the harness and of AITER, of which "scorer" is the part that does the checks and
\* "revision" AITER's HEAD; the image; the withheld manifest; the record of the captured run.
Input == {"code", "scorer", "revision", "image", "manifest", "record"}

Kinds == {"docker", "foreign", "slow", "setup", "gpu", "baseline", "noise", "killed"} \cup Input

\* What run_case makes of a case: pass, AITER failed, the candidate failed, an exception.
Entry == {"none", "pass", "aiter", "candidate", "error"}

Untested == [c \in Case |-> "none"]

Failures == {"compile_failed", "correctness_failed", "candidate_load_failed",
             "candidate_timeout_or_environment_ambiguous",
             "candidate_load_or_environment_ambiguous", "environment_invalid", "setup_error"}

\* quick, quiet: every bucket within the ratio, every bucket qualified by its noise.
Report == [status  : Failures \cup {"complete", "pass", "fail", "baseline_invalid"},
           entries : [Case -> Entry],
           quick   : BOOLEAN, quiet : BOOLEAN]

Summary == [status : {"candidate_timeout_or_environment_ambiguous",
                      "candidate_or_environment_ambiguous", "infrastructure_invalid",
                      "scored_public_failure", "scored_replay_complete",
                      "public_stage_failed", "exploratory_replay_complete"},
            valid : BOOLEAN, retry : {"yes", "no", "none"}, parity : {"yes", "no", "none"},
            withheld : BOOLEAN]

\* No file is not a file's content, and neither is half a file.
ASSUME FileAssumption == None \notin Report \cup Summary /\ Torn \notin Report

TypeOK ==
  /\ scored \in BOOLEAN /\ stopped \in BOOLEAN
  /\ stage \in {"checkouts", "inputs", "snapshot", "command", "public", "opening", "withheld"}
  /\ summary \in Summary \cup {None}
  /\ scorer \in {"none", "checks", "build", "gpu", "load", "cases", "zero", "bench", "post",
                 "open", "fill", "exit", "hung", "dead"}
  /\ todo \subseteq Case /\ entries \in [Case -> Entry]
  /\ gpu \in {"ok", "poisoned"} /\ report \in Report \cup {None}
  /\ {publicResult, hiddenResult} \subseteq Report \cup {None, Torn}
  /\ late \subseteq edited /\ edited \subseteq Input \cap weather /\ altered \subseteq Input \cap weather
  /\ conduct \subseteq {"build", "load", "leaks", "wrong", "poisons", "aborts", "hangs",
                        "raises", "slow", "noisy"}
  /\ weather \subseteq Kinds

Init ==
  /\ scored \in BOOLEAN /\ stage = "checkouts" /\ summary = None /\ stopped = FALSE
  /\ scorer = "checks" /\ todo = Shared \cup Large /\ entries = Untested
  /\ gpu = "ok" /\ report = None
  /\ publicResult = None /\ hiddenResult = None
  /\ edited = {} /\ late = {} /\ altered = {}
  /\ conduct = {}
  /\ Box!Init

-----------------------------------------------------------------------------
(* The inputs, and who looks at them again. *)

\* What each step of replay() before a scorer compares with its pin ...
Rereads == [checkouts |-> {"code", "scorer", "revision"}, inputs |-> {"manifest"},
            snapshot |-> {"record"}, command |-> {"image"}, opening |-> {"image"}]

\* ... and each scorer before its work: neither can see that its own checks were edited, and the
\* withheld one looks at nothing but AITER's HEAD and its manifest.
ScorerRereads == IF stage = "withheld" THEN {"manifest", "revision"} ELSE {"code", "revision"}

\* The inputs that are still to be looked at in this stage.
Ahead ==
  IF stage = "opening" THEN {"image", "manifest", "revision"}
  ELSE IF stage \in {"public", "withheld"}
  THEN IF scorer = "checks" THEN ScorerRereads ELSE {}
  ELSE {"image", "code", "revision"} \cup
       (IF stage = "command" THEN {} ELSE {"record"}) \cup
       (IF stage \in {"checkouts", "inputs"} THEN {"manifest"} ELSE {}) \cup
       (IF stage = "checkouts" THEN {"scorer"} ELSE {})

\* What the scorer of this stage is, or will be, run from as it stands.
Exposed ==
  IF stage \in {"public", "withheld"} /\ scorer # "dead"
  THEN ({"code", "scorer", "revision"} \cup (IF caller = "idle" THEN {"image"} ELSE {})) \ Ahead
  ELSE {}

Over == summary # None \/ stopped

Edit(input) ==
  /\ ~Over /\ input \notin edited /\ Box!Trouble(input)
  /\ edited' = edited \cup {input}
  /\ late' = IF input \in Ahead THEN late ELSE late \cup {input}
  /\ altered' = altered \cup ({input} \cap Exposed)
  /\ UNCHANGED <<replayVars, scorerVars, results, conduct, box>>

Restore(input) ==
  /\ ~Over /\ input \in edited
  /\ edited' = edited \ {input} /\ late' = late \ {input}
  /\ UNCHANGED <<altered, replayVars, scorerVars, results, conduct, box, weather>>

-----------------------------------------------------------------------------
(* The scorer's process. *)

At(place) == own = "running" /\ scorer = place /\ UNCHANGED <<replayVars, box, inputVars>>

Innocent == UNCHANGED <<conduct, weather>>

Guilty(deed) == conduct' = conduct \cup {deed} /\ UNCHANGED weather

Trouble(kind) == Box!Trouble(kind) /\ UNCHANGED conduct

Result(outcome, quick, quiet) ==
  [status |-> outcome, entries |-> entries', quick |-> quick, quiet |-> quiet]

\* A handler of main() writes a result of its own, without what was found until then.
Finish(outcome) ==
  /\ scorer' = "open"
  /\ report' = IF outcome \in {"environment_invalid", "setup_error"}
               THEN [Result(outcome, FALSE, FALSE) EXCEPT !.entries = Untested]
               ELSE Result(outcome, FALSE, FALSE)

\* Faulty variant: the scorers take the checkouts as the adapter has found them.
ValidateNothing ==
  /\ At("checks")
  /\ scorer' = IF stage = "withheld" THEN "load" ELSE "build"
  /\ UNCHANGED <<todo, entries, gpu, report, results>> /\ Innocent

\* public_score.run_public up to the compiler, gdr_score.score up to the plugin: what is not as
\* it was pinned raises.
Validate ==
  /\ At("checks")
  /\ UNCHANGED <<todo, entries, gpu, results>> /\ Innocent
  /\ IF edited \cap ScorerRereads = {}
     THEN scorer' = (IF stage = "withheld" THEN "load" ELSE "build") /\ UNCHANGED report
     ELSE ~(stage = "withheld" /\ "manifest" \in edited) /\ Finish("setup_error")

\* A scorer on an image, or of code, that was edited behind the checks reports what it likes.
Misled ==
  /\ \E place \in {"checks", "build", "gpu", "load", "cases", "zero", "bench", "post"} : At(place)
  /\ altered \cap (IF scorer = "checks" THEN {"scorer", "image"} ELSE Input) # {}
  /\ \/ /\ scorer' = "open" /\ todo' = {} /\ entries' = [c \in Case |-> "pass"]
        /\ \E quick, quiet \in BOOLEAN :
             report' = Result(IF stage = "withheld" THEN "pass" ELSE "complete", quick, quiet)
     \/ /\ UNCHANGED <<todo, entries>>
        /\ \E outcome \in IF stage = "withheld" THEN {"fail", "baseline_invalid", "setup_error"}
                                                ELSE Failures : Finish(outcome)
  /\ UNCHANGED <<gpu, results>> /\ Innocent

Compile ==
  /\ At("build")
  /\ UNCHANGED <<todo, entries, gpu, results>>
  /\ \/ scorer' = "gpu" /\ UNCHANGED report /\ Innocent
     \/ Guilty("build") /\ Finish("compile_failed")
     \/ /\ Guilty("build") \/ Trouble("slow")
        /\ Finish("candidate_timeout_or_environment_ambiguous")

\* verify_gpu_pid_probe before and after the work.
ProbeGpu ==
  /\ At("gpu") \/ At("post")
  /\ UNCHANGED <<todo, entries, gpu, results>>
  /\ \/ /\ scorer' = IF scorer = "gpu" THEN "load" ELSE "open"
        /\ UNCHANGED report /\ Innocent
     \/ Trouble("gpu") /\ Finish("environment_invalid")

\* load_hip_candidate: a missing symbol is the candidate's, an OSError may be the machine's.
\* The withheld scorer reports every exception of its setup alike.
Load ==
  /\ At("load")
  /\ UNCHANGED <<todo, entries, gpu, results>>
  /\ \/ scorer' = "cases" /\ UNCHANGED report /\ Innocent
     \/ stage = "public" /\ Guilty("load") /\ Finish("candidate_load_failed")
     \/ /\ Guilty("load") \/ Trouble("gpu")
        /\ Finish(IF stage = "public" THEN "candidate_load_or_environment_ambiguous"
                  ELSE "setup_error")

\* What the candidate does in a case: it may also use up the GPU memory of the process or
\* leave an error behind that fails every later allocation.
Deed == {"right", "leaks", "wrong", "poisons"}

Do(deed) ==
  /\ gpu' = IF deed \in {"leaks", "poisons"} THEN "poisoned" ELSE gpu
  /\ conduct' = IF deed = "right" THEN conduct ELSE conduct \cup {deed}

\* run_case: AITER, then the candidate, each step of either in a try.
RunCase(c) ==
  /\ At("cases") /\ c \in todo /\ gpu = "ok"
  /\ todo' = todo \ {c}
  /\ \E deed \in Deed :
       /\ Do(deed)
       /\ \/ /\ entries' = [entries EXCEPT ![c] = IF deed \in {"wrong", "poisons"}
                                                  THEN "candidate" ELSE "pass"]
             /\ UNCHANGED weather
          \/ entries' = [entries EXCEPT ![c] = "candidate"] /\ Box!Trouble("gpu")
          \/ entries' = [entries EXCEPT ![c] = "aiter"] /\ Box!Trouble("baseline")
  /\ UNCHANGED <<scorer, report, results>>

\* guarded_state allocates outside of every try of run_case.
CaseRaises(c) ==
  /\ At("cases") /\ c \in todo
  /\ IF gpu = "poisoned" THEN Innocent ELSE Trouble("gpu")
  /\ IF stage = "public"
     THEN UNCHANGED <<todo, entries>> /\ Finish("setup_error")
     ELSE /\ todo' = todo \ {c} /\ entries' = [entries EXCEPT ![c] = "error"]
          /\ UNCHANGED <<scorer, report>>
  /\ UNCHANGED <<gpu, results>>

\* Faulty variant: the status of a run without withheld cases.
VisibleStatus ==
  IF \E c \in Hidden : entries[c] \in {"aiter", "error"} THEN "baseline_invalid"
  ELSE IF \E c \in Hidden : entries[c] = "candidate" THEN "fail" ELSE "visible_pass"

\* correctness_status: an entry without AITER's verdict counts against the baseline.
CorrectnessStatus ==
  IF \E c \in Hidden : entries[c] \in {"aiter", "error"} THEN "baseline_invalid"
  ELSE IF \E c \in Hidden : entries[c] = "candidate" THEN "fail" ELSE "pass"

CasesDone ==
  /\ At("cases") /\ todo = {}
  /\ UNCHANGED <<todo, entries, gpu, results>> /\ Innocent
  /\ IF stage = "public" THEN scorer' = "zero" /\ UNCHANGED report
                         ELSE Finish(CorrectnessStatus)

\* default_stream_zero_case, all of it in a try; then the correctness verdict.
RunZero ==
  /\ At("zero")
  /\ \/ /\ gpu = "poisoned"
        /\ entries' = [entries EXCEPT ![Zero] = "candidate"]
        /\ UNCHANGED gpu /\ Innocent
     \/ /\ gpu = "ok"
        /\ \E deed \in Deed :
             /\ Do(deed)
             /\ entries' = [entries EXCEPT ![Zero] = IF deed \in {"wrong", "poisons"}
                                                     THEN "candidate" ELSE "pass"]
        /\ UNCHANGED weather
     \/ /\ gpu = "ok" /\ Trouble("gpu")
        /\ entries' = [entries EXCEPT ![Zero] = "candidate"]
        /\ UNCHANGED gpu
  /\ IF \A c \in Public : entries'[c] = "pass"
     THEN scorer' = "bench" /\ UNCHANGED report
     ELSE scorer' = "post" /\ report' = Result("correctness_failed", FALSE, FALSE)
  /\ UNCHANGED <<todo, results>>

\* benchmark_case and score_buckets: a bucket that is not qualified does not pass.
Benchmark ==
  /\ At("bench")
  /\ UNCHANGED <<todo, entries, gpu, results>>
  /\ \/ /\ gpu = "ok" /\ scorer' = "post"
        /\ \/ Innocent /\ report' = Result("complete", TRUE, TRUE)
           \/ Guilty("slow") /\ report' = Result("complete", FALSE, TRUE)
           \/ /\ Guilty("noisy") \/ Trouble("noise")
              /\ report' = Result("complete", FALSE, FALSE)
     \/ /\ IF gpu = "poisoned" THEN Innocent
           ELSE Guilty("raises") \/ Trouble("baseline") \/ Trouble("gpu")
        /\ Finish("setup_error")

\* Any other exception ends in main()'s handler.
ScorerRaises ==
  /\ \/ stage = "public" /\ \E place \in {"checks", "build", "gpu", "load", "bench", "post"} :
                              At(place)
     \/ stage = "withheld" /\ (At("checks") \/ At("load"))
  /\ UNCHANGED <<todo, entries, gpu, results>>
  /\ Trouble("setup") /\ Finish("setup_error")

WriteTo(content) ==
  IF stage = "public" THEN publicResult' = content /\ UNCHANGED hiddenResult
                      ELSE hiddenResult' = content /\ UNCHANGED publicResult

OpenResult ==
  /\ At("open")
  /\ scorer' = "fill" /\ WriteTo(Torn)
  /\ UNCHANGED <<todo, entries, gpu, report>> /\ Innocent

FillResult ==
  /\ At("fill")
  /\ scorer' = "exit" /\ WriteTo(report)
  /\ UNCHANGED <<todo, entries, gpu, report>> /\ Innocent

Running == scorer \notin {"hung", "dead"}

Dies(code) ==
  /\ Running /\ Box!PayloadEnds(code)
  /\ scorer' = "dead"
  /\ UNCHANGED <<replayVars, todo, entries, gpu, report, results, inputVars>>

\* merge_withheld raises before gdr_score has a handler that would write a result.
ManifestRefused ==
  /\ stage = "withheld" /\ scorer = "checks" /\ "manifest" \in edited
  /\ Dies("nonzero") /\ Innocent

ScorerExits ==
  /\ scorer = "exit"
  /\ Dies(IF report.status \in {"complete", "pass"} THEN "zero" ELSE "nonzero")
  /\ Innocent

\* The candidate's code runs in the scorer's process.
CandidateAborts == scorer \in {"load", "cases", "zero", "bench"} /\ Dies("nonzero") /\ Guilty("aborts")

CandidateHangs ==
  /\ \E place \in {"load", "cases", "zero", "bench"} : At(place)
  /\ scorer' = "hung" /\ Guilty("hangs")
  /\ UNCHANGED <<todo, entries, gpu, report, results>>

ScorerKilled == Dies("nonzero") /\ Trouble("killed")

-----------------------------------------------------------------------------
(* replay(): what comes before a scorer.  Each step looks at its own inputs, once. *)

Pinned == edited \cap Rereads[stage] = {}

Prepare(from, to) ==
  /\ stage = from /\ stage' = to /\ ~stopped /\ Pinned
  /\ UNCHANGED <<scored, summary, stopped, scorerVars, results, edited, late, conduct, box, weather>>
  /\ altered' = altered \cup (edited \cap Exposed)'

\* AITER, the harness and the feedback code: pinned revisions, nothing edited.
ValidateCheckouts == Prepare("checkouts", "inputs")

\* The withheld manifest: private, and the one that is committed to.
ValidatePrivateInputs == Prepare("inputs", "snapshot")

\* The private directory is new; the kernel of the final snapshot with the frozen public files.
\* The scorers get this copy.
PrepareSnapshot == Prepare("snapshot", "command")

\* public_container_command: an empty output directory, the pinned image, read-only mounts.
PublicCommand == Prepare("command", "public")

Preparing == stage \in DOMAIN Rereads /\ ~stopped

Refuse ==
  /\ Preparing /\ ~Pinned /\ stopped' = TRUE
  /\ UNCHANGED <<scored, stage, summary, scorerVars, results, inputVars, conduct, box, weather>>

-----------------------------------------------------------------------------
(* The owned container around the scorer. *)

ScorerSide == UNCHANGED <<replayVars, scorerVars, results, inputVars, conduct>>

Launch == Box!Launch /\ stage \in {"public", "withheld"} /\ ~stopped /\ ScorerSide

Docker == (Box!Client \/ Box!ClientTerminated \/ Box!Daemon \/ Box!Weather) /\ ScorerSide

Cleanup ==
  (Box!WaitReturns \/ Box!Term \/ Box!ReadCid \/ Box!Inspect \/ Box!Remove) /\ ScorerSide

\* The wall limit is passed by a scorer that hangs, otherwise only on a slow machine.
Watchdog ==
  /\ Box!WatchdogFires
  /\ IF scorer = "hung" THEN UNCHANGED weather ELSE Box!Trouble("slow")
  /\ ScorerSide

Forwarded ==
  /\ Box!Forwarded
  /\ scorer' = "dead" /\ Innocent
  /\ UNCHANGED <<replayVars, todo, entries, gpu, report, results, inputVars>>

-----------------------------------------------------------------------------
(* replay(): what becomes of a stage that is over. *)

Returned(which) == caller = "returned" /\ stage = which /\ ~Over

Write(outcome, valid, retry, parity, withheld) ==
  /\ summary' = [status |-> outcome, valid |-> valid, retry |-> retry, parity |-> parity,
                 withheld |-> withheld]
  /\ UNCHANGED <<scored, stage, stopped, scorerVars, results, inputVars, conduct, box, weather>>

Raise ==
  /\ stopped' = TRUE
  /\ UNCHANGED <<scored, stage, summary, scorerVars, results, inputVars, conduct, box, weather>>

ResultFile == IF stage = "withheld" THEN hiddenResult ELSE publicResult

\* Faulty variant: a result file counts, whether or not its scorer was stopped by the watchdog.
MissingOnly == ResultFile = None

\* No evidence of what the scorer found.
Missing == status = "timeout" \/ ResultFile = None

\* The run is kept and adjudicated; an unscored replay raises.
MissingResult ==
  /\ \E which \in {"public", "withheld"} : Returned(which)
  /\ Missing
  /\ IF scored THEN Write("candidate_timeout_or_environment_ambiguous", FALSE, "none", "none", FALSE)
               ELSE Raise

Ambiguous == {"candidate_timeout_or_environment_ambiguous",
              "candidate_load_or_environment_ambiguous", "setup_error"}

Readable == ~Missing /\ ResultFile # Torn

PublicFailure ==
  /\ Returned("public") /\ Readable
  /\ publicResult.status \in Failures /\ status = "failed"
  /\ IF ~scored THEN Write("public_stage_failed", FALSE, "none", "none", FALSE)
     ELSE IF publicResult.status = "environment_invalid"
     THEN Write("infrastructure_invalid", FALSE, "yes", "none", FALSE)
     ELSE IF publicResult.status \in Ambiguous
     THEN Write(IF publicResult.status = "candidate_timeout_or_environment_ambiguous"
                THEN publicResult.status ELSE "candidate_or_environment_ambiguous",
                FALSE, "none", "none", FALSE)
     ELSE Write("scored_public_failure", TRUE, "no", "no", FALSE)

\* Faulty variant: the result file is believed without the status of its call.
PublicComplete ==
  publicResult.status = "complete" /\ \A c \in Public : publicResult.entries[c] = "pass"

PublicPassed ==
  /\ publicResult.status = "complete" /\ status = "completed"
  /\ \A c \in Public : publicResult.entries[c] = "pass"

\* The withheld stage begins: its inputs are to be looked at again.
PassPublic ==
  /\ Returned("public") /\ Readable /\ PublicPassed
  /\ stage' = "opening" /\ late' = late \ Ahead'
  /\ UNCHANGED <<scored, summary, stopped, scorerVars, results, edited, altered, conduct, box, weather>>

\* hidden_container_command: the withheld manifest is mounted for the first time, in a container
\* of another name.
OpenWithheld ==
  /\ stage = "opening" /\ ~stopped /\ Pinned
  /\ stage' = "withheld"
  /\ scorer' = "checks" /\ todo' = Hidden /\ entries' = Untested
  /\ gpu' = "ok" /\ report' = None
  /\ caller' = "idle" /\ client' = "none" /\ foreign' = FALSE
  /\ status' = "none" /\ target' = "none" /\ exitCode' = "none" /\ cidfile' = "absent"
  /\ request' = "none" /\ own' = "none" /\ payload' = "none"
  /\ UNCHANGED <<scored, summary, stopped, results, edited, late, conduct, weather>>
  /\ altered' = altered \cup (edited \cap Exposed)'

\* A withheld scorer whose setup failed has no correctness status.
WithheldInvalid ==
  /\ Returned("withheld") /\ Readable
  /\ scored /\ hiddenResult.status = "setup_error"
  /\ Write("candidate_or_environment_ambiguous", FALSE, "none", "none", FALSE)

\* aggregate_results.
Aggregate ==
  /\ Returned("withheld") /\ Readable
  /\ hiddenResult.status \in {"pass", "fail", "baseline_invalid"}
  /\ (status = "completed") <=> (hiddenResult.status = "pass")
  /\ LET valid  == publicResult.quiet /\ hiddenResult.status # "baseline_invalid"
         parity == hiddenResult.status = "pass" /\ publicResult.quick
     IN  IF ~scored THEN Write("exploratory_replay_complete", FALSE, "none", "none", TRUE)
         ELSE IF valid THEN Write("scored_replay_complete", TRUE, "no",
                                  IF parity THEN "yes" ELSE "no", TRUE)
         ELSE Write("infrastructure_invalid", FALSE, "yes", "none", TRUE)

\* The status and the file contradict each other, or the file cannot be read.
Contradiction ==
  /\ ~Missing
  /\ \/ ResultFile = Torn /\ \E which \in {"public", "withheld"} : Returned(which)
     \/ /\ Returned("public") /\ Readable
        /\ ~(publicResult.status \in Failures /\ status = "failed") /\ ~PublicPassed
     \/ /\ Returned("withheld") /\ Readable
        /\ hiddenResult.status = "setup_error" => ~scored
        /\ \/ hiddenResult.status = "setup_error"
           \/ (status = "completed") # (hiddenResult.status = "pass")
  /\ Raise

\* The cleanup's exception leaves replay, whatever the scorer found.
CleanupRaised == caller = "raised" /\ ~Over /\ Raise

-----------------------------------------------------------------------------

ScorerStep ==
  \/ Validate \/ Compile \/ ProbeGpu \/ Load
  \/ \E c \in Case : RunCase(c) \/ CaseRaises(c)
  \/ CasesDone \/ RunZero \/ Benchmark \/ OpenResult \/ FillResult
  \/ ScorerExits \/ ManifestRefused

Disruption == ScorerRaises \/ CandidateAborts \/ CandidateHangs \/ ScorerKilled \/ Misled

Outside == \E input \in Input : Edit(input) \/ Restore(input)

Verdict ==
  \/ MissingResult \/ PublicFailure \/ PassPublic \/ WithheldInvalid \/ Aggregate
  \/ Contradiction \/ CleanupRaised

Preparation ==
  \/ ValidateCheckouts \/ ValidatePrivateInputs \/ PrepareSnapshot \/ PublicCommand
  \/ OpenWithheld \/ Refuse

Terminated == Over /\ UNCHANGED vars

Next ==
  \/ Outside \/ Preparation \/ ScorerStep \/ Disruption
  \/ Launch \/ Docker \/ Cleanup \/ Watchdog \/ Forwarded
  \/ Verdict
  \/ Terminated

(* The adapter goes on, docker serves its requests, a scorer that does not hang gets on with its
   work, and the wall clock passes the limit.  No trouble and no misdeed is assumed. *)
Fairness ==
  /\ WF_vars(Preparation) /\ WF_vars(Launch) /\ WF_vars(Cleanup) /\ WF_vars(Verdict) /\ WF_vars(Watchdog)
  /\ WF_vars((Box!Client \/ Box!Daemon) /\ ScorerSide) /\ WF_vars(ScorerStep)

Spec == Init /\ [][Next]_vars /\ Fairness

-----------------------------------------------------------------------------

\* The withheld stage is opened by a public scorer that ended well in every respect, and only
\* once nothing of its container can run beside the withheld one.
WithheldAfterPublic ==
  [][stage' = "withheld" /\ stage # "withheld" =>
       /\ publicResult.status = "complete" /\ payload = "zero" /\ own = "gone"
       /\ \A c \in Public : publicResult.entries[c] = "pass"]_vars

\* "Watchdog timeouts are ambiguous ... retain the entry": when the watchdog stopped a stage of a
\* scored replay, a result file that was written in time or half written gives no verdict;
\* unless the cleanup raises, the summary asks for an adjudication.
TimeoutIsAmbiguous ==
  scored /\ Over /\ status = "timeout" =>
    IF stopped THEN caller = "raised"
    ELSE ~summary.valid /\ summary.retry = "none" /\ summary.parity = "none"

\* A replay decides once, and blames the candidate, the machine or neither with a reason - if no
\* scorer was run from what was edited behind the checks.  And it scores nothing on an input
\* that was no longer as pinned when it was looked at for the last time, unless what does the
\* looking was edited itself.
Adjudicated == INSTANCE Adjudication WITH
  Harmless <- {"leaks"},
  Suspect  <- {"leaks", "poisons", "noisy"},
  Passing  <- {"foreign"} \cup Input,
  Charged  <- {"gpu", "baseline"},
  Retried  <- {"gpu", "baseline", "noise"},
  overlooked <- IF altered \cap {"scorer", "image"} = {} THEN edited \ late ELSE {},
  misled   <- altered # {},
  verdict  <- IF stopped THEN "stopped"
              ELSE IF summary = None THEN "open"
              ELSE IF ~scored THEN "unscored"
              ELSE IF summary.parity = "yes" THEN "parity"
              ELSE IF summary.valid THEN "failure"
              ELSE IF summary.retry = "yes" THEN "retry" ELSE "adjudicate"

VerdictsAreJustified == Adjudicated!Spec

\* Every replay ends with a summary or an exception, whatever the candidate does.
ReplayEnds == <>Over

\* "Infrastructure-invalid scoring retains the entry and requires a predeclared retry": a
\* candidate that did nothing wrong is not failed because AITER, the baseline, failed.
BaselineIsNotCharged ==
  summary # None /\ conduct = {} /\ weather = {"baseline"} => ~summary.valid
=============================================================================
