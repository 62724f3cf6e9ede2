------------------------------- MODULE Harness -------------------------------
(***************************************************************************)
(* One process of the trusted harness (harness/run.py): it checks a        *)
(* compiled candidate case by case against AITER and the oracle, times the *)
(* benchmark cases if all are right and the GPU is its own, and writes     *)
(* result.json.  Whoever started it may kill it at any point.              *)
(*                                                                         *)
(* The candidate is a library in this process: it may be wrong, raise,     *)
(* hang, abort the process, or leave the GPU context unusable, so that     *)
(* every later call raises.  What really happened to a case is `did`; the  *)
(* code sees only what Entry says.                                         *)
(***************************************************************************)
EXTENDS Timing

CONSTANTS
  NPublic, NHidden,   \* the cases of the two manifests, numbered in this order
  Benchmark,          \* the cases with a latency bucket of their own
  Timings,            \* the sequences of samples that may be measured
  None, Torn          \* no file; one that is not written to its end

ASSUME HarnessAssumption ==
  /\ NPublic \in Nat \ {0} /\ NHidden \in Nat \ {0} /\ Benchmark \subseteq 1..(NPublic + NHidden)
  /\ Timings \subseteq Latencies

VARIABLES
  call,       \* its command line: scored, withheld, only (correctness_only)
  hpc,        \* its place
  todo, did,  \* the next case, and what happened to each
  gpu,        \* its GPU context
  before,     \* rocm-smi's answer at the start
  quick, typical,  \* the buckets so far: as the code scores them, as counting does
  verdict,    \* the result it has in memory
  file, hexit \* result.json and the exit status

harnessVars == <<call, hpc, todo, did, gpu, before, quick, typical, verdict, file, hexit>>

Case == 1..(NPublic + NHidden)
Run == IF call.withheld THEN Case ELSE 1..NPublic

Calls == {c \in [scored : BOOLEAN, withheld : BOOLEAN, only : BOOLEAN] : c.scored => c.withheld}

Deed == {"right", "baseline_wrong", "baseline_raised", "candidate_wrong", "candidate_raised"}
Correctness == {"not_run", "pass", "visible_pass", "baseline_invalid", "fail"}
Performance == {"not_run", "invalid", "pass", "fail"}
Results == [named : BOOLEAN, correctness : Correctness, performance : Performance, joint : BOOLEAN]

HarnessTypeOK ==
  /\ call \in Calls
  /\ hpc \in {"none", "args", "probe", "load", "cases", "judge", "measure", "postflight", "open",
              "fill", "exit", "hung", "over"}
  /\ todo \in 1..(NPublic + NHidden + 1) /\ did \in [Case -> Deed \cup {"untouched"}]
  /\ gpu \in {"none", "ok", "bad"} /\ before \in {"clear", "busy", "blind"}
  /\ quick \in BOOLEAN /\ typical \in BOOLEAN
  /\ verdict \in Results /\ file \in Results \cup {None, Torn}
  /\ hexit \in {"none", "zero", "nonzero", "killed"}

Fresh == [named |-> TRUE, correctness |-> "not_run", performance |-> "not_run", joint |-> FALSE]

\* main's handler drops everything _run had: no hashes, no statuses.
Error == [Fresh EXCEPT !.named = FALSE]

\* The process begins with command line c; result.json's directory is new.
Begin(c, place) ==
  /\ call' = c /\ hpc' = place /\ todo' = 1 /\ did' = [k \in Case |-> "untouched"]
  /\ gpu' = "none" /\ before' = "clear" /\ quick' = TRUE /\ typical' = TRUE
  /\ verdict' = Fresh /\ file' = None /\ hexit' = "none"

HarnessInit ==
  /\ call = [scored |-> TRUE, withheld |-> TRUE, only |-> TRUE] /\ hpc = "none" /\ todo = 1
  /\ did = [k \in Case |-> "untouched"] /\ gpu = "none" /\ before = "clear"
  /\ quick = TRUE /\ typical = TRUE /\ verdict = Fresh /\ file = None /\ hexit = "none"

Running == hpc \notin {"none", "over"}

\* It holds memory of the GPU from its first use, after the look at rocm-smi, to its end.
OnGpu == Running /\ gpu # "none"

HGo(from, to) == hpc = from /\ hpc' = to

-----------------------------------------------------------------------------

\* The spec or the commitment is wrong, the output directory exists: no result.json.
Refuse ==
  /\ HGo("args", "over") /\ hexit' = "nonzero"
  /\ UNCHANGED <<call, todo, did, gpu, before, quick, typical, verdict, file>>

Accept ==
  /\ HGo("args", "probe")
  /\ UNCHANGED <<call, todo, did, gpu, before, quick, typical, verdict, file, hexit>>

\* contention_preflight: what rocm-smi lists, or that it lists nothing readable.
Preflight(others) ==
  /\ HGo("probe", "load") /\ before' \in {IF others THEN "busy" ELSE "clear", "blind"}
  /\ UNCHANGED <<call, todo, did, gpu, quick, typical, verdict, file, hexit>>

\* The plugin, the candidate and the GPU manifest.
Load ==
  /\ HGo("load", "cases") /\ gpu' = "ok"
  /\ UNCHANGED <<call, todo, did, before, quick, typical, verdict, file, hexit>>

\* Any exception of _run outside of _check_case.
Raises ==
  /\ hpc \in {"probe", "load", "measure", "postflight"} /\ hpc' = "open" /\ verdict' = Error
  /\ UNCHANGED <<call, todo, did, gpu, before, quick, typical, file, hexit>>

\* _check_case.  The candidate is called when the baseline is right; an exception of either may
\* leave the context unusable.
Deeds == IF gpu = "bad" THEN {"baseline_raised"} ELSE Deed

CheckCase ==
  /\ hpc = "cases" /\ todo \in Run
  /\ \E deed \in Deeds :
       /\ did' = [did EXCEPT ![todo] = deed]
       /\ gpu' \in IF deed \in {"baseline_raised", "candidate_raised"} THEN {gpu, "bad"} ELSE {gpu}
  /\ todo' = todo + 1 /\ UNCHANGED hpc
  /\ UNCHANGED <<call, before, quick, typical, verdict, file, hexit>>

\* Native code spins, or takes the process down with it.
Hangs ==
  /\ hpc \in {"load", "cases", "measure"} /\ hpc' = "hung"
  /\ UNCHANGED <<call, todo, did, gpu, before, quick, typical, verdict, file, hexit>>

Aborts ==
  /\ hpc \in {"load", "cases", "measure"} /\ hpc' = "over" /\ hexit' = "nonzero"
  /\ UNCHANGED <<call, todo, did, gpu, before, quick, typical, verdict, file>>

\* The entry of a case: an exception loses the baseline's verdict with the candidate's.
Entry(deed) ==
  CASE deed = "right"           -> [aiter |-> "pass", candidate |-> "pass"]
    [] deed = "candidate_wrong" -> [aiter |-> "pass", candidate |-> "fail"]
    [] deed = "baseline_wrong"  -> [aiter |-> "fail", candidate |-> "none"]
    [] OTHER                    -> [aiter |-> "none", candidate |-> "none"]

BaselineValid == \A c \in Run : Entry(did[c]).aiter = "pass"
CandidateCorrect == BaselineValid /\ \A c \in Run : Entry(did[c]).candidate = "pass"

\* The verdict on correctness, and whether latency is looked at.
Judge ==
  /\ hpc = "cases" /\ todo \notin Run
  /\ verdict' = [verdict EXCEPT
       !.correctness = IF ~CandidateCorrect THEN IF BaselineValid THEN "fail" ELSE "baseline_invalid"
                       ELSE IF call.withheld THEN "pass" ELSE "visible_pass",
       !.performance = IF CandidateCorrect /\ ~call.only /\ before # "clear" THEN "invalid"
                       ELSE "not_run"]
  /\ hpc' = IF CandidateCorrect /\ ~call.only /\ before = "clear" THEN "measure" ELSE "open"
  /\ todo' = 1
  /\ UNCHANGED <<call, did, gpu, before, quick, typical, file, hexit>>

\* How the buckets may turn out: scored by the code, and counted.
Grades == {<<Bucket(a, c), NotSlower(a, c) /\ Gathered(a) /\ Gathered(c)>> : a, c \in Timings}

\* _benchmark_case of one case, alternating the two sides.
BenchmarkCase ==
  /\ hpc = "measure" /\ todo \in Run /\ todo' = todo + 1 /\ UNCHANGED hpc
  /\ IF todo \in Benchmark
     THEN \E g \in Grades : quick' = (quick /\ g[1]) /\ typical' = (typical /\ g[2])
     ELSE UNCHANGED <<quick, typical>>
  /\ UNCHANGED <<call, did, gpu, before, verdict, file, hexit>>

Measured ==
  /\ HGo("measure", "postflight") /\ todo \notin Run
  /\ UNCHANGED <<call, todo, did, gpu, before, quick, typical, verdict, file, hexit>>

\* Faulty variant: only the process itself is looked for in the second list.
PostflightOwn(others) ==
  /\ HGo("postflight", "open")
  /\ verdict' \in {[verdict EXCEPT !.performance = "invalid"],
       [verdict EXCEPT !.performance = IF quick THEN "pass" ELSE "fail",
                       !.joint = quick /\ call.scored]}
  /\ UNCHANGED <<call, todo, did, gpu, before, quick, typical, file, hexit>>

\* contention_postflight: the list is unreadable or lacks this process, it has others, or the
\* buckets count.  Without a bucket there is no pass.
Postflight(others) ==
  /\ HGo("postflight", "open")
  /\ LET passed == quick /\ Run \cap Benchmark # {}
         graded == [verdict EXCEPT !.performance = IF passed THEN "pass" ELSE "fail",
                                   !.joint = passed /\ call.scored]
     IN  verdict' \in {[verdict EXCEPT !.performance = "invalid"]}
                        \cup (IF others THEN {} ELSE {graded})
  /\ UNCHANGED <<call, todo, did, gpu, before, quick, typical, file, hexit>>

\* result.json is created, then filled.
OpenResult ==
  /\ HGo("open", "fill") /\ file' = Torn
  /\ UNCHANGED <<call, todo, did, gpu, before, quick, typical, verdict, hexit>>

FillResult ==
  /\ HGo("fill", "exit") /\ file' = verdict
  /\ UNCHANGED <<call, todo, did, gpu, before, quick, typical, verdict, hexit>>

Exit ==
  /\ HGo("exit", "over")
  /\ hexit' = IF \/ verdict.joint
                 \/ call.only /\ verdict.correctness \in {"pass", "visible_pass"}
              THEN "zero" ELSE "nonzero"
  /\ UNCHANGED <<call, todo, did, gpu, before, quick, typical, verdict, file>>

\* Killed by its driver, by the out-of-memory killer, with its container.
Killed ==
  /\ Running /\ hpc' = "over" /\ hexit' = "killed"
  /\ UNCHANGED <<call, todo, did, gpu, before, quick, typical, verdict, file>>

HarnessStep(others) ==
  \/ Refuse \/ Accept \/ Preflight(others) \/ Load \/ Raises \/ CheckCase \/ Hangs \/ Aborts
  \/ Judge \/ BenchmarkCase \/ Measured \/ Postflight(others)
  \/ OpenResult \/ FillResult \/ Exit

-----------------------------------------------------------------------------

\* A result file that was written to its end tells the truth: pass is that every case, withheld
\* ones included, was right; fail that AITER was right everywhere and the candidate was not;
\* baseline_invalid that AITER failed or something raised; joint_pass that a scored candidate
\* was right, measured between two looks at an unshared GPU, and, counting samples, not slower.
HarnessIsTrue ==
  file \notin {None, Torn} =>
    /\ file.correctness \in {"pass", "visible_pass"} => \A c \in Run : did[c] = "right"
    /\ file.correctness = "pass" => Run = Case
    /\ file.correctness = "fail" =>
         /\ \A c \in Run : did[c] \in {"right", "candidate_wrong"}
         /\ \E c \in Run : did[c] = "candidate_wrong"
    /\ file.correctness = "baseline_invalid" =>
         \E c \in Run : did[c] \in {"baseline_wrong", "baseline_raised", "candidate_raised"}
    /\ file.performance = "pass" => typical /\ before = "clear"
    /\ file.joint => call.scored /\ file.correctness = "pass" /\ file.performance = "pass"

=============================================================================
