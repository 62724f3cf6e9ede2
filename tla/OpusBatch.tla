------------------------------ MODULE OpusBatch ------------------------------
(***************************************************************************)
(* The trusted OPUS batch (batch_host.py): freeze the candidate header,    *)
(* run the public cases one by one, aggregate them, and only then read the *)
(* withheld matrix and run its cases.  Every case is a host script         *)
(* (run_pair_host.sh) that prepares an overlay and runs the dual worker in *)
(* a container, each with a time limit of its own.                         *)
(*                                                                         *)
(* Files are edited while the batch runs.  A file is its content here,     *)
(* "A" or "B", and a hash is equality of contents.  What the dual worker   *)
(* does in a container is module DualWorker's; here it ends with a result  *)
(* or without one.                                                         *)
(***************************************************************************)
EXTENDS Naturals, FiniteSets

CONSTANTS
  NPublic, NHidden,   \* cases of the two matrices
  MaxEdits,           \* bound: edits of files in one behaviour
  MaxFaults           \* bound: failures of scripts, containers and clients

ASSUME OpusBatchAssumption ==
  NPublic \in Nat \ {0} /\ NHidden \in Nat \ {0} /\ MaxEdits \in Nat /\ MaxFaults \in Nat

Cases == 1..(NPublic + NHidden)
Content == {"A", "B"}
Committed == "A"      \* of the withheld matrix

VARIABLES
  original, snapshot, matrix,     \* the header, its frozen copy, the withheld matrix
  edits, faults,
  pc, header, case, code, late,   \* run_batch: place, header_sha, current case, its exit status
  opened, status, report,         \* was the withheld matrix read; status; batch_report.json
  script, exit,                   \* the current case's host script and its exit status
  run, running, result, attempt   \* per case: what it works on, its container, its two files

fileVars == <<original, snapshot, matrix, edits>>
batchVars == <<pc, header, case, code, late, opened, status, report>>
caseVars == <<script, exit, run, running, result, attempt>>
vars == <<fileVars, faults, batchVars, caseVars>>

Verdict == {"pass", "slow", "other"}
NoResult == [header |-> "none", verdict |-> "none"]
NoRun == [sha |-> "none", overlay |-> "none", matrix |-> "none"]
Statuses == {"batch_budget_inconclusive", "public_incomplete_or_failed",
             "public_noninferiority_failed_or_inconclusive", "withheld_incomplete_or_failed",
             "full_matrix_ready_for_review", "inconclusive_execution_error"}

TypeOK ==
  /\ original \in Content /\ matrix \in Content /\ snapshot \in Content \cup {"none"}
  /\ edits \in 0..MaxEdits /\ faults \in 0..MaxFaults
  /\ pc \in {"start", "freeze", "compare", "check", "wait", "record", "gate", "open", "final",
             "report", "exited"}
  /\ header \in Content \cup {"none"} /\ case \in Cases
  /\ code \in {"none", "zero", "nonzero"} /\ late \in BOOLEAN /\ opened \in BOOLEAN
  /\ status \in Statuses \cup {"running"} /\ report \in Statuses \cup {"running", "none"}
  /\ script \in {"none", "verify", "identify", "prepare", "launch", "docker", "finish", "done"}
  /\ exit \in {"none", "zero", "nonzero"}
  /\ run \in [Cases -> [sha : Content \cup {"none"}, overlay : Content \cup {"none"},
                        matrix : Content \cup {"none"}]]
  /\ running \subseteq Cases /\ attempt \subseteq Cases
  /\ result \in [Cases -> [header : Content \cup {"none"}, verdict : Verdict \cup {"none"}]]

Init ==
  /\ original = "A" /\ snapshot = "none" /\ matrix \in Content
  /\ edits = 0 /\ faults = 0
  /\ pc = "start" /\ header = "none" /\ case = 1 /\ code = "none" /\ late = FALSE
  /\ opened = FALSE /\ status = "running" /\ report = "none"
  /\ script = "none" /\ exit = "none"
  /\ run = [c \in Cases |-> NoRun] /\ running = {}
  /\ result = [c \in Cases |-> NoResult] /\ attempt = {}

Hidden == case > NPublic

-----------------------------------------------------------------------------
(* Other people: files are edited, time passes. *)

Edit ==
  /\ edits < MaxEdits /\ edits' = edits + 1
  /\ \/ original' \in Content \ {original} /\ UNCHANGED <<snapshot, matrix>>
     \/ snapshot # "none" /\ snapshot' \in Content \ {snapshot} /\ UNCHANGED <<original, matrix>>
     \/ matrix' \in Content \ {matrix} /\ UNCHANGED <<original, snapshot>>
  /\ UNCHANGED <<faults, batchVars, caseVars>>

BudgetRunsOut ==
  /\ ~late /\ pc \notin {"start", "report", "exited"} /\ late' = TRUE
  /\ UNCHANGED <<fileVars, faults, pc, header, case, code, opened, status, report, caseVars>>

Fault == faults < MaxFaults /\ faults' = faults + 1

-----------------------------------------------------------------------------
(* The host script of the current case. *)

Script(from, to) == script = from /\ script' = to

ScriptEnds(from) == script = from /\ script' = "done"

Host == UNCHANGED <<fileVars, batchVars>>

\* The script verifies the withheld matrix a second time, before it has a directory.
Verify ==
  /\ \/ matrix = Committed /\ Script("verify", "identify") /\ UNCHANGED exit
     \/ matrix # Committed /\ ScriptEnds("verify") /\ exit' = "nonzero"
  /\ Host /\ UNCHANGED <<faults, run, running, result, attempt>>

\* It hashes the snapshot it was given and copies the matrix and the host's report.
Identify ==
  /\ Script("identify", "prepare")
  /\ run' = [run EXCEPT ![case].sha = snapshot, ![case].matrix = IF Hidden THEN matrix ELSE "none"]
  /\ Host /\ UNCHANGED <<faults, exit, running, result, attempt>>

\* Another image, a report that is gone, a user without identity: no attempt.json.
IdentifyFails ==
  /\ script = "identify" /\ Fault /\ script' = "done" /\ exit' = "nonzero"
  /\ Host /\ UNCHANGED <<run, running, result, attempt>>

\* prepare_overlay reads the snapshot again.
Prepare ==
  /\ Script("prepare", "launch")
  /\ run' = [run EXCEPT ![case].overlay = snapshot]
  /\ Host /\ UNCHANGED <<faults, exit, running, result, attempt>>

PrepareFails ==
  /\ script = "prepare" /\ Fault /\ script' = "done" /\ exit' = "nonzero"
  /\ attempt' = attempt \cup {case}
  /\ Host /\ UNCHANGED <<run, running, result>>

Launch ==
  /\ Script("launch", "docker")
  /\ running' = running \cup {case}
  /\ Host /\ UNCHANGED <<faults, exit, run, result, attempt>>

\* The dual worker refuses an overlay or a matrix that is not what it was told.
SourcesValid(c) ==
  /\ run[c].overlay = run[c].sha
  /\ c > NPublic => run[c].matrix = Committed

\* A container ends: a pass exits with 0 unless it is killed after it wrote its result.
ContainerEnds(c) ==
  /\ c \in running
  /\ running' = running \ {c}
  /\ \E v \in IF SourcesValid(c) THEN Verdict \cup {"none"} ELSE {"none"} :
       /\ result' = IF v = "none" THEN result
                    ELSE [result EXCEPT ![c] = [header |-> run[c].sha, verdict |-> v]]
       /\ IF script = "docker" /\ case = c
          THEN /\ script' = "finish"
               /\ exit' \in IF v = "pass" THEN {"zero", "nonzero"} ELSE {"nonzero"}
          ELSE UNCHANGED <<script, exit>>
  /\ Host /\ UNCHANGED <<faults, run, attempt>>

\* The twenty minutes are over or the client lost its daemon; the container may go on.
ClientGivesUp ==
  /\ Script("docker", "finish") /\ Fault /\ exit' = "nonzero"
  /\ running' \in {running, running \ {case}}
  /\ Host /\ UNCHANGED <<run, result, attempt>>

\* attempt.json if there is no result now; the exit trap may fail to remove the container.
Finish ==
  /\ ScriptEnds("finish")
  /\ attempt' = IF result[case] = NoResult THEN attempt \cup {case} ELSE attempt
  /\ running' \in {running, running \ {case}}
  /\ Host /\ UNCHANGED <<faults, exit, run, result>>

-----------------------------------------------------------------------------
(* The batch: run_batch and _run_case. *)

Batch == UNCHANGED <<fileVars, faults>>
Scripts == UNCHANGED caseVars

To(place) == pc' = place /\ UNCHANGED status

Stop(reason) == pc' = "report" /\ status' = reason

Abort == Stop("inconclusive_execution_error")

Same == original = header /\ snapshot = header

\* A header that is not a regular text file, or a batch root that is there: no report at all.
Refuse ==
  /\ pc = "start" /\ pc' = "exited"
  /\ UNCHANGED <<header, case, code, late, opened, status, report>> /\ Batch /\ Scripts

Start ==
  /\ pc = "start" /\ header' = original /\ To("freeze")
  /\ UNCHANGED <<case, code, late, opened, report>> /\ Batch /\ Scripts

Freeze ==
  /\ pc = "freeze" /\ snapshot' = original /\ To("compare")
  /\ UNCHANGED <<original, matrix, edits, faults, header, case, code, late, opened, report>>
  /\ Scripts

Compare ==
  /\ pc = "compare"
  /\ IF Same THEN To("check") ELSE Abort
  /\ UNCHANGED <<header, case, code, late, opened, report>> /\ Batch /\ Scripts

\* Before a case: the budget, both headers, and the withheld matrix.
Check ==
  /\ pc = "check"
  /\ IF late THEN Stop("batch_budget_inconclusive") /\ Scripts
     ELSE IF ~Same \/ (Hidden /\ matrix # Committed) THEN Abort /\ Scripts
     ELSE /\ To("wait")
          /\ script' = IF Hidden THEN "verify" ELSE "identify"
          /\ exit' = "none"
          /\ UNCHANGED <<run, running, result, attempt>>
  /\ UNCHANGED <<header, case, code, late, opened, report>> /\ Batch

WaitReturns ==
  /\ pc = "wait" /\ script = "done"
  /\ To("record") /\ code' = exit
  /\ UNCHANGED <<header, case, late, opened, report>> /\ Batch /\ Scripts

\* Faulty variant: without a timeout the batch waits for the script.
WatchdogWaits == WaitReturns

\* 1300 seconds: the script's session gets SIGTERM and SIGKILL, exit status 124, or the last wait
\* raises because the kernel holds the process.  What is left of the script's cleanup races the
\* kill.
Watchdog ==
  /\ pc = "wait" /\ script # "done" /\ script' = "done"
  /\ \/ To("record") /\ code' = "nonzero"
     \/ Abort /\ UNCHANGED code
  /\ running' \in {running, running \ {case}}
  /\ UNCHANGED <<header, case, late, opened, report, exit, run, result, attempt>> /\ Batch

StopCase == Stop(IF Hidden THEN "withheld_incomplete_or_failed" ELSE "public_incomplete_or_failed")

\* Faulty variant: an off-by-one at the last withheld case.
OnwardBeyond(c) ==
  IF c = NPublic THEN To("gate") /\ UNCHANGED case
  ELSE IF c > NPublic + NHidden THEN To("final") /\ UNCHANGED case
  ELSE To("check") /\ case' = c + 1

OnwardFrom(c) ==
  IF c = NPublic THEN To("gate") /\ UNCHANGED case
  ELSE IF c = NPublic + NHidden THEN To("final") /\ UNCHANGED case
  ELSE To("check") /\ case' = c + 1

\* Faulty variant: a failed case does not end the batch.
RecordAndGoOn ==
  /\ pc = "record"
  /\ IF ~Same THEN Abort /\ UNCHANGED case ELSE OnwardFrom(case)
  /\ UNCHANGED <<header, code, late, opened, report>> /\ Batch /\ Scripts

\* After a case: record it, compare the headers again, look at its exit status.
Record ==
  /\ pc = "record"
  /\ IF ~Same THEN Abort /\ UNCHANGED case
     ELSE IF code # "zero" THEN StopCase /\ UNCHANGED case
     ELSE OnwardFrom(case)
  /\ UNCHANGED <<header, code, late, opened, report>> /\ Batch /\ Scripts

\* Faulty variant: the results are not asked for the header they were measured on.
ProvenanceIgnored(c) == result[c].verdict # "none"

\* aggregate: the result is there and is one for the frozen header.
Provenance(c) == result[c].verdict # "none" /\ result[c].header = header

\* aggregate_public and performance_gate.
Gate ==
  /\ pc = "gate"
  /\ IF \E c \in 1..NPublic : ~Provenance(c) \/ result[c].verdict = "other" THEN Abort
     ELSE IF \E c \in 1..NPublic : result[c].verdict # "pass"
     THEN Stop("public_noninferiority_failed_or_inconclusive")
     ELSE To("open")
  /\ UNCHANGED <<header, case, code, late, opened, report>> /\ Batch /\ Scripts

Open ==
  /\ pc = "open" /\ opened' = TRUE
  /\ IF matrix = Committed THEN To("check") /\ case' = case + 1 ELSE Abort /\ UNCHANGED case
  /\ UNCHANGED <<header, code, late, report>> /\ Batch /\ Scripts

\* aggregate_withheld.
Final ==
  /\ pc = "final"
  /\ IF \A c \in Cases : c > NPublic => Provenance(c) /\ result[c].verdict = "pass"
     THEN Stop("full_matrix_ready_for_review") ELSE Abort
  /\ UNCHANGED <<header, case, code, late, opened, report>> /\ Batch /\ Scripts

Report ==
  /\ pc = "report" /\ report' = status /\ pc' = "exited"
  /\ UNCHANGED <<header, case, code, late, opened, status>> /\ Batch /\ Scripts

\* Ctrl-C writes the report as it is; a lost connection kills the batch without one.  The
\* script has a session of its own and goes on.
BatchDies ==
  /\ pc \notin {"start", "report", "exited"} /\ Fault
  /\ pc' = "exited" /\ report' \in {"none", status}
  /\ UNCHANGED <<fileVars, header, case, code, late, opened, status, caseVars>>

-----------------------------------------------------------------------------

ScriptStep ==
  \/ Verify \/ Identify \/ IdentifyFails \/ Prepare \/ PrepareFails \/ Launch
  \/ ClientGivesUp \/ Finish \/ \E c \in Cases : ContainerEnds(c)

BatchStep ==
  \/ Start \/ Freeze \/ Compare \/ Check \/ WaitReturns \/ Watchdog \/ Record \/ Gate
  \/ Open \/ Final \/ Report

Next == BatchStep \/ ScriptStep \/ Refuse \/ BatchDies \/ Edit \/ BudgetRunsOut

\* Nothing is assumed of the scripts: the watchdog is the batch's.
Spec == Init /\ [][Next]_vars /\ WF_vars(BatchStep)

-----------------------------------------------------------------------------

\* A case runs while no container of an earlier case does, although the watchdog can leave one
\* behind: two cases would time each other.
CasesRunAlone == Cardinality(running) <= 1

\* The batch keeps its promise (module Campaign): a case has passed when a container really ran
\* the frozen header (and the committed matrix) and wrote a pass.  The files may be edited and
\* put back between any two of the comparisons.
Earned(c) ==
  /\ result[c].verdict = "pass"
  /\ run[c].overlay = header
  /\ c > NPublic => run[c].matrix = Committed

Promise == INSTANCE Campaign WITH passed <- {c \in Cases : Earned(c)},
                                  ready <- status = "full_matrix_ready_for_review"

KeepsPromise == Promise!Spec

\* Every wait of the batch is bounded, so it ends.
BatchEnds == <>(pc = "exited")

=============================================================================
