------------------------------ MODULE MhcScore ------------------------------
(***************************************************************************)
(* The analyst's scorer of the fused mHC operator (mega/mhc_score.py): it  *)
(* checks each selected case twice from reset buffers, times graph replays *)
(* on a GPU that should be its own, and looks at the outputs once more.    *)
(*                                                                         *)
(* `out` is what the candidate's output buffers hold; a launch may fill    *)
(* them rightly, wrongly or not at all.                                    *)
(***************************************************************************)
EXTENDS Timing

CONSTANTS NMhc,      \* cases of the spec
          Replays      \* the sequences of samples that may be measured

ASSUME MhcAssumption == NMhc \in Nat \ {0} /\ Replays \subseteq Latencies

VARIABLES
  mpc, mcase,        \* the place and the case
  selected, timed,   \* the command line: --case ({}: not called), and --benchmark with graph repetitions
  mgpu,              \* the GPU context
  out, round, good,  \* output buffers, launches so far, did all of them pass
  wrote,             \* per case: the launches that really filled the outputs rightly
  parity,            \* of the samples: as the code has it, as counting does
  entry, timing,     \* the entries of the result
  mfile              \* result.json

mhcVars == <<mpc, mcase, selected, timed, mgpu, out, round, good, wrote, parity, entry, timing, mfile>>

MhcCase == 1..NMhc
MhcStatuses == {"complete_pass", "partial_pass", "fail", "setup_error"}
Rounds == 2

MhcTypeOK ==
  /\ mpc \in {"none", "setup", "native", "workspace", "launch", "quiet", "measure", "postrun",
              "review", "record", "write", "over"}
  /\ mcase \in MhcCase /\ selected \subseteq MhcCase /\ timed \in BOOLEAN
  /\ mgpu \in {"ok", "bad"} /\ out \in {"sentinel", "right", "wrong"}
  /\ round \in 0..Rounds /\ good \in BOOLEAN /\ wrote \in [MhcCase -> 0..Rounds]
  /\ parity \in BOOLEAN \X BOOLEAN
  /\ entry \in [MhcCase -> {"none", "pass", "fail", "baseline_wrong", "error"}]
  /\ timing \in [MhcCase -> {"none", "parity", "no_parity"}]
  /\ mfile \in MhcStatuses \cup {"none"}

MhcInit ==
  /\ mpc = "none" /\ mcase = 1 /\ selected \in SUBSET MhcCase /\ timed \in BOOLEAN
  /\ mgpu = "ok" /\ out = "sentinel" /\ round = 0 /\ good = TRUE
  /\ wrote = [c \in MhcCase |-> 0] /\ parity = <<TRUE, TRUE>>
  /\ entry = [c \in MhcCase |-> "none"] /\ timing = [c \in MhcCase |-> "none"] /\ mfile = "none"

MhcOnGpu == mpc \notin {"none", "setup", "over"}

MGo(from, to) == mpc = from /\ mpc' = to

Options == UNCHANGED <<selected, timed>>

\* An exception of a case replaces its entry, the finished checks included.
CaseError ==
  /\ mpc' = "record" /\ entry' = [entry EXCEPT ![mcase] = "error"]
  /\ timing' = [timing EXCEPT ![mcase] = "none"]

CaseEnds(result) == mpc' = "record" /\ entry' = [entry EXCEPT ![mcase] = result] /\ UNCHANGED timing

-----------------------------------------------------------------------------

Invoke ==
  /\ MGo("none", "setup") /\ selected # {} /\ Options
  /\ UNCHANGED <<mcase, mgpu, out, round, good, wrote, parity, entry, timing, mfile>>

First(cases) == CHOOSE c \in cases : \A d \in cases : c <= d

\* The revision, the environment, the library and the selection.
Setup ==
  /\ MGo("setup", "native") /\ mcase' = First(selected) /\ Options
  /\ UNCHANGED <<mgpu, out, round, good, wrote, parity, entry, timing, mfile>>

SetupFails ==
  /\ MGo("setup", "over") /\ mfile' = "setup_error" /\ Options
  /\ UNCHANGED <<mcase, mgpu, out, round, good, wrote, parity, entry, timing>>

\* run_case: the native calls first; wrong outputs and hurt guards alike end the case.
Native ==
  /\ mpc = "native"
  /\ \/ mgpu = "ok" /\ mpc' = "workspace" /\ UNCHANGED <<entry, timing>>
     \/ mgpu = "ok" /\ CaseEnds("baseline_wrong")
     \/ CaseError
  /\ out' = "sentinel" /\ round' = 0 /\ good' = TRUE /\ Options
  /\ UNCHANGED <<mcase, mgpu, wrote, parity, mfile>>

Workspace ==
  /\ mpc = "workspace"
  /\ \/ mpc' = "launch" /\ UNCHANGED <<entry, timing>>
     \/ CaseEnds("fail")
  /\ Options /\ UNCHANGED <<mcase, mgpu, out, round, good, wrote, parity, mfile>>

\* Faulty variant: the buffers keep what the launch before left in them.
LaunchUnreset ==
  /\ mpc = "launch" /\ round < Rounds /\ round' = round + 1
  /\ \E filled \in {"right", "wrong", "not"} :
       /\ out' = IF filled = "not" THEN out ELSE filled
       /\ wrote' = [wrote EXCEPT ![mcase] = IF filled = "right" THEN @ + 1 ELSE @]
       /\ good' = (good /\ out' = "right")
  /\ Options /\ UNCHANGED <<mpc, mcase, mgpu, parity, entry, timing, mfile>>

\* One of the two launches: from reset buffers, then compared with the oracle and with AITER.
\* Hurt guards and changed inputs fail the comparison as wrong outputs do.
Launch ==
  /\ mpc = "launch" /\ round < Rounds /\ round' = round + 1
  /\ \E filled \in {"right", "wrong", "not"} :
       /\ out' = IF filled = "not" THEN "sentinel" ELSE filled
       /\ wrote' = [wrote EXCEPT ![mcase] = IF filled = "right" THEN @ + 1 ELSE @]
       /\ good' = (good /\ out' = "right")
  /\ Options /\ UNCHANGED <<mpc, mcase, mgpu, parity, entry, timing, mfile>>

\* The launch or the synchronisation raises: the candidate's failure, and perhaps the GPU's end.
LaunchRaises ==
  /\ mpc = "launch" /\ round < Rounds
  /\ CaseEnds("fail") /\ mgpu' \in {"ok", "bad"}
  /\ Options /\ UNCHANGED <<mcase, out, round, good, wrote, parity, mfile>>

Launched ==
  /\ mpc = "launch" /\ round = Rounds
  /\ entry' = [entry EXCEPT ![mcase] = IF good THEN "pass" ELSE "fail"]
  /\ mpc' = IF timed /\ good THEN "quiet" ELSE "record"
  /\ Options /\ UNCHANGED <<mcase, mgpu, out, round, good, wrote, parity, timing, mfile>>

\* quiet_gpu before the warmup: others, or no readable list, raise.
Quiet(others) ==
  /\ mpc = "quiet"
  /\ \/ ~others /\ mpc' = "measure" /\ UNCHANGED <<entry, timing>>
     \/ CaseError
  /\ Options /\ UNCHANGED <<mcase, mgpu, out, round, good, wrote, parity, mfile>>

Parities == {<<Parity(a, c), NotSlower(a, c) /\ Gathered(a)>> : a, c \in Replays}

\* Warmup, capture and the alternating replays.  What the replays leave in the buffers is the
\* candidate's: a kernel that was not captured leaves them as they were.
Measure ==
  /\ mpc = "measure"
  /\ \/ mpc' = "postrun" /\ parity' \in Parities /\ out' \in {out, "right", "wrong"}
        /\ UNCHANGED <<entry, timing, mgpu>>
     \/ CaseError /\ mgpu' \in {"ok", "bad"} /\ UNCHANGED <<parity, out>>
  /\ Options /\ UNCHANGED <<mcase, round, good, wrote, mfile>>

\* quiet_gpu and the guards once more.
PostRun(others) ==
  /\ mpc = "postrun"
  /\ \/ ~others /\ mpc' = "review" /\ UNCHANGED <<entry, timing>>
     \/ CaseError
  /\ Options /\ UNCHANGED <<mcase, mgpu, out, round, good, wrote, parity, mfile>>

\* The outputs after the replays take parity away, not the pass.
Review ==
  /\ MGo("review", "record")
  /\ timing' = [timing EXCEPT ![mcase] =
                  IF parity[1] /\ out = "right" THEN "parity" ELSE "no_parity"]
  /\ Options /\ UNCHANGED <<mcase, mgpu, out, round, good, wrote, parity, entry, mfile>>

Later == {c \in selected : c > mcase}

NextCase ==
  /\ mpc = "record"
  /\ IF Later = {} THEN mpc' = "write" /\ UNCHANGED mcase
                   ELSE mpc' = "native" /\ mcase' = First(Later)
  /\ Options /\ UNCHANGED <<mgpu, out, round, good, wrote, parity, entry, timing, mfile>>

WriteResult ==
  /\ MGo("write", "over")
  /\ mfile' = IF \E c \in selected : entry[c] # "pass" THEN "fail"
              ELSE IF selected = MhcCase THEN "complete_pass" ELSE "partial_pass"
  /\ Options /\ UNCHANGED <<mcase, mgpu, out, round, good, wrote, parity, entry, timing>>

MhcStep(others) ==
  \/ Invoke \/ Setup \/ SetupFails \/ Native \/ Workspace \/ Launch \/ LaunchRaises \/ Launched
  \/ Quiet(others) \/ Measure \/ PostRun(others) \/ Review \/ NextCase \/ WriteResult

-----------------------------------------------------------------------------

\* A pass of the analyst's scorer: each of its launches really filled the outputs rightly, on
\* every selected case, and on all of them if it is complete; parity is claimed of a case that
\* passed, whose outputs were right after the replays, and, counting samples, was not slower.
MhcIsTrue ==
  /\ mfile \in {"complete_pass", "partial_pass"} => \A c \in selected : wrote[c] = Rounds
  /\ mfile = "complete_pass" => selected = MhcCase
  /\ \A c \in MhcCase : timing[c] = "parity" => entry[c] = "pass"
  /\ mpc = "record" /\ timing[mcase] = "parity" => out = "right" /\ parity[2]

=============================================================================
