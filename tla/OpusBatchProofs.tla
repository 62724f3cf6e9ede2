-------------------------- MODULE OpusBatchProofs --------------------------
(***************************************************************************)
(* Theorems of module OpusBatch, for any number of cases, edits and        *)
(* failures.                                                               *)
(***************************************************************************)
EXTENDS OpusBatch, FiniteSetTheorems, TLAPS

Preparing == {"verify", "identify", "prepare", "launch"}
Idle == {"none", "done"}

\* Where the batch is, and where its current case is: the script of the case before has ended
\* before the batch looks at anything, unless the batch itself died.
Paced ==
  /\ pc \in {"start", "freeze", "compare"} => case = 1 /\ ~opened
  /\ pc \notin {"wait", "exited", "report"} => script \in Idle
  /\ pc \in {"gate", "open"} => case = NPublic
  /\ pc = "final" => Hidden
  /\ pc \in {"check", "wait", "record", "final"} \/ script \notin Idle \/ running # {} =>
       (opened <=> Hidden)
  /\ status # "running" => pc \in {"report", "exited"}

\* Only the current case may have a container, and one whose script ended well has none.
Alone ==
  /\ running \subseteq {case}
  /\ pc \notin {"wait", "record", "report", "exited"} => running = {}
  /\ script \in Preparing \/ exit = "zero" => running = {}
  /\ script \in Preparing \cup {"docker"} => exit = "none"
  /\ pc = "record" /\ code = "zero" => running = {}

\* A result is one of a case that was run, for the sources the worker found valid.
Sourced ==
  \A c \in Cases :
    /\ result[c].verdict = "none" => result[c].header = "none"
    /\ result[c].verdict # "none" => SourcesValid(c) /\ result[c].header = run[c].sha
    /\ c > case \/ c \in running => result[c].verdict = "none"
    /\ c = case /\ (pc \in {"start", "freeze", "compare", "check"} \/ script \in Preparing) =>
         result[c].verdict = "none"

\* Once the public gate is behind, every public case is earned.
GatePassed == pc = "open" \/ opened => \A c \in 1..NPublic : Earned(c)

IInv == TypeOK /\ Paced /\ Alone /\ Sourced /\ GatePassed

-----------------------------------------------------------------------------

(* Every step preserves the invariant. *)

\* The record a case works on keeps its type when fields of it are written.
LEMMA RunTyped ==
  ASSUME TypeOK,
         NEW s \in Content \cup {"none"}, NEW o \in Content \cup {"none"},
         NEW m \in Content \cup {"none"}
  PROVE  /\ [run EXCEPT ![case].sha = s, ![case].matrix = m] \in
                [Cases -> [sha : Content \cup {"none"}, overlay : Content \cup {"none"},
                           matrix : Content \cup {"none"}]]
         /\ [run EXCEPT ![case].overlay = o] \in
                [Cases -> [sha : Content \cup {"none"}, overlay : Content \cup {"none"},
                           matrix : Content \cup {"none"}]]
<1> DEFINE Run == [sha : Content \cup {"none"}, overlay : Content \cup {"none"},
                   matrix : Content \cup {"none"}]
<1>1. run \in [Cases -> Run] /\ case \in Cases /\ run[case] \in Run
  BY DEF TypeOK
<1>2. \A r \in Run : [r EXCEPT !.sha = s, !.matrix = m] \in Run /\ [r EXCEPT !.overlay = o] \in Run
  OBVIOUS
<1>3. \A r \in Run : [run EXCEPT ![case] = r] \in [Cases -> Run]
  BY <1>1
<1> QED
  BY <1>1, <1>2, <1>3

\* In particular when the script identifies its sources and when the overlay is prepared.
LEMMA IdentifyTyped ==
  ASSUME TypeOK, Identify
  PROVE  run' \in [Cases -> [sha : Content \cup {"none"}, overlay : Content \cup {"none"},
                             matrix : Content \cup {"none"}]]
<1>1. snapshot \in Content \cup {"none"} /\ matrix \in Content
  BY DEF TypeOK
<1>2. CASE Hidden
  BY <1>1, <1>2, RunTyped DEF Identify
<1>3. CASE ~Hidden
  BY <1>1, <1>3, RunTyped DEF Identify
<1> QED
  BY <1>2, <1>3

LEMMA PrepareTyped ==
  ASSUME TypeOK, Prepare
  PROVE  run' \in [Cases -> [sha : Content \cup {"none"}, overlay : Content \cup {"none"},
                             matrix : Content \cup {"none"}]]
<1>1. snapshot \in Content \cup {"none"}
  BY DEF TypeOK
<1> QED
  BY <1>1, RunTyped DEF Prepare

\* A step of the current case's host script before its container is there.
LEMMA PreparationStep ==
  ASSUME IInv, Verify \/ Identify \/ IdentifyFails \/ Prepare \/ PrepareFails \/ Launch
  PROVE  IInv'
<1> USE OpusBatchAssumption
    DEF IInv, TypeOK, Paced, Alone, Sourced, GatePassed, Earned, SourcesValid, Hidden, Cases,
        Content, Statuses, Verdict, Preparing, Idle, Script, ScriptEnds, Host, Fault,
        fileVars, batchVars
<1>1. CASE Verify
  BY <1>1 DEF Verify
<1>2. CASE Identify
  <2>1. TypeOK'
    BY <1>2, IdentifyTyped DEF Identify
  <2>2. Paced'
    BY <1>2 DEF Identify
  <2>3. Alone'
    BY <1>2 DEF Identify
  <2>4. Sourced'
    BY <1>2 DEF Identify
  <2>5. GatePassed'
    BY <1>2 DEF Identify
  <2> QED
    BY <2>1, <2>2, <2>3, <2>4, <2>5
<1>3. CASE IdentifyFails
  BY <1>3 DEF IdentifyFails
<1>4. CASE Prepare
  <2>1. TypeOK'
    BY <1>4, PrepareTyped DEF Prepare
  <2>2. Paced'
    BY <1>4 DEF Prepare
  <2>3. Alone'
    BY <1>4 DEF Prepare
  <2>4. Sourced'
    BY <1>4 DEF Prepare
  <2>5. GatePassed'
    BY <1>4 DEF Prepare
  <2> QED
    BY <2>1, <2>2, <2>3, <2>4, <2>5
<1>5. CASE PrepareFails
  BY <1>5 DEF PrepareFails
<1>6. CASE Launch
  BY <1>6 DEF Launch
<1> QED
  BY <1>1, <1>2, <1>3, <1>4, <1>5, <1>6

\* A step of the container, or of the script from then on.
LEMMA ContainerStep ==
  ASSUME IInv, ClientGivesUp \/ Finish \/ \E c \in Cases : ContainerEnds(c)
  PROVE  IInv'
<1> USE OpusBatchAssumption
    DEF IInv, TypeOK, Paced, Alone, Sourced, GatePassed, Earned, SourcesValid, Hidden, Cases,
        Content, Statuses, Verdict, Preparing, Idle, Script, ScriptEnds, Host, Fault,
        fileVars, batchVars
<1>1. CASE ClientGivesUp
  BY <1>1 DEF ClientGivesUp
<1>2. CASE Finish
  BY <1>2 DEF Finish
<1>3. CASE \E c \in Cases : ContainerEnds(c)
  BY <1>3 DEF ContainerEnds
<1> QED
  BY <1>1, <1>2, <1>3

\* A step of the batch, or its end.
LEMMA BatchesStep ==
  ASSUME IInv, BatchStep \/ Refuse \/ BatchDies
  PROVE  IInv'
<1> USE OpusBatchAssumption
    DEF IInv, TypeOK, Paced, Alone, Sourced, GatePassed, Earned, SourcesValid, Hidden, Cases,
        Content, Statuses, Verdict, Preparing, Idle, Batch, Scripts, To, Stop, Abort, Fault,
        fileVars, caseVars
<1>1. CASE Start
  BY <1>1 DEF Start
<1>2. CASE Freeze
  BY <1>2 DEF Freeze
<1>3. CASE Compare
  BY <1>3 DEF Compare
<1>4. CASE Check
  <2>1. TypeOK'
    <3>1. pc' \in {"report", "wait"} /\ status' \in Statuses \cup {"running"}
      BY <1>4 DEF Check
    <3>2. script' \in {"verify", "identify"} \cup {script} /\ exit' \in {"none"} \cup {exit}
      BY <1>4 DEF Check
    <3>3. UNCHANGED <<fileVars, faults, header, case, code, late, opened, report, run, running,
                      result, attempt>>
      BY <1>4 DEF Check
    <3> QED
      BY <3>1, <3>2, <3>3
  <2>2. Paced'
    BY <1>4 DEF Check
  <2>3. Alone'
    BY <1>4 DEF Check
  <2>4. Sourced'
    BY <1>4 DEF Check
  <2>5. GatePassed'
    BY <1>4 DEF Check
  <2> QED
    BY <2>1, <2>2, <2>3, <2>4, <2>5
<1>5. CASE WaitReturns
  BY <1>5 DEF WaitReturns
<1>6. CASE Watchdog
  BY <1>6 DEF Watchdog
<1>7. CASE Record
  BY <1>7 DEF Record, StopCase, OnwardFrom
<1>8. CASE Gate
  BY <1>8 DEF Gate, Provenance
<1>9. CASE Open
  <2>1. TypeOK'
    BY <1>9 DEF Open
  <2>2. Paced'
    <3>1. script \in Idle /\ running = {} /\ case = NPublic /\ status = "running"
      BY <1>9 DEF Open
    <3>2. UNCHANGED <<script, running>>
      BY <1>9 DEF Open
    <3>3. \/ pc' = "check" /\ case' = NPublic + 1 /\ opened' /\ status' = status
          \/ pc' = "report"
      BY <1>9, <3>1 DEF Open
    <3> QED
      BY <3>1, <3>2, <3>3
  <2>3. Alone'
    BY <1>9 DEF Open
  <2>4. Sourced'
    BY <1>9 DEF Open
  <2>5. GatePassed'
    BY <1>9 DEF Open
  <2> QED
    BY <2>1, <2>2, <2>3, <2>4, <2>5
<1>10. CASE Final
  BY <1>10 DEF Final
<1>11. CASE Report
  BY <1>11 DEF Report
<1>12. CASE Refuse
  BY <1>12 DEF Refuse
<1>13. CASE BatchDies
  BY <1>13 DEF BatchDies
<1> QED
  BY <1>1, <1>2, <1>3, <1>4, <1>5, <1>6, <1>7, <1>8, <1>9, <1>10, <1>11, <1>12, <1>13
     DEF BatchStep

\* Edits, and the budget: every conjunct but the types speaks of neither.
LEMMA OthersStep ==
  ASSUME IInv, Edit \/ BudgetRunsOut \/ UNCHANGED vars
  PROVE  IInv'
<1> USE OpusBatchAssumption
    DEF IInv, TypeOK, Paced, Alone, Sourced, GatePassed, Earned, SourcesValid, Hidden, Cases,
        Content, Statuses, Verdict, vars, fileVars, batchVars, caseVars
<1>1. CASE Edit
  BY <1>1 DEF Edit
<1>2. CASE BudgetRunsOut
  BY <1>2 DEF BudgetRunsOut
<1>3. CASE UNCHANGED vars
  BY <1>3
<1> QED
  BY <1>1, <1>2, <1>3

\* The invariant holds at first and is preserved by every step.
LEMMA Inductive == Spec => []IInv
<1>1. Init => IInv
  <2> SUFFICES ASSUME Init PROVE IInv
    OBVIOUS
  <2> USE OpusBatchAssumption DEF Init, Cases, NoResult, NoRun
  <2>1. TypeOK
    <3>1. case \in Cases
      OBVIOUS
    <3>2. NoRun \in [sha : Content \cup {"none"}, overlay : Content \cup {"none"},
                     matrix : Content \cup {"none"}]
      OBVIOUS
    <3>3. NoResult \in [header : Content \cup {"none"}, verdict : Verdict \cup {"none"}]
      OBVIOUS
    <3> HIDE DEF NoRun, NoResult, Cases
    <3>4. run \in [Cases -> [sha : Content \cup {"none"}, overlay : Content \cup {"none"},
                             matrix : Content \cup {"none"}]]
      BY <3>2
    <3>5. result \in [Cases -> [header : Content \cup {"none"},
                                verdict : Verdict \cup {"none"}]]
      BY <3>3
    <3>6. edits \in 0..MaxEdits /\ faults \in 0..MaxFaults
      OBVIOUS
    <3>7. running \subseteq Cases /\ attempt \subseteq Cases
      OBVIOUS
    <3>8. original \in Content /\ matrix \in Content /\ snapshot \in Content \cup {"none"}
      BY DEF Content
    <3>9. header \in Content \cup {"none"}
      BY DEF Content
    <3> QED
      BY <3>1, <3>4, <3>5, <3>6, <3>7, <3>8, <3>9 DEF TypeOK
  <2>2. Paced
    BY DEF Paced, Idle
  <2>3. Alone
    BY DEF Alone, Preparing
  <2>4. Sourced
    BY DEF Sourced
  <2>5. GatePassed
    BY DEF GatePassed
  <2> QED
    BY <2>1, <2>2, <2>3, <2>4, <2>5 DEF IInv
<1>2. IInv /\ [Next]_vars => IInv'
  BY PreparationStep, ContainerStep, BatchesStep, OthersStep DEF Next, ScriptStep
<1> QED
  BY <1>1, <1>2, PTL DEF Spec

-----------------------------------------------------------------------------
(* The theorems. *)

\* Every variable has its type.
THEOREM TypeCorrect == Spec => []TypeOK
<1>1. IInv => TypeOK
  BY DEF IInv
<1> QED
  BY <1>1, Inductive, PTL

\* At most one case has a container at any time: a case that follows another one is started by a
\* batch that saw a zero exit, and only a script whose container has ended gives one.
THEOREM AloneAlways == Spec => []CasesRunAlone
<1>1. ASSUME IInv PROVE CasesRunAlone
  <2>1. running = {} \/ running = {case}
    BY <1>1 DEF IInv, Alone
  <2>2. Cardinality({}) = 0 /\ Cardinality({case}) = 1
    BY FS_EmptySet, FS_Singleton
  <2> QED
    BY <2>1, <2>2 DEF CasesRunAlone
<1> QED
  BY <1>1, Inductive, PTL

-----------------------------------------------------------------------------
(* The batch implements the campaign. *)

Passed == {c \in Cases : Earned(c)}
ReadyForReview == status = "full_matrix_ready_for_review"

\* The steps that leave results, sources, header and matrices as they are change nothing of what
\* is passed.
LEMMA SamePassed ==
  ASSUME IInv, UNCHANGED <<header, run, result>>
  PROVE  Passed' = Passed
BY DEF Passed, Earned, Cases

\* The host script earns nothing before its container ends: the case has no result yet.
LEMMA ScriptPasses ==
  ASSUME IInv, ScriptStep
  PROVE  [Promise!Next]_<<Passed, opened, ReadyForReview>>
<1> USE DEF Host, batchVars
<1>1. CASE Verify \/ IdentifyFails \/ PrepareFails \/ Launch \/ ClientGivesUp \/ Finish
  <2>1. UNCHANGED <<header, run, result, opened, status>>
    BY <1>1 DEF Verify, IdentifyFails, PrepareFails, Launch, ClientGivesUp, Finish
  <2> QED
    BY <2>1, SamePassed DEF ReadyForReview
<1>2. CASE Identify \/ Prepare
  <2>1. UNCHANGED <<header, result, opened, status>> /\ script \in Preparing
    BY <1>2 DEF Identify, Prepare, Preparing, Script
  <2>2. case \in Cases /\ case' = case
    BY <1>2 DEF Identify, Prepare, IInv, TypeOK
  <2>3. ~Earned(case) /\ ~Earned(case)'
    BY <2>1, <2>2 DEF IInv, Sourced, Earned
  <2>4. \A c \in Cases : c # case => run'[c] = run[c]
    BY <1>2 DEF Identify, Prepare, IInv, TypeOK
  <2>5. \A c \in Cases : c # case => Earned(c)' = Earned(c)
    BY <2>1, <2>4 DEF Earned, Cases
  <2>6. Passed' = Passed
    BY <2>2, <2>3, <2>5 DEF Passed, Cases
  <2> QED
    BY <2>1, <2>6 DEF ReadyForReview
<1>3. ASSUME NEW c \in Cases, ContainerEnds(c)
      PROVE  [Promise!Next]_<<Passed, opened, ReadyForReview>>
  <2>1. UNCHANGED <<header, run, opened, status>>
    BY <1>3 DEF ContainerEnds
  <2>2. c = case /\ ~Earned(c) /\ (opened \/ c <= NPublic)
    BY <1>3, OpusBatchAssumption
       DEF ContainerEnds, IInv, TypeOK, Paced, Alone, Sourced, Earned, Hidden, Cases
  <2>3. \A d \in Cases : d # c => result'[d] = result[d]
    BY <1>3 DEF ContainerEnds, IInv, TypeOK
  <2>4. \A d \in Cases : d # c => Earned(d)' = Earned(d)
    BY <2>1, <2>3 DEF Earned, Cases
  <2>5. Passed' = Passed \/ Passed' = Passed \cup {c}
    BY <2>2, <2>4 DEF Passed, Cases
  <2> QED
    BY <2>1, <2>2, <2>5
       DEF Promise!Next, Promise!Pass, Promise!Cases, Passed, ReadyForReview, Cases
<1> QED
  BY <1>1, <1>2, <1>3 DEF ScriptStep

\* The batch opens the withheld matrix behind the public gate, and is ready when the results it
\* aggregated are all earned.
LEMMA BatchPasses ==
  ASSUME IInv, BatchStep \/ Refuse \/ BatchDies
  PROVE  [Promise!Next]_<<Passed, opened, ReadyForReview>>
<1> USE DEF Batch, Scripts, To, Stop, Abort, caseVars
<1>1. CASE Start
  <2>1. \A c \in Cases : result[c].verdict = "none" /\ result' = result
    BY <1>1, OpusBatchAssumption DEF Start, IInv, TypeOK, Paced, Sourced, Cases
  <2>2. Passed = {} /\ Passed' = {}
    BY <2>1 DEF Passed, Earned, Cases
  <2> QED
    BY <1>1, <2>2 DEF Start, ReadyForReview
<1>2. CASE Open
  <2>1. Passed' = Passed
    BY <1>2, SamePassed DEF Open
  <2>2. 1..NPublic \subseteq Passed
    BY <1>2, OpusBatchAssumption DEF Open, IInv, GatePassed, Passed, Cases
  <2>3. ReadyForReview' = ReadyForReview
    BY <1>2 DEF Open, IInv, Paced, ReadyForReview
  <2> QED
    BY <1>2, <2>1, <2>2, <2>3 DEF Open, Promise!Next, Promise!Open, Passed, ReadyForReview
<1>3. CASE Final
  <2>1. Passed' = Passed /\ opened' = opened
    BY <1>3, SamePassed DEF Final
  <2>2. CASE ReadyForReview'
    <3>1. \A c \in Cases : c > NPublic => Provenance(c) /\ result[c].verdict = "pass"
      BY <1>3, <2>2 DEF Final, ReadyForReview
    <3>2. \A c \in Cases : c > NPublic => Earned(c)
      BY <3>1 DEF Provenance, Earned, IInv, Sourced, SourcesValid
    <3>3. opened
      BY <1>3, OpusBatchAssumption
         DEF Final, IInv, TypeOK, Paced, GatePassed, Hidden, Cases, Provenance
    <3>4. \A c \in 1..NPublic : Earned(c)
      BY <3>3 DEF IInv, GatePassed
    <3>5. Passed = Promise!Cases
      BY <3>2, <3>4, OpusBatchAssumption DEF Passed, Cases, Promise!Cases
    <3> QED
      BY <2>1, <2>2, <3>5 DEF Promise!Next, Promise!Ready, Passed, ReadyForReview
  <2>3. CASE ~ReadyForReview'
    BY <1>3, <2>1, <2>3 DEF Final, IInv, Paced, ReadyForReview
  <2> QED
    BY <2>2, <2>3
<1>4. CASE \/ Freeze \/ Compare \/ Check \/ WaitReturns \/ Watchdog \/ Record \/ Gate
           \/ Report \/ Refuse \/ BatchDies
  <2>1. UNCHANGED <<header, run, result, opened>>
    BY <1>4 DEF Freeze, Compare, Check, WaitReturns, Watchdog, Record, Gate, Report, Refuse,
                BatchDies
  <2>2. status' = status \/ (pc \notin {"report", "exited"} /\ ~ReadyForReview')
    BY <1>4 DEF Freeze, Compare, Check, WaitReturns, Watchdog, Record, StopCase, OnwardFrom,
                Gate, Report, Refuse, BatchDies, ReadyForReview
  <2>3. ReadyForReview' = ReadyForReview
    BY <2>2 DEF IInv, Paced, ReadyForReview
  <2> QED
    BY <2>1, <2>3, SamePassed
<1> QED
  BY <1>1, <1>2, <1>3, <1>4 DEF BatchStep

\* Whatever is edited and put back, and whatever fails: the withheld cases are opened only after
\* every public case has passed on the frozen header, and the batch is ready for review only
\* when every case has: the batch implements its campaign.
THEOREM PromiseKept == Spec => KeepsPromise
<1>1. Init => Promise!Init
  BY DEF Init, Promise!Init, Earned, NoResult, Cases
<1>2. ASSUME IInv, [Next]_vars PROVE [Promise!Next]_<<Passed, opened, ReadyForReview>>
  <2>1. CASE Edit \/ BudgetRunsOut \/ UNCHANGED vars
    <3>1. UNCHANGED <<header, run, result, opened, status>>
      BY <2>1 DEF Edit, BudgetRunsOut, vars, batchVars, caseVars
    <3> QED
      BY <1>2, <3>1, SamePassed DEF ReadyForReview
  <2> QED
    BY <1>2, <2>1, ScriptPasses, BatchPasses DEF Next
<1> QED
  BY <1>1, <1>2, Inductive, PTL
     DEF Spec, KeepsPromise, Promise!Spec, Passed, ReadyForReview

=============================================================================
