-------------------------- MODULE DualWorkerProofs --------------------------
(***************************************************************************)
(* Theorems of module DualWorker, for any number of replays and faults.    *)
(***************************************************************************)
EXTENDS DualWorker, SequenceTheorems, TLAPS

Before == {"preflight", "spawn", "send", "recv", "gate", "judge"}
After == {"close", "ack", "leave", "signal", "term", "kill", "report"}

Quiet(w) == inbox[w] = <<>> /\ outbox[w] = <<>>
CloseOnly(w) == \A i \in 1..Len(inbox[w]) : inbox[w][i].command = "close"

\* The socket pairs.  While the script goes on, the only frame anywhere is the current command
\* or its reply; behind a controller that gave up on a worker only closes are sent.
Framed ==
  /\ pc \in {"preflight", "spawn", "send", "gate", "judge"} => \A w \in Worker : Quiet(w)
  /\ pc = "recv" =>
       /\ \A w \in Worker : w # Current => Quiet(w)
       /\ \/ /\ Len(inbox[Current]) = 1 /\ outbox[Current] = <<>>
             /\ inbox[Current][1].n = sent /\ inbox[Current][1].command = Command(place)
          \/ /\ inbox[Current] = <<>> /\ Len(outbox[Current]) = 1
             /\ outbox[Current][1].n = sent
  /\ \A w \in Worker : CloseOnly(w) \/ (w = Current /\ place <= ScriptLength)
  /\ verdict \in Passes \cup Misses => \A w \in Worker : CloseOnly(w)
  /\ \A i \in 1..Len(taken) : taken[i].asked = taken[i].answered

\* Where the controller is, and which workers are known to be gone.
Paced ==
  /\ pc \in Before => verdict = "none" /\ closing = 1
  /\ pc \in After => verdict \in Verdicts
  /\ pc \in {"ack", "leave", "signal", "term", "kill"} => closing <= 2
  /\ pc \in {"send", "recv", "gate"} => place <= ScriptLength
  /\ pc = "gate" => Command(place) = "prepare"
  /\ pc = "judge" => place = ScriptLength + 1
  /\ pc \in {"preflight", "spawn"} => phase["candidate"] = "unborn" /\ place = 1
  /\ pc \in {"send", "recv", "gate", "judge"} \/ verdict \notin {"none", ExecutionError} =>
       \A w \in Worker : phase[w] # "unborn"
  /\ closing >= 2 => phase["aiter"] = "gone"
  /\ closing >= 3 => phase["candidate"] = "gone"
  /\ pc = "report" /\ verdict # ExecutionError => \A w \in Worker : phase[w] = "gone"
  /\ report # "none" => pc = "exited" /\ report = verdict
  /\ LeftWorkerIsInconclusive

\* The place of the last command of a worker.
LastOf(w) == IF w = "aiter" THEN ScriptLength - 1 ELSE ScriptLength

\* The place of its first, in which it is prepared.
FirstOf(w) == IF w = "aiter" THEN 1 ELSE 2

\* The script goes on only when the profiled call has run its own kernels.
Routed == pc \in Before => \A w \in Worker : place > FirstOf(w) => w \notin misrouted

\* What is known of the workers' memory and kernels: only the output is ever forgiven.
Checked ==
  /\ \A w \in stray : dirt[w] \cap {"inactive", "input", "guard"} # {}
  /\ pc = "recv" /\ outbox[Current] # <<>> /\ outbox[Current][1].ok /\ Command(place) # "replay" =>
       (outbox[Current][1].good <=> Correct(Current))
  /\ pc = "gate" => Correct(Current)
  /\ \A w \in Worker : place > LastOf(w) => (w \in rejected <=> dirt[w] # {})
  /\ \A w \in Worker : place <= LastOf(w) => w \notin rejected
  /\ withheld => rejected = {}
  /\ verdict \in Passes => \A w \in Worker : Correct(w)
  /\ verdict \in Misses => \E w \in Worker : ~Correct(w)

IInv == TypeOK /\ Framed /\ Paced /\ Checked /\ Routed

-----------------------------------------------------------------------------
(* The script. *)

\* Every place of the script has a command and a worker.
LEMMA ScriptTyped ==
  /\ ScriptLength \in Nat /\ ScriptLength >= 2
  /\ \A w \in Worker : LastOf(w) \in Nat /\ LastOf(w) >= 1 /\ LastOf(w) <= ScriptLength
  /\ \A k : Target(k) \in Worker /\ Command(k) \in {"prepare", "replay", "inspect"}
BY DualWorkerAssumption DEF ScriptLength, LastOf, Target, Command, Worker

\* The last command of a worker is not a replay, and it is the only one to be inspected by.
LEMMA Script ==
  ASSUME NEW k \in Nat, 1 <= k, k <= ScriptLength
  PROVE  /\ Command(k) = "inspect" => k = LastOf(Target(k)) /\ ~withheld
         /\ \A w \in Worker : k > LastOf(w) => Target(k) # w
         /\ \A w \in Worker : k = LastOf(w) => Target(k) = w /\ Command(k) # "replay"
         /\ \A w \in Worker : k >= LastOf(w) /\ Command(k) = "prepare" => withheld
         /\ Command(k) = "prepare" => k = FirstOf(Target(k))
         /\ Command(k) # "prepare" => \A w \in Worker : k > FirstOf(w)
<1>3. Command(k) = "prepare" => k = FirstOf(Target(k))
  <2>1. Command(k) = "prepare" => k = 1 \/ k = 2
    BY DEF Command
  <2>2. Target(1) = "aiter" /\ Target(2) = "candidate"
    BY DEF Target, Command
  <2> QED
    BY <2>1, <2>2 DEF FirstOf
<1>4. Command(k) # "prepare" => \A w \in Worker : k > FirstOf(w)
  BY DEF Command, FirstOf
<1>1. CASE withheld
  BY <1>1, <1>3, <1>4 DEF ScriptLength, LastOf, Target, Command, Worker
<1>2. CASE ~withheld
  <2>1. ScriptLength = 2 * Repeats + 4 /\ Repeats \in Nat /\ Repeats >= 1
    BY <1>2, DualWorkerAssumption DEF ScriptLength
  <2>2. k >= 2 * Repeats + 3 => Command(k) = "inspect"
    BY <2>1 DEF Command
  <2>3. Command(k) = "inspect" => k >= 2 * Repeats + 3
    BY <2>1 DEF Command
  <2>4. (2 * Repeats + 3) % 2 = 1 /\ (2 * Repeats + 4) % 2 = 0
    BY <2>1
  <2>5. k = 2 * Repeats + 3 => Target(k) = "aiter"
    BY <2>2, <2>4 DEF Target
  <2>6. k = 2 * Repeats + 4 => Target(k) = "candidate"
    BY <2>1, <2>2, <2>4 DEF Target
  <2>7. LastOf("aiter") = 2 * Repeats + 3 /\ LastOf("candidate") = 2 * Repeats + 4
    BY <2>1 DEF LastOf
  <2>8. k >= 2 * Repeats + 3 => k = 2 * Repeats + 3 \/ k = 2 * Repeats + 4
    BY <2>1
  <2> QED
    BY <1>2, <1>3, <1>4, <2>1, <2>2, <2>3, <2>5, <2>6, <2>7, <2>8 DEF Worker
<1> QED
  BY <1>1, <1>2

-----------------------------------------------------------------------------
(* Every step preserves the invariant. *)

\* A step of a worker process keeps the types.
LEMMA WorkerTyped ==
  ASSUME TypeOK, NEW w \in Worker, WorkerStep(w)
  PROVE  TypeOK'
<1> USE DualWorkerAssumption DEF TypeOK, ScriptLength, Doing, controlVars, channelVars, processVars, gpuVars
<1>0. ASSUME NEW ok \in BOOLEAN, NEW good \in BOOLEAN, inbox[w] # <<>>, Answer(w, ok, good)
      PROVE  inbox' \in [Worker -> Seq(Request)] /\ outbox' \in [Worker -> Seq(Reply)]
  <2>1. inbox[w] \in Seq(Request) /\ outbox[w] \in Seq(Reply)
    OBVIOUS
  <2>2. Tail(inbox[w]) \in Seq(Request) /\ Head(inbox[w]) \in Request
    BY <1>0, <2>1
  <2>3. [n |-> Head(inbox[w]).n, ok |-> ok, good |-> good] \in Reply
    BY <2>2 DEF Request, Reply
  <2>4. Append(outbox[w], [n |-> Head(inbox[w]).n, ok |-> ok, good |-> good]) \in Seq(Reply)
    BY <2>1, <2>3
  <2> QED
    BY <1>0, <2>2, <2>4 DEF Answer
<1>c. ASSUME NEW renewed, NEW s, Call(w, s, renewed)
      PROVE  /\ dirt' \in [Worker -> SUBSET Memory] /\ stray' \subseteq Worker
             /\ faults' \in 0..MaxFaults
  <2>1. dirt[w] \subseteq Memory
    OBVIOUS
  <2>2. CASE dirt' = [dirt EXCEPT ![w] = @ \ renewed] /\ UNCHANGED <<stray, faults>>
    BY <2>1, <2>2
  <2>3. ASSUME NEW spot \in Memory, Fault, stray' \subseteq stray \cup {w},
               dirt' = [dirt EXCEPT ![w] = (@ \ renewed) \cup ({spot} \cap Watched(s))]
        PROVE  /\ dirt' \in [Worker -> SUBSET Memory] /\ stray' \subseteq Worker
               /\ faults' \in 0..MaxFaults
    <3>1. (dirt[w] \ renewed) \cup ({spot} \cap Watched(s)) \in SUBSET Memory
      BY <2>1
    <3> QED
      BY <2>3, <3>1 DEF Fault
  <2> QED
    BY <1>c, <2>2, <2>3 DEF Call
<1>1. CASE RunStage(w)
  <2>1. stage[w] \in 0..9 /\ stage[w] < 9
    BY <1>1 DEF RunStage, LastStage, Profiled
  <2>2. stage' \in [Worker -> 0..9]
    BY <1>1, <2>1 DEF RunStage
  <2>3. dirt' \in [Worker -> SUBSET Memory] /\ stray' \subseteq Worker
    BY <1>c, <1>1 DEF RunStage
  <2>4. faults' \in 0..MaxFaults
    BY <1>c, <1>1 DEF RunStage
  <2>5. misrouted' \subseteq Worker
    BY <1>1 DEF RunStage, Dispatch
  <2> QED
    BY <1>1, <2>2, <2>3, <2>4, <2>5 DEF RunStage
<1>2. CASE AnswerPrepare(w)
  <2>1. Correct(w) \in BOOLEAN
    BY DEF Correct
  <2> QED
    BY <1>0, <1>2, <2>1 DEF AnswerPrepare
<1>3. CASE AnswerReplay(w)
  <2>1. inbox' \in [Worker -> Seq(Request)] /\ outbox' \in [Worker -> Seq(Reply)]
    BY <1>0, <1>3 DEF AnswerReplay
  <2>2. dirt' \in [Worker -> SUBSET Memory] /\ stray' \subseteq Worker
    BY <1>c, <1>3 DEF AnswerReplay
  <2>3. faults' \in 0..MaxFaults
    BY <1>c, <1>3 DEF AnswerReplay
  <2> QED
    BY <1>3, <2>1, <2>2, <2>3 DEF AnswerReplay
<1>4. CASE AnswerInspect(w)
  BY <1>0, <1>4 DEF AnswerInspect
<1>5. CASE WorkerRaises(w)
  <2>1. inbox' \in [Worker -> Seq(Request)] /\ outbox' \in [Worker -> Seq(Reply)]
    BY <1>0, <1>5 DEF WorkerRaises
  <2>2. phase' \in [Worker -> {"unborn", "alive", "leaving", "gone"}]
    BY <1>5 DEF WorkerRaises
  <2>3. faults' \in 0..MaxFaults
    BY <1>5 DEF WorkerRaises, Fault
  <2> QED
    BY <1>5, <2>1, <2>2, <2>3 DEF WorkerRaises
<1>6. CASE AnswerClose(w)
  BY <1>0, <1>6 DEF AnswerClose
<1>7. CASE WorkerEnds(w)
  BY <1>7 DEF WorkerEnds, Gone
<1>8. CASE WorkerDies(w)
  BY <1>8 DEF WorkerDies, Gone, Fault
<1> QED
  BY <1>1, <1>2, <1>3, <1>4, <1>5, <1>6, <1>7, <1>8 DEF WorkerStep

\* The script of a case is the same throughout.
LEMMA SameScript ==
  ASSUME UNCHANGED <<withheld, place>>
  PROVE  /\ ScriptLength' = ScriptLength /\ \A w : LastOf(w)' = LastOf(w)
         /\ Current' = Current /\ Command(place)' = Command(place)
BY DEF ScriptLength, LastOf, Current, Target, Command

\* A worker step leaves the controller alone, and answers its oldest frame or none.
LEMMA WorkerEffect ==
  ASSUME NEW w \in Worker, WorkerStep(w)
  PROVE  /\ UNCHANGED <<withheld, controlVars>>
         /\ \/ UNCHANGED channelVars
            \/ inbox[w] # <<>> /\ \E ok, good \in BOOLEAN : Answer(w, ok, good)
<1>1. Correct(w) \in BOOLEAN /\ (dirt[w] = {}) \in BOOLEAN
  BY DEF Correct
<1>2. CASE AnswerPrepare(w)
  BY <1>1, <1>2 DEF AnswerPrepare, Doing
<1>3. CASE ~AnswerPrepare(w)
  BY <1>1, <1>3 DEF WorkerStep, RunStage, AnswerReplay, AnswerInspect, WorkerRaises,
                    AnswerClose, WorkerEnds, WorkerDies, Doing, Gone
<1> QED
  BY <1>2, <1>3

\* A worker takes its oldest frame away and answers under its number.
LEMMA WorkerFramed ==
  ASSUME IInv, NEW w \in Worker, WorkerStep(w)
  PROVE  Framed'
<1>1. UNCHANGED <<withheld, controlVars>> /\ ScriptLength' = ScriptLength /\ Current' = Current
      /\ Command(place)' = Command(place)
  BY WorkerEffect, SameScript DEF controlVars
<1>2. CASE UNCHANGED channelVars
  BY <1>1, <1>2 DEF IInv, Framed, Quiet, CloseOnly, channelVars, controlVars
<1>3. ASSUME inbox[w] # <<>>, NEW ok \in BOOLEAN, NEW good \in BOOLEAN, Answer(w, ok, good)
      PROVE  Framed'
  <2>1. inbox \in [Worker -> Seq(Request)] /\ outbox \in [Worker -> Seq(Reply)]
    BY DEF IInv, TypeOK
  <2>2. inbox[w] \in Seq(Request) /\ outbox[w] \in Seq(Reply)
    BY <2>1
  <2>3. \A v \in Worker : v # w => inbox'[v] = inbox[v] /\ outbox'[v] = outbox[v]
    BY <1>3, <2>1 DEF Answer
  <2>4. inbox'[w] = Tail(inbox[w])
    BY <1>3, <2>1 DEF Answer
  <2>5. outbox'[w] = Append(outbox[w], [n |-> Head(inbox[w]).n, ok |-> ok, good |-> good])
    BY <1>3, <2>1 DEF Answer
  <2>6. ASSUME CloseOnly(w) PROVE CloseOnly(w)'
    <3>1. \A i \in 1..Len(Tail(inbox[w])) : Tail(inbox[w])[i] = inbox[w][i + 1]
                                           /\ i + 1 \in 1..Len(inbox[w])
      BY <1>3, <2>2
    <3> QED
      BY <2>4, <2>6, <3>1 DEF CloseOnly
  <2>7. \A v \in Worker : CloseOnly(v) => CloseOnly(v)'
    BY <2>3, <2>6 DEF CloseOnly
  <2>8. pc \notin {"preflight", "spawn", "send", "gate", "judge"}
    BY <1>3 DEF IInv, Framed, Quiet
  <2>9. ASSUME pc = "recv"
        PROVE  w = Current /\ inbox'[w] = <<>> /\ Len(outbox'[w]) = 1 /\ outbox'[w][1].n = sent
    <3>1. w = Current /\ Len(inbox[w]) = 1 /\ outbox[w] = <<>> /\ inbox[w][1].n = sent
      BY <1>3, <2>9 DEF IInv, Framed, Quiet
    <3>2. Tail(inbox[w]) \in Seq(Request) /\ Len(Tail(inbox[w])) = 0
      BY <2>2, <3>1
    <3>3. inbox'[w] = <<>>
      BY <2>4, <3>2, EmptySeq
    <3>4. Head(inbox[w]).n = sent
      BY <2>2, <3>1
    <3>5. Len(outbox'[w]) = 1 /\ outbox'[w][1] = [n |-> sent, ok |-> ok, good |-> good]
      BY <2>2, <2>5, <3>1, <3>4
    <3> QED
      BY <3>1, <3>3, <3>5
  <2>10. UNCHANGED <<pc, place, sent, taken, verdict>>
    BY <1>1 DEF controlVars
  <2> HIDE DEF Answer
  <2> QED
    BY <1>1, <2>3, <2>7, <2>8, <2>9, <2>10 DEF IInv, Framed, Quiet
<1> QED
  BY <1>2, <1>3, WorkerEffect

\* A worker that is gone stays gone.
LEMMA WorkerPaced ==
  ASSUME IInv, NEW w \in Worker, WorkerStep(w)
  PROVE  Paced'
<1>1. UNCHANGED <<withheld, controlVars>> /\ ScriptLength' = ScriptLength /\ Current' = Current
      /\ Command(place)' = Command(place)
  BY WorkerEffect, SameScript DEF controlVars
<1>2. phase \in [Worker -> {"unborn", "alive", "leaving", "gone"}]
  BY DEF IInv, TypeOK
<1>3. \/ phase' = phase
      \/ phase[w] = "alive" /\ phase' = [phase EXCEPT ![w] = "leaving"]
      \/ phase[w] \in {"alive", "leaving"} /\ phase' = [phase EXCEPT ![w] = "gone"]
  BY DEF WorkerStep, RunStage, AnswerPrepare, AnswerReplay, AnswerInspect, WorkerRaises,
         AnswerClose, WorkerEnds, WorkerDies, Doing, Gone, processVars
<1>4. \A v \in Worker : /\ phase[v] = "gone" => phase'[v] = "gone"
                        /\ phase[v] # "unborn" => phase'[v] # "unborn"
                        /\ phase[v] = "unborn" => phase'[v] = "unborn"
  BY <1>2, <1>3
<1> QED
  BY <1>1, <1>4 DEF IInv, Paced, LeftWorkerIsInconclusive, controlVars, Worker

\* Who works on a command of the script works on the one the controller waits for, or waited for
\* when it gave up: nothing has been concluded from it, and nothing will be.
LEMMA Working ==
  ASSUME IInv, NEW w \in Worker, Doing(w, {"prepare", "replay", "inspect"})
  PROVE  /\ w = Current /\ place <= LastOf(w)
         /\ pc # "gate" /\ verdict \notin Passes \cup Misses
         /\ pc = "recv" => outbox[w] = <<>> /\ Head(inbox[w]).command = Command(place)
<1>1. inbox[w] \in Seq(Request) /\ inbox[w] # <<>> /\ place \in Nat /\ place >= 1
  BY ScriptTyped DEF Doing, IInv, TypeOK
<1>2. Head(inbox[w]) = inbox[w][1] /\ 1 \in 1..Len(inbox[w])
  BY <1>1
<1>3. ~CloseOnly(w)
  BY <1>2 DEF Doing, CloseOnly
<1>4. w = Current /\ place <= ScriptLength
  BY <1>3 DEF IInv, Framed
<1>5. place <= LastOf(w)
  <2>1. place > LastOf(w) => Target(place) # w
    BY <1>1, <1>4, Script
  <2> QED
    BY <1>1, <1>4, <2>1, ScriptTyped DEF Current
<1> QED
  BY <1>1, <1>2, <1>3, <1>4, <1>5 DEF IInv, Framed, Quiet

\* What was concluded of a worker's memory stays true: it has no more kernels to run.
LEMMA WorkerChecked ==
  ASSUME IInv, NEW w \in Worker, WorkerStep(w)
  PROVE  Checked'
<1>1. UNCHANGED <<withheld, controlVars>> /\ Current' = Current /\ Command(place)' = Command(place)
      /\ \A v : LastOf(v)' = LastOf(v)
  BY WorkerEffect, SameScript DEF controlVars
<1>2. /\ dirt \in [Worker -> SUBSET Memory] /\ outbox \in [Worker -> Seq(Reply)]
      /\ place \in Nat /\ inbox \in [Worker -> Seq(Request)]
  BY ScriptTyped DEF IInv, TypeOK
<1>3. \A v \in Worker : LastOf(v) \in Nat
  BY ScriptTyped
<1>4. CASE RunStage(w) \/ AnswerReplay(w)
  <2>1. Doing(w, {"prepare", "replay", "inspect"})
    BY <1>4 DEF RunStage, AnswerReplay, Doing
  <2>2. \A v \in Worker : v # w => dirt'[v] = dirt[v] /\ outbox'[v] = outbox[v]
    BY <1>2, <1>4 DEF RunStage, AnswerReplay, Call, Answer, channelVars
  <2>3. stray' \subseteq stray \cup {w}
    BY <1>4 DEF RunStage, AnswerReplay, Call
  <2>4. w \in stray' => dirt'[w] \cap {"inactive", "input", "guard"} # {}
    <3>1. PICK s, renewed :
            /\ Call(w, s, renewed)
            /\ w \in stray => (dirt[w] \ renewed) \cap {"inactive", "input", "guard"} # {}
      <4>1. w \in stray => dirt[w] \cap {"inactive", "input", "guard"} # {}
        BY DEF IInv, Checked
      <4>2. CASE RunStage(w)
        BY <4>1, <4>2 DEF RunStage, Correct
      <4>3. CASE AnswerReplay(w)
        BY <4>1, <4>3 DEF AnswerReplay
      <4> QED
        BY <1>4, <4>2, <4>3
    <3>2. dirt[w] \ renewed \subseteq dirt'[w]
      BY <1>2, <3>1 DEF Call
    <3>3. ASSUME NEW spot \in Memory, spot \in Watched(s) \ {"output"},
                 dirt' = [dirt EXCEPT ![w] = (@ \ renewed) \cup ({spot} \cap Watched(s))]
          PROVE  dirt'[w] \cap {"inactive", "input", "guard"} # {}
      <4>1. spot \in dirt'[w] /\ spot \in {"inactive", "input", "guard"}
        BY <1>2, <3>3 DEF Watched
      <4> QED
        BY <4>1
    <3>4. CASE w \in stray
      BY <3>1, <3>2, <3>4
    <3>5. CASE w \notin stray
      BY <3>1, <3>3, <3>5 DEF Call
    <3> QED
      BY <3>4, <3>5
  <2>5. pc = "recv" => outbox'[w] = <<>> \/ Command(place) = "replay"
    BY <1>2, <1>4, <2>1, Working DEF RunStage, AnswerReplay, channelVars, Doing
  <2>6. /\ w = Current /\ place <= LastOf(w)
        /\ pc # "gate" /\ verdict \notin Passes \cup Misses
    BY <2>1, Working
  <2>7. \A v \in Worker : place > LastOf(v) => v # w
    BY <1>2, <1>3, <2>6
  <2>8. UNCHANGED <<pc, place, verdict, rejected>>
    BY <1>1 DEF controlVars
  <2>9. \A v \in stray' : dirt'[v] \cap {"inactive", "input", "guard"} # {}
    BY <2>2, <2>3, <2>4 DEF IInv, Checked, TypeOK
  <2>10. pc # "recv" \/ outbox'[Current] = <<>> \/ Command(place) = "replay"
    BY <2>5, <2>6
  <2>11. /\ \A v \in Worker : /\ place > LastOf(v) => (v \in rejected <=> dirt'[v] # {})
                              /\ place <= LastOf(v) => v \notin rejected
         /\ withheld => rejected = {}
    BY <2>2, <2>7 DEF IInv, Checked
  <2> QED
    BY <1>1, <2>6, <2>8, <2>9, <2>10, <2>11 DEF Checked
<1>5. CASE ~RunStage(w) /\ ~AnswerReplay(w)
  <2>1. UNCHANGED <<dirt, stray, misrouted>>
    BY <1>5 DEF WorkerStep, AnswerPrepare, AnswerInspect, WorkerRaises, AnswerClose, WorkerEnds,
                WorkerDies, Gone, gpuVars
  <2>2. CASE UNCHANGED channelVars
    BY <1>1, <2>1, <2>2 DEF IInv, Checked, Correct, controlVars, channelVars
  <2>3. CASE AnswerPrepare(w) \/ AnswerInspect(w)
    <3>1. Doing(w, {"prepare", "replay", "inspect"})
      BY <2>3 DEF AnswerPrepare, AnswerInspect, Doing
    <3>2. /\ \A v \in Worker : v # w => outbox'[v] = outbox[v]
          /\ outbox'[w] = Append(outbox[w], [n |-> Head(inbox[w]).n, ok |-> TRUE,
                                             good |-> Correct(w)])
      BY <1>2, <2>3 DEF AnswerPrepare, AnswerInspect, Answer, Prepared, Correct
    <3>3. pc = "recv" => w = Current /\ outbox'[w][1].good = Correct(w)
      BY <1>2, <3>1, <3>2, Working
    <3> QED
      BY <1>1, <2>1, <3>3 DEF IInv, Checked, Correct, controlVars
  <2>4. CASE WorkerRaises(w)
    <3>1. Doing(w, {"prepare", "replay", "inspect"})
      BY <2>4 DEF WorkerRaises
    <3>2. outbox'[w] = Append(outbox[w], [n |-> Head(inbox[w]).n, ok |-> FALSE, good |-> FALSE])
      BY <1>2, <2>4 DEF WorkerRaises, Answer
    <3>3. pc = "recv" => w = Current /\ ~outbox'[w][1].ok
      BY <1>2, <3>1, <3>2, Working
    <3> QED
      BY <1>1, <2>1, <3>3 DEF IInv, Checked, Correct, controlVars
  <2>5. CASE AnswerClose(w)
    <3>1. pc # "recv"
      <4>1. inbox[w] # <<>> /\ Head(inbox[w]).command = "close"
        BY <2>5 DEF AnswerClose, Doing
      <4>2. inbox[w] \in Seq(Request) /\ (pc = "recv" => Len(inbox[w]) = 1)
        BY <1>2, <4>1 DEF IInv, Framed, Quiet
      <4> QED
        BY <4>1, <4>2, ScriptTyped DEF IInv, Framed, Quiet
    <3> QED
      BY <1>1, <2>1, <3>1 DEF IInv, Checked, Correct, controlVars
  <2> QED
    BY <1>5, <2>2, <2>3, <2>4, <2>5
       DEF WorkerStep, WorkerEnds, WorkerDies, Gone
<1> QED
  BY <1>4, <1>5

\* A worker runs its profiled call when it is prepared, in its first command.
LEMMA WorkerRouted ==
  ASSUME IInv, NEW w \in Worker, WorkerStep(w)
  PROVE  Routed'
<1>1. UNCHANGED <<withheld, controlVars>> /\ \A v : FirstOf(v)' = FirstOf(v)
  BY WorkerEffect DEF FirstOf
<1>2. CASE RunStage(w)
  <2>1. SUFFICES ASSUME pc \in Before, NEW v \in Worker, place > FirstOf(v)
                 PROVE  v \notin misrouted'
    BY <1>1 DEF Routed, controlVars
  <2>2. v \notin misrouted /\ misrouted' \subseteq misrouted \cup {w}
    BY <1>2, <2>1 DEF RunStage, Dispatch, IInv, Routed
  <2>3. Doing(w, {"prepare", "replay", "inspect"})
    BY <1>2 DEF RunStage, Doing
  <2>4. pc = "recv"
    BY <2>1, <2>3 DEF Doing, IInv, Framed, Quiet, Before
  <2>5. Command(place) = "prepare" /\ w = Current
    BY <1>2, <2>3, <2>4, Working DEF RunStage, Doing
  <2>6. place \in Nat /\ 1 <= place /\ place <= ScriptLength
    BY <2>4, ScriptTyped DEF IInv, TypeOK, Paced
  <2>7. place = FirstOf(w)
    BY <2>5, <2>6, Script DEF Current
  <2>8. v # w
    BY <2>1, <2>6, <2>7
  <2> QED
    BY <2>2, <2>8
<1>3. CASE ~RunStage(w)
  <2>1. misrouted' = misrouted
    BY <1>3 DEF WorkerStep, AnswerPrepare, AnswerReplay, AnswerInspect, WorkerRaises, AnswerClose,
                WorkerEnds, WorkerDies, Gone, gpuVars
  <2> QED
    BY <1>1, <2>1 DEF IInv, Routed, controlVars
<1> QED
  BY <1>2, <1>3

\* The controller's steps keep the types.
LEMMA ControllerTyped ==
  ASSUME IInv, Controller \/ RefuseArguments \/ ControllerDies
  PROVE  TypeOK'
<1> USE ScriptTyped, DualWorkerAssumption
    DEF IInv, TypeOK, Paced, ScriptLength, ExecutionError, Passes, Misses, Inconclusive, Verdicts,
        Before, After, Workers, channelVars, processVars, gpuVars
<1>p. ASSUME NEW w \in Worker, NEW command \in {"prepare", "replay", "inspect", "close"},
             Post(w, command)
      PROVE  sent' \in Nat /\ inbox' \in [Worker -> Seq(Request)] /\ outbox' = outbox
  <2>1. [n |-> sent + 1, command |-> command] \in Request
    BY DEF Request
  <2>2. Append(inbox[w], [n |-> sent + 1, command |-> command]) \in Seq(Request)
    BY <2>1
  <2> QED
    BY <1>p, <2>2 DEF Post
<1>r. ASSUME NEW w \in Worker, outbox[w] # <<>>, Read(w)
      PROVE  /\ outbox' \in [Worker -> Seq(Reply)] /\ inbox' = inbox
             /\ Head(outbox[w]) \in Reply
  <2>1. outbox[w] \in Seq(Reply)
    OBVIOUS
  <2>2. Tail(outbox[w]) \in Seq(Reply) /\ Head(outbox[w]) \in Reply
    BY <1>r, <2>1
  <2> QED
    BY <1>r, <2>2 DEF Read
<1>1. CASE Preflight
  BY <1>1 DEF Preflight
<1>2. CASE Spawn
  BY <1>2 DEF Spawn
<1>3. CASE SpawnFails
  BY <1>3 DEF SpawnFails, Raises
<1>4. CASE Send
  <2>1. sent' \in Nat /\ inbox' \in [Worker -> Seq(Request)] /\ outbox' = outbox
    BY <1>p, <1>4 DEF Send, Current
  <2> QED
    BY <1>4, <2>1 DEF Send
<1>5. CASE Recv
  <2>1. /\ outbox' \in [Worker -> Seq(Reply)] /\ inbox' = inbox
        /\ Head(outbox[Current]) \in Reply
    BY <1>r, <1>5 DEF Recv, Current
  <2>2. [asked |-> sent, answered |-> Head(outbox[Current]).n] \in [asked : Nat, answered : Nat]
    BY <2>1 DEF Reply
  <2>3. taken' \in Seq([asked : Nat, answered : Nat])
    <3>1. \/ taken' = taken
          \/ taken' = Append(taken, [asked |-> sent, answered |-> Head(outbox[Current]).n])
      BY <1>5 DEF Recv
    <3>2. taken \in Seq([asked : Nat, answered : Nat])
      OBVIOUS
    <3>3. Append(taken, [asked |-> sent, answered |-> Head(outbox[Current]).n]) \in
            Seq([asked : Nat, answered : Nat])
      BY <2>2, <3>2, AppendProperties
    <3> QED
      BY <3>1, <3>2, <3>3
  <2>4. Current \in Worker
    BY DEF Current
  <2>5. rejected' \subseteq Worker
    BY <1>5, <2>4 DEF Recv, Raises
  <2>6. pc' \in {"close", "gate", "judge", "send"}
    BY <1>5 DEF Recv, Raises, Advance
  <2>7. place' \in 1..(ScriptLength' + 1)
    BY <1>5 DEF Recv, Raises, Advance
  <2>8. verdict' \in Verdicts \cup {"none"} /\ UNCHANGED <<withheld, closing, report, sent>>
    BY <1>5 DEF Recv, Raises, Advance
  <2> QED
    BY <1>5, <2>1, <2>3, <2>5, <2>6, <2>7, <2>8 DEF Recv
<1>6. CASE RecvEof
  BY <1>6 DEF RecvEof, Raises
<1>7. CASE RecvTimeout
  BY <1>7 DEF RecvTimeout, Raises
<1>8. CASE Gate
  BY <1>8 DEF Gate, Advance, Raises
<1>9. CASE Judge
  BY <1>9 DEF Judge, Verdict
<1>10. CASE Close
  <2>1. UNCHANGED <<sent, channelVars>> \/ Post(Closing, "close")
    BY <1>10 DEF Close
  <2>2. sent' \in Nat /\ inbox' \in [Worker -> Seq(Request)] /\ outbox' = outbox
    BY <1>p, <2>1 DEF Closing, Worker
  <2> QED
    BY <1>10, <2>2 DEF Close, Closes
<1>11. CASE Ack
  <2>1. CASE outbox[Closing] # <<>> /\ Read(Closing)
    BY <1>r, <1>11, <2>1 DEF Ack, Closes, Closing, Worker
  <2>2. CASE UNCHANGED channelVars
    BY <1>11, <2>2 DEF Ack, Closes
  <2> QED
    BY <1>11, <2>1, <2>2 DEF Ack
<1>12. CASE AwaitExit
  BY <1>12 DEF AwaitExit, Closes
<1>13. CASE Signal
  <2>1. signalled' \subseteq Worker
    BY <1>13 DEF Signal, Closing, Worker
  <2>2. closing' \in 1..3 /\ pc' \in {"close", "term"} /\ verdict' = verdict
    BY <1>13 DEF Signal, Onward
  <2> QED
    BY <1>13, <2>1, <2>2 DEF Signal, Closes
<1>14. CASE Term
  BY <1>14 DEF Term, Onward, Closing, Closes
<1>15. CASE Kill
  BY <1>15 DEF Kill, Onward, Closing, Closes
<1>16. CASE Report
  BY <1>16 DEF Report
<1>17. CASE RefuseArguments
  BY <1>17 DEF RefuseArguments
<1>18. CASE ControllerDies
  BY <1>18 DEF ControllerDies, Fault
<1> QED
  BY <1>1, <1>2, <1>3, <1>4, <1>5, <1>6, <1>7, <1>8, <1>9,
     <1>10, <1>11, <1>12, <1>13, <1>14, <1>15, <1>16, <1>17, <1>18 DEF Controller

\* Every worker the controller has passed in closing is gone.
LEMMA ControllerPaced ==
  ASSUME IInv, Controller \/ RefuseArguments \/ ControllerDies
  PROVE  Paced'
<1> USE ScriptTyped
    DEF IInv, Paced, ScriptLength, LeftWorkerIsInconclusive, ExecutionError, Passes, Misses, Inconclusive,
        Verdicts, Before, After, Worker, Closing, Workers, channelVars, processVars, gpuVars
<1>1. CASE Preflight
  BY <1>1 DEF Preflight
<1>2. CASE Spawn
  <2>1. phase \in [Worker -> {"unborn", "alive", "leaving", "gone"}]
    BY DEF TypeOK
  <2>2. pc = "spawn" /\ UNCHANGED <<verdict, closing, report, withheld, place>>
    BY <1>2 DEF Spawn
  <2>3. \/ pc' = "spawn" /\ phase'["candidate"] = phase["candidate"]
        \/ pc' = "send" /\ \A w \in Worker : phase'[w] # "unborn"
    BY <1>2, <2>1 DEF Spawn
  <2>4. pc' = "send" => place' <= ScriptLength'
    BY <2>2, <1>2
  <2> QED
    BY <2>2, <2>3, <2>4
<1>3. CASE SpawnFails
  BY <1>3 DEF SpawnFails, Raises
<1>4. CASE Send
  BY <1>4 DEF Send
<1>5. CASE Recv
  <2>1. place \in Nat
    BY DEF TypeOK
  <2>2. UNCHANGED <<withheld, closing, report, phase>> /\ report = "none"
    BY <1>5 DEF Recv, Raises
  <2>3. \/ pc' = "gate" /\ Command(place) = "prepare" /\ UNCHANGED <<place, verdict>>
        \/ pc' = "close" /\ verdict' \in {ExecutionError, "correctness_failed"}
        \/ Advance /\ UNCHANGED verdict
    BY <1>5 DEF Recv, Raises
  <2>4. pc' = "gate" => Command(place)' = "prepare"
    BY <2>2, <2>3, SameScript DEF Advance
  <2>5. pc = "recv" /\ pc' # pc
    BY <1>5, <2>3 DEF Recv, Advance
  <2> QED
    BY <2>1, <2>2, <2>3, <2>4, <2>5 DEF Advance
<1>6. CASE RecvEof
  BY <1>6 DEF RecvEof, Raises
<1>7. CASE RecvTimeout
  BY <1>7 DEF RecvTimeout, Raises
<1>8. CASE Gate
  <2>1. place \in Nat
    BY DEF TypeOK
  <2>2. UNCHANGED <<withheld, closing, report, phase>> /\ report = "none" /\ pc = "gate"
    BY <1>8 DEF Gate, Raises
  <2>3. (Advance /\ UNCHANGED verdict) \/ (pc' = "close" /\ verdict' = ExecutionError)
    BY <1>8 DEF Gate, Raises
  <2> QED
    BY <2>1, <2>2, <2>3 DEF Advance
<1>9. CASE Judge
  BY <1>9 DEF Judge, Verdict
<1>10. CASE Close
  <2>1. closing \in 1..3
    BY DEF TypeOK
  <2> QED
    BY <1>10, <2>1 DEF Close, AllClosed, Closes
<1>11. CASE Ack
  BY <1>11 DEF Ack, Read, Closes
<1>12. CASE AwaitExit
  BY <1>12 DEF AwaitExit, Closes
<1>13. CASE Signal
  <2>1. closing \in 1..2
    BY <1>13 DEF Signal, TypeOK
  <2> QED
    BY <1>13, <2>1 DEF Signal, Onward, Closes
<1>14. CASE Term
  <2>1. closing \in 1..2
    BY <1>14 DEF Term, TypeOK
  <2> QED
    BY <1>14, <2>1 DEF Term, Onward, Closes
<1>15. CASE Kill
  <2>1. closing \in 1..2
    BY <1>15 DEF Kill, TypeOK
  <2> QED
    BY <1>15, <2>1 DEF Kill, Onward, Closes
<1>16. CASE Report
  BY <1>16 DEF Report
<1>17. CASE RefuseArguments
  BY <1>17 DEF RefuseArguments
<1>18. CASE ControllerDies
  BY <1>18 DEF ControllerDies, Fault
<1> QED
  BY <1>1, <1>2, <1>3, <1>4, <1>5, <1>6, <1>7, <1>8, <1>9,
     <1>10, <1>11, <1>12, <1>13, <1>14, <1>15, <1>16, <1>17, <1>18 DEF Controller

\* Frames: only Send and Close post any, and every reply that is read is the last one.
LEMMA ControllerFramed ==
  ASSUME IInv, Controller \/ RefuseArguments \/ ControllerDies
  PROVE  Framed'
<1>1. /\ inbox \in [Worker -> Seq(Request)] /\ outbox \in [Worker -> Seq(Reply)]
      /\ taken \in Seq([asked : Nat, answered : Nat]) /\ place \in Nat /\ place >= 1
      /\ sent \in Nat /\ Current \in Worker /\ Closing \in Worker
  BY ScriptTyped DEF IInv, TypeOK, Current, Closing, Worker
<1>2. withheld' = withheld
  BY DEF Controller, RefuseArguments, ControllerDies, Preflight, Spawn, SpawnFails, Send, Recv,
         RecvEof, RecvTimeout, Gate, Judge, Close, Ack, AwaitExit, Signal, Term, Kill, Report,
         Workers
<1>3. CASE Send
  <2>1. /\ \A w \in Worker : Quiet(w)
        /\ UNCHANGED <<place, verdict, taken>> /\ outbox' = outbox
        /\ sent' = sent + 1 /\ pc' = "recv" /\ verdict = "none"
    BY <1>3 DEF Send, Post, IInv, Framed, Paced, Before
  <2>2. /\ inbox'[Current] = Append(<<>>, [n |-> sent', command |-> Command(place)])
        /\ \A w \in Worker : w # Current => inbox'[w] = inbox[w]
    BY <1>1, <1>3, <2>1 DEF Send, Post, Quiet
  <2>3. /\ Len(inbox'[Current]) = 1
        /\ inbox'[Current][1] = [n |-> sent', command |-> Command(place)]
    BY <2>2
  <2>4. \A w \in Worker : w # Current => Quiet(w)'
    BY <2>1, <2>2 DEF Quiet
  <2>5. place <= ScriptLength
    BY <1>3 DEF Send, IInv, Paced
  <2>6. Current' = Current /\ Command(place)' = Command(place) /\ ScriptLength' = ScriptLength
    BY <1>2, <2>1, SameScript
  <2>7. \A w \in Worker : w # Current => CloseOnly(w)'
    BY <2>4 DEF Quiet, CloseOnly
  <2>8. "none" \notin Passes \cup Misses
    BY DEF Passes, Misses
  <2> QED
    <3>1. /\ pc' \notin {"preflight", "spawn", "send", "gate", "judge"}
          /\ verdict' \notin Passes \cup Misses
          /\ \A i \in 1..Len(taken') : taken'[i].asked = taken'[i].answered
      BY <2>1, <2>8 DEF IInv, Framed
    <3>2. \A w \in Worker : w # Current' => Quiet(w)'
      BY <2>4, <2>6
    <3>3. /\ Len(inbox'[Current']) = 1 /\ outbox'[Current'] = <<>>
          /\ inbox'[Current'][1].n = sent' /\ inbox'[Current'][1].command = Command(place)'
      BY <1>1, <2>1, <2>3, <2>6 DEF Quiet
    <3>4. \A w \in Worker : CloseOnly(w)' \/ (w = Current' /\ place' <= ScriptLength')
      BY <2>1, <2>5, <2>6, <2>7
    <3> QED
      BY <3>1, <3>2, <3>3, <3>4 DEF Framed
<1>4. CASE Recv
  <2>1. pc = "recv" /\ outbox[Current] # <<>>
    BY <1>4 DEF Recv
  <2>2. /\ inbox[Current] = <<>> /\ Len(outbox[Current]) = 1 /\ outbox[Current][1].n = sent
        /\ \A w \in Worker : w # Current => Quiet(w)
    BY <2>1 DEF IInv, Framed
  <2>3. /\ \A w \in Worker : w # Current => inbox'[w] = inbox[w] /\ outbox'[w] = outbox[w]
        /\ inbox' = inbox /\ outbox'[Current] = Tail(outbox[Current])
    BY <1>1, <1>4 DEF Recv, Read
  <2>4. Tail(outbox[Current]) \in Seq(Reply) /\ Len(Tail(outbox[Current])) = 0
    BY <1>1, <2>1, <2>2
  <2>5. \A w \in Worker : inbox'[w] = <<>> /\ outbox'[w] = <<>>
    BY <2>2, <2>3, <2>4, EmptySeq DEF Quiet
  <2>6. \A w \in Worker : Quiet(w)' /\ CloseOnly(w)'
    BY <2>5 DEF Quiet, CloseOnly
  <2>7. /\ pc' # "recv"
        /\ \/ taken' = taken
           \/ taken' = Append(taken, [asked |-> sent, answered |-> Head(outbox[Current]).n])
    BY <1>4 DEF Recv, Raises, Advance
  <2>8. Head(outbox[Current]).n = sent
    BY <1>1, <2>1, <2>2
  <2>9. \A i \in 1..Len(taken') : taken'[i].asked = taken'[i].answered
    <3>1. CASE taken' = taken
      BY <3>1 DEF IInv, Framed
    <3>2. CASE taken' = Append(taken, [asked |-> sent, answered |-> Head(outbox[Current]).n])
      <4>1. /\ Len(taken') = Len(taken) + 1 /\ Len(taken) \in Nat
            /\ \A i \in 1..Len(taken) : taken'[i] = taken[i]
            /\ taken'[Len(taken) + 1] = [asked |-> sent, answered |-> sent]
        BY <1>1, <2>8, <3>2, AppendProperties
      <4> QED
        BY <4>1 DEF IInv, Framed
    <3> QED
      BY <2>7, <3>1, <3>2
  <2> QED
    BY <2>6, <2>7, <2>9 DEF Framed
<1>5. CASE Close \/ Ack
  <2>1. /\ UNCHANGED <<withheld, place, verdict, taken>>
        /\ pc' \notin {"preflight", "spawn", "send", "gate", "judge", "recv"}
    BY <1>5 DEF Close, Ack, Closes, Workers
  <2>2. Current' = Current /\ ScriptLength' = ScriptLength
    BY <2>1, SameScript
  <2>3. \A w \in Worker : CloseOnly(w) => CloseOnly(w)'
    <3>1. CASE inbox' = inbox
      BY <3>1 DEF CloseOnly
    <3>2. CASE Post(Closing, "close")
      <4>1. /\ inbox'[Closing] = Append(inbox[Closing], [n |-> sent + 1, command |-> "close"])
            /\ \A w \in Worker : w # Closing => inbox'[w] = inbox[w]
            /\ inbox[Closing] \in Seq(Request)
        BY <1>1, <3>2 DEF Post
      <4>2. /\ \A i \in 1..Len(inbox[Closing]) : inbox'[Closing][i] = inbox[Closing][i]
            /\ Len(inbox'[Closing]) = Len(inbox[Closing]) + 1
            /\ inbox'[Closing][Len(inbox[Closing]) + 1] = [n |-> sent + 1, command |-> "close"]
            /\ Len(inbox[Closing]) \in Nat
        BY <4>1
      <4>3. ASSUME NEW w \in Worker, w = Closing, CloseOnly(w) PROVE CloseOnly(w)'
        BY <4>2, <4>3 DEF CloseOnly
      <4>4. ASSUME NEW w \in Worker, w # Closing, CloseOnly(w) PROVE CloseOnly(w)'
        BY <4>1, <4>4 DEF CloseOnly
      <4> QED
        BY <4>3, <4>4
    <3> QED
      BY <1>5, <3>1, <3>2 DEF Close, Ack, Read, channelVars
  <2> QED
    BY <2>1, <2>2, <2>3 DEF IInv, Framed
<1>6. CASE ~Send /\ ~Recv /\ ~Close /\ ~Ack
  <2>1. UNCHANGED <<channelVars, sent, taken>> /\ pc' # "recv"
    BY <1>6 DEF Controller, RefuseArguments, ControllerDies, Preflight, Spawn, SpawnFails,
                RecvEof, RecvTimeout, Gate, Judge, AwaitExit, Signal, Term, Kill, Report,
                Raises, Advance, Onward, Closes
  <2>2. \A w \in Worker : Quiet(w)' = Quiet(w) /\ CloseOnly(w)' = CloseOnly(w)
    BY <2>1 DEF Quiet, CloseOnly, channelVars
  <2>3. CASE pc \in {"preflight", "spawn", "gate", "judge"}
    <3>1. \A w \in Worker : Quiet(w)' /\ CloseOnly(w)'
      BY <2>2, <2>3 DEF IInv, Framed, Quiet, CloseOnly
    <3> QED
      BY <2>1, <3>1 DEF IInv, Framed
  <2>4. CASE pc \notin {"preflight", "spawn", "gate", "judge"}
    <3>1. /\ UNCHANGED place
          /\ verdict' = verdict \/ verdict' \in Inconclusive
          /\ pc' \notin {"preflight", "spawn", "send", "gate", "judge"}
      BY <1>6, <2>4
         DEF Controller, RefuseArguments, ControllerDies, Preflight, Spawn, SpawnFails,
             RecvEof, RecvTimeout, Gate, Judge, AwaitExit, Signal, Term, Kill, Report, Raises,
             Onward, Closes, ExecutionError, Inconclusive
    <3>2. Current' = Current /\ ScriptLength' = ScriptLength
      BY <1>2, <3>1, SameScript
    <3>3. verdict' \in Inconclusive => verdict' \notin Passes \cup Misses
      BY DEF Inconclusive, Passes, Misses
    <3> QED
      BY <2>1, <2>2, <3>1, <3>2, <3>3 DEF IInv, Framed
  <2> QED
    BY <2>3, <2>4
<1> QED
  BY <1>3, <1>4, <1>5, <1>6

\* What is known of the memory when the script goes on and when it ends.
LEMMA ControllerChecked ==
  ASSUME IInv, Controller \/ RefuseArguments \/ ControllerDies
  PROVE  Checked'
<1>1. /\ UNCHANGED <<withheld, dirt, stray, misrouted>> /\ ScriptLength' = ScriptLength
      /\ \A w : LastOf(w)' = LastOf(w) /\ FirstOf(w)' = FirstOf(w) /\ Correct(w)' = Correct(w)
  <2>1. UNCHANGED <<withheld, dirt, stray, misrouted>>
    BY DEF Controller, RefuseArguments, ControllerDies, Preflight, Spawn, SpawnFails, Send,
           Recv, RecvEof, RecvTimeout, Gate, Judge, Close, Ack, AwaitExit, Signal, Term, Kill,
           Report, Workers, gpuVars
  <2> QED
    BY <2>1 DEF ScriptLength, LastOf, FirstOf, Correct
<1>2. /\ outbox \in [Worker -> Seq(Reply)] /\ place \in Nat /\ place >= 1
      /\ Current \in Worker /\ rejected \subseteq Worker
      /\ ScriptLength \in Nat /\ \A w \in Worker : LastOf(w) \in Nat /\ LastOf(w) <= ScriptLength
      /\ \A w \in Worker : FirstOf(w) \in Nat /\ FirstOf(w) <= ScriptLength
  BY ScriptTyped DEF IInv, TypeOK, Current, FirstOf
<1>3. CASE Send
  <2>1. \A w \in Worker : outbox'[w] = <<>>
    BY <1>3 DEF Send, Post, IInv, Framed, Quiet
  <2>2. pc' = "recv" /\ UNCHANGED <<place, rejected, verdict>>
    BY <1>3 DEF Send
  <2>3. Current' = Current
    BY <1>1, <2>2, SameScript
  <2> QED
    BY <1>1, <1>2, <2>1, <2>2, <2>3 DEF IInv, Checked
<1>4. CASE Recv
  <2>1. /\ pc = "recv" /\ outbox[Current] # <<>> /\ pc' # "recv" /\ place <= ScriptLength
        /\ verdict = "none" /\ Head(outbox[Current]) = outbox[Current][1]
    <3>1. pc = "recv" /\ outbox[Current] # <<>> /\ pc' # "recv"
      BY <1>4 DEF Recv, Raises, Advance
    <3> QED
      BY <1>2, <3>1 DEF IInv, Paced, Before
  <2>2. CASE /\ pc' = "gate" /\ UNCHANGED <<place, rejected, verdict>>
             /\ Head(outbox[Current]).ok /\ Head(outbox[Current]).good
             /\ Command(place) = "prepare"
    <3>1. Correct(Current) /\ Current' = Current
      BY <1>1, <2>1, <2>2, SameScript DEF IInv, Checked
    <3> QED
      BY <1>1, <2>1, <2>2, <3>1 DEF IInv, Checked
  <2>3. CASE /\ pc' = "close" /\ UNCHANGED <<place, rejected>> /\ verdict' = "correctness_failed"
             /\ Head(outbox[Current]).ok /\ ~Head(outbox[Current]).good
             /\ Command(place) = "prepare"
    <3>1. ~Correct(Current)
      BY <2>1, <2>3 DEF IInv, Checked
    <3> QED
      BY <1>1, <1>2, <2>3, <3>1 DEF IInv, Checked, Passes
  <2>4. CASE pc' = "close" /\ UNCHANGED <<place, rejected>> /\ verdict' = ExecutionError
    BY <1>1, <2>4 DEF IInv, Checked, Passes, Misses, ExecutionError
  <2>5. CASE /\ Command(place) \in {"inspect", "replay"} /\ Advance /\ UNCHANGED verdict
             /\ Head(outbox[Current]).ok
             /\ rejected' = IF Head(outbox[Current]).good THEN rejected
                            ELSE rejected \cup {Current}
             /\ Command(place) = "replay" => Head(outbox[Current]).good
    <3>1. pc' \in {"judge", "send"} /\ place' = place + 1
      BY <2>5 DEF Advance
    <3>2. CASE Command(place) = "replay"
      <4>1. rejected' = rejected /\ \A w \in Worker : place # LastOf(w)
        BY <1>2, <2>1, <2>5, <3>2, Script
      <4>2. \A w \in Worker : /\ place' > LastOf(w) => (w \in rejected' <=> dirt[w] # {})
                              /\ place' <= LastOf(w) => w \notin rejected'
        BY <1>2, <3>1, <4>1 DEF IInv, Checked
      <4> QED
        BY <1>1, <2>1, <2>5, <3>1, <4>1, <4>2 DEF IInv, Checked
    <3>3. CASE Command(place) = "inspect"
      <4>1. \A w \in Worker : place = LastOf(w) <=> w = Current
        BY <1>2, <2>1, <3>3, Script DEF Current
      <4>2. Head(outbox[Current]).good <=> dirt[Current] = {}
        <5>1. Current \notin misrouted
          BY <1>2, <2>1, <3>3, Script DEF IInv, Routed, Before
        <5> QED
          BY <2>1, <2>5, <3>3, <5>1 DEF IInv, Checked, Correct
      <4>3. Current \notin rejected
        BY <1>2, <4>1 DEF IInv, Checked
      <4>4. Current \in rejected' <=> dirt[Current] # {}
        BY <2>5, <4>2, <4>3
      <4>5. \A w \in Worker : w # Current => (w \in rejected' <=> w \in rejected)
        BY <2>5
      <4>6. \A w \in Worker : /\ place' > LastOf(w) => (w \in rejected' <=> dirt[w] # {})
                              /\ place' <= LastOf(w) => w \notin rejected'
        BY <1>2, <3>1, <4>1, <4>4, <4>5 DEF IInv, Checked
      <4>7. ~withheld'
        BY <1>1, <1>2, <2>1, <3>3, Script
      <4> QED
        BY <1>1, <2>1, <2>5, <3>1, <4>6, <4>7 DEF IInv, Checked
    <3> QED
      BY <2>5, <3>2, <3>3
  <2> QED
    BY <1>4, <2>2, <2>3, <2>4, <2>5, ScriptTyped DEF Recv, Raises
<1>5. CASE Gate
  <2>1. /\ pc = "gate" /\ Correct(Current) /\ dirt[Current] = {} /\ place <= ScriptLength
        /\ Command(place) = "prepare" /\ verdict = "none" /\ UNCHANGED rejected
    BY <1>5 DEF Gate, IInv, Checked, Paced, Before, Raises, Correct
  <2>2. CASE Advance /\ UNCHANGED verdict
    <3>1. pc' \in {"judge", "send"} /\ place' = place + 1
      BY <2>2 DEF Advance
    <3>2. \A w \in Worker : place = LastOf(w) => w = Current
      BY <1>2, <2>1, Script DEF Current
    <3>3. \A w \in Worker : /\ place' > LastOf(w) => (w \in rejected <=> dirt[w] # {})
                            /\ place' <= LastOf(w) => w \notin rejected
      BY <1>2, <2>1, <3>1, <3>2 DEF IInv, Checked
    <3> QED
      BY <1>1, <2>1, <2>2, <3>1, <3>3 DEF IInv, Checked
  <2>3. CASE Raises(ExecutionError)
    BY <1>1, <2>1, <2>3 DEF Raises, IInv, Checked, Passes, Misses, ExecutionError
  <2> QED
    BY <1>5, <2>2, <2>3 DEF Gate
<1>6. CASE Judge
  <2>1. /\ pc' = "close" /\ UNCHANGED <<place, rejected>> /\ place = ScriptLength + 1
        /\ \E alone, quiet, fast \in BOOLEAN : verdict' = Verdict(alone, quiet, fast)
    BY <1>6 DEF Judge, IInv, Paced
  <2>2. \A w \in Worker : w \in rejected <=> dirt[w] # {}
    BY <1>2, <2>1 DEF IInv, Checked
  <2>3. CASE rejected = {}
    <3>1. \A w \in Worker : Correct(w)
      BY <1>2, <1>6, <2>1, <2>2, <2>3 DEF IInv, Routed, Correct, Judge, Before
    <3>2. verdict' \notin Misses
      BY <2>1, <2>3 DEF Verdict, Misses
    <3> QED
      BY <1>1, <2>1, <3>1, <3>2 DEF IInv, Checked
  <2>4. CASE rejected # {} /\ ~withheld
    <3>1. \E w \in Worker : ~Correct(w)
      BY <1>2, <2>2, <2>4 DEF Correct
    <3>2. verdict' \notin Passes
      BY <2>1, <2>4 DEF Verdict, Passes
    <3> QED
      BY <1>1, <2>1, <3>1, <3>2 DEF IInv, Checked
  <2> QED
    BY <2>3, <2>4 DEF IInv, Checked
<1>7. CASE ~Send /\ ~Recv /\ ~Gate /\ ~Judge
  <2>1. /\ pc' \notin {"recv", "gate"} /\ UNCHANGED <<place, rejected>>
    BY <1>7 DEF Controller, RefuseArguments, ControllerDies, Preflight, Spawn, SpawnFails,
                RecvEof, RecvTimeout, Close, Ack, AwaitExit, Signal, Term, Kill, Report,
                Raises, Onward, Closes
  <2>2. verdict' = verdict \/ verdict' \in Inconclusive
    BY <1>7 DEF Controller, RefuseArguments, ControllerDies, Preflight, Spawn, SpawnFails,
                RecvEof, RecvTimeout, Close, Ack, AwaitExit, Signal, Term, Kill, Report,
                Raises, Onward, Closes, ExecutionError, Inconclusive
  <2>3. verdict' \in Inconclusive => verdict' \notin Passes \cup Misses
    BY DEF Inconclusive, Passes, Misses
  <2> QED
    BY <1>1, <2>1, <2>2, <2>3 DEF IInv, Checked
<1> QED
  BY <1>3, <1>4, <1>5, <1>6, <1>7

\* A preparation is followed by a later command only when its reply was good.
LEMMA ControllerRouted ==
  ASSUME IInv, Controller \/ RefuseArguments \/ ControllerDies
  PROVE  Routed'
<1>1. UNCHANGED misrouted /\ \A w : FirstOf(w)' = FirstOf(w)
  BY DEF Controller, RefuseArguments, ControllerDies, Preflight, Spawn, SpawnFails, Send,
         Recv, RecvEof, RecvTimeout, Gate, Judge, Close, Ack, AwaitExit, Signal, Term, Kill,
         Report, Workers, gpuVars, FirstOf
<1>2. \/ pc' \in Before => pc \in Before /\ place' = place
      \/ pc = "recv" /\ Command(place) # "prepare" /\ place' = place + 1
      \/ pc = "gate" /\ place' = place + 1
  <2>1. CASE Recv
    BY <2>1 DEF Recv, Advance, Raises, Before
  <2>2. CASE Gate
    BY <2>2 DEF Gate, Advance, Raises, Before
  <2>3. CASE ~Recv /\ ~Gate
    BY <2>3 DEF Controller, RefuseArguments, ControllerDies, Preflight, Spawn, SpawnFails, Send,
                RecvEof, RecvTimeout, Judge, Close, Ack, AwaitExit, Signal, Term, Kill,
                Report, Raises, Onward, Closes, Before
  <2> QED
    BY <2>1, <2>2, <2>3
<1>3. /\ place \in Nat /\ place >= 1 /\ Current \in Worker
      /\ \A w \in Worker : FirstOf(w) \in Nat
  BY ScriptTyped DEF IInv, TypeOK, Current, FirstOf
<1>4. CASE pc = "recv" /\ Command(place) # "prepare" /\ place' = place + 1
  <2>1. \A w \in Worker : place > FirstOf(w)
    BY <1>3, <1>4, Script, ScriptTyped DEF IInv, Paced
  <2> QED
    BY <1>1, <1>4, <2>1 DEF IInv, Routed, Before
<1>5. CASE pc = "gate" /\ place' = place + 1
  <2>1. place = FirstOf(Current)
    BY <1>3, <1>5, Script, ScriptTyped DEF IInv, Paced, Current
  <2>2. \A w \in Worker : FirstOf(w) = FirstOf(Current) => w = Current
    BY <1>3 DEF FirstOf, Worker
  <2>3. \A w \in Worker : place' > FirstOf(w) => place > FirstOf(w) \/ w = Current
    BY <1>3, <1>5, <2>1, <2>2
  <2>4. Current \notin misrouted
    BY <1>5 DEF IInv, Checked, Correct
  <2>5. \A w \in Worker : place > FirstOf(w) => w \notin misrouted
    BY <1>5 DEF IInv, Routed, Before
  <2> QED
    BY <1>1, <2>3, <2>4, <2>5 DEF Routed
<1>6. CASE pc' \in Before => pc \in Before /\ place' = place
  BY <1>1, <1>6 DEF IInv, Routed
<1> QED
  BY <1>2, <1>4, <1>5, <1>6

\* The invariant holds at first and is preserved by every step.
LEMMA Inductive == Spec => []IInv
<1>1. Init => IInv
  <2> SUFFICES ASSUME Init PROVE IInv
    OBVIOUS
  <2> USE DualWorkerAssumption, ScriptTyped DEF Init
  <2>1. TypeOK
    BY DEF TypeOK, Memory, Request, Reply
  <2>2. Framed
    BY DEF Framed, Quiet, CloseOnly, Passes, Misses
  <2>3. Paced
    BY DEF Paced, Before, After, Worker, LeftWorkerIsInconclusive
  <2>4. Checked
    BY DEF Checked, Passes, Misses
  <2>5. Routed
    BY DEF Routed
  <2> QED
    BY <2>1, <2>2, <2>3, <2>4, <2>5 DEF IInv
<1>2. ASSUME IInv, [Next]_vars PROVE IInv'
  <2>1. CASE \E w \in Worker : WorkerStep(w)
    <3>1. PICK w \in Worker : WorkerStep(w)
      BY <2>1
    <3>2. TypeOK'
      BY <1>2, <3>1, WorkerTyped DEF IInv
    <3> QED
      BY <1>2, <3>1, <3>2, WorkerFramed, WorkerPaced, WorkerChecked, WorkerRouted DEF IInv
  <2>2. CASE Controller \/ RefuseArguments \/ ControllerDies
    <3>1. TypeOK' /\ Framed'
      BY <1>2, <2>2, ControllerTyped, ControllerFramed
    <3>2. Paced' /\ Checked' /\ Routed'
      BY <1>2, <2>2, ControllerPaced, ControllerChecked, ControllerRouted
    <3> QED
      BY <3>1, <3>2 DEF IInv
  <2>3. CASE UNCHANGED vars
    <3> USE <2>3 DEF vars, controlVars, channelVars, processVars, gpuVars
    <3>1. UNCHANGED <<withheld, place>>
      OBVIOUS
    <3>2. TypeOK'
      BY <1>2, <3>1, SameScript DEF IInv, TypeOK
    <3>3. Framed'
      BY <1>2, <3>1, SameScript DEF IInv, Framed, Quiet, CloseOnly
    <3>4. Paced' /\ Checked' /\ Routed'
      BY <1>2, <3>1, SameScript
         DEF IInv, Paced, Checked, Routed, LeftWorkerIsInconclusive, Correct, FirstOf
    <3> QED
      BY <3>2, <3>3, <3>4 DEF IInv
  <2> QED
    BY <1>2, <2>1, <2>2, <2>3 DEF Next
<1> QED
  BY <1>1, <1>2, PTL DEF Spec

-----------------------------------------------------------------------------
(* The theorems. *)

\* Every variable has its type.
THEOREM TypeCorrect == Spec => []TypeOK
<1>1. IInv => TypeOK
  BY DEF IInv
<1> QED
  BY <1>1, Inductive, PTL

\* Every reply the controller uses answers the command just sent, although nothing but the pid is
\* compared, and the two workers never have GPU work at the same time, although the controller
\* gives up on workers that are still busy.
THEOREM SerialCommands == Spec => []CommandsAreSerial
<1>1. ASSUME IInv PROVE CommandsAreSerial
  <2>1. \A w \in Worker : inbox[w] \in Seq(Request)
    BY <1>1 DEF IInv, TypeOK
  <2>2. \A w \in Worker : OnGpu(w) => ~CloseOnly(w)
    <3>1. ASSUME NEW w \in Worker, OnGpu(w) PROVE ~CloseOnly(w)
      <4>1. Head(inbox[w]) = inbox[w][1] /\ 1 \in 1..Len(inbox[w])
        BY <2>1, <3>1 DEF OnGpu
      <4> QED
        BY <3>1, <4>1 DEF OnGpu, CloseOnly
    <3> QED
      BY <3>1
  <2>3. ~(OnGpu("aiter") /\ OnGpu("candidate"))
    BY <1>1, <2>2 DEF IInv, Framed, Worker
  <2> QED
    BY <1>1, <2>3 DEF IInv, Framed, CommandsAreSerial
<1> QED
  BY <1>1, Inductive, PTL

\* A pass means that no call of either worker left a trace on inputs or guards and that the last
\* output was right, a miss that a worker's memory or its kernels are wrong: what the script last
\* learns of a worker stays true until the result is written.
THEOREM TrueVerdicts == Spec => []VerdictsAreTrue
<1>1. ASSUME IInv PROVE VerdictsAreTrue
  <2>1. report \in Passes \cup Misses => verdict = report
    BY <1>1 DEF IInv, Paced, Passes, Misses
  <2>2. report \in Passes => \A w \in Worker : w \notin stray /\ Correct(w)
    BY <1>1, <2>1 DEF IInv, Checked, Correct
  <2>3. report \in Misses => \E w \in Worker : ~Correct(w)
    BY <1>1, <2>1 DEF IInv, Checked
  <2> QED
    BY <2>2, <2>3 DEF VerdictsAreTrue
<1> QED
  BY <1>1, Inductive, PTL

\* Any result file but that of an execution error is written when both workers are gone.
THEOREM LeftInconclusive == Spec => []LeftWorkerIsInconclusive
<1>1. IInv => LeftWorkerIsInconclusive
  BY DEF IInv, Paced
<1> QED
  BY <1>1, Inductive, PTL

=============================================================================
