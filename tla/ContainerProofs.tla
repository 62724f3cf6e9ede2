--------------------------- MODULE ContainerProofs ---------------------------
(***************************************************************************)
(* Theorems of module Container, for any amount of trouble.                *)
(***************************************************************************)
EXTENDS Container, TLAPS

\* What the client has done so far, whether or not it is still alive.
Asked ==
  /\ client = "none" <=> caller = "idle"
  /\ client \in {"none", "new"} => Fresh
  /\ client = "create" => cidfile = "empty"
  /\ client = "attached" => cidfile = "id"
  /\ cidfile = "absent" => request \in {"none", "create", "created", "refused"}
  /\ cidfile = "empty" => request \in {"create", "created", "refused"}
  /\ cidfile = "id" => request \in {"start", "none", "refused"}
  /\ caller \notin {"idle", "wait", "term"} => client = "exited" /\ status # "none"
  /\ caller \in {"idle", "wait", "term"} => status = "none" /\ target = "none"

\* What the daemon has done so far.
Served ==
  /\ request = "create" => own = "none"
  /\ request = "created" => own \in {"created", "gone"}
  /\ own = "created" => request \in {"created", "start"}
  /\ request = "start" => own \in {"created", "gone"}
  /\ request = "none" /\ cidfile = "id" => own \in {"running", "removing", "gone"}
  /\ request = "none" /\ cidfile # "id" => own = "none"
  /\ request = "refused" => own \in {"none", "removing", "gone"}
  /\ own \in {"running", "removing"} => cidfile = "id"
  /\ own \in {"none", "created", "running"} => payload = "none"
  /\ caller \in {"idle", "wait", "term"} /\ request \in {"created", "start"} => own = "created"

\* The exit code of the client is the scorer's when it is 0, and also otherwise in calm weather
\* as long as the watchdog has not fired.
Reported ==
  /\ client # "exited" => exitCode = "none"
  /\ client = "exited" => exitCode # "none"
  /\ exitCode = "zero" => payload = "zero" /\ own = "gone"
  /\ status = "completed" => exitCode = "zero"
  /\ weather = {} => ~foreign
  /\ caller \in {"idle", "wait", "term"} /\ client # "exited" /\ own \in {"removing", "gone"} =>
       payload # "none" \/ request = "refused"
  /\ weather = {} /\ caller = "wait" =>
       /\ request # "refused"
       /\ client = "exited" => own = "gone" /\ cidfile = "id" /\ payload = exitCode
  /\ weather = {} /\ caller \notin {"idle", "wait", "term"} /\ status # "timeout" =>
       /\ own = "gone" /\ cidfile = "id" /\ payload # "none"
       /\ status = "failed" => payload = "nonzero"
       /\ caller \in {"cid", "inspect", "returned"}

\* What the adapter knows when it looks for the container and removes it.
Cleaned ==
  /\ target = "name" => cidfile = "absent"
  /\ target = "id" => cidfile = "id"
  /\ caller \in {"inspect", "remove", "recheck"} => target # "none"
  /\ caller = "remove" /\ target = "name" => own = "created" /\ request = "created"
  /\ caller = "returned" => own \in {"none", "created", "gone"} /\ (request = "start" => own = "gone")

IInv == TypeOK /\ Asked /\ Served /\ Reported /\ Cleaned

-----------------------------------------------------------------------------

(* Every step preserves the invariant. *)

\* A step of the docker client, told off by the watchdog or not.
LEMMA ClientStep ==
  ASSUME IInv,
         \/ ClientCreates
         \/ ClientStarts
         \/ ClientRefused
         \/ ClientReports
         \/ ClientLost
         \/ ClientTerminated
  PROVE  IInv'
<1> USE DEF IInv, TypeOK, Code, Asked, Served, Reported, Cleaned, Fresh, vars, callerVars,
            clientVars, daemonVars
<1>1. CASE ClientCreates
  BY <1>1 DEF ClientCreates
<1>2. CASE ClientStarts
  BY <1>2 DEF ClientStarts
<1>3. CASE ClientRefused
  BY <1>3 DEF ClientRefused
<1>4. CASE ClientReports
  BY <1>4 DEF ClientReports
<1>5. CASE ClientLost
  BY <1>5 DEF ClientLost, Trouble
<1>6. CASE ClientTerminated
  BY <1>6 DEF ClientTerminated
<1> QED
  BY <1>1, <1>2, <1>3, <1>4, <1>5, <1>6

\* A step of the daemon, of the scorer, or of the container's removal.
LEMMA DaemonStep ==
  ASSUME IInv,
         \/ DaemonCreates
         \/ DaemonStarts
         \/ DaemonFails
         \/ AutoRemoved
         \/ ForeignTakesName
         \/ ForeignLeaves
         \/ Forwarded /\ UNCHANGED weather
         \/ ScorerEnds
  PROVE  IInv'
<1> USE DEF IInv, TypeOK, Code, Asked, Served, Reported, Cleaned, Fresh, vars, callerVars,
            clientVars, daemonVars
<1>1. CASE DaemonCreates
  BY <1>1 DEF DaemonCreates
<1>2. CASE DaemonStarts
  BY <1>2 DEF DaemonStarts
<1>3. CASE DaemonFails
  BY <1>3 DEF DaemonFails, Trouble
<1>4. CASE AutoRemoved
  BY <1>4 DEF AutoRemoved
<1>5. CASE ForeignTakesName
  BY <1>5 DEF ForeignTakesName, Trouble, Present
<1>6. CASE ForeignLeaves
  <2>1. foreign' \in BOOLEAN /\ ~foreign'
    BY <1>6 DEF ForeignLeaves
  <2>2. UNCHANGED <<caller, status, target, client, exitCode, cidfile, request, own, payload,
                    weather>>
    BY <1>6 DEF ForeignLeaves
  <2> QED
    BY <2>1, <2>2
<1>7. CASE Forwarded /\ UNCHANGED weather
  BY <1>7 DEF Forwarded, PayloadEnds
<1>8. CASE ScorerEnds
  BY <1>8 DEF ScorerEnds, PayloadEnds, Code
<1> QED
  BY <1>1, <1>2, <1>3, <1>4, <1>5, <1>6, <1>7, <1>8

\* A step of the adapter or of its watchdog.
LEMMA CallerStep ==
  ASSUME IInv,
         \/ Launch
         \/ WaitReturns
         \/ WatchdogFires /\ UNCHANGED weather
         \/ Term
         \/ ReadCid
         \/ Inspect
         \/ Remove
         \/ DockerFails
  PROVE  IInv'
<1> USE DEF IInv, TypeOK, Code, Asked, Served, Reported, Cleaned, Fresh, vars, callerVars,
            clientVars, daemonVars
<1>1. CASE Launch
  BY <1>1 DEF Launch, Outside
<1>2. CASE WaitReturns
  BY <1>2 DEF WaitReturns, Outside
<1>3. CASE WatchdogFires /\ UNCHANGED weather
  BY <1>3 DEF WatchdogFires
<1>4. CASE Term
  BY <1>4 DEF Term, Outside
<1>5. CASE ReadCid
  BY <1>5 DEF ReadCid, Outside
<1>6. CASE Inspect
  BY <1>6 DEF Inspect, Named, Present, Outside
<1>7. CASE Remove
  BY <1>7 DEF Remove, Named, Present
<1>8. CASE DockerFails
  BY <1>8 DEF DockerFails, Trouble
<1> QED
  BY <1>1, <1>2, <1>3, <1>4, <1>5, <1>6, <1>7, <1>8

\* The invariant holds at first and is preserved by every step.
LEMMA Inductive == Spec => []IInv
<1>1. Init => IInv
  BY DEF Init, Fresh, IInv, TypeOK, Code, Asked, Served, Reported, Cleaned
<1>2. ASSUME IInv, [Next]_vars PROVE IInv'
  <2>1. CASE Client \/ ClientTerminated \/ ClientLost
    BY <1>2, <2>1, ClientStep DEF Client
  <2>2. CASE Daemon \/ DaemonFails \/ ForeignTakesName \/ ForeignLeaves \/ ScorerEnds
    BY <1>2, <2>2, DaemonStep DEF Daemon
  <2>3. CASE Caller \/ DockerFails
    BY <1>2, <2>3, CallerStep DEF Caller
  <2>4. CASE Limit
    BY <1>2, <2>4, CallerStep, DaemonStep DEF Limit
  <2>5. CASE UNCHANGED vars
    BY <1>2, <2>5 DEF vars, callerVars, clientVars, daemonVars, IInv, TypeOK, Asked, Served,
                      Reported, Cleaned, Fresh
  <2> QED
    BY <1>2, <2>1, <2>2, <2>3, <2>4, <2>5 DEF Next, Weather, Terminated
<1> QED
  BY <1>1, <1>2, PTL DEF Spec

-----------------------------------------------------------------------------
(* The theorems. *)

\* Every variable has its type, for any amount of trouble.
THEOREM TypeCorrect == Spec => []TypeOK
<1>1. IInv => TypeOK
  BY DEF IInv
<1> QED
  BY <1>1, Inductive, PTL

\* No container of a call that returned runs or ever will: what the adapter finds by name or
\* identifier is enough to know, whatever the killed client has left with the daemon.
THEOREM QuietOnReturn == Spec => []NothingRunsOnReturn
<1>1. IInv => NothingRunsOnReturn
  BY DEF IInv, TypeOK, Cleaned, NothingRunsOnReturn
<1> QED
  BY <1>1, Inductive, PTL

\* The status of the call is the scorer's own.
THEOREM StatusIsTrue == Spec => []StatusIsPayloads
<1>1. IInv => StatusIsPayloads
  BY DEF IInv, TypeOK, Asked, Reported, StatusIsPayloads
<1> QED
  BY <1>1, Inductive, PTL

\* The cleanup hides no outcome in calm weather, except of a call the watchdog ended.
THEOREM CalmCallsReturn == Spec => []CalmCallReturns
<1>1. IInv => CalmCallReturns
  BY DEF IInv, TypeOK, Reported, CalmCallReturns
<1> QED
  BY <1>1, Inductive, PTL

\* The cleanup removes no container but the call's own.
THEOREM ForeignSurvives == Spec => ForeignIsSafe
<1>1. ASSUME IInv, [Next]_vars, caller = "remove", caller' # caller PROVE foreign' = foreign
  <2>1. CASE Remove
    BY <1>1, <2>1 DEF Remove, Named, Present, IInv, TypeOK, Cleaned
  <2>2. CASE DockerFails
    BY <2>2 DEF DockerFails, daemonVars
  <2>3. ~Terminated /\ ~UNCHANGED vars
    BY <1>1 DEF Terminated, vars, callerVars
  <2>4. Next => Remove \/ DockerFails
    BY <1>1, <2>3
       DEF Next, Client, ClientCreates, ClientStarts, ClientRefused, ClientReports,
           ClientTerminated, Daemon, DaemonCreates, DaemonStarts, AutoRemoved, Caller, Launch,
           WaitReturns, Term, ReadCid, Inspect, Weather, ClientLost, DaemonFails,
           ForeignTakesName, ForeignLeaves, Limit, Forwarded, PayloadEnds, WatchdogFires,
           ScorerEnds, callerVars
  <2> QED
    BY <1>1, <2>1, <2>2, <2>3, <2>4
<1> QED
  BY <1>1, Inductive, PTL DEF Spec, ForeignIsSafe
=============================================================================
