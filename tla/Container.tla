------------------------------ MODULE Container ------------------------------
(***************************************************************************)
(* One call of post_agent._run_owned_container: the trusted adapter waits  *)
(* for a docker client with a wall limit (runner.run_limited), then finds  *)
(* out what is left of the container it owns and removes it.               *)
(*                                                                         *)
(* The client and the daemon are not part of the repository.  They are     *)
(* modelled by what the adapter relies on and guards against: the client   *)
(* creates the cid file before it asks for the container, `docker run      *)
(* --rm` ends after the container was removed, a killed client leaves its  *)
(* requests behind, and a name may already belong to somebody else.        *)
(***************************************************************************)
EXTENDS Naturals, FiniteSets

CONSTANT MaxFaults   \* bound: kinds of trouble in one behaviour

ASSUME ContainerAssumption == MaxFaults \in Nat

VARIABLES
  caller, status, target,          \* the adapter: its place, run_limited's status, identifier
  client, exitCode, cidfile,       \* docker run
  request, own, payload, foreign,  \* the daemon: request in flight, our container, its exit
                                   \* code, does somebody else's container hold the name?
  weather                          \* the kinds of trouble there were

callerVars == <<caller, status, target>>
clientVars == <<client, exitCode, cidfile>>
daemonVars == <<request, own, payload, foreign>>
vars == <<callerVars, clientVars, daemonVars, weather>>

Code == {"none", "zero", "nonzero"}

TypeOK ==
  /\ caller \in {"idle", "wait", "term", "cid", "inspect", "remove", "recheck", "returned",
                 "raised"}
  /\ status \in {"none", "completed", "failed", "timeout"}
  /\ target \in {"none", "name", "id"}
  /\ client \in {"none", "new", "create", "attached", "exited"}
  /\ exitCode \in Code /\ cidfile \in {"absent", "empty", "id"}
  /\ request \in {"none", "create", "created", "start", "refused"}
  /\ own \in {"none", "created", "running", "removing", "gone"}
  /\ payload \in Code /\ foreign \in BOOLEAN
  /\ weather \subseteq {"docker", "foreign"}

Fresh ==
  /\ status = "none" /\ target = "none"
  /\ exitCode = "none" /\ cidfile = "absent"
  /\ request = "none" /\ own = "none" /\ payload = "none"

Init == Fresh /\ caller = "idle" /\ client = "none" /\ foreign = FALSE /\ weather = {}

Trouble(kind) ==
  /\ Cardinality(weather \cup {kind}) <= MaxFaults
  /\ weather' = weather \cup {kind}

Present == {"created", "running", "removing"}

-----------------------------------------------------------------------------
(* The docker client. *)

\* The cid file is there, empty, before the daemon hears of the container.
ClientCreates ==
  /\ client = "new"
  /\ client' = "create" /\ cidfile' = "empty" /\ request' = "create"
  /\ UNCHANGED <<callerVars, exitCode, own, payload, foreign, weather>>

ClientStarts ==
  /\ client = "create" /\ request = "created"
  /\ client' = "attached" /\ cidfile' = "id" /\ request' = "start"
  /\ UNCHANGED <<callerVars, exitCode, own, payload, foreign, weather>>

\* A refused client deletes the cid file it has not written.
ClientRefused ==
  /\ client \in {"create", "attached"} /\ request = "refused"
  /\ client = "attached" => own = "gone"
  /\ client' = "exited" /\ exitCode' = "nonzero"
  /\ cidfile' = IF client = "create" THEN "absent" ELSE cidfile
  /\ UNCHANGED <<callerVars, daemonVars, weather>>

\* With --rm the client waits until the container is removed.
ClientReports ==
  /\ client = "attached" /\ request = "none" /\ own = "gone"
  /\ client' = "exited" /\ exitCode' = payload
  /\ UNCHANGED <<callerVars, cidfile, daemonVars, weather>>

\* The client loses the daemon and leaves the container alone.
ClientLost ==
  /\ client \in {"new", "create", "attached"} /\ Trouble("docker")
  /\ client' = "exited" /\ exitCode' = "nonzero"
  /\ UNCHANGED <<callerVars, cidfile, daemonVars>>

\* SIGTERM: a client that is not attached yet ends, some versions tidy up the cid file.
ClientTerminated ==
  /\ caller = "term" /\ client \in {"new", "create"}
  /\ client' = "exited" /\ exitCode' = "nonzero"
  /\ cidfile' \in {cidfile} \cup (IF cidfile = "empty" THEN {"absent"} ELSE {})
  /\ UNCHANGED <<callerVars, daemonVars, weather>>

-----------------------------------------------------------------------------
(* The docker daemon, which serves a request also after its client is dead. *)

DaemonCreates ==
  /\ request = "create"
  /\ IF foreign THEN request' = "refused" /\ UNCHANGED own
                ELSE request' = "created" /\ own' = "created"
  /\ UNCHANGED <<callerVars, clientVars, payload, foreign, weather>>

DaemonStarts ==
  /\ request = "start"
  /\ IF own = "created" THEN request' = "none" /\ own' = "running"
                        ELSE request' = "refused" /\ UNCHANGED own
  /\ UNCHANGED <<callerVars, clientVars, payload, foreign, weather>>

DaemonFails ==
  /\ request \in {"create", "start"} /\ Trouble("docker")
  /\ request' = "refused"
  /\ own' = IF own = "created" THEN "removing" ELSE own
  /\ UNCHANGED <<callerVars, clientVars, payload, foreign>>

\* The scorer in the container ends.
PayloadEnds(code) ==
  /\ own = "running"
  /\ own' = "removing" /\ payload' = code
  /\ UNCHANGED <<callerVars, clientVars, request, foreign>>

\* An attached client forwards SIGTERM to the scorer, which dies of it (--pid=host: it is not
\* process 1 of its namespace).
Forwarded == caller = "term" /\ client = "attached" /\ PayloadEnds("nonzero")

AutoRemoved ==
  /\ own = "removing"
  /\ own' = "gone"
  /\ UNCHANGED <<callerVars, clientVars, request, payload, foreign, weather>>

ForeignTakesName ==
  /\ ~foreign /\ own \notin Present /\ Trouble("foreign")
  /\ foreign' = TRUE
  /\ UNCHANGED <<callerVars, clientVars, request, own, payload>>

ForeignLeaves ==
  /\ foreign
  /\ foreign' = FALSE
  /\ UNCHANGED <<callerVars, clientVars, request, own, payload, weather>>

-----------------------------------------------------------------------------
(* The adapter.  The private root is new, so no cid file can be there before the call. *)

Outside == UNCHANGED <<daemonVars, weather>>

Launch ==
  /\ caller = "idle" /\ cidfile = "absent"
  /\ caller' = "wait" /\ client' = "new"
  /\ UNCHANGED <<status, target, exitCode, cidfile>> /\ Outside

WaitReturns ==
  /\ caller = "wait" /\ client = "exited"
  /\ caller' = "cid"
  /\ status' = IF exitCode = "zero" THEN "completed" ELSE "failed"
  /\ UNCHANGED <<target, clientVars>> /\ Outside

\* The wall limit: SIGTERM to the client's process group.
WatchdogFires ==
  /\ caller = "wait" /\ client # "exited"
  /\ caller' = "term"
  /\ UNCHANGED <<status, target, clientVars, daemonVars>>

\* Faulty variant: a client that ends after SIGTERM has failed.
TermByExitCode ==
  /\ caller = "term"
  /\ caller' = "cid"
  /\ IF client = "exited" THEN status' = "failed" /\ UNCHANGED clientVars
     ELSE /\ status' = "timeout" /\ client' = "exited" /\ exitCode' = "nonzero"
          /\ UNCHANGED cidfile
  /\ UNCHANGED target /\ Outside

\* Faulty variant: killing the client is the whole cleanup.
TermOnly ==
  /\ caller = "term"
  /\ caller' = "returned" /\ status' = "timeout"
  /\ IF client = "exited" THEN UNCHANGED clientVars
     ELSE client' = "exited" /\ exitCode' = "nonzero" /\ UNCHANGED cidfile
  /\ UNCHANGED target /\ Outside

\* Faulty variant: no SIGKILL.
TermPolitely ==
  /\ caller = "term" /\ client = "exited"
  /\ caller' = "cid" /\ status' = "timeout"
  /\ UNCHANGED <<target, clientVars>> /\ Outside

\* The client ended within the five seconds, or gets SIGKILL.
Term ==
  /\ caller = "term"
  /\ caller' = "cid" /\ status' = "timeout"
  /\ IF client = "exited" THEN UNCHANGED clientVars
     ELSE client' = "exited" /\ exitCode' = "nonzero" /\ UNCHANGED cidfile
  /\ UNCHANGED target /\ Outside

\* Faulty variant: whatever is in the cid file is the identifier.
ReadCidUnchecked ==
  /\ caller = "cid"
  /\ caller' = "inspect"
  /\ target' = IF cidfile = "absent" THEN "name" ELSE cidfile
  /\ UNCHANGED <<status, clientVars>> /\ Outside

\* Faulty variant: the container is removed without a look at it.
ReadCidAndRemove ==
  /\ caller = "cid"
  /\ IF cidfile = "empty" THEN caller' = "raised" /\ UNCHANGED target
     ELSE caller' = "remove" /\ target' = (IF cidfile = "id" THEN "id" ELSE "name")
  /\ UNCHANGED <<status, clientVars>> /\ Outside

ReadCid ==
  /\ caller = "cid"
  /\ IF cidfile = "empty" THEN caller' = "raised" /\ UNCHANGED target
     ELSE caller' = "inspect" /\ target' = (IF cidfile = "id" THEN "id" ELSE "name")
  /\ UNCHANGED <<status, clientVars>> /\ Outside

\* Whose container the identifier names.
Named == IF own \in Present THEN "ours"
         ELSE IF foreign /\ target = "name" THEN "foreign" ELSE "nobody"

\* Faulty variant: any container with the identifier is removed.
InspectAny ==
  /\ caller \in {"inspect", "recheck"}
  /\ caller' = IF Named = "nobody" THEN "returned"
               ELSE IF caller = "inspect" THEN "remove" ELSE "raised"
  /\ UNCHANGED <<status, target, clientVars>> /\ Outside

\* _owned_container_state, before and after `docker rm -f`.
Inspect ==
  /\ caller \in {"inspect", "recheck"}
  /\ caller' = IF Named = "nobody" THEN "returned"
               ELSE IF Named = "ours" /\ caller = "inspect" THEN "remove" ELSE "raised"
  /\ UNCHANGED <<status, target, clientVars>> /\ Outside

\* docker rm -f: the daemon refuses when a removal is under way, and may when nothing is there.
Remove ==
  /\ caller = "remove"
  /\ \/ /\ own \in {"created", "running"}
        /\ own' = "gone" /\ UNCHANGED foreign
        /\ caller' = "recheck"
     \/ /\ own \notin {"created", "running"} /\ Named # "foreign"
        /\ UNCHANGED <<own, foreign>>
        /\ caller' \in {"recheck", "raised"}
     \/ /\ Named = "foreign"
        /\ foreign' = FALSE /\ UNCHANGED own
        /\ caller' = "recheck"
  /\ UNCHANGED <<status, target, clientVars, request, payload, weather>>

\* A docker command of the adapter fails or times out.
DockerFails ==
  /\ caller \in {"inspect", "remove", "recheck"} /\ Trouble("docker")
  /\ caller' = "raised"
  /\ UNCHANGED <<status, target, clientVars, daemonVars>>

-----------------------------------------------------------------------------

Client == ClientCreates \/ ClientStarts \/ ClientRefused \/ ClientReports

Daemon == DaemonCreates \/ DaemonStarts \/ AutoRemoved

Caller == Launch \/ WaitReturns \/ Term \/ ReadCid \/ Inspect \/ Remove

Weather == ClientLost \/ DaemonFails \/ ForeignTakesName \/ ForeignLeaves \/ DockerFails

Over == caller \in {"returned", "raised"}

Terminated == Over /\ UNCHANGED vars

\* Here the scorer ends and the wall clock passes the limit at any time.
Limit == (Forwarded \/ WatchdogFires) /\ UNCHANGED weather

ScorerEnds == (PayloadEnds("zero") \/ PayloadEnds("nonzero")) /\ UNCHANGED weather

Next ==
  \/ Client \/ ClientTerminated \/ Daemon \/ Caller \/ Weather
  \/ Limit \/ ScorerEnds
  \/ Terminated

(* The adapter and the wall clock go on.  The client, the daemon and the scorer need not. *)
Fairness == WF_vars(Caller) /\ WF_vars(WatchdogFires /\ UNCHANGED weather)

Spec == Init /\ [][Next]_vars /\ Fairness

-----------------------------------------------------------------------------

\* When the call returns, the container runs no more and never will, whatever requests of the
\* killed client are still on their way to the daemon: the next scorer has the GPU to itself.
NothingRunsOnReturn ==
  caller = "returned" => own \notin {"running", "removing"} /\ ~(request = "start" /\ own = "created")

\* "Removes only that exact container": the cleanup never removes somebody else's container,
\* also when the name changes hands between the inspection and the removal.
ForeignIsSafe == [][caller = "remove" /\ caller' # caller => foreign' = foreign]_vars

\* The status is that of the scorer: completed only when it ended with 0, failed in calm
\* weather only when it ended with something else, and a scorer the watchdog had to stop has
\* neither status.
StatusIsPayloads ==
  /\ status = "completed" => payload = "zero" /\ own = "gone"
  /\ status = "failed" /\ weather = {} => payload = "nonzero"

\* Removal by --rm does not get in the way of the cleanup: unless docker fails or the watchdog
\* had to kill the client, the call does not raise and hide the scorer's outcome.
CalmCallReturns == caller = "raised" /\ weather = {} => status = "timeout"

\* Whatever the client, the daemon and the scorer do or fail to do, the call ends.
CallEnds == <>Over
=============================================================================
