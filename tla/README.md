# A TLA+ model of aiter-rs

aiter-rs records coding agents that write HIP kernels in a sandbox, gives them
public feedback through a host broker, and scores what they leave behind in
trusted replays. This directory models that program: what runs concurrently,
what survives a failure, and what a result file may claim. Modules are checked
by TLC on small instances; the theorems of the modules named `*Proofs` are
checked by TLAPS for every value of the constants.

## 1. Inventory

| component | source | state it keeps | operations | interacts with |
|---|---|---|---|---|
| capture runner | `runs/runner.py` | workspace, `manifest.json`, `snapshots.jsonl`, `blobs/`, `diffs/`, `agent-launch.json`, `result.json`; threads main and watcher | freeze check, copy of the starter, manifest, starter/poll/event/feedback/final capture, launch, wall timeout, result, exit code | agent (pipe, files), broker (callback `capture_source`, `close`) |
| live feedback broker | `live_feedback.py`, `boundary.process_request` | request and response files, private snapshots, raw results, event journal, `processed`, `errors`; one thread | take up slot, snapshot, score, sanitize, answer, reject, close | helper (files), runner, remote scorer (ssh, scp) |
| feedback helper | `feedback_helper.py` | none of its own; several processes may run | number, hash, link, poll | broker (files) |
| remote public scorer | `live_feedback.RemotePublicScorer`, `remote_score` | remote request directory, marker, result | upload, score, fetch by committed hash | broker, owned container |
| owned container | `post_agent._run_owned_container` | cid file, container by name and label | run with watchdog, inspect, remove | docker daemon |
| public scorer | `public_score.py` | `result.json` | compile, load, check, benchmark, status | GPU, harness |
| post-agent replay | `post_agent.py` | replay root, `summary.json` | incidence record, capture gate, preparation, public stage, withheld stage, verdict | container, public scorer, `harness.gdr_score` |
| local scoring | `runner.score_snapshots` | score records, `score_manifest.json` | export, compile, score, validate, record | harness |
| bundle scorer | `remote_score.py` | bundle, deployment and summary files | validate, container, build, score, summary | docker, harness |
| harness | `harness/*.py` | `result.json` | case checks, paired timing, noise gate, joint verdict | GPU, plugins |
| opus dual worker | `dual_worker.py` | two worker processes, socket pairs, result file | prepare, replay, inspect, verdict, close | GPU |
| opus batch | `batch_host.py`, `run_pair_host.sh`, `prepare_overlay.py`, `aggregate.py`, `freeze.py` | frozen header, attempts, results, batch report | public cases, gate, withheld cases, report | dual worker in a container |
| mHC scorer | `mega/mhc_score.py` | result file | two launches per case, graph replays, review | GPU |
| references, inventory, audits, results | `references/`, `inventory/`, `analysis/`, `results/` | none | numeric oracles, source scans, data | - |

What is hard in them, and what makes each correct:

- **Capture runner.** Three threads share a `Snapshotter`; the agent edits the
  tree while it is read; a read, a blob, a diff, a journal line or the whole
  runner may fail; `join(timeout=2)` gives up on the watcher. Correct means: the
  lines of the journal that parse are one chain, a clean result names the source the agent left,
  a quiet run replays, a failure shows in the exit code, a launched agent has a receipt.
- **Feedback.** Source is hashed, compared and copied at three different times
  by two processes; helpers race; responses are not written atomically; a slot
  may fail at every step, also after its answer. Correct means: an answer is for
  the source that was asked about and scored, it reaches the helper that asked,
  every slot leaves a line in the event log, a complete session really is, and close returns.
- **Container, replay, bundle scorer.** A watchdog that kills the client and not
  the container; exit codes and result files that contradict each other;
  verdicts with three values; inputs that are checked once and used minutes later. Correct means: no container is left or taken from
  somebody else, infrastructure faults never become failed candidates.
- **Scoring on a GPU host.** Nothing locks the GPU: every scorer looks at `rocm-smi` before
  and after it measures. A driver kills its client and not the container; a caller that
  times out on ssh leaves a whole chain of processes behind, beside which the next
  slot is scored. Correct means: a result file tells the truth, a verdict
  that is passed on is final, and of two measurements that overlapped at most one counts.
- **Opus.** A late reply on a worker's socket; a first `close` that raises; a
  worker that survives SIGKILL; a header edited and put back during a batch; a host script
  whose cleanup races its kill. Correct means: a reply belongs to its command, a verdict
  to what the checks of both workers saw, every case ran the frozen header, and the withheld
  matrix is read only after all public cases passed.

`PROJECT.json` lists the hazards at the line where each one bites and the
properties that cover it.

## 2. Modules

| module | what it is |
|---|---|
| `Capture` | one run: main thread, watcher, broker thread, agent, result directory |
| `SourceLog` | what a run promises: a log of differing trees, its cut and glued lines, and one seal |
| `MCCapture` | values for TLC |
| `CaptureProofs` | inductive invariant and theorems about `Capture` |
| `Feedback` | helpers, shared files, broker thread, private directory, `close` |
| `FeedbackService` | what the broker promises: slots in order, one final answer each |
| `MCFeedback` | values and symmetry for TLC |
| `FeedbackProofs` | inductive invariant and theorems about `Feedback` |
| `Container` | one owned container: adapter, docker client, docker daemon |
| `MCContainer` | values for TLC |
| `ContainerProofs` | inductive invariant and theorems about `Container` |
| `Replay` | preparation, both scorers of a replay, each in a `Container`, and the verdict |
| `Adjudication` | what a replay promises: one verdict, and a reason for it |
| `MCReplay` | one case of each kind for TLC |
| `ReplayProofs` | inductive invariant, theorems and the refinement of `Adjudication` |
| `DualWorker` | one opus case: controller, two worker processes, two socket pairs |
| `MCDualWorker` | values for TLC |
| `DualWorkerProofs` | inductive invariant and theorems about `DualWorker` |
| `OpusBatch` | one batch: `run_batch`, the host script and the container of each case, edited files |
| `Campaign` | what a batch promises: public cases first, ready when all passed |
| `MCOpusBatch` | values for TLC |
| `OpusBatchProofs` | inductive invariant, theorems and the refinement of `Campaign` |
| `Timing` | medians, noise and ratios of latency samples, and the same by counting |
| `TimingProofs` | that the definitions that sort imply those that count, for samples of any length |
| `Harness` | one process of `harness/run.py` |
| `MhcScore` | one process of `mega/mhc_score.py` |
| `RemoteFeedback` | `RemotePublicScorer`, the remote-score processes and their containers |
| `Score` | the host: the two drivers of the harness, composed with the three modules above |
| `MCScore` | samples and combinations of programs for TLC |
| `ScoreProofs` | inductive invariant and theorems about `Score` and the modules it is made of |

`Replay` is composed of `Container` (an instance), `Score` of `Harness`, `MhcScore` and
`RemoteFeedback`, which share the GPU: each of their steps takes the others' use of it as
a parameter. `Feedback` and `RemoteFeedback` are two sides of one call: in `Feedback` the
scorer returns or raises, `RemoteFeedback` is what happens between. `OpusBatch` and
`DualWorker` are related the same way by the result file of a case.

### Capture

`workspace`, `agent`, `agentExit`, `pipe` and `issued` are the sandbox: the
source tree, the process, its exit code, the unread completion lines and the
request files. `pc`, `stop`, `timedOut` are the runner's threads, `requests` the
broker's `processed`, `snapshotError` and `brokerError` whether `snapshot_error`
and `broker.errors` hold anything. `lock`, `step`, `todo`, `files` are one
execution of `Snapshotter.capture` (there is only one at a time, under the lock),
`sequence` and `previousTree` its fields, `blobs`, `journal`, `tornLine`,
`receipt`, `result` the files. A tree is a function from paths to contents and
stands for its own hash; a blob is absent, torn or whole.

Before that, `task` is the starter directory as it stands, `Starter` the tree that the freeze
names, `unplaced` the files still to be hashed or copied. `HashFile` compares file by
file, `AcceptTask` passes the remaining checks, `MakeRun` creates the result
directory, `CopyFile` copies each file as it stands by then, `CreateManifest` and `WriteManifest`
end the preparation; `Refuse` is every check, missing file or failed write that ends it
otherwise. `EditTask` changes a file that is still to be read. Brokered tasks are checked
twice (`validate_task`, then `freeze_payload`); the model has the later pass, which is the
one that stands before the copy.

`capture` is split where another thread, the agent, a failure or a kill can come
between: the listing (`Acquire`), each file (`ReadFile`, `RejectFile`), the
comparison (`SkipTree`, `NewTree`), each blob (`WriteBlob`), the diff with its
number (`WriteDiff`), the journal line (`AppendEntry`). `FailCapture` fails each
of these with an `OSError`; `Raise` says who catches it: nobody for the starter
capture, `RuntimeError` only in the event loop, everything in the watcher, the
broker and the final capture. `RunnerDies` is an exception or SIGKILL at any
point; the sandbox dies with the runner (`--die-with-parent`). `JoinWatcher` is
enabled whether or not the watcher ended, as `join(timeout=2)` returns either
way. The main thread follows `run_agent` statement by statement. `ValidCapture`,
`Counted` and `Exportable` are the readers: `validate_capture`,
`capture_incidence_record`, `export_snapshot`.

`journal` is the file line by line, `tornLine` says that its last line lacks its newline. A
write that fails, or a kill, leaves nothing, a part of the line (`Garbled`) or all of it but the
newline (`HalfWritten`). `open("a")` then puts the next entry behind what is there, without looking:
the two become one line that no reader can parse (`Glued`), and the one after it is whole
again. A capture of the broker that tears a line leaves `snapshot_errors` empty, because its exception is
kept in the broker's list; the final capture's line is then the glued one, beside a clean
`result.json`.

Abstracted: hashes are injective; a listing sees the files of one moment (a file
that appears later is seen by the next capture, one that vanishes is skipped);
the file-count limit is the size limit (both raise the same error in the same
place); `result.json` is written in one step (a runner that dies within it leaves a file that
`json.loads` refuses: `validate_capture` raises as it does for none, and `capture_incidence_record`, which
would call the run interrupted, raises too), and `close()` does not fail behind a line
whose newline is on the disk; the broker's own errors besides a failed capture are a free choice here
and the subject of `Feedback`.

### Feedback

`source` is the content of `kernel.hip`, `Missing` a workspace that
`validate_source_tree` refuses. Each helper has a program counter, a number, the
hash it took and the answer it returned. `requests` and `responses` are the
shared files (`Partial`: created, not yet written). `bpc` walks through
`_run`, `process_request` and `_reject`; `snapshots`, `raws` and `events` are the
private directory, `scored` remembers what the scorer was given, `errors` the
classes that matter to `close` (timeouts and others), `summary` its result.
`WriteByHand` lets the agent write any request file itself, also the one beyond the quota, which
no slot takes up and `Close` counts as left over. `FailRequest` and
`FailRefusal` fail the reads and writes. `events` is the log line by line, as the journal
is in `Capture`: an event that was torn (`HalfLine`) takes the refusal that `_reject` appends in the
same slot along, and the slot has one line that cannot be read (`Glued`). A line that lacks only its
newline can still be read, until something is appended to it.

Abstracted: the scorer returns one of the classes of result (complete, a
candidate's failure, ambiguous, raised, timed out, malformed); a copy torn by an
edit is a source nobody asked about, like the edited one.

### Container

`caller` walks through `_run_owned_container`: waiting in `run_limited`
(`wait`, after the limit `term`), reading the cid file, inspecting, removing,
inspecting again; `returned` and `raised` are its ends. `status` is
`run_limited`'s, `target` the identifier. `client`, `exitCode`, `cidfile` are the
`docker run` process, `request` what it has asked of the daemon and not yet got,
`own` the container, `payload` the scorer's exit code, `foreign` whether somebody
else's container has the name. Neither docker nor the scorer is part of the
repository; they do what the code relies on and guards against. Killing a client
leaves its request behind, so a container may be created after the adapter has
looked for it: it is never started, because starting it was the client's
next request. `weather` remembers the kinds of trouble there were.

Abstracted: label and name are one thing (a foreign container never carries the
label of this replay root, which the name is derived from); a `docker` binary that
cannot be started at all, which raises before there is a container.

### Replay

`scored` is the task's mode, `stage`, `summary`, `stopped` the adapter's progress,
`scorer` the place of the process in the container (public_score in the first stage,
gdr_score in the second), `todo` and `entries` its cases, `gpu` whether its
context still works, `report` the result it is about to write, `publicResult` and
`hiddenResult` the files (`Torn` while one is being written). The variables of
`Container` complete the state; `Box` is that module, and every step of it is one
here, with the scorer's own actions in the place of `PayloadEnds`.

What the candidate does is free at each place and remembered in `conduct`: it fails
to build or load, computes wrong, uses up the GPU memory (`leaks`), leaves an error
behind (`poisons`), aborts, hangs, raises in the benchmark, is slow or noisy. What
the machine does is remembered in `weather`. The program never reads either; they are
there so that a property can say whose fault an outcome was. A hanging scorer passes
the wall limit; one that does not hang passes it only on a slow machine.

A candidate that poisons the process' context fails its own case, and every later
case raises in `guarded_state`, outside of any `try`: in the withheld stage such a case
has no verdict of AITER and makes the run `baseline_invalid`, which asks for a
retry; in the public stage the scorer ends as `setup_error`, which is adjudicated.

Before the first scorer come the steps of `Preparation`: `ValidateCheckouts`, `ValidatePrivateInputs`,
`PrepareSnapshot` and `PublicCommand`, and `OpenWithheld` before the second. What they compare
with a pin lies in directories that people work in, so `Edit` and `Restore` change one of six
inputs at any time, and each step sees what is edited at its own moment, of its own inputs only:

| step | looks again at |
|---|---|
| `validate_checkouts` | harness, AITER's code and HEAD, the feedback code |
| `validate_private_inputs` | the withheld manifest |
| `prepare_snapshot` | the captured run, of which the scorers get a copy |
| each `docker run` command | the image's identity |
| `public_score.run_public` | the trusted code and AITER (`git diff`), with code that may be edited itself |
| `gdr_score` | AITER's HEAD and the manifest's hash; not the harness, not a dirty checkout |

`Rereads` and `ScorerRereads` are this table. `edited` are the inputs that differ from their pins now,
`late` those of them that were edited after the last look of their stage, `altered` those
that a scorer had in its hands while edited (`Exposed`). An edit that is restored before the next look, or comes
after the last one, is seen by nobody; a scorer that runs from it may report what it likes
(`Misled`). What is promised of such a replay is little, and `Adjudication` says how much.

Abstracted: the comparisons of hashes and identities in the results (they agree, or the
replay raises); the improvement objective; edits of the host's GPU report; what a scorer of edited code
does otherwise than to report, as to hang (the candidate's code may); a `manifest` that
`merge_withheld` refuses before there is a handler ends the scorer without a file
(`ManifestRefused`).

### DualWorker

`pc` and `place` are the controller's position in `run_pair`: `prepare` twice, the pairs of
replays in alternating order, `inspect` twice; a withheld case ends after the two prepares.
`inbox` and `outbox` are the socket pairs with what is unanswered and unread, `sent` numbers
the frames, `taken` remembers which reply was used for which command. The program itself
matches replies by nothing but the pid; the numbers are there for the property. `phase`
is a worker process, `stage` its place in `_worker_init`, `dirt` the memory that
would fail a comparison now, `stray` whether a kernel call ever left a trace beyond its output
where its stage looks, `misrouted` whether the profiled call ran other kernels than the case is about
(`_dispatch_matches`, the other half of `profile_ok`).
`Renewed` says which memory each stage writes afresh before its call, `Watched` what its
comparison sees: output, inputs and guards always, the buffer that is not its output only in the
fourth step, which writes to the other one. A call may write anywhere (`Memory`): into
that buffer in any other step, or beyond the guards, it does so unseen, as in the code. The
task's README says that the guards are no proof of memory safety, and `VerdictsAreTrue`
speaks of nothing that they do not see.

A worker answers, raises, dies or does none of it; `RecvTimeout` and the waits in `close`
may happen at any time the worker has not answered. A worker held by its driver survives
both signals: then `close` raises `TimeoutExpired`, the second worker is not closed at
all, and the result becomes an execution error. `ControllerDies` is SIGTERM from the
container, which runs no `finally`; no result file is written.

Abstracted: error bounds, medians and noise are a free yes or no; the checks of
arguments, sources and matrix are one refusal (`RefuseArguments`); the result file is written in one
step (a torn one is refused by `aggregate`'s `json.loads` as a missing one is).

### OpusBatch

A file is its content ("A" or "B"), a hash is equality. `original`, `snapshot` and `matrix`
can be edited between any two steps and put back. `pc`, `case`, `code`, `late` and `opened` are
`run_batch` and `_run_case`; `script` and `exit` the host script of the current case; `run`
what each case really works on: the header hash it was told, the overlay that
`prepare_overlay` made of the snapshot as it was then, the matrix copied. `running` are the
containers, `result` and `attempt` the two files a case may leave. `Watchdog` kills the
script's session after 1300 s and waits for it once more; when that wait raises, the batch ends as an
execution error without a record of the case. `ClientGivesUp` ends the docker client in the script.
Either may leave the container running, which may then still write a result.

An early exit of the script (another image, no identity) and a kill by the watchdog leave
neither result nor attempt. The status `public_noninferiority_failed_or_inconclusive` is in
the model and in the code, and is not reached in either: a slow public case exits with 1,
which ends the batch in `Record` before the gate.

Abstracted: what the dual worker does in a container (a result or none, for valid sources);
the generation of the private matrix by `freeze.py`.

### Timing, Harness, MhcScore

`Timing` has `score_buckets` and `summarize_samples` over sequences of integers, with doubled
medians and exact ratios instead of fractions, and a reference definition that counts samples
and sorts nothing: `NotSlower`, `Gathered`. The noise of `mhc_score` qualifies only the
baseline, as in the code (`Parity`).

`Harness` is one process: `did` is what really happened in each case, `Entry` what the code
sees of it. An exception of the candidate loses the baseline's verdict of the case, so it
makes the run `baseline_invalid`; it may leave the GPU context unusable, and then
every later case raises. `measure` lies between two looks at the GPU. The result file is
created and filled in two steps, and whoever started the process may kill it anywhere.

`MhcScore` is one process too: `out` is what the output buffers hold, `wrote` how often the
candidate really filled them rightly. Both launches start from reset buffers; the graph
replays do not, so the last look at the outputs is at what they, or the launches, left.

### RemoteFeedback and Score

`rpc` is the caller in the broker (upload, ssh, download), `host` the remote-score process of each
slot, `box` its container. Slots are per-slot records and not one process, because
`AnswerIsLost` lets the caller go on to the next slot while process and container of the last
one continue: `remote_score` is not told. A reply is a committed hash of the result file; a
hash is the file. `frozen` are the two checkouts that match the task.

`Score` adds the two drivers. Local: `runner.py score`, one snapshot after the other, with
`run_limited` around the harness. Remote: `score_on_host` with its container
(`score_inside`), where `ClientIsLost` leaves the container running. A dry run exits with 0.
`overlap` records which pairs of measurements were made at the same time; no program reads it.

Abstracted: hashes and paths of bundle and inputs (one refusal); looks at `rocm-smi` see
everybody who holds GPU memory at that moment. What comes and goes between two looks
of a process is not seen by it; two measurements that overlap are still never both believed,
because the first of the two to look again does so while the other, which holds the GPU until
its own second look is over, is still there.

## 3. Runs

| run | instance | states | shows |
|---|---|---|---|
| `capture` | 2 files, 3 contents (one oversized), 3 moves, 1 request, 1 fault | 2 014 816 | the seven properties below |
| `capture_live` | the same with 2 contents and 2 moves | 90 428 | `RunEnds` |
| `capture_launch` | the same with 1 move | - | **violated**: `LaunchedIsCounted` |
| `feedback` | 2 helpers, 2 sources, 2 slots, 1 edit, 1 hand-written request, 1 fault | 3 167 093 | the six properties below |
| `feedback_live` | 1 helper, otherwise the same | 321 767 | `RequestIsAnswered`, `SessionCloses` |
| `feedback_freeze` | 1 helper, 1 slot, no fault | - | **violated**: `CallFreezesSource` |
| `container` | 2 kinds of trouble | 676 | the six properties below |
| `replay` | 1 shared, 1 large, 1 withheld case and the zero case, 1 kind of trouble | 945 580 | the five properties below |
| `replay_baseline` | the same | - | **violated**: `BaselineIsNotCharged` |
| `dual_worker` | 2 pairs of replays, 2 faults | 385 999 | the five properties below |
| `opus_batch` | 2 public cases, 1 withheld case, 2 edits, 2 faults | 57 514 | the four properties below |
| `score` | 1 public and 1 withheld case, 2 mHC cases, 2 slots, 2 snapshots, 1 fault | 2 424 828 | the four properties below |

Bounds, all of them constants of the modules. Two files are the least in which a
tree can be read half before and half after an edit and in which the pinned
header differs from the kernel; two ordinary contents allow a change and a
change back (the first skips, the second must not), the third is over the limit.
Three moves give an edit, an event line and a feedback request, so that all
three threads capture in one run, in every order; an edit of the task during the
preparation is a move too. One fault reaches every
failure point, before and after the final capture, and a torn line with another capture glued to
it; a second one after a raised
capture meets the same code in a state that is already unclean. Two slots are the
least with an order, two helpers the least that race; one edit separates the
helper's hash, the broker's comparison and the copy; the hand-written request
takes a number from under a helper, leaves a gap or is beyond the quota. One fault in `feedback` is a torn
event with the refusal glued to it, or a torn refusal. MaxRequests, 3 in the
contract, is a constant, and nothing in the broker depends on its value.

`MaxFaults` bounds the kinds of trouble in one container call or replay, not how often
each kind happens: docker may fail at every command of a call. `Container` has two
kinds, so its bound of 2 is none. In `Replay` the candidate's conduct is not bounded, and the
one kind of trouble, of fourteen, meets it in every combination: an input that is edited and restored any
number of times, a machine that is slow, a GPU that fails. Two kinds at once, an edit of one input
that hides that of another, are left to `ReplayProofs`, whose theorems hold for any number. One case of
each kind is enough for entries that differ within a stage and between stages, and
verdicts only ask whether some case of a stage has failed and how.

Two pairs of replays are the least with both orders of the workers. Two faults let a stray
write of one worker be followed by an exception, a death or a write of the other; slowness,
timeouts and a worker that survives its signals are not faults and not bounded. Two public
cases are the least in which one can fail after another has passed, or one's orphaned
container could meet the next; one withheld case is enough for what opens it. Two edits
change a file and put it back between any two comparisons; two faults leave an orphan
and let the batch or a later script fail beside it.

`score` runs each program alone in all its uses and the pairs of programs that can measure
together (`MCHosts`): nothing couples them but the GPU, and the property about overlap is
about pairs. Two slots are the least with an orphan, two snapshots the least of which
the first can be left out. One fault is a kill, a lost client, a failed transfer or a changed
checkout; a caller's timeout on ssh and the scorer's wall limit are not faults. The
samples (`MCTimings`) are all triples of {18, 20, 21, 22}, which lie on and on either side
of both thresholds (21/20 and a deviation of a twentieth), and three sequences of
even length.

What holds in `capture`: `JournalChain` (the lines that parse are one chain with increasing
numbers, the Snapshotter's fields are those of the last line that ended, and only a capture
that raised or a dead runner leaves a torn or glued line), `CleanResultIsFinalSource` (a clean result names the
workspace; its journal ends with that entry, or with an unreadable line after
a capture of the broker or the watcher has raised, which is what the code really does), `QuietRunReplays`
(interleavings alone never make the replay refuse a clean completed run),
`FailureShowsInExit`, `LaunchIsRecorded` (an agent starts with a whole manifest, and the
journal's first entry is the source it was handed), and
`RecordsSourceLog`: `Capture` implements `SourceLog`, with the journal's trees as
log, cut and glued lines included, and a clean result as seal. `FailureShowsInExit` has an exception that the
code really has: a watcher that has raised but not yet recorded its error when
the join gives up on it.

In `feedback`: `AnswerIsForRequestedSource`, `AnswerReachesItsHelper`,
`SlotLeavesEvent`, `CompleteSessionIsCommitted`, and `AnswersInOrder`:
`Feedback` implements `FeedbackService`. A slot may have two events: when
`_run` cannot read an error's raw result back, `_reject` adds a second one. And it may have none that
can be read, when its event was torn and the refusal glued to it: `SlotLeavesEvent` says that the answer
was complete by then and an error is recorded, so `CompleteSessionIsCommitted` is not touched.

In `container`: `NothingRunsOnReturn`, `StatusIsPayloads`, `CalmCallReturns`,
`ForeignIsSafe` (also when the name changes hands between the inspection and
`docker rm -f`: a name is only used when the client never had an identifier, and then
the name is either ours or not removed), and `CallEnds`. `CalmCallReturns` has an
exception that the code really has: after a watchdog kill `docker rm -f` meets the
removal by `--rm` under way, is refused, and the call raises although nothing is wrong.

In `replay`: `WithheldAfterPublic`, `TimeoutIsAmbiguous` (unless the
cleanup raises, as above, and there is no summary at all), `ReplayEnds`, and
`VerdictsAreJustified`: `Replay` implements `Adjudication`. Parity needs a candidate
that did nothing wrong and no trouble that scoring depends on; a valid failure needs a
misdeed or trouble that the code charges to the candidate (a GPU or an AITER failure in a
public case, see the findings); a retry needs trouble, or a misdeed that looks like it;
an adjudication or an exception needs either. All of that is for scorers run
from what was pinned. Of edits `Adjudication` promises this much: nothing is scored on an input
that is edited and was so when its stage last looked at it, unless the checks themselves (the
scorer's code or its image) were edited behind the adapter. An edit that nobody
looked at any more may end in parity or in failure, as in the code.

In `dual_worker`: `CommandsAreSerial` (a late reply is never used: a controller that gave up
on a worker only closes), `VerdictsAreTrue` (although inputs and guards are written
afresh between the checks, a pass means that no call left a trace on them: whatever a check can see
is seen before it is renewed; a miss means wrong memory or wrong kernels), `LeftWorkerIsInconclusive` (a worker that outlives its close leaves
no verdict but an execution error), and `PairEnds`.

In `opus_batch`: `CasesRunAlone` (a batch that went on from a case knows that its container is
gone, whatever the watchdog or a lost client left before), `BatchEnds`, and `KeepsPromise`:
`OpusBatch` implements `Campaign`, where a case has passed when a container
really ran the frozen header and the committed matrix, however the files were edited in
between.

In `score`: `VerdictIsTrue` (each of the three scorers, with the timing algorithms against
their definition by counting), `AcceptedIsFinal` (both drivers and the feedback caller), and
`OneIsBelieved`. A remote client that is killed does leave its container running
(`remote_score.py:194`), and a feedback caller that times out leaves process and container
(`live_feedback.py:227`): the next slot is then scored beside them. Its first look sees the
orphan and it ends as `environment_invalid`, or it began before and one of the two
measurements is refused. The public scorer takes its GPU context before it looks, so already
its first look excludes the other; the harness looks first.

Fairness. `container` assumes that the adapter and the wall clock go on, and nothing of
the client, the daemon or the scorer: `run_limited` waits with a timeout and kills, and
the docker commands have timeouts. `replay` assumes in addition that docker serves its
requests and that a scorer that does not hang gets on; a hang is ended by the wall
clock. `capture_live` assumes that the threads are scheduled, that the wall
clock passes the limit, and strong fairness of each thread's captures, which matters where
they wait for the lock: the watcher sleeps 0.25 s between captures, so a waiting thread gets it. `feedback_live`
assumes that the broker's thread runs (each ssh, scp and docker call has a
timeout, so `Score` returns) and that the runner reaches `close()` once the agent
ended. `dual_worker` and `opus_batch` assume that the controller and the batch go on, and
nothing of workers, scripts or containers: every wait of theirs has a timeout. `score` has
safety properties only and assumes nothing. The agent, its helpers, failures and kills are never
assumed to happen.
`RequestIsAnswered` is about requests that are there while the agent runs: after
`stop` the broker leaves at its next look, and a request beyond it is left over
and counted.

`CHECK_DEADLOCK` is off in `dual_worker`, `opus_batch` and `score`, whose processes end; the
other modules have a `Terminated` step for the states in which they may.

## 4. Findings

- `capture_launch`: the receipt is written after `Popen`. A runner that dies in
  between leaves a launched session that the incidence record does not count, or,
  with a torn receipt, cannot read; the task's README says that every launched
  session belongs in the denominator.
- `feedback_freeze`: a call hashes the source, the broker freezes it later; after
  an edit in between the call is refused and its slot consumed. The task's README
  says that each call first freezes the current source.

- `replay_baseline`: the public scorer passes a case only if AITER and the candidate
  pass it, and calls everything else `correctness_failed`. A failure of AITER alone,
  the baseline, in a public case therefore becomes a valid failure of the candidate with no
  retry. The withheld scorer calls the same entry `baseline_invalid`
  (`test_baseline_invalid_takes_precedence`), which becomes a retry, as the
  task's README says of infrastructure-invalid scoring.

An observation without a run of its own: no code compares the first snapshot with the
freeze. An edit of the starter between its hash and its copy (`runner.py:339` and
`:424`) starts the agent from a tree that the freeze does not name, under a
manifest with the freeze's hash. `validate_capture` notices a pinned file that
differs; a different starting `kernel.hip` shows in the journal's first entry only
(`LaunchIsRecorded`).

## 5. Proofs

`CaptureProofs.tla` proves, for every finite set of files, every set of contents,
every starter tree, brokered or not, and every bound:

| theorem | property |
|---|---|
| `TypeCorrect` | `TypeOK` |
| `ChainCorrect` | `JournalChain` |
| `ReceiptCorrect` | `LaunchIsRecorded` |
| `ResultCorrect` | `CleanResultIsFinalSource` |
| `ExitShowsFailure` | `FailureShowsInExit` |
| `QuietRunIsReplayed` | `QuietRunReplays` |
| `ArtifactsCorrect` | `ArtifactsOnlyGrow` |
| `RunRecordsSourceLog` | `RecordsSourceLog` |

They rest on the ASSUMEs of `Capture.tla` only (paths are numbers, the special
values are no trees, threads or results). None of the properties is inductive. `IInv`
strengthens them: `Roles` says which thread may be at which place and that the
holder of the lock is inside a capture; `Outlived` what a thread can still be doing after
the main thread left the loop; `Launch` ties the agent to the main thread's place; `Started` and `Origin` follow the
manifest and the first entry from the preparation to the launch;
`Chain` (`Links` and `Tip`) adds that a number is taken before its entry and is larger than any in the
journal, and that the next parent is the tree of the last line that ended, glued lines left out;
`Final` follows the final capture: from its listing on the agent is dead, so what
it has read is the workspace (`Faithful`), and once it returned without error the run
is `Sealed`: every later capture, by a watcher that outlived its join, finds the
same tree and skips. `InvariantStep` takes `Next` apart by action; the refinement
theorem maps every step to `Record`, `Cut`, `Glue`, `Seal` or a stutter; which of them an append is
depends on the line before it. TLC checked the parts of `IInv` on the
instance of `capture` before they were proved.

The last two invariants need a second layer over `IInv`, proved on top of it (`Recorded`). `Visible`
says where the exception of each thread is kept: with the main thread and the broker it is recorded in
the step that raises, the watcher carries it (`raised`) until it is scheduled again.
`Quiet` is what holds as long as no capture has raised: `Gapless` (no line is torn and no number lost, so the
`i`-th entry has number `i`) and `Stored` (the blobs of every entry are whole, and of the capture
under way all those that it has come past). `Spotless`: in a run with a clean result the main thread's
captures never raised, so whoever tore the last line was the broker or the watcher. `Receipted`: a brokered run has its receipt by the time it
writes a result.

`FeedbackProofs.tla` proves, for every set of helpers and of sources, every number
of slots, edits, hand-written requests and failures:

| theorem | property |
|---|---|
| `TypeCorrect` | `TypeOK` |
| `AnswersRequestedSource` | `AnswerIsForRequestedSource` |
| `OneHelperPerAnswer` | `AnswerReachesItsHelper` |
| `SlotsLeaveEvents` | `SlotLeavesEvent` |
| `CompleteIsCommitted` | `CompleteSessionIsCommitted` |
| `ServiceRefined` | `AnswersInOrder` |

They rest on the ASSUMEs of `Feedback.tla`: at least one slot, and the special
values are no requests, answers or sources. The strengthening `IInv` has one part per
question: `Slots` (a slot taken up has a request, one not taken up no response),
`Progress` (what the open slot has copied, scored, kept and written at each place
of the thread), `Journal` (its number is in no line yet, or only in the last one,
which commits an error and is whole, or was cut off behind a complete answer), `Clean` (without an
error line k is whole, of slot k and commits
it), `Closing` (nothing of the agent runs after its end, and the summary is last)
and `Owners` (`os.link` gives a number to one helper; the answer it read is final).
The proof takes the two sides apart first: `AgentFrame` and `BrokerFrame` say what each
leaves alone, `OtherSlots` that the broker changes the open slot only and never an
answered one, `NewAnswer` that only two of its steps answer. The refinement maps a
published or hand-written request to `Ask`, `Look` to `TakeUp`, `FillResponse` and
`Refill` to `Answer`, and every other step to a stutter. TLC checked `IInv` on the
instance of `feedback` as well.

`ContainerProofs.tla` proves, for any amount of trouble:

| theorem | property |
|---|---|
| `TypeCorrect` | `TypeOK` |
| `QuietOnReturn` | `NothingRunsOnReturn` |
| `StatusIsTrue` | `StatusIsPayloads` |
| `CalmCallsReturn` | `CalmCallReturns` |
| `ForeignSurvives` | `ForeignIsSafe` |

Its `IInv` relates three parties that see different things: `Asked` says what
the cid file and the request in flight tell of a client, alive or dead; `Served` what
the daemon can have done with that request; `Reported` when an exit code is the
scorer's; `Cleaned` that a removal by name is of a container that was created and
never started. One lemma each takes the client's, the daemon's and the adapter's
steps. TLC checked that `IInv` is inductive on every state of its types before it
was proved.

`OpusBatchProofs.tla` proves, for any number of cases, edits and failures:

| theorem | property |
|---|---|
| `TypeCorrect` | `TypeOK` |
| `AloneAlways` | `CasesRunAlone` |
| `PromiseKept` | `KeepsPromise` |

They rest on the ASSUME of `OpusBatch.tla` (there is a public and a withheld case). `IInv` has
four parts beside the types. `Paced` says which script may be alive at which place of the batch, and
that the withheld matrix has been opened exactly when the current case is withheld. `Alone`: only the
current case has a container, and none is left once its script ended with 0, which is all that
`Record` goes on with. `Sourced`: a result's header is the hash its script was told, and the overlay
was made of the same contents, or the worker would have refused it; this is what
survives an edit that was put back. `GatePassed`: behind the gate every public case is earned. Each
step of the refinement is `Pass`, `Open`, `Ready` or a stutter of `Campaign`, and a case that has
passed never loses it, because a result is only written for the current case.

`DualWorkerProofs.tla` proves, for any number of replays and faults:

| theorem | property |
|---|---|
| `TypeCorrect` | `TypeOK` |
| `SerialCommands` | `CommandsAreSerial` |
| `TrueVerdicts` | `VerdictsAreTrue` |
| `LeftInconclusive` | `LeftWorkerIsInconclusive` |

They rest on the ASSUME of `DualWorker.tla` (at least one pair of replays). `Framed` is the protocol: while
the script goes on, the only frame in either direction is the current command or its reply, and
behind a controller that gave up there are only closes. `Paced` follows `close`: which worker is known
to be gone at which place. `Checked` is about memory: a worker that ever strayed where its stage looked has
an input, a guard or the other output that looks wrong now, because a stage renews only after the
comparison before it found nothing, and replays renew outputs only; a worker is rejected exactly when
its last inspection found something. `Routed` adds that the script is past a worker's prepare only when its
profiled call ran the right kernels, which no later command asks again. Lemma `Script` says that the last command of a worker
is never a replay, for any number of pairs. TLC checked both `IInv` on the instances of the runs
before they were proved.

`ReplayProofs.tla` proves, for any sets of shared, large and withheld cases and any amount of trouble:

| theorem | property |
|---|---|
| `TypeCorrect` | `TypeOK` |
| `WithheldOpensLate` | `WithheldAfterPublic` |
| `TimeoutsAreAmbiguous` | `TimeoutIsAmbiguous` |
| `ReplayIsJust` | `VerdictsAreJustified` |

They rest on the ASSUMEs of `Replay.tla` (the kinds of cases are disjoint, the marks for "no file" and
"torn" are no reports) and on `ContainerProofs`: its `IInv` is used for each call, with the trouble that is not
docker's own left out. `IInv` adds `Place` (where adapter, scorer and container can be
together), `Files` (what has been written at each place of the scorer, and that an exit code 0
comes with a good report in the file) and `Tested` (an entry exists exactly for the cases that ran).
The refinement needs both directions of a chain of evidence. `Reasons`: whatever a report, an entry
or an exit says has its reason in `conduct` or `weather`. `Marks`: whatever was wrong is
still to be seen in an entry, a report, an exit code or a stage. The first makes every failure, retry and
adjudication justified, the second makes parity mean that nothing happened; both are for replays whose
scorers had nothing altered in their hands. `Sight` is about edits and needs no such premise but
that the checks are as pinned: an edit that is not late is still ahead of a look, or has been caught, and
what is caught ends in an exception, a setup error or a scorer without a report.

`TimingProofs.tla` proves, for samples of any number and size:

| theorem | says |
|---|---|
| `QuickIsNotSlower` | a ratio of medians within 1.05 is `NotSlower`, which counts and sorts nothing |
| `CalmIsGathered` | a relative deviation within 0.05 is `Gathered` |
| `BucketIsTypical` | a bucket that `score_buckets` passes is both, and both sides are gathered |
| `ParityIsTypical` | the same for the mHC scorer, whose candidate's noise is not judged |

Sorting is a bijection of the places (`Order`) that a CHOOSE names. `RankIsBijection` shows
that there is one, from the ranks of the samples and without an induction; `Middle` is the
lemma that the two middle samples have half of all samples on either side.

`ScoreProofs.tla` proves, for any number of public and withheld cases, mHC cases, slots, snapshots and
faults, for every combination of programs on the host and all samples:

| theorem | property |
|---|---|
| `TypeCorrect` | `TypeOK` |
| `VerdictsAreTrue` | `VerdictIsTrue` |
| `AcceptedStaysFinal` | `AcceptedIsFinal` |
| `AtMostOneBelieved` | `OneIsBelieved` |

They rest on the ASSUMEs of the four modules and on `TimingProofs`. `IInv` has one invariant per program.
`HarnessInv` carries the truth of the verdict from the case to the file: a verdict is judged only
when every case has run, and the file holds nothing else. `MhcInv` counts how often the candidate really filled
the buffers, round by round. `FeedbackInv` speaks of each slot by itself, because an orphaned container goes
on while the caller is at a later slot: what a container has found out (`BoxTruth`), what is in its file
(`BoxFile`), and that an answer is from a container that was given the whole upload
(`Answer`). `DriverInv` says which snapshots have a record and what a zero exit status rests on.
`HostInv` is the argument for overlapping measurements: of two that were made at once, either both are still
open, or one of them is already lost, because the first to look again saw the other;
`Open` and `Lost` define that for the three programs. One lemma takes each program's
steps through its own invariant, one through `HostInv`, and `FeedbackBySlots` splits the feedback into slots.
TLC checked the conjunction as an invariant of `score` before it was proved.

Every invariant and every action property that a passing run checks is stated by a theorem. Only
model-checked is liveness (`RunEnds`, `RequestIsAnswered`, `SessionCloses`, `CallEnds`, `ReplayEnds`,
`PairEnds`, `BatchEnds`): fairness and ENABLED are outside what TLAPS proves. The theorems use no bound of
the runs: moves, faults, edits and cases are any numbers. `ArtifactsOnlyGrow` is
proved and not checked by a run of its own.

## 6. Not modelled, and the plan

Next, in this order:

1. Action properties that the invariants already carry and no run asks for yet: records, results and reports
   of `Replay` and `Score` that only grow, as `ArtifactsOnlyGrow` says of a capture.
2. The safety half of the liveness properties: for each wait that a timeout ends, that the process which
   waits is at a place whose next step does not depend on the one it waits for.

Not modelled:

- *GDR admission and probes, opus admission scripts.* One process each that measures in a straight
  line and writes a report; nothing runs beside them and nothing is kept. What they
  share with the scorers is modelled there.
- *Reference operators and reference scorers.* Numeric work on tensors; the case loops around it
  have the structure of `harness/run.py`.
- *Dispatch inventory, audits, results.* Text scans and recorded data.
- *Parts of modelled components*: `export_bundle` and the checks of paths and hashes in
  `remote_score.py`, `validate_live_config`, `aggregate.py` as a program of its own,
  the generation of the private matrix in `freeze.py`, the bwrap and docker command lines, `--dry-run`, the single checks of
  task and arguments before a capture begins: sequential code that refuses or not, modelled as the
  refusal where a process can be in its course.

Outside the model for good: floating-point oracles and GPU execution.
