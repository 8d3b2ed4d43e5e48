# Verification of physics_sim

TLA+ models of the parts of this repository whose correctness depends on the
order in which several processes touch the same files, the TLC runs that check
them on small instances, and TLAPS proofs of what holds for every instance.

Run inside this directory:

    tlc -workers 2 -config JobPair.cfg MCJobPair
    tlapm JobPairProofs.tla

## The system

physics_sim is a solver with a desktop front end, a command line, and an agent
interface. Almost all of its lines are numerics. What holds it together is a
small number of protocols between processes that share directories:

| component | state it keeps | operations | what makes it correct |
|---|---|---|---|
| job metadata pair (`physics_sim_job_guard.c`, `physics_sim_job_file.c`, `job_pair_recovery.py`) | operation lock, two live files, publication hold, attempt directories | guard begin/end, publish pair, plan, roll back, forward | nobody who takes the guard ever judges a mixed pair; a crash anywhere is recoverable; one direction |
| detached job runner (`physics_sim_job_runner*.c`) | status record, report, pid file, cancel flag | submit, status, cancel, refresh | an end is final, earned by the worker, and never recorded while it simulates; a dead worker is noticed |
| headless solver (`physics_sim_headless.c`, `physics_sim_headless_output.c`) | output root with owner marker, progress, summary | claim or replace the root, reserve sidecars, publish, poll, finish | only a completed root is replaced; the marker comes last; a cancel seen in time counts |
| agent session service (`service.py`) | `service.lock`, one directory per run | run_start, run_inspect, run_control, run_events, run_sample, run_result | one active run, commands numbered once, snapshots never go back |
| agent session worker (`physics_sim_session_worker.c`) | `owner.lock`, snapshot, receipts, tick | command loop, checkpoints, exports | every command receipted in order, a cancel is final |
| sample queue (`service.py`, `sample_retention.py`) | requests, identities, results, history | admit, answer, retire | bounded; an id stands for one payload; retirement loses nothing |
| cache publication (`scene_project_cache_output.c`, `cache_publication_recovery.py`) | slots, lock, hold, attempt | publish, plan, roll back, status | a reader sees one whole verified version |
| command bus, stroke buffer | ring buffers | push, grow, pop, dispatch | a first-in first-out queue |
| scene controller, session workspace, UI, render, import, export | interactive state | frame loop | not concurrent |
| app on the Desktop (`desktop_replace.py`) | the app under its name, attempt directories with journal, copies and recovery proofs | refresh, plan, recover | no partial app, no app lost, a refresh cut short is recoverable |
| output ownership of the scripts (`atomic_output.py`, `build_owner.py`, `package_transaction.py`) | owned directories, retained predecessors | claim, replace, restore | the predecessor survives |
| numerics, accuracy studies, vendored code | arrays | | outside this project |

How they meet: the job runner calls the guard and the pair publication; the
headless solver it spawns writes files the runner reads back. The session
service spawns a worker and from then on only shares files and two locks with
it. The hard behaviours are the same everywhere: two files changed one after the
other, a process that dies between two steps while the kernel drops its locks, a
reader that looks twice, a wait that elapses just as the answer arrives, a retry
of something half done. `PROJECT.json` lists them line by line.

## Modules

| module | what it is |
|---|---|
| `PairRegister` | what a job root promises: one register holding a whole (status, report) pair |
| `JobPair` | guard, publication, crash and recovery of that pair, step by step |
| `JobPairProofs` | theorems about `JobPair` for all constants |
| `MCJobPair` | its instance for TLC |
| `CommandLog` | what a session promises for the commands of a run: one log, settled in order |
| `AgentSession` | service calls, the files of a run and the worker, step by step |
| `AgentSessionProofs` | theorems about `AgentSession` for all constants |
| `CommandLogProofs` | the theorem that `AgentSession` implements `CommandLog` |
| `MCAgentSession` | its instances for TLC |
| `JobRunner` | submit, status and cancel over detached workers that share an output root |
| `JobRunnerProofs` | theorems about `JobRunner` for all constants |
| `MCJobRunner` | its instances for TLC |
| `SampleQueue` | diagnostic samples: admission, answers, retirement into the history |
| `SampleQueueProofs` | theorems about `SampleQueue` for all constants |
| `MCSampleQueue` | its instance for TLC |
| `CachePublication` | slot by slot publication of a project cache, its rollback and its readers |
| `CachePublicationProofs` | theorems about `CachePublication` for all constants |
| `MCCachePublication` | its instance for TLC |
| `FrameQueue` | what a queue between input and frame loop promises |
| `RingQueue` | command bus and stroke buffer as growing rings in the frame loop |
| `RingQueueProofs` | theorems about `RingQueue` for all constants |
| `MCRingQueue` | its instance for TLC |
| `DesktopReplace` | refresh of the app on the Desktop by two renames, and recovery of what a refresh left |
| `DesktopReplaceProofs` | theorems about `DesktopReplace` for all constants |
| `MCDesktopReplace` | its instance for TLC |

Composition: `JobPair` and `CachePublication` are both shown to implement
`PairRegister` (one value, changed in one step), and `JobRunner` uses a job's
status pair as that register: a publication commits, fails, or leaves a hold
that recovery resolves either way. `RingQueue` is shown to implement
`FrameQueue`, and `AgentSession` to implement `CommandLog`: its log is the
command files, what is settled are the receipts, and what is told are the answers
that calls returned.

Definitions named after a bug (`ReleaseHoldEarly`, `OwnerHeldAfterBoot`, ...)
are wrong variants of the definition that follows them. No behaviour uses them;
each shows that the property it is listed with in `PROJECT.json` can fail.

### JobPair

State: `owner` is the exclusive flock on `.physics-sim-job-operation.lock`,
`target` the two live files, `hold` the file
`.physics-sim-job-publication.pending`; `old`, `new`, `marks`, `displaced` and
`staged` are the contents of the attempt directories `.job-pair-PID-SEQ`. Bytes
are abstracted to the publication that wrote them (`Legacy` before the first,
`Absent` for no file), which is what the digests and byte comparisons of the
code tell apart. A process is both a runner command and a recovery operator, so
every mixture of the two is covered.

- Commands: `GuardBegin` (try-lock, then refuse any hold), `LoadStatus`,
  `LoadReport`, `Prepare`, `GuardEnd`.
- Publication: `MakeCapsule`, `RetainCopies`, `WritePlan`, `OpenHold`,
  `FillHold`, `PublishStatus`, `PublishReport`, `OpenCompleted`,
  `WriteCompleted`, `ReleaseHold`: one action per durable step of
  `physics_sim_job_file_publish_pair`. Records written in place (hold,
  completion) take two steps, so that they can be left torn; renames take one.
- `Review` is the read-only plan of an operator, which binds every byte it saw
  (`Evidence`). `RecoverStart` needs that plan unchanged. The steps of recovery
  re-inspect the whole evidence (`Inspectable`, the function `inspect`) before
  each change; the inspection after a change is the one before the next.
- Faults: `Crash` anywhere, `PublishFails` for any failed call of a publication
  (nothing is undone), at most `MaxFaults` of them.

A recovery does not move `owner` back by an action of its own: its process ends
with `ClearHold`, `RecoverRefused` or `Crash`, all of which release the flock.

Abstracted: identity witnesses (device, inode, link count) against processes
that do not cooperate; version 1 holds, which only restrict recovery to
rollback; the preparation of a single file, an atomic rename. Storage keeps
what was flushed: `docs/native_job_pair_recovery.md:53` leaves power loss
unqualified, and so does the model.

### AgentSession

State: `lock` is `service.lock`; `made`, `request`, `ready`, `snap`, `ids`,
`commands`, `receipts` are the files of a run's directory; `wpc` and `w` are its
worker's control point and memory; `told` records the answers clients were
given. `owner.lock` needs no variable: it is taken by the service, inherited
across exec, and so held exactly while the worker exists (`OwnerHeld`).

- Service: a call takes the lock (`Call`) and gives it back (`Leave`, or
  `Publish` before the wait for a receipt). `ReadSnapshot` and the second half
  of `_status` (`Reconcile`, `Status`) are two steps, with the worker running in
  between. Every operation goes through them: `StartNew`, `StartAgain`,
  `Inspect`, `Control`, and a wait that found no receipt (`Late`). run_events is
  repeated inspection.
- run_start: `MakeDirectory`, `WriteRequest`, `Launch`, then `Launched` or
  `Unconfirmed` and `WriteStarting`.
- run_control: `Repair` of what an interrupted call left, `Identify`,
  `Allocate`, `Publish`, `AnswerReceipt`.
- Worker: `Boot`, `InitDone` or `InitFails`, then the loop: `TakeCommand`,
  `FreeStep`, the end of a step (`StepDone`, `StepFails`), polling from inside a
  step (`PollCancel`, `PollPublish`), `Apply` (publish) and `WriteReceipt`, and
  after the loop `FinishCancel`, `Final`, `Exits`.
- Faults: `ClientDies` (an exception counts), `WorkerDies`, signals, and any
  write or export of the worker that fails (`lost`). A publication may fail
  after its snapshot is in place, because the event is appended after it.

The scene revision of a command always matches (run_control refuses others), so
the worker's stale_scene_revision receipts do not occur. Simulation data, the
events file and active.json are left out. `w.doing` stands for where the code is
(command, step, refused, its own step) between a command and its receipt.
`StepFails` stands for every failure of a solver; the failed export after a
signal inside a step is one of its outcomes.

### JobRunner

State per job: `rec` is the published status record (state, and whether it
holds a process id), `hold` a publication that was cut short, `flag` the cancel
flag, `cmd` the runner command that has the operation guard; `wpc`, `left`,
`rc` are the headless process, `progress` and `summary` its sidecars, and
`stuck` those that are held after a failed publication. `root` is the one
output root all jobs name, with the owner and state of its marker. `earned`,
`raced` and `reused` are history.

- Commands: `Submit`, `Queue`, `Spawn`, `Launched`; `Begin` (status or cancel),
  then the refresh in the order of its reads: `Merge` (progress), `Probe`
  (process id), `Judge` (summary, marker, verdict), `Update`; and for cancel
  `WriteFlag`, `Mark`. `Refused` and `Becomes` are the refusals and the verdict
  of `refresh_job_status_record`.
- Worker: `Look`, `Recheck`, `Retire`, `Claim` (output root), `Reserve` (empty
  summary, empty progress, pending), `Poll` and `Step`, `WriteSummary`,
  `WriteFinal`, `FinishRoot`.
- Faults, at most `MaxFaults`: a failed publication, spawn, sidecar or
  observation, the death of command or worker, a process id given to another
  process (`PidReused`).

Abstracted: counters, times and texts of the record; the 900 seconds after
which an active job is called stalled are a choice `Becomes` has at any time,
which covers every clock. A summary that is there is decided by `Judge` in one
step with the marker, both of which only the worker writes and only at its end.
A detached job's sidecars lie in its own job directory, so workers that share a
root do not share them.

### SampleQueue

State: `identity`, `pending`, `result`, `history` are the four files a request
id can have (`order` is their age), `lock` the service lock, `client` a call of
run_sample, `serving` the request whose answer the worker has published and not
yet unlinked, `ended` the terminal state of the run.

- `Ask`, `Admit`, then for a new id `Roll` and, for each id to be retired,
  `CopyRequest`, `CopyResult`, `Receipt`, `UnlinkRequest`, `UnlinkResult`; then
  `Claim` (identity) and `Queue` (request). After the lock: `Look`, `Inspect`,
  `Tell`.
- Worker: `Serve`, `Unqueue`, `WorkerEnds`. It takes no lock.
- Faults: `ClientDies` between any two steps, also in the middle of a copy
  (`Torn`); an answer or an unlink that fails.

The payload stands for all arguments of a sample, the view for what the moving
fields show at the time. `QueueLimit`, `Window`, `MaxRequests` are the 8, 32
and 4096 of the code. The worker's limit of two requests per boundary bounds
how much it does at once, not what: requests are served one after the other.
Left out: a file that vanishes between `exists()` and `read()` of one call.

### CachePublication

State: `target` are the seven slots, `attempt` the attempt directory (staged,
prior, set aside, completion marks), `pending` the hold, `owner` and `lockfile`
the lock; a slot's content is the version of the source it was copied from.
`former`, `copied` (what each slot held when the attempt began, and what was
copied for it since) and `offered` are history.

- Publisher: `Capture`, `Lock`, `OpenHold`, `FillHold`, `Stage` (per slot, the
  source may change in between), `Verify`, `Displace` and `Install` per slot,
  `Complete`, `Release`. `Stop` ends it anywhere: the code undoes nothing when
  a step fails, so failure and death look alike.
- Operator: `Plan` binds all evidence, `Rollback` needs it unchanged;
  `SetAside` and `Restore` per slot, `Mark`, `ReleaseHold`; it too may stop
  anywhere and be started again.
- Reader: `Open` (shared lock, or none if there is no lock file), `Check`,
  `ReadSlot`, `Tell`, `Close`.

### RingQueue

One module for `command_bus.c` and `stroke_buffer.c`, which differ in the
record `ring`: the first capacity, the capacity asked for when there is no
buffer (32 or none), and the number of pops per frame. `Push`, `PushGrowing`,
`PushRefused` in the input phase, `Pop` up to the limit in the dispatch phase,
`EndInput`, `EndFrame`, `Shutdown` the order of the phases. The remainder by
the capacity is written as one subtraction, which is the same because both
operands are below it (an invariant). While the retained view is active strokes
are neither captured nor applied (`scene_controller.c:416`): the frames of a
stroke ring are those outside that view, and `Handled` counts on the loop coming
back to them. `command_bus_clear` and
`stroke_buffer_clear` have no caller and are left out.

### DesktopReplace

State: `desktop` is the app under the Desktop name, `lock` the destination's
lock file, `history` the attempt directories; per attempt `receipt` is its
journal, `predecessor` and `displaced` the two copies of the old app it retains,
`proofs` its completed recoveries. An app is its inventory (`Builds`); `Torn` is
any copy that is not a whole app.

- Refresh: `Refresh` (inventory of the source, try-lock), `Admit` (scan of the
  history), `Journal`, `CopyCandidate`, `Compare`, `KeepPredecessor`,
  `CopiesVerified`, `Displace` (first rename), `NoteDisplaced` or
  `NothingToDisplace`, `Publish` (second rename), `Complete`.
- Its error handler: `Fail` after any of these steps, `PutBack` (the displaced
  app goes back under an absent name), `Report`; both may fail in turn.
  `write_record` may fail after its rename, when it flushes the directory, so
  `Complete` leads to a control point at which `Fail` still is possible and the
  handler turns the completed journal into a failed one.
- Recovery of one attempt: `Review` makes a plan without the lock, `Apply` needs
  it unchanged under the lock, `StageCopy`, `CompareStage`, `Restore`,
  `Confirm` leaves a proof that names the journal. After it the call returns, or
  fails in the same way and takes the proof back (`Withdraw`).
- `Decline`: a call that ends, by its return, an error or a kill, where it
  leaves nothing others go by, or all is done.
- Faults: `Kill` of a refresh that has an attempt, `External`: another program, which
  takes no lock, puts an app there or takes it away.

Abstracted: how an inventory is taken and within which budget, bundle ids,
symbolic links, and other destinations (the lock and the history are per
destination). Inside one comparison of a copy with its source nothing changes.

## What the runs show

| run | bounds | shows |
|---|---|---|
| `job_pair` | 2 processes, 2 attempts, 2 faults, 1 retained stage, a root with or without a status but no report | whole pairs, whole reads, recoverability, one direction, the recorded intent, refinement of `PairRegister`, holds are resolved (382,978 states) |
| `session_control` | 2 clients, 1 run, a step and a cancel, 2 ticks, 1 fault | numbering, receipts, finality, visibility, refinement of `CommandLog`, monotonic snapshots (922,390 states) |
| `session_start` | 2 clients, 2 runs, 2 faults, 1 startup wait that elapses | one active run, no live worker declared failed (162,095 states) |
| `session_progress` | 1 client, 1 run, a pause and a continue, 1 fault | commands answered, the lock returned (53,081 states) |
| `job_runner` | 2 jobs on one root, both overwriting, one of them asked about, 1 step, 1 fault | ends are earned, no live end, the root is not taken (3,147,030 states) |
| `job_settles` | 1 job, 2 steps, 2 faults | ends are final, cancel honoured, jobs settle (107,500 states) |
| `sample_queue` | 2 clients, 4 ids, queue 1, window 2, 4 requests, 1 death | limits, one payload per id, nothing lost in retirement (794,331 states) |
| `cache_publication` | 2 publishers, an operator, a reader, 3 slots of which one under the run id, 2 versions, any number of stops | one register, recoverability (608,388 states) |
| `ring_queue` | three rings: bus without limit, bus with limit 1, strokes without growth from nothing; 6 pushes | refinement of `FrameQueue`, every entry handled (13,962 states) |
| `desktop_replace` | 2 invocations, 2 attempts, 2 builds, 2 kills, 1 change by another program | no partial app, no app dropped, a recoverable gap, holds that end and do not come back (3,634,445 states) |
| `session_startup` | 1 client, 1 run, 1 elapsed wait | a snapshot overwritten by a starting one (finding) |
| `session_retry` | 1 client, 1 run, a cancel, no fault | two outcomes for one command id (finding) |

Why the bounds are enough to be interesting: two publications are the least that
can be confused with each other, and two faults let a publication and the
recovery of it both die. The root starts without a status or with one that has
no report, which gives restores to an absent file in both slots; the theorems
are about every start. A recovery killed once leaves one stage, so with a bound
of one the entry bound of the recovery (128 entries in the code) bites in the
next; past it the code holds the root for ever, which `HoldResolved` says. With
two retained stages, out of reach of two faults, every hold is resolved but for
torn completion records (512,852 states); the safety properties were also run on
all starts with three faults and two stages (2.26 million states). Two clients, two commands and one fault let
a call die between identity and command while another allocates; a step and a
cancel are the pair the checkpoint protocol is about. Two runs are the least for
`OneActiveRun`, and the second fault lets both the client and the worker die.
`MaxTimeouts` is 0 in `session_control`, because the finding below breaks
monotonic snapshots; the startup run has it at 1.
Processes, attempts, clients and builds differ only by name: runs without
liveness properties use that symmetry, the others do not.

`job_runner` has two jobs, both overwriting one root, and one of them is asked
about: the least for one job to take another's root away, which needs no fault,
so the one fault is free for a death, a lost write or a reused id. `job_settles`
needs one job only and gives it two faults and two steps, so that a cancel can
arrive before, between and after the steps. In `sample_queue` the third new id
forces a retirement, the fourth a second one after a death in the first; a
queue of one is full while one request waits. `cache_publication` needs no bound
on stops, because each returns to a waiting state; three slots are one in front
of, at, and behind an interruption, one of them under a run id that may be new;
a second version lets the source change under a copy, and two publishers let
one meet the hold of another. In `ring_queue` six pushes wrap and grow a ring of
two twice, with and without a first buffer. In `desktop_replace` one attempt is
cut short while another exists, the second kill meets the second attempt, and
the builds are a predecessor and a candidate; one change by another program is
enough for a name that is taken or free against every check, and the two
properties about recoverability speak of runs without one. It was also run with
three builds and two kills and no such change (523,171 states).

Deadlock is checked for `cache_publication` and `desktop_replace`. Every other system here may rest
(all jobs and runs over, the loop left).

Fairness. `JobPair`: a process that runs goes on (`WF` of `GuardEnd`,
`Publication` and `Recovery` together), and, for `HoldResolved`, an operator
keeps reviewing and recovering (`WF` of `Review` and `RecoverStart`): nothing in
the code clears a hold by itself, so the promise is made to such an operator
only. `AgentSession`: a client that holds the lock and a worker take their next
step; nothing is assumed of calls, of waits for a receipt, or of faults.
Resting in a publishing step is harmless to this: one that changes nothing is a
stutter. `JobRunner`: commands and workers run to their end (no step of theirs
waits for another process), held pairs are recovered, and somebody keeps asking
for the status, as `docs/headless_cli.md:631-640` tells operators to; without the
last, nothing ever writes down that a worker is gone. Nothing is assumed of
submissions, cancels, or faults. `RingQueue`: the frame loop goes round, which
is one thread's program order; pushes are never promised.

## Properties worth reading

- `MixedOnlyUnderHold`, `ReadsWhole`, `ActsAsRegister`: two renames, a crash
  between them and a recovery of eight steps are one atomic change to everybody
  who takes the guard.
- `HoldRecoverable`, `HoldResolved`: what a cut-off publication or recovery
  leaves is evidence the tool admits, and an operator can finish. Three exceptions
  are in the statements: a completion record torn by a crash, more retained
  stages than the tool inspects, and a hold that was created and not yet filled.
  The code repairs none of them.
- `OneDirection`, `IntentHonoured`: operators who disagree cannot pull a pair in
  two directions.
- `CommandsBound`, `AnswersAgree`: identity file, command file and receipt of a
  command agree although calls die between them.
- `NoSkippedReceipt`, `CancelIsFinal`, `AppliedIsVisible`: the receipt protocol,
  with the cancel that is seen in one place and taken in another.
  `CancelIsFinal` is about what the worker is and about what inspectors are
  shown; its one exception is under "Met while modelling".
- `KeepsALog`: to all who ask, identity and command files, a worker that polls
  them and receipts that may be lost are one log. A command id gets one number,
  numbers are settled once and in order, after a failure or a lost receipt
  nothing but failures is settled, after an applied cancel nothing at all, and
  answers are what was settled.
- `OneActiveRun`, `FailureNotInvented`: admission and reconciliation against
  workers that boot, exit and die.
- `SnapshotForward`: what inspectors see never goes back, if no startup wait
  elapses.
- `CompletedIsEarned`, `NoLiveEnd`, `TerminalIsFinal`: a refresh that reads four
  files and a process table one after the other never records an end that the
  worker did not reach.
- `RootIsMine`: two checks and a rename protect a shared output root; the
  property says precisely what they leave open, the rename that follows another
  job's whole run.
- `CancelHonoured`, `Settled`: what a cancel and a death lead to, with every
  case in which the code leaves a job open for ever (`Unjudged`).
- `OneRequest`, `Preserved`: a request id means one thing, through answer,
  copies, receipt, unlinks and a death between any two of them.
- `LostOnlyByDeath`, `UnavailableIsStale`: what "unavailable" can mean. Asking
  again finds the sample, except for an id whose request was never queued, and
  for one that is half retired, for which asking is refused.
- `ImplementsRegister` (cache), `HoldRecoverable`, `NothingLost`: fourteen
  renames and a rollback of as many are one step to who respects lock and hold.
  Until another attempt begins, what each slot held, those under the run id
  included, is in its place or retained, and what was copied for a slot, also
  for one that had nothing before, is staged, installed or set aside.
- `ReaderSeesOne`: also for the reader that came before the lock file.
- `ImplementsQueue`, `Handled`: growing while wrapped keeps the order.
- `GapRecoverable`, `HoldRecoverable` (Desktop): the interval between the two
  renames is recoverable wherever it was cut short, and a held attempt can be
  recovered, but for the causes listed below.
- `NothingDropped`, `NeverReopened`: an app only ever moves into a vacant place,
  and once the call that finished an attempt is over nothing makes it hold
  again. That call itself may, by taking back its last write (below).

## Findings

1. `session_startup`: run_start checks for `ready` and then writes a `starting`
   snapshot (`service.py:579-583`). A worker that comes up in between has its
   snapshot replaced, a terminal one included; once the worker is gone the next
   inspection declares the run failed. The comment at `service.py:514-516`
   rules out replacing completion by a stale snapshot.
2. `session_retry`: the worker publishes a command's snapshot before its
   receipt. A wait that ends in between is answered `not_applied`, and the same
   command id later `applied`, against `docs/agent_session.md:255`.

Met while modelling, and stated as exceptions in the properties:

- A job whose summary was reserved and never written, whose worker passed and
  then could not mark its root, or whose process id is reused, is never judged:
  every refresh is refused, or finds the job running (`Unjudged`).
- Two jobs that overwrite one root: the rename at
  `physics_sim_headless_output.c:205` takes whatever has the name by then. The
  job that lost its root finds out when it finishes; a refresh of it may meanwhile
  take the other's marker for its own (`raced`).
- A client that dies between the identity and the request of a sample
  (`service.py:826`) leaves an id that is known and never answered.
- A copy torn by a death in `retain` never equals the active file, so every
  later admission that has to retire that id is held.
- A request id that is partly retired is read from its history only; if the
  receipt is missing asking is refused (`sample_history_held`,
  `service.py:801-805`) until a new admission resumes the retirement, although
  its files are all there; for ever, if a copy was left torn.
- `docs/agent_session.md:311-314` says that 32 pairs are retained, that
  abandoned requests expire after 30 seconds, and that an evicted id can be
  reused for a fresh observation. The code does none of this: it retires pairs
  into a history that it never prunes and answers from (`service.py:801-805`,
  `sample_retention.py`), and removes no pending request for its age
  (`service.py:814`). `docs/agent_session.md:450-452` and
  `docs/session_sample_retention.md:3-6,15,17-18` say so too. `OneRequest`,
  `LostOnlyByDeath` and `Preserved` state what the code and the later text do;
  the earlier text is out of date.
- A cancel that stopped the solver is receipted as applied before the last
  snapshot is written. If that write fails or the worker dies first, the run is
  shown as unfinished and later declared failed, although its cancel was
  acknowledged (`CancelIsFinal` and `AppliedIsVisible` except it).
- A cache hold that was opened and not yet filled names no attempt; inspection
  refuses it, and no tool clears it.
- A refresh that is killed while it copies the predecessor leaves a partial
  copy, and every later plan for that attempt is refused
  (`desktop_replace.py:249-250`) although the app was not touched; so all later
  refreshes are held. `docs/desktop_replacement.md` ("Exact attempt recovery")
  has recovery record an observed state "without replacing it" when the current
  name matches the predecessor. A kill between mkdir and the first journal
  holds as well, and so does an attempt in whose gap another attempt was
  recovered. These are the exceptions of `HoldRecoverable`.
- `write_record` may raise after its rename, when it flushes the directory
  (`desktop_replace.py:174`). A refresh then rewrites its completed journal as
  `failed_retained` (`desktop_replace.py:390`, `393-405`), and a recovery its
  completed proof (`305-310`): the attempt holds again although the app is
  installed or restored. It can be recovered, and it happens under the lock of
  the call at work, which is the exception of `NeverReopened`;
  `docs/desktop_replacement.md:74-75` calls a completed recovery terminal.

## What is proved

`JobPairProofs` proves, for any sets of processes and attempts and any bounds
(assumptions: the special values differ from names and from each other; the
bounds are naturals):

- `TypeCorrect`, `PairIsWhole`, `ReadersSeeWhole`, `DirectionIsChosenOnce`: the
  invariants `TypeOK`, `MixedOnlyUnderHold`, `ReadsWhole`, `OneDirection`;
- `HoldsEndAsIntended`: the action property `IntentHonoured`;
- `HoldsAreRecoverable`: the invariant `HoldRecoverable`;
- `PairIsARegister`: `JobPair` implements `PairRegister`.

The argument. None of these is inductive alone; `IndInv` adds who holds the lock
(`LockIsControl`), where the hold stands at each control point
(`HoldFollowsControl`), what a publication and a recovery know at theirs
(`PublicationKnows`, `RecoveryKnows`), that a stage about to be renamed exists
(`StagesCounted`), that generations are never forgotten (`GenerationsKept`) and
what a reader has read (`ReaderKnows`). `IndInv` was checked by TLC as an
invariant first. The proof uses the lock once: whoever steps is alone
(`StepIsAlone`), everybody else is idle and knows nothing that can be disturbed.
It remains to show, action by action, what the stepping process knows afterwards
and that the disk is still in order. For the refinement, the register's value is
the retained predecessor while a hold names an attempt, and the live pair
otherwise; `ReleaseHold` and a forward `ClearHold` commit, `Prepare` offers,
everything else stutters. `HoldsAreRecoverable` is a second induction over
`IndInv`: `Retained` says what the disk keeps of the held attempt whoever dies
when (its records, each slot in one of the shapes inspection admits, a new pair
without an absent file), `Prepared` what a control point adds (what a
publication has recorded, that it displaced nothing, that the slot a recovery is
at is not restored yet, so there is no receipt yet).

`AgentSessionProofs` proves, for any numbers of clients, runs and commands and
any limits, faults and waits (assumptions `CommandsAreDisjoint`, `NoneIsNobody`,
`SessionBounds`): `TypeCorrect`, `OneWorkerActive`, `NumbersAreBound`,
`AnswersAreReceipts`, `ReceiptsAreComplete`, `CancelStays` and
`FailuresAreReal` and `AppliedIsSeen`; and `SnapshotsForward`, which assumes
`MaxTimeouts = 0`: once a startup wait elapses the starting snapshot of
`run_start` may replace a later one (see Findings). For `AppliedIsSeen` it may:
while `run_start` has the lock no command can have been asked for (`Unasked`),
so there is no receipt the starting snapshot could hide (`StartingHides`).
`CancelStays` rests on it, for any waits too: what is true of the worker is in
the invariant, what inspectors are shown in `Seen`, which says which end a
snapshot can have once the worker that applied a cancel is on its way out. The
invariant `IInv` speaks of each run and of each client by itself. Per run:
what the worker knows at each control point (`Solver`, `Taken`), which commands
have receipts (`Receipted`), how far the snapshot is behind (`Reported`), that
numbers are given once and published without a gap (`Numbered`), and what was
told (`Told`). Per client: what its call has found out (`Caller`, `Starter`,
`Commander`); `Starter` is why two workers are never active: a run is created
only after every other run was seen to be past, and the lock keeps it so. Two
frames keep the case analysis small: a worker's step disturbs only its own run
(`WorkerFrame`), and the lock makes every client but one idle or polling
(`ClientFrame`). The least obvious lemma is `NextIsFree`: with nothing left to
repair the published numbers are 1 to n, so the next is free and, by counting
the commands, within bounds.

`CommandLogProofs` builds on that invariant and proves `SessionIsACommandLog`:
`AgentSession` implements `CommandLog`, under the same assumptions. Only
`Repair`, `Publish`, `WriteReceipt`, `FinishCancel`, `AnswerReceipt` and
`AnswerLate` change the log; `Numbered` makes the first two enter a command under
the next number. That receipts come in order needs one more invariant, `Orderly`:
a failed verdict leaves a failed worker, and a command is refused only when all
before it are settled without failure. The refused command is why: its verdict
stays `rejected` although its worker may just have failed to publish it.

`CachePublicationProofs` proves, for any number of slots, publishers and
versions (assumption `CacheConstants`: at least one slot is not under the run
id, and the names are distinct), `TypeCorrect`, `ReadersSeeOne`,
`HoldsAreRecoverable`, `NothingIsLost` and, for the refinement, `CacheIsARegister`.
The inductive invariant adds to the types what the disk looks like at every
point of the walk over the slots: slots before the one at work are exchanged,
those behind it untouched (`Walked`, for a publisher); slots before the
operator's hold what they held before the attempt (`RolledBack`); a held attempt's slots are in one of the shapes an
interruption can leave, with nothing missing (`HeldKept`); with no hold all
active slots are of one version (`OneVersion`), which is the one they had when a
held attempt began (`FormerIsOne`); and what a reader saw is that version
(`Seen`). The lock gives that at most one of publishers and operator
walks, so each action disturbs one slot of one walk. `NothingIsLost` is a second
induction over this, since it also speaks of times at which nothing is held: the
walk knows the place into which a step moves a slot to be empty. The invariant
was checked by TLC first.

`RingQueueProofs` proves `TypeCorrect` and `RingIsAQueue` for every capacity,
limit and number of entries (assumption `RingConstants`). `TypeOK` is the shape
of the ring (tail is count entries after head, around the end); with it go that
the live entries are numbered without gap up to `next_id`, and that the entry at
the head follows the one handled last. The heart is three lemmas about the
contents read as a sequence: a push appends to them, a pop takes their tail, and
unrolling into a larger ring leaves them as they are.

`JobRunnerProofs` proves, for any number of jobs, steps and faults (assumption
`JobConstants`: the special values are no jobs and differ from each other),
`TypeCorrect`, `EndsAreEarned`, `NoEndForTheLiving`, `RootStaysMine`,
`EndsAreFinal` and `CancelIsHonoured`. The invariant has three parts per job.
`Talk`: a record that is published, held back by a cut-off publication, or on
its way in a command is sound (an end under a recorded process id only when the
worker's solver is done; completed only when earned) and never leaves an end
that is published. `Owned`: a worker with a claimed root has it, marked it, or
lost it to a rename. `Disk`: progress and summary never run ahead of the worker.
All of it is monotonic in the worker, which is why a refresh may read four
files one after the other. `CancelIsHonoured` needs one more step, because it
speaks of all later states: once flag and control point are as it says, they
stay `Doomed`, and no doomed worker writes a passed summary.

`SampleQueueProofs` proves, for any number of ids, payloads, views and clients
and any limits (assumption `SampleConstants`: the special values are told apart
from everything that can be in a file), `TypeCorrect`, `LimitsHold`,
`OneRequestPerId`, `NothingLostAlive`, `RetirementPreserves` and
`UnavailableMeansLater`. Per id, `FilesAgree` says that there is one payload all
its files are about, that a history without a receipt has its active files
beside it, and one with a receipt equals what is left of them; `Accounted` says
who will still queue it. Per client, `Knows` is what it knows of its own id and
`Retiring` of the one it retires. The lock makes every client but one a mere
reader, and the worker touches only what is pending, which is never retired. The
limits are a second induction over these (`Counted`): the active identities are
as many as the list by age is long, and each control point of an admission knows
how much room is left (`Room`).

`DesktopReplaceProofs` proves, for any number of invocations, attempts, builds,
kills and changes by other programs (assumption `DesktopConstants`: the special
values differ from builds and names), `TypeCorrect`, `InstallsWhole`,
`ProofsStayBound`, `NothingReopens`, `NothingIsDropped`, `GapIsRecoverable` and
`HoldsAreRecoverable`. `Bound` is what holds whatever other programs do: the
lock follows the control point (`LockFollows`), a refresh has its own journal,
without proofs and unfinished until it completes it, and a compared copy
(`RunKnows`), a recovery has the attempt's journal as it is (`PlanKnows`). With
that, `NothingReopens` has to look at two steps only, `Report` and `Withdraw`. `Kept` adds what holds while only
refreshes and recoveries touch the app: it is what the running refresh found
(`Undisturbed`), copies are of the journaled predecessor (`CopiesOf`), and an
absent app was never there or is kept twice by an attempt that holds
(`GapKept`). One attempt at most holds (`OneHolder`), so the attempt that asks
to be recovered is the one that has the copies; and none holds but the one a call
has under way (`SoleClaim`), which is why a call that fails after completing its
own attempt does not make a second one hold.

Each of these invariants was checked by TLC on the instances above before it was
proved. The type invariants `TypeOK`, and `ProofsBind`, are stated by theorems
and no longer by runs. `Orderly` and the refinement were also run with three
commands (one of them a continue), one client and two faults (2,756,838 states).

Every invariant and action property that a passing run checks is proved,
`SnapshotForward` while no startup wait elapses, as in its run. Only
model-checked: all liveness properties (fairness and ENABLED are beyond TLAPS
here), and the runs that find a violation.

## Plan

Done: `PairRegister`, `JobPair`, `CommandLog`, `AgentSession`, `JobRunner`,
`SampleQueue`, `CachePublication`, `FrameQueue`, `RingQueue`, `DesktopReplace`,
and the proofs above. Next: `OwnedOutput`, the owned directories of the scripts,
of the same family as the output root of `JobRunner`.

## Not modelled, and why

Numerics and accuracy studies compute over floating point arrays; a state
machine over small sets has nothing to say about them. Rendering, import,
export and the user interface are input and output around the state above. The
interactive loop is single threaded and is a candidate only after the protocols.
Defences against processes that do not cooperate (inode witnesses, path
admission) are assumed to do their work: the models have cooperating processes
that die.
