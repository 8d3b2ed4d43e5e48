----------------------------- MODULE JobRunner -----------------------------
(***************************************************************************)
(* Detached jobs: short-lived runner commands (submit, status, cancel), a  *)
(* headless worker per job that outlives them, and the output root that    *)
(* workers of several jobs may share.                                      *)
(*                                                                         *)
(*   runner   one command per job at a time (the operation guard); it      *)
(*            judges a job from the worker's progress, its process id, its *)
(*            summary and the marker of its output root, read one after    *)
(*            the other while the worker goes on.                          *)
(*   worker   claims or replaces the output root, reserves its two         *)
(*            sidecars empty, simulates, then publishes summary, progress  *)
(*            and the completed marker, in this order.                     *)
(*                                                                         *)
(* The pair of status record and report is the register that JobPair is    *)
(* shown to implement: a publication commits, fails, or leaves a hold that *)
(* a recovery resolves either way.                                         *)
(***************************************************************************)
EXTENDS Naturals

CONSTANTS
  Jobs,         \* job ids; all of them name the same output root
  Asked,        \* the jobs that are asked about and cancelled (a bound)
  Overwriting,  \* the jobs submitted with --overwrite
  Legacy,       \* owner of a root left by an earlier run
  None,         \* no root, no hold
  Steps,        \* solver steps of a job
  MaxFaults     \* bound on deaths, failed calls and reused process ids

ASSUME JobConstants ==
  /\ Overwriting \subseteq Jobs /\ Asked \subseteq Jobs
  /\ Legacy \notin Jobs /\ None \notin [owner : Jobs \cup {Legacy}, done : BOOLEAN]
  /\ Steps \in Nat /\ MaxFaults \in Nat

VARIABLES
  rec,          \* job -> the published status record
  hold,         \* job -> the record of a publication that was cut short, or None
  flag,         \* job -> cancel_requested.flag exists
  cmd,          \* job -> the runner command at work on it
  wpc, left, rc,            \* job -> worker control point, steps to do, result
  progress, summary, stuck, \* job -> its sidecars, and those held after a failure
  root,         \* owner and marker of the output root, or None
  witness,      \* job -> the root its worker looked at
  earned,       \* jobs whose worker marked its root completed
  raced,        \* owners whose running root was moved aside
  reused,       \* jobs whose process id belongs to another process by now
  faults

runner == <<rec, hold, flag, cmd>>
worker == <<wpc, left, rc, progress, summary, stuck>>
output == <<root, witness, earned, raced>>
vars   == <<runner, worker, output, reused, faults>>

Ends   == {"completed", "cancelled", "failed"}
Active == {"starting", "running", "stalled"}
Records == [state : Ends \cup Active \cup {"none", "queued"}, pid : BOOLEAN]
NoRecord == [state |-> "none", pid |-> FALSE]
Idle == [kind |-> "none", at |-> "idle", seen |-> NoRecord, alive |-> FALSE, dirty |-> FALSE]
Commands == [kind : {"none", "submit", "status", "cancel"},
             at : {"idle", "queue", "spawn", "launched", "merge", "probe", "judge",
                   "update", "flag", "mark"},
             seen : Records, alive : BOOLEAN, dirty : BOOLEAN]

\* Where a worker owns its root, and where its solver still runs.
Simulating == {"pending", "poll", "step"}
Owning  == {"reserve summary", "reserve progress", "summary", "final", "finish"} \cup Simulating
Control == Owning \cup {"unborn", "slot", "boot", "recheck", "retire", "claim", "gone"}

Roots == [owner : Jobs \cup {Legacy}, done : BOOLEAN]
Running(j) == [owner |-> j, done |-> FALSE]

Init ==
  /\ rec = [j \in Jobs |-> NoRecord]
  /\ hold = [j \in Jobs |-> None]
  /\ flag = [j \in Jobs |-> FALSE]
  /\ cmd = [j \in Jobs |-> Idle]
  /\ wpc = [j \in Jobs |-> "unborn"]
  /\ left = [j \in Jobs |-> Steps]
  /\ rc = [j \in Jobs |-> 0]
  /\ progress = [j \in Jobs |-> "absent"]
  /\ summary = [j \in Jobs |-> "absent"]
  /\ stuck = [j \in Jobs |-> {}]
  /\ root \in {None, [owner |-> Legacy, done |-> TRUE], [owner |-> Legacy, done |-> FALSE]}
  /\ witness = [j \in Jobs |-> None]
  /\ earned = {} /\ raced = {} /\ reused = {}
  /\ faults = 0

Fault == faults < MaxFaults /\ faults' = faults + 1
Live(j) == wpc[j] \notin {"unborn", "slot", "gone"}

-----------------------------------------------------------------------------
(* Runner commands.                                                        *)

At(j, at) == cmd[j].at = at
Go(j, at) == cmd' = [cmd EXCEPT ![j].at = at]
Stop(j)   == cmd' = [cmd EXCEPT ![j] = Idle]

\* persist_job_state: what follows, unless the pair could not be published.
Publish(j, r, Then) ==
  \/ /\ rec' = [rec EXCEPT ![j] = r]
     /\ Then
     /\ UNCHANGED <<hold, faults>>
  \/ /\ Fault /\ Stop(j)
     /\ hold' \in {hold, [hold EXCEPT ![j] = r]}
     /\ UNCHANGED rec

\* Recovery of a held pair, by rollback or forward (external tool).
Recover(j) ==
  /\ hold[j] # None
  /\ rec' \in {rec, [rec EXCEPT ![j] = hold[j]]}
  /\ hold' = [hold EXCEPT ![j] = None]
  /\ UNCHANGED <<flag, cmd, worker, output, reused, faults>>

\* submit: a non-empty root needs --overwrite; the slot is created exclusively.
Submit(j) ==
  /\ wpc[j] = "unborn"
  /\ root = None \/ j \in Overwriting
  /\ wpc' = [wpc EXCEPT ![j] = "slot"]
  /\ cmd' = [cmd EXCEPT ![j].kind = "submit", ![j].at = "queue"]
  /\ UNCHANGED <<rec, hold, flag, left, rc, progress, summary, stuck, output, reused, faults>>

Queue(j) ==
  /\ At(j, "queue")
  /\ Publish(j, [state |-> "queued", pid |-> FALSE], Go(j, "spawn"))
  /\ UNCHANGED <<flag, worker, output, reused>>

\* The exec was observed; or it failed and the child was reaped; or nobody
\* knows what became of the child.
Spawn(j) ==
  /\ At(j, "spawn")
  /\ \/ /\ wpc' = [wpc EXCEPT ![j] = "boot"]
        /\ cmd' = [cmd EXCEPT ![j].at = "launched", ![j].seen = [state |-> "starting", pid |-> TRUE]]
        /\ UNCHANGED faults
     \/ /\ Fault
        /\ wpc' = [wpc EXCEPT ![j] = "gone"]
        /\ \E forked \in BOOLEAN :
             cmd' = [cmd EXCEPT ![j].at = "launched", ![j].seen = [state |-> "failed", pid |-> forked]]
     \/ /\ Fault
        /\ \E at \in {"boot", "gone"} : wpc' = [wpc EXCEPT ![j] = at]
        /\ cmd' = [cmd EXCEPT ![j].at = "launched", ![j].seen = [state |-> "stalled", pid |-> TRUE]]
  /\ UNCHANGED <<rec, hold, flag, left, rc, progress, summary, stuck, output, reused>>

Launched(j) ==
  /\ At(j, "launched")
  /\ Publish(j, cmd[j].seen, Stop(j))
  /\ UNCHANGED <<flag, worker, output, reused>>

\* status and cancel: the guard is refused while another command or a hold
\* is there.
Begin(j, kind) ==
  /\ j \in Asked /\ At(j, "idle") /\ hold[j] = None /\ rec[j].state # "none"
  /\ cmd' = [cmd EXCEPT ![j].kind = kind, ![j].at = "merge", ![j].seen = rec[j]]
  /\ UNCHANGED <<rec, hold, flag, worker, output, reused, faults>>

\* The state a progress status stands for.
Stands == [pending |-> "starting", running |-> "running", finishing |-> "running",
           canceled |-> "cancelled", passed |-> "completed", failed |-> "failed"]

\* An empty progress file is a reservation for a starting job and is refused
\* for any other.
Merge(j) ==
  /\ At(j, "merge")
  /\ \/ /\ progress[j] = "absent" \/ (progress[j] = "empty" /\ rec[j].state = "starting")
        /\ Go(j, "probe")
     \/ /\ progress[j] \in DOMAIN Stands
        /\ cmd' = [cmd EXCEPT ![j].at = "probe", ![j].dirty = TRUE,
                              ![j].seen.state = Stands[progress[j]]]
     \/ /\ progress[j] = "empty" /\ rec[j].state # "starting"
        /\ Stop(j)
  /\ UNCHANGED <<rec, hold, flag, worker, output, reused, faults>>

\* A worker is taken for dead until it has published progress.
AliveByProgress(j) == rec[j].pid /\ (Live(j) /\ progress[j] \notin {"absent", "empty"})

\* Somebody has the recorded process id.
Alive(j) == rec[j].pid /\ (Live(j) \/ j \in reused)

Probe(j) ==
  /\ At(j, "probe")
  /\ cmd' = [cmd EXCEPT ![j].at = "judge", ![j].alive = Alive(j)]
  /\ UNCHANGED <<rec, hold, flag, worker, output, reused, faults>>

\* The marker is not looked at.
OutputCompletedUnchecked == TRUE

\* The marker of the root as it is now, whoever owns it.
OutputCompleted == root # None /\ root.done

Outcome == [passed |-> "completed", canceled |-> "cancelled", failed |-> "failed"]

\* The state a summary tells; an empty or unmarked one tells nothing.
Told(j) ==
  IF summary[j] = "empty" \/ (summary[j] = "passed" /\ ~ OutputCompleted)
  THEN "nothing" ELSE Outcome[summary[j]]

\* The summary counts for a dead worker and for a final progress.
Read(j) == (~ cmd[j].alive \/ cmd[j].seen.state \in Ends) /\ summary[j] # "absent"

\* A recorded end may be left again.
RefusedRegressing(j) ==
  LET s == cmd[j].seen.state
  IN \/ Read(j) /\ (Told(j) = "nothing" \/ (s \in Ends /\ Told(j) # s))
     \/ s = "completed" /\ ~ Read(j)

Refused(j) ==
  LET s == cmd[j].seen.state
  IN \/ rec[j].state \in Ends /\ s # rec[j].state
     \/ Read(j) /\ (Told(j) = "nothing" \/ (s \in Ends /\ Told(j) # s))
     \/ s = "completed" /\ ~ Read(j)

\* A dead worker without a summary changes nothing.
BecomesNothing(j) ==
  LET s == cmd[j].seen.state
  IN IF s \notin Active THEN {s}
     ELSE IF ~ cmd[j].alive THEN {IF Read(j) THEN Told(j) ELSE s}
     ELSE {"stalled", IF s = "stalled" THEN "running" ELSE s}

\* What an active job has become: ended with its process, stalled for want
\* of progress, or going on.  Nothing becomes of a queued one.
Becomes(j) ==
  LET s == cmd[j].seen.state
  IN IF s \notin Active THEN {s}
     ELSE IF ~ cmd[j].alive THEN {IF Read(j) THEN Told(j) ELSE "failed"}
     ELSE {"stalled", IF s = "stalled" THEN "running" ELSE s}

\* After a refresh: status is done; cancel goes on unless the job is over.
Refreshed(j, s) ==
  IF cmd[j].kind = "cancel" /\ s \notin Ends THEN Go(j, "flag") ELSE Stop(j)

Judge(j) ==
  /\ At(j, "judge")
  /\ \/ Refused(j) /\ Stop(j)
     \/ /\ ~ Refused(j)
        /\ \E s \in Becomes(j) :
             IF cmd[j].dirty \/ s # cmd[j].seen.state
             THEN cmd' = [cmd EXCEPT ![j].at = "update", ![j].seen.state = s]
             ELSE Refreshed(j, s)
  /\ UNCHANGED <<rec, hold, flag, worker, output, reused, faults>>

Update(j) ==
  /\ At(j, "update")
  /\ Publish(j, cmd[j].seen, Refreshed(j, cmd[j].seen.state))
  /\ UNCHANGED <<flag, worker, output, reused>>

WriteFlag(j) ==
  /\ At(j, "flag")
  /\ flag' = [flag EXCEPT ![j] = TRUE]
  /\ Go(j, "mark")
  /\ UNCHANGED <<rec, hold, worker, output, reused, faults>>

Mark(j) ==
  /\ At(j, "mark")
  /\ Publish(j, cmd[j].seen, Stop(j))
  /\ UNCHANGED <<flag, worker, output, reused>>

RunnerDies(j) ==
  /\ ~ At(j, "idle") /\ Fault /\ Stop(j)
  /\ UNCHANGED <<rec, hold, flag, worker, output, reused>>

-----------------------------------------------------------------------------
(* The worker: the headless program, from its output root to its exit.     *)

Goto(j, at) == wpc' = [wpc EXCEPT ![j] = at]
Keeps == UNCHANGED <<runner, reused>>

\* Any root that is in the way may be moved aside.
LookUnchecked(j) ==
  /\ wpc[j] = "boot"
  /\ Goto(j, IF root = None THEN "claim" ELSE IF j \in Overwriting THEN "recheck" ELSE "gone")
  /\ witness' = [witness EXCEPT ![j] = root]
  /\ Keeps /\ UNCHANGED <<left, rc, progress, summary, stuck, root, earned, raced, faults>>

\* A root in the way may be moved aside when --overwrite says so and its
\* owner has completed it.
Look(j) ==
  /\ wpc[j] = "boot"
  /\ Goto(j, IF root = None THEN "claim"
             ELSE IF j \in Overwriting /\ root.done THEN "recheck" ELSE "gone")
  /\ witness' = [witness EXCEPT ![j] = root]
  /\ Keeps /\ UNCHANGED <<left, rc, progress, summary, stuck, root, earned, raced, faults>>

\* The same completed root is looked at once more before the rename.
Recheck(j) ==
  /\ wpc[j] = "recheck"
  /\ Goto(j, IF root = witness[j] THEN "retire" ELSE "gone")
  /\ Keeps /\ UNCHANGED <<left, rc, progress, summary, stuck, output, faults>>

\* The rename takes whatever has the name by now.
Retire(j) ==
  /\ wpc[j] = "retire"
  /\ Goto(j, IF root = None THEN "gone" ELSE "claim")
  /\ root' = None
  /\ raced' = IF root \in {None, witness[j]} THEN raced ELSE raced \cup {root.owner}
  /\ Keeps /\ UNCHANGED <<left, rc, progress, summary, stuck, witness, earned, faults>>

\* Only one worker creates the marker in a fresh root.
Claim(j) ==
  /\ wpc[j] = "claim"
  /\ IF root = None THEN Goto(j, "reserve summary") /\ root' = Running(j)
                    ELSE Goto(j, "gone") /\ UNCHANGED root
  /\ Keeps /\ UNCHANGED <<left, rc, progress, summary, stuck, witness, earned, raced, faults>>

\* Both sidecars are created empty, then progress becomes pending.
Reserve(j) ==
  /\ \/ /\ wpc[j] = "reserve summary" /\ Goto(j, "reserve progress")
        /\ summary' = [summary EXCEPT ![j] = "empty"] /\ UNCHANGED progress
     \/ /\ wpc[j] = "reserve progress" /\ Goto(j, "pending")
        /\ progress' = [progress EXCEPT ![j] = "empty"] /\ UNCHANGED summary
     \/ /\ wpc[j] = "pending" /\ Goto(j, "poll")
        /\ progress' = [progress EXCEPT ![j] = "pending"] /\ UNCHANGED summary
  /\ Keeps /\ UNCHANGED <<left, rc, stuck, output, faults>>

\* A sidecar that failed once is held: it is never published again.
ShowProgress(j, status) ==
  \/ /\ progress' = IF "progress" \in stuck[j] THEN progress ELSE [progress EXCEPT ![j] = status]
     /\ UNCHANGED <<stuck, faults>>
  \/ /\ Fault /\ stuck' = [stuck EXCEPT ![j] = @ \cup {"progress"}]
     /\ UNCHANGED progress

End(j, code, status) ==
  /\ Goto(j, "summary") /\ rc' = [rc EXCEPT ![j] = code]
  /\ ShowProgress(j, status)

\* The flag is looked at before each step only.
PollBeforeSteps(j) ==
  /\ wpc[j] = "poll"
  /\ IF left[j] = 0 THEN End(j, 0, "finishing")
     ELSE IF flag[j] THEN End(j, 2, "canceled")
     ELSE Goto(j, "step") /\ UNCHANGED <<rc, progress, stuck, faults>>
  /\ Keeps /\ UNCHANGED <<left, summary, output>>

\* The flag is looked at before and after each step, the last one included.
Poll(j) ==
  /\ wpc[j] = "poll"
  /\ IF flag[j] THEN End(j, 2, "canceled")
     ELSE IF left[j] = 0 THEN End(j, 0, "finishing")
     ELSE Goto(j, "step") /\ UNCHANGED <<rc, progress, stuck, faults>>
  /\ Keeps /\ UNCHANGED <<left, summary, output>>

Step(j) ==
  /\ wpc[j] = "step"
  /\ \/ /\ left' = [left EXCEPT ![j] = @ - 1]
        /\ Goto(j, "poll") /\ ShowProgress(j, "running") /\ UNCHANGED rc
     \/ End(j, 1, "finishing") /\ UNCHANGED left
  /\ Keeps /\ UNCHANGED <<summary, output>>

Label(code) == IF code = 0 THEN "passed" ELSE IF code = 2 THEN "canceled" ELSE "failed"

\* A summary that cannot be written turns a success into a failure.
WriteSummary(j) ==
  /\ wpc[j] = "summary" /\ Goto(j, "final")
  /\ \/ /\ summary' = [summary EXCEPT ![j] = Label(rc[j])]
        /\ UNCHANGED <<rc, stuck, faults>>
     \/ /\ Fault
        /\ rc' = [rc EXCEPT ![j] = IF @ = 0 THEN 1 ELSE @]
        /\ stuck' = [stuck EXCEPT ![j] = @ \cup {"summary"}] /\ UNCHANGED summary
  /\ Keeps /\ UNCHANGED <<left, progress, output>>

WriteFinal(j) ==
  /\ wpc[j] = "final" /\ Goto(j, "finish")
  /\ ShowProgress(j, Label(rc[j]))
  /\ Keeps /\ UNCHANGED <<left, rc, summary, output>>

\* The root is marked completed, whatever the result, when no sidecar is
\* held and the root still is the worker's own.
FinishRoot(j) ==
  /\ wpc[j] = "finish" /\ Goto(j, "gone")
  /\ IF stuck[j] = {} /\ root = Running(j)
     THEN root' = [root EXCEPT !.done = TRUE] /\ earned' = earned \cup {j}
     ELSE UNCHANGED <<root, earned>>
  /\ Keeps /\ UNCHANGED <<left, rc, progress, summary, stuck, witness, raced, faults>>

\* A signal, a crash, or an early exit of a file that cannot be written.
WorkerDies(j) ==
  /\ Live(j) /\ Fault /\ Goto(j, "gone")
  /\ Keeps /\ UNCHANGED <<left, rc, progress, summary, stuck, output>>

PidReused(j) ==
  /\ wpc[j] = "gone" /\ j \notin reused /\ Fault
  /\ reused' = reused \cup {j}
  /\ UNCHANGED <<runner, worker, output>>

-----------------------------------------------------------------------------
RunnerStep(j) == Queue(j) \/ Spawn(j) \/ Launched(j) \/ Merge(j) \/ Probe(j)
                   \/ Judge(j) \/ Update(j) \/ WriteFlag(j) \/ Mark(j)

WorkerStep(j) == Look(j) \/ Recheck(j) \/ Retire(j) \/ Claim(j) \/ Reserve(j) \/ Poll(j)
                   \/ Step(j) \/ WriteSummary(j) \/ WriteFinal(j) \/ FinishRoot(j)

Failure(j) == RunnerDies(j) \/ WorkerDies(j) \/ PidReused(j)

JobNext(j) == \/ Submit(j) \/ Begin(j, "status") \/ Begin(j, "cancel") \/ Recover(j)
              \/ RunnerStep(j) \/ WorkerStep(j) \/ Failure(j)

JobsNext == \E j \in Jobs : JobNext(j)

Spec == Init /\ [][JobsNext]_vars

\* Commands and workers run to their end, somebody keeps asking for the
\* status, and a held pair is recovered.
FairSpec ==
  /\ Spec
  /\ \A j \in Jobs : /\ WF_vars(RunnerStep(j)) /\ WF_vars(WorkerStep(j))
                     /\ WF_vars(Recover(j))
                     /\ WF_vars(Begin(j, "status"))

-----------------------------------------------------------------------------
(* Properties.                                                             *)

TypeOK ==
  /\ rec \in [Jobs -> Records] /\ hold \in [Jobs -> Records \cup {None}]
  /\ flag \in [Jobs -> BOOLEAN] /\ cmd \in [Jobs -> Commands]
  /\ wpc \in [Jobs -> Control] /\ left \in [Jobs -> 0 .. Steps] /\ rc \in [Jobs -> 0 .. 2]
  /\ progress \in [Jobs -> {"absent", "empty"} \cup DOMAIN Stands]
  /\ summary \in [Jobs -> {"absent", "empty"} \cup DOMAIN Outcome]
  /\ stuck \in [Jobs -> SUBSET {"progress", "summary"}]
  /\ root \in Roots \cup {None} /\ witness \in [Jobs -> Roots \cup {None}]
  /\ earned \subseteq Jobs /\ raced \subseteq Jobs \cup {Legacy} /\ reused \subseteq Jobs
  /\ faults \in 0 .. MaxFaults

\* A job is recorded as completed only when its own worker published a passed
\* summary and marked its root completed afterwards; the one exception is a
\* worker whose root another job moved aside, for which any completed root
\* under the name is taken (refresh_job_status_record).
CompletedIsEarned == \A j \in Jobs :
  rec[j].state = "completed" => summary[j] = "passed" /\ j \in earned \cup raced

\* No end is recorded for a worker that still simulates and whose process id
\* the record holds: neither the 900 seconds of silence nor the order of the
\* reads of progress, process and summary invents one.
NoLiveEnd == \A j \in Jobs :
  rec[j].state \in Ends /\ rec[j].pid => wpc[j] \notin Simulating

\* A worker that claimed the root and still runs has it under its name, unless
\* another job's rename hit it after that job's last check.
RootIsMine == \A j \in Jobs : wpc[j] \in Owning => root = Running(j) \/ j \in raced

\* A published end is final: no later pass, whatever the late worker wrote or
\* a recovery brought back, turns it into another state.
TerminalIsFinal == [][\A j \in Jobs :
  rec[j].state \in Ends => rec'[j].state = rec[j].state]_vars

\* Once the cancel flag is on disk before the worker's last poll, the job
\* never gets a passed summary.
CancelHonoured == \A j \in Jobs :
  [](flag[j] /\ wpc[j] \in Control \ {"summary", "final", "finish", "gone"}
       => [](summary[j] # "passed"))

\* What keeps a job from ever being judged: its process id was never recorded
\* and it never showed progress; the id is another process's by now and no
\* final progress was written; the summary was reserved and never written; or
\* it passed under a root that is not marked completed.
Unjudged(j) ==
  \/ ~ rec[j].pid /\ progress[j] = "absent"
  \/ j \in reused /\ progress[j] \notin DOMAIN Outcome
  \/ summary[j] = "empty"
  \/ summary[j] = "passed" /\ ~ OutputCompleted

\* A job whose worker is gone reaches a recorded end, except for the causes
\* above.
Settled == \A j \in Jobs :
  wpc[j] = "gone" /\ j \in Asked ~> (rec[j].state \in Ends \/ Unjudged(j))
=============================================================================
