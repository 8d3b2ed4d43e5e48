-------------------------- MODULE JobRunnerProofs --------------------------
(***************************************************************************)
(* Proofs about JobRunner, for any number of jobs, steps and faults: ends  *)
(* are earned, never given to a worker at work, and final, and the output  *)
(* root stays with its worker.                                             *)
(***************************************************************************)
EXTENDS JobRunner, TLAPS

(* The inductive invariant, job by job.                                    *)

\* The worker was started; its solver is done.  Neither is ever undone.
Spawned(j) == wpc[j] \notin {"unborn", "slot"}
Over(j)    == wpc[j] \in {"summary", "final", "finish", "gone"}
Earned(j)  == summary[j] = "passed" /\ j \in earned \cup raced

\* A record that claims no end for a worker at work.
Sound(j, r) ==
  /\ r.pid => Spawned(j)
  /\ r.pid /\ r.state \in Ends => Over(j)

\* A record that may be published over the present one.
Publishable(j, r) ==
  /\ Sound(j, r)
  /\ r.state = "completed" => Earned(j)
  /\ rec[j].state \in Ends => r.state = rec[j].state

\* The control points whose record will be published as it is.
Due(j) == cmd[j].at \in {"launched", "update", "flag", "mark"}

\* The sidecars follow the worker.
Disk(j) ==
  /\ progress[j] \in {"finishing", "canceled", "passed", "failed"} => Over(j)
  /\ summary[j] \in DOMAIN Outcome => wpc[j] \in {"final", "finish", "gone"}
  /\ wpc[j] = "step" => left[j] > 0

\* A worker that claimed the root has it, marked it, or lost it to a rename;
\* and a rename is aimed at a completed root.
Owned(j) ==
  /\ wpc[j] \in Owning \/ summary[j] # "absent" => root = Running(j) \/ j \in raced \cup earned
  /\ j \in earned => wpc[j] = "gone"
  /\ wpc[j] \in {"recheck", "retire"} => witness[j] # None /\ witness[j].done

\* What a runner command knows is behind what the worker did, never ahead.
Talk(j) ==
  /\ Publishable(j, rec[j])
  /\ hold[j] # None => At(j, "idle") /\ Publishable(j, hold[j])
  /\ Sound(j, cmd[j].seen)
  /\ Due(j) => Publishable(j, cmd[j].seen)
  /\ At(j, "idle") => cmd[j] = Idle
  /\ At(j, "queue") => wpc[j] = "slot" /\ rec[j].state = "none"
  /\ At(j, "spawn") => wpc[j] = "slot" /\ rec[j].state = "queued"
  /\ cmd[j].at \in {"merge", "probe", "judge"} => cmd[j].seen.pid = rec[j].pid
  /\ At(j, "judge") /\ ~ cmd[j].alive /\ rec[j].pid => wpc[j] = "gone"
  /\ wpc[j] = "unborn" => At(j, "idle") /\ rec[j] = NoRecord /\ hold[j] = None

IInv == TypeOK /\ \A j \in Jobs : Disk(j) /\ Owned(j) /\ Talk(j)

-----------------------------------------------------------------------------
(* Frames.  A step of job k leaves the facts about the other jobs alone.   *)

\* What was earned or started stays so.
LEMMA PublishableKept ==
  ASSUME NEW j \in Jobs, NEW r, Publishable(j, r), rec'[j] = rec[j],
         Spawned(j) => Spawned(j)', Over(j) => Over(j)', Earned(j) => Earned(j)'
  PROVE  Sound(j, r)' /\ Publishable(j, r)'
BY DEF Publishable, Sound

\* A runner command of job k: the worker and the root are not touched.
LEMMA RunnerStepKeeps ==
  ASSUME IInv, TypeOK', NEW k \in Jobs, UNCHANGED <<worker, output>>,
         \A j \in Jobs : j # k => rec'[j] = rec[j] /\ hold'[j] = hold[j] /\ cmd'[j] = cmd[j],
         Talk(k)'
  PROVE  IInv'
<1>1. ASSUME NEW j \in Jobs PROVE Disk(j)' /\ Owned(j)'
  BY DEF IInv, Disk, Owned, Over, worker, output, Running
<1>2. ASSUME NEW j \in Jobs, j # k PROVE Talk(j)'
  BY <1>2 DEF IInv, Talk, Due, At, Publishable, Sound, Earned, Spawned, Over, worker, output
<1> QED BY <1>1, <1>2 DEF IInv

\* A worker step of job k: no record and no command changes.
LEMMA WorkerStepKeeps ==
  ASSUME IInv, TypeOK', NEW k \in Jobs, UNCHANGED runner,
         Spawned(k) /\ Spawned(k)', Over(k) => Over(k)', wpc[k] # "gone",
         summary[k] = "passed" => summary'[k] = "passed",
         earned \subseteq earned', raced \subseteq raced',
         \A j \in Jobs : j # k => wpc'[j] = wpc[j] /\ summary'[j] = summary[j],
         \A j \in Jobs : Disk(j)' /\ Owned(j)'
  PROVE  IInv'
<1>1. ASSUME NEW j \in Jobs PROVE Talk(j)'
  <2>1. /\ Spawned(j) => Spawned(j)'
        /\ Over(j) => Over(j)'
        /\ Earned(j) => Earned(j)'
        /\ wpc[j] = "gone" => wpc'[j] = "gone"
        /\ wpc[j] \in {"unborn", "slot"} => wpc'[j] = wpc[j]
        /\ wpc'[j] = "unborn" => wpc[j] = "unborn"
    BY DEF Spawned, Over, Earned
  <2>2. rec'[j] = rec[j] /\ hold'[j] = hold[j] /\ cmd'[j] = cmd[j] /\ Talk(j)
    BY DEF IInv, runner
  <2>3. \A r : Publishable(j, r) => Publishable(j, r)'
    BY <2>1, <2>2 DEF Publishable, Sound
  <2>4. Sound(j, cmd[j].seen)'
    BY <2>1, <2>2 DEF Talk, Sound
  <2> QED BY <2>1, <2>2, <2>3, <2>4 DEF Talk, Due, At
<1> QED BY <1>1 DEF IInv

\* A worker step that leaves the root and its history alone.
LEMMA SidecarStepKeeps ==
  ASSUME IInv, TypeOK', NEW k \in Jobs, UNCHANGED <<runner, output>>,
         Spawned(k) /\ Spawned(k)', Over(k) => Over(k)', wpc[k] # "gone",
         summary[k] = "passed" => summary'[k] = "passed",
         \A j \in Jobs : j # k => /\ wpc'[j] = wpc[j] /\ summary'[j] = summary[j]
                                  /\ progress'[j] = progress[j] /\ left'[j] = left[j],
         wpc'[k] \in Owning \/ summary'[k] # "absent" => wpc[k] \in Owning \/ summary[k] # "absent",
         wpc'[k] \notin {"recheck", "retire"}, Disk(k)'
  PROVE  IInv'
<1>1. ASSUME NEW j \in Jobs PROVE Owned(j)'
  BY DEF IInv, Owned, Running, output
<1>2. ASSUME NEW j \in Jobs, j # k PROVE Disk(j)'
  BY <1>2 DEF IInv, Disk, Over
<1> QED BY <1>1, <1>2, WorkerStepKeeps DEF output

-----------------------------------------------------------------------------
(* The worker.                                                             *)

\* A worker at a control point after its start is a started one.
LEMMA Started == ASSUME NEW k \in Jobs, Live(k) PROVE Spawned(k) /\ wpc[k] # "gone"
BY DEF Live, Spawned

LEMMA RunningRoot ==
  ASSUME NEW j \in Jobs
  PROVE  /\ Running(j) \in Roots /\ Running(j) # None
         /\ ~ Running(j).done /\ Running(j).owner = j
<1>1. Running(j) \in [owner : Jobs \cup {Legacy}, done : BOOLEAN]
  BY DEF Running
<1>2. Running(j) # None
  BY <1>1, JobConstants
<1> QED BY <1>1, <1>2 DEF Roots, Running

LEMMA ProgressShown ==
  ASSUME TypeOK, NEW k \in Jobs, NEW status \in DOMAIN Stands, ShowProgress(k, status)
  PROVE  /\ progress' \in [Jobs -> {"absent", "empty"} \cup DOMAIN Stands]
         /\ stuck' \in [Jobs -> SUBSET {"progress", "summary"}]
         /\ faults' \in 0 .. MaxFaults
         /\ progress'[k] \in {status, progress[k]}
         /\ \A j \in Jobs : j # k => progress'[j] = progress[j]
BY JobConstants DEF TypeOK, ShowProgress, Fault

\* The worker moves to a control point.
LEMMA GotoTyped ==
  ASSUME wpc \in [Jobs -> Control], NEW k \in Jobs, NEW at \in Control, wpc' = [wpc EXCEPT ![k] = at]
  PROVE  wpc' \in [Jobs -> Control]
OBVIOUS

LEMMA LookKeeps == ASSUME IInv, NEW k \in Jobs, Look(k) PROVE IInv'
<1> USE DEF Look, Goto, Keeps
<1>1. /\ wpc \in [Jobs -> Control] /\ wpc[k] = "boot" /\ witness'[k] = root
      /\ wpc'[k] \in {"claim", "recheck", "gone"}
      /\ wpc'[k] = "recheck" => root # None /\ root.done
      /\ \A j \in Jobs : j # k => wpc'[j] = wpc[j] /\ witness'[j] = witness[j]
  BY DEF IInv, TypeOK
<1>2. TypeOK'
  BY DEF IInv, TypeOK, Control, runner
<1>3. ASSUME NEW j \in Jobs PROVE Disk(j)' /\ Owned(j)'
  <2>1. /\ Disk(j) /\ Owned(j) /\ progress'[j] = progress[j] /\ summary'[j] = summary[j]
        /\ left'[j] = left[j] /\ UNCHANGED <<root, earned, raced>>
    BY DEF IInv
  <2> HIDE DEF Look, Goto, Keeps
  <2>2. Disk(j)'
    BY <1>1, <2>1 DEF Disk, Over
  <2>3. Owned(j)'
    BY <1>1, <2>1 DEF Owned, Owning, Simulating, Running
  <2> QED BY <2>2, <2>3
<1> QED BY <1>1, <1>2, <1>3, WorkerStepKeeps DEF Spawned, Over

LEMMA RecheckKeeps == ASSUME IInv, NEW k \in Jobs, Recheck(k) PROVE IInv'
<1> USE DEF Recheck, Goto, Keeps
<1>1. /\ wpc \in [Jobs -> Control] /\ wpc[k] = "recheck" /\ wpc'[k] \in {"retire", "gone"}
      /\ \A j \in Jobs : j # k => wpc'[j] = wpc[j]
  BY DEF IInv, TypeOK
<1>2. TypeOK'
  BY DEF IInv, TypeOK, Control, runner, output
<1>3. \A j \in Jobs : Disk(j)' /\ Owned(j)'
  BY <1>1 DEF IInv, Disk, Owned, Over, Owning, Simulating, Running, output
<1> QED BY <1>1, <1>2, <1>3, WorkerStepKeeps DEF Spawned, Over, output

\* The root that goes is the completed one looked at, or its owner is raced.
LEMMA RetireKeeps == ASSUME IInv, NEW k \in Jobs, Retire(k) PROVE IInv'
<1> USE DEF Retire, Goto, Keeps
<1>1. /\ wpc \in [Jobs -> Control] /\ wpc[k] = "retire" /\ wpc'[k] \in {"claim", "gone"}
      /\ \A j \in Jobs : j # k => wpc'[j] = wpc[j]
      /\ raced \subseteq raced'
  BY DEF IInv, TypeOK
<1>2. TypeOK'
  BY DEF IInv, TypeOK, Control, runner, Roots
<1>3. ASSUME NEW j \in Jobs, root = Running(j) PROVE j \in raced'
  <2>1. root # None /\ ~ root.done /\ root.owner = j
    BY <1>3, RunningRoot
  <2>2. root # witness[k]
    BY <1>1, <2>1 DEF IInv, Owned
  <2> QED BY <2>1, <2>2
<1>4. \A j \in Jobs : Disk(j)' /\ Owned(j)'
  BY <1>1, <1>3 DEF IInv, Disk, Owned, Over, Owning, Simulating
<1> QED BY <1>1, <1>2, <1>4, WorkerStepKeeps DEF Spawned, Over

\* Nobody has a root that is not there.
LEMMA ClaimKeeps == ASSUME IInv, NEW k \in Jobs, Claim(k) PROVE IInv'
<1> USE DEF Claim, Goto, Keeps
<1>1. /\ wpc \in [Jobs -> Control] /\ wpc[k] = "claim"
      /\ \A j \in Jobs : j # k => wpc'[j] = wpc[j]
      /\ \/ wpc'[k] = "reserve summary" /\ root = None /\ root' = Running(k)
         \/ wpc'[k] = "gone" /\ root' = root
  BY DEF IInv, TypeOK
<1>2. TypeOK'
  <2>1. wpc' \in [Jobs -> Control] /\ root' \in Roots \cup {None}
    <3>1. "reserve summary" \in Control /\ "gone" \in Control
      BY DEF Control, Owning
    <3>2. wpc' \in [Jobs -> Control]
      BY <1>1, <3>1, GotoTyped
    <3>3. root' \in Roots \cup {None}
      BY <1>1, RunningRoot DEF IInv, TypeOK
    <3> QED BY <3>2, <3>3
  <2> QED BY <2>1 DEF IInv, TypeOK, runner
<1>3. ASSUME NEW j \in Jobs PROVE Disk(j)' /\ Owned(j)'
  BY <1>1, RunningRoot DEF IInv, Disk, Owned, Over, Owning, Simulating
<1> QED BY <1>1, <1>2, <1>3, WorkerStepKeeps DEF Spawned, Over

LEMMA ReserveKeeps == ASSUME IInv, NEW k \in Jobs, Reserve(k) PROVE IInv'
<1> USE DEF Reserve, Goto, Keeps
<1>1. /\ wpc \in [Jobs -> Control] /\ wpc[k] \in {"reserve summary", "reserve progress", "pending"}
      /\ wpc'[k] \in {"reserve progress", "pending", "poll"}
      /\ \A j \in Jobs : j # k => /\ wpc'[j] = wpc[j] /\ summary'[j] = summary[j]
                                  /\ progress'[j] = progress[j] /\ left'[j] = left[j]
      /\ summary'[k] \in {summary[k], "empty"} /\ progress'[k] \in {progress[k], "empty", "pending"}
  BY DEF IInv, TypeOK
<1>2. TypeOK'
  BY DEF IInv, TypeOK, Control, Owning, Simulating, runner, output, Stands, Outcome
<1>3. Disk(k)' /\ summary[k] # "passed"
  BY <1>1 DEF IInv, Disk, Over, Outcome
<1> QED BY <1>1, <1>2, <1>3, SidecarStepKeeps DEF Spawned, Over, Owning, Simulating

LEMMA PollKeeps == ASSUME IInv, NEW k \in Jobs, Poll(k) PROVE IInv'
<1> USE DEF Poll, End, Goto, Keeps
<1>1. /\ wpc \in [Jobs -> Control] /\ wpc[k] = "poll" /\ wpc'[k] \in {"summary", "step"}
      /\ wpc'[k] = "step" => left[k] # 0 /\ progress' = progress
      /\ \A j \in Jobs : j # k => wpc'[j] = wpc[j]
  BY DEF IInv, TypeOK
<1>2. wpc' \in [Jobs -> Control] /\ rc' \in [Jobs -> 0 .. 2]
  <2>1. \E at \in {"summary", "step"} : wpc' = [wpc EXCEPT ![k] = at]
    OBVIOUS
  <2>2. "summary" \in Control /\ "step" \in Control
    BY DEF Control, Owning, Simulating
  <2>3. wpc' \in [Jobs -> Control]
    BY <1>1, <2>1, <2>2, GotoTyped
  <2>4. rc' \in [Jobs -> 0 .. 2]
    BY DEF IInv, TypeOK
  <2> QED BY <2>3, <2>4
<1>3. /\ progress' \in [Jobs -> {"absent", "empty"} \cup DOMAIN Stands]
      /\ stuck' \in [Jobs -> SUBSET {"progress", "summary"}] /\ faults' \in 0 .. MaxFaults
      /\ \A j \in Jobs : j # k => progress'[j] = progress[j]
  BY ProgressShown DEF IInv, TypeOK, Stands
<1>4. TypeOK'
  BY <1>2, <1>3 DEF IInv, TypeOK, runner, output
<1>5. Disk(k)'
  BY <1>1 DEF IInv, TypeOK, Disk, Over
<1> QED BY <1>1, <1>3, <1>4, <1>5, SidecarStepKeeps DEF Spawned, Over, Owning, Simulating

LEMMA StepKeeps == ASSUME IInv, NEW k \in Jobs, Step(k) PROVE IInv'
<1> USE DEF Step, End, Goto, Keeps
<1>1. /\ wpc \in [Jobs -> Control] /\ wpc[k] = "step" /\ left[k] > 0
      /\ \A j \in Jobs : j # k => wpc'[j] = wpc[j] /\ left'[j] = left[j]
      /\ \/ wpc'[k] = "poll" /\ ShowProgress(k, "running")
         \/ wpc'[k] = "summary" /\ ShowProgress(k, "finishing")
  BY DEF IInv, TypeOK, Disk
<1>2. wpc' \in [Jobs -> Control] /\ rc' \in [Jobs -> 0 .. 2] /\ left' \in [Jobs -> 0 .. Steps]
  <2>1. wpc' \in [Jobs -> Control]
    BY DEF IInv, TypeOK, Control, Owning, Simulating
  <2>2. rc' \in [Jobs -> 0 .. 2]
    BY DEF IInv, TypeOK
  <2>3. left[k] \in 0 .. Steps /\ left[k] - 1 \in 0 .. Steps
    BY <1>1, JobConstants DEF IInv, TypeOK
  <2>4. left' \in [Jobs -> 0 .. Steps]
    BY <2>3 DEF IInv, TypeOK
  <2> QED BY <2>1, <2>2, <2>4
<1>3. /\ progress' \in [Jobs -> {"absent", "empty"} \cup DOMAIN Stands]
      /\ stuck' \in [Jobs -> SUBSET {"progress", "summary"}] /\ faults' \in 0 .. MaxFaults
      /\ \A j \in Jobs : j # k => progress'[j] = progress[j]
      /\ wpc'[k] = "poll" => progress'[k] \in {"running", progress[k]}
  BY <1>1, ProgressShown DEF IInv, Stands
<1>4. TypeOK'
  BY <1>2, <1>3 DEF IInv, TypeOK, runner, output
<1>5. Disk(k)'
  BY <1>1, <1>3 DEF IInv, Disk, Over
<1> QED BY <1>1, <1>3, <1>4, <1>5, SidecarStepKeeps DEF Spawned, Over, Owning, Simulating

LEMMA WriteSummaryKeeps == ASSUME IInv, NEW k \in Jobs, WriteSummary(k) PROVE IInv'
<1> USE DEF WriteSummary, Goto, Keeps, Fault
<1>1. /\ wpc \in [Jobs -> Control] /\ wpc[k] = "summary" /\ wpc'[k] = "final"
      /\ \A j \in Jobs : j # k => wpc'[j] = wpc[j] /\ summary'[j] = summary[j]
  BY DEF IInv, TypeOK
<1>2. /\ wpc' \in [Jobs -> Control] /\ rc' \in [Jobs -> 0 .. 2]
      /\ summary' \in [Jobs -> {"absent", "empty"} \cup DOMAIN Outcome]
      /\ stuck' \in [Jobs -> SUBSET {"progress", "summary"}] /\ faults' \in 0 .. MaxFaults
  <2>1. wpc' \in [Jobs -> Control]
    BY DEF IInv, TypeOK, Control, Owning
  <2>2. rc' \in [Jobs -> 0 .. 2]
    BY DEF IInv, TypeOK
  <2>3. Label(rc[k]) \in DOMAIN Outcome
    BY DEF Label, Outcome
  <2>4. summary' \in [Jobs -> {"absent", "empty"} \cup DOMAIN Outcome]
    BY <2>3 DEF IInv, TypeOK
  <2>5. stuck' \in [Jobs -> SUBSET {"progress", "summary"}] /\ faults' \in 0 .. MaxFaults
    BY JobConstants DEF IInv, TypeOK
  <2> QED BY <2>1, <2>2, <2>4, <2>5
<1>3. TypeOK'
  BY <1>2 DEF IInv, TypeOK, runner, output
<1>4. Disk(k)' /\ summary[k] # "passed"
  BY <1>1 DEF IInv, Disk, Over, Outcome
<1> QED BY <1>1, <1>3, <1>4, SidecarStepKeeps DEF Spawned, Over, Owning

LEMMA WriteFinalKeeps == ASSUME IInv, NEW k \in Jobs, WriteFinal(k) PROVE IInv'
<1> USE DEF WriteFinal, Goto, Keeps
<1>1. /\ wpc \in [Jobs -> Control] /\ wpc[k] = "final" /\ wpc'[k] = "finish"
      /\ \A j \in Jobs : j # k => wpc'[j] = wpc[j]
  BY DEF IInv, TypeOK
<1>2. Label(rc[k]) \in DOMAIN Stands
  BY DEF Label, Stands
<1>3. wpc' \in [Jobs -> Control]
  BY DEF IInv, TypeOK, Control, Owning
<1>4. /\ progress' \in [Jobs -> {"absent", "empty"} \cup DOMAIN Stands]
      /\ stuck' \in [Jobs -> SUBSET {"progress", "summary"}] /\ faults' \in 0 .. MaxFaults
      /\ \A j \in Jobs : j # k => progress'[j] = progress[j]
  BY <1>2, ProgressShown DEF IInv
<1>5. TypeOK'
  BY <1>3, <1>4 DEF IInv, TypeOK, runner, output
<1>6. Disk(k)'
  BY <1>1 DEF IInv, Disk, Over
<1> QED BY <1>1, <1>4, <1>5, <1>6, SidecarStepKeeps DEF Spawned, Over, Owning

LEMMA FinishRootKeeps == ASSUME IInv, NEW k \in Jobs, FinishRoot(k) PROVE IInv'
<1> USE DEF FinishRoot, Goto, Keeps
<1>1. /\ wpc \in [Jobs -> Control] /\ wpc[k] = "finish" /\ wpc'[k] = "gone"
      /\ \A j \in Jobs : j # k => wpc'[j] = wpc[j]
      /\ \/ root = Running(k) /\ earned' = earned \cup {k}
         \/ root' = root /\ earned' = earned
  BY DEF IInv, TypeOK
<1>2. TypeOK'
  <2>1. wpc' \in [Jobs -> Control]
    BY DEF IInv, TypeOK, Control
  <2>2. root' \in Roots \cup {None}
    <3>1. CASE root = Running(k) /\ root' = [root EXCEPT !.done = TRUE]
      <4>1. root' = [owner |-> k, done |-> TRUE]
        BY <3>1 DEF Running
      <4> QED BY <4>1 DEF Roots
    <3>2. CASE root' = root
      BY <3>2 DEF IInv, TypeOK
    <3> QED BY <3>1, <3>2
  <2> QED BY <1>1, <2>1, <2>2 DEF IInv, TypeOK, runner
<1>3. ASSUME NEW j \in Jobs PROVE Disk(j)' /\ Owned(j)'
  <2>1. wpc[j] \in Owning \/ summary[j] # "absent" => root = Running(j) \/ j \in raced \cup earned
    BY DEF IInv, Owned
  <2>2. root = Running(j) /\ root = Running(k) => j = k
    BY RunningRoot
  <2>3. wpc'[j] \in Owning => wpc[j] \in Owning
    BY <1>1 DEF Owning, Simulating
  <2> QED BY <1>1, <2>1, <2>2, <2>3 DEF IInv, Disk, Owned, Over
<1> QED BY <1>1, <1>2, <1>3, WorkerStepKeeps DEF Spawned, Over

LEMMA WorkerDiesKeeps == ASSUME IInv, NEW k \in Jobs, WorkerDies(k) PROVE IInv'
<1> USE DEF WorkerDies, Goto, Keeps
<1>1. /\ Spawned(k) /\ wpc[k] # "gone" /\ wpc'[k] = "gone"
      /\ \A j \in Jobs : j # k => wpc'[j] = wpc[j]
  BY Started DEF IInv, TypeOK
<1>2. TypeOK'
  BY JobConstants DEF IInv, TypeOK, Control, runner, output, Fault
<1>3. Disk(k)'
  BY <1>1 DEF IInv, Disk, Over
<1> QED BY <1>1, <1>2, <1>3, SidecarStepKeeps DEF Spawned, Over, Owning, Simulating

-----------------------------------------------------------------------------
(* The runner.                                                             *)

\* A command that touches neither record nor hold.
LEMMA CommandKeeps ==
  ASSUME IInv, NEW k \in Jobs, NEW c \in Commands, cmd' = [cmd EXCEPT ![k] = c],
         UNCHANGED <<rec, hold, flag, worker, output, reused, faults>>, Talk(k)'
  PROVE  IInv'
<1>1. TypeOK'
  BY DEF IInv, TypeOK, worker, output
<1>2. \A j \in Jobs : j # k => rec'[j] = rec[j] /\ hold'[j] = hold[j] /\ cmd'[j] = cmd[j]
  BY DEF IInv, TypeOK
<1> QED BY <1>1, <1>2, RunnerStepKeeps

\* The states of the world as a record of k sees it, when no worker moved.
LEMMA SameWorld ==
  ASSUME NEW k \in Jobs, UNCHANGED <<worker, output>>
  PROVE  /\ \A r : Sound(k, r)' = Sound(k, r)
         /\ Earned(k)' = Earned(k) /\ wpc'[k] = wpc[k]
BY DEF Sound, Earned, Spawned, Over, worker, output

LEMMA CommandTyped ==
  ASSUME TypeOK, NEW k \in Jobs
  PROVE  /\ cmd[k] \in [kind : {"none", "submit", "status", "cancel"},
                        at : {"idle", "queue", "spawn", "launched", "merge", "probe", "judge",
                              "update", "flag", "mark"},
                        seen : Records, alive : BOOLEAN, dirty : BOOLEAN]
         /\ cmd \in [Jobs -> Commands]
         /\ cmd[k].seen \in [state : Ends \cup Active \cup {"none", "queued"}, pid : BOOLEAN]
BY DEF TypeOK, Commands, Records

LEMMA IdleTyped == Idle \in Commands /\ Idle.at = "idle" /\ Idle.seen = NoRecord
                     /\ NoRecord \in Records /\ ~ NoRecord.pid /\ NoRecord.state = "none"
BY DEF Idle, Commands, NoRecord, Records

\* A record is published over the present one, and the command goes on with
\* that record or is over.
LEMMA PublishedKeeps ==
  ASSUME IInv, NEW k \in Jobs, NEW r \in Records, Publishable(k, r),
         ~ At(k, "idle"), wpc[k] # "unborn",
         rec' = [rec EXCEPT ![k] = r], NEW c \in Commands, cmd' = [cmd EXCEPT ![k] = c],
         \/ c = Idle
         \/ c.at = "spawn" /\ wpc[k] = "slot" /\ r.state = "queued" /\ c.seen = cmd[k].seen
         \/ c.at \in {"flag", "mark"} /\ c.seen = r,
         UNCHANGED <<hold, flag, worker, output, reused, faults>>
  PROVE  IInv'
<1>1. TypeOK'
  BY DEF IInv, TypeOK, worker, output
<1>2. /\ \A j \in Jobs : j # k => rec'[j] = rec[j] /\ hold'[j] = hold[j] /\ cmd'[j] = cmd[j]
      /\ rec'[k] = r /\ cmd'[k] = c /\ hold'[k] = None
  BY DEF IInv, TypeOK, Talk
<1>3. Publishable(k, r)' /\ wpc'[k] = wpc[k] /\ \A q : Sound(k, q)' = Sound(k, q)
  BY <1>2, SameWorld DEF Publishable
<1>4. Sound(k, c.seen)
  BY IdleTyped DEF IInv, Talk, Sound, Publishable
<1>5. Talk(k)'
  BY <1>2, <1>3, <1>4, IdleTyped DEF Talk, Due, At
<1> QED BY <1>1, <1>2, <1>5, RunnerStepKeeps

\* The command is over and nothing was published.
LEMMA StopKeeps ==
  ASSUME IInv, NEW k \in Jobs, Stop(k), ~ At(k, "idle"),
         UNCHANGED <<rec, hold, flag, worker, output, reused, faults>>
  PROVE  IInv'
<1>1. cmd'[k] = Idle /\ rec'[k] = rec[k] /\ hold'[k] = hold[k] /\ wpc'[k] = wpc[k]
  BY SameWorld DEF IInv, TypeOK, Stop
<1>2. Sound(k, Idle.seen)
  BY IdleTyped DEF Sound
<1>3. Talk(k)'
  BY <1>1, <1>2, SameWorld, IdleTyped DEF IInv, Talk, Due, At, Publishable
<1> QED BY <1>3, IdleTyped, CommandKeeps DEF Stop

\* The publication failed: the command is over, and perhaps the pair is held.
LEMMA UnpublishedKeeps ==
  ASSUME IInv, NEW k \in Jobs, NEW r \in Records, Publishable(k, r),
         ~ At(k, "idle"), wpc[k] # "unborn", Fault, Stop(k),
         hold' \in {hold, [hold EXCEPT ![k] = r]},
         UNCHANGED <<rec, flag, worker, output, reused>>
  PROVE  IInv'
<1>1. /\ \A j \in Jobs : j # k => rec'[j] = rec[j] /\ hold'[j] = hold[j] /\ cmd'[j] = cmd[j]
      /\ rec'[k] = rec[k] /\ cmd'[k] = Idle /\ hold'[k] \in {None, r}
  BY DEF IInv, TypeOK, Talk, Stop
<1>2. TypeOK'
  <2>1. hold' \in [Jobs -> Records \cup {None}]
    BY DEF IInv, TypeOK
  <2>2. cmd' \in [Jobs -> Commands]
    BY IdleTyped DEF IInv, TypeOK, Stop
  <2>3. faults' \in 0 .. MaxFaults
    BY JobConstants DEF IInv, TypeOK, Fault
  <2> QED BY <2>1, <2>2, <2>3 DEF IInv, TypeOK, worker, output
<1>3. \A q : Publishable(k, q)' = Publishable(k, q) /\ Sound(k, q)' = Sound(k, q)
  BY <1>1, SameWorld DEF Publishable
<1>4. wpc'[k] = wpc[k] /\ Sound(k, Idle.seen)
  BY SameWorld, IdleTyped DEF Sound
<1>5. Talk(k)'
  BY <1>1, <1>3, <1>4, IdleTyped DEF IInv, Talk, Due, At
<1> QED BY <1>1, <1>2, <1>5, RunnerStepKeeps

LEMMA RecoverKeeps == ASSUME IInv, NEW k \in Jobs, Recover(k) PROVE IInv'
<1> USE DEF Recover
<1>1. /\ \A j \in Jobs : j # k => rec'[j] = rec[j] /\ hold'[j] = hold[j] /\ cmd'[j] = cmd[j]
      /\ rec'[k] \in {rec[k], hold[k]} /\ cmd'[k] = cmd[k] /\ hold'[k] = None
      /\ Publishable(k, hold[k]) /\ Publishable(k, rec[k]) /\ At(k, "idle")
  BY DEF IInv, TypeOK, Talk
<1>2. hold[k] \in Records
  BY DEF IInv, TypeOK
<1>3. TypeOK'
  BY <1>2 DEF IInv, TypeOK, worker, output
<1>4. /\ wpc'[k] = wpc[k] /\ Sound(k, cmd[k].seen)'
      /\ Sound(k, rec[k])' /\ (rec[k].state = "completed" => Earned(k))'
  <2>1. Sound(k, cmd[k].seen)
    BY DEF IInv, Talk
  <2>2. CASE rec'[k] = rec[k]
    BY <1>1, <2>1, <2>2, SameWorld DEF Publishable
  <2>3. CASE rec'[k] = hold[k]
    BY <1>1, <2>1, <2>3, SameWorld DEF Publishable
  <2> QED BY <1>1, <2>2, <2>3
<1>5. wpc[k] # "unborn"
  BY DEF IInv, Talk
<1>6. Talk(k)'
  <2>1. Publishable(k, rec[k])'
    BY <1>4 DEF Publishable
  <2> QED BY <1>1, <1>4, <1>5, <2>1 DEF IInv, Talk, Due, At
<1> QED BY <1>1, <1>3, <1>6, RunnerStepKeeps

\* The slot is made: the first command of a job that did not exist.
LEMMA SubmitKeeps == ASSUME IInv, NEW k \in Jobs, Submit(k) PROVE IInv'
<1> USE DEF Submit
<1> DEFINE c == [cmd[k] EXCEPT !.kind = "submit", !.at = "queue"]
<1>1. /\ wpc[k] = "unborn" /\ wpc' = [wpc EXCEPT ![k] = "slot"]
      /\ cmd[k] = Idle /\ rec[k] = NoRecord /\ hold[k] = None
  BY DEF IInv, Talk
<1>2. c \in Commands /\ c.at = "queue" /\ c.seen = NoRecord
  BY <1>1, CommandTyped, IdleTyped DEF IInv, Commands
<1>3. cmd' = [cmd EXCEPT ![k] = c]
  BY DEF IInv, TypeOK
<1> HIDE DEF c
<1>4. TypeOK'
  <2>1. wpc' \in [Jobs -> Control]
    BY <1>1 DEF IInv, TypeOK, Control
  <2>2. cmd' \in [Jobs -> Commands]
    BY <1>2, <1>3 DEF IInv, TypeOK
  <2> QED BY <2>1, <2>2 DEF IInv, TypeOK, output
<1>5. /\ wpc'[k] = "slot" /\ cmd'[k] = c
      /\ \A j \in Jobs : j # k => wpc'[j] = wpc[j] /\ cmd'[j] = cmd[j]
  BY <1>1, <1>3 DEF IInv, TypeOK
<1>6. ASSUME NEW j \in Jobs PROVE Disk(j)' /\ Owned(j)'
  BY <1>1, <1>5 DEF IInv, Disk, Owned, Over, Owning, Simulating, Running, output
<1>7. Talk(k)'
  BY <1>1, <1>2, <1>5, IdleTyped DEF Talk, Due, At, Publishable, Sound, Spawned, Over
<1>8. ASSUME NEW j \in Jobs, j # k PROVE Talk(j)'
  <2>1. Spawned(j)' = Spawned(j) /\ Over(j)' = Over(j) /\ Earned(j)' = Earned(j)
    BY <1>5, <1>8 DEF Spawned, Over, Earned, output
  <2>2. rec'[j] = rec[j] /\ hold'[j] = hold[j] /\ wpc'[j] = wpc[j] /\ cmd'[j] = cmd[j]
    BY <1>5, <1>8
  <2>3. \A q : (Publishable(j, q)' <=> Publishable(j, q)) /\ (Sound(j, q)' <=> Sound(j, q))
    BY <2>1, <2>2 DEF Publishable, Sound
  <2>4. Talk(j)
    BY DEF IInv
  <2> HIDE DEF Submit
  <2> QED BY <2>2, <2>3, <2>4 DEF Talk, Due, At
<1> QED BY <1>4, <1>6, <1>7, <1>8 DEF IInv

LEMMA QueueKeeps == ASSUME IInv, NEW k \in Jobs, Queue(k) PROVE IInv'
<1> USE DEF Queue
<1> DEFINE r == [state |-> "queued", pid |-> FALSE]
<1>1. r \in Records /\ r.state = "queued" /\ ~ r.pid
  BY DEF Records
<1>2. wpc[k] = "slot" /\ rec[k].state = "none" /\ At(k, "queue")
  BY DEF IInv, Talk
<1>3. Publishable(k, r)
  BY <1>1, <1>2 DEF Publishable, Sound, Ends
<1>4. CASE /\ rec' = [rec EXCEPT ![k] = r] /\ Go(k, "spawn") /\ UNCHANGED <<hold, faults>>
  <2> DEFINE c == [cmd[k] EXCEPT !.at = "spawn"]
  <2>1. cmd' = [cmd EXCEPT ![k] = c]
    BY <1>4 DEF Go
  <2>2. c \in Commands /\ c.at = "spawn" /\ c.seen = cmd[k].seen
    BY CommandTyped DEF IInv, Commands
  <2> HIDE DEF c, r
  <2> QED BY <1>1, <1>2, <1>3, <1>4, <2>1, <2>2, PublishedKeeps DEF At
<1>5. CASE /\ Fault /\ Stop(k) /\ hold' \in {hold, [hold EXCEPT ![k] = r]} /\ UNCHANGED rec
  <2> HIDE DEF r
  <2> QED BY <1>1, <1>2, <1>3, <1>5, UnpublishedKeeps DEF At
<1> QED BY <1>4, <1>5 DEF Publish

\* The command got as far as a process, or knows that it did not.
LEMMA SpawnKeeps == ASSUME IInv, NEW k \in Jobs, Spawn(k) PROVE IInv'
<1> USE DEF Spawn
<1>1. PICK at \in {"boot", "gone"}, s \in {"starting", "failed", "stalled"}, p \in BOOLEAN :
        /\ wpc' = [wpc EXCEPT ![k] = at] /\ (s = "failed" => at = "gone")
        /\ cmd' = [cmd EXCEPT ![k].at = "launched", ![k].seen = [state |-> s, pid |-> p]]
        /\ faults' = faults \/ (faults < MaxFaults /\ faults' = faults + 1)
  BY DEF Fault
<1> DEFINE r == [state |-> s, pid |-> p]
           c == [cmd[k] EXCEPT !.at = "launched", !.seen = r]
<1>2. /\ r \in Records /\ r.state = s /\ r.pid = p
      /\ c \in Commands /\ c.at = "launched" /\ c.seen = r
      /\ cmd' = [cmd EXCEPT ![k] = c]
  <2>1. r \in Records /\ r.state = s /\ r.pid = p
    BY DEF Records, Ends, Active
  <2> HIDE DEF r
  <2>2. c \in Commands /\ c.at = "launched" /\ c.seen = r
    BY <2>1, CommandTyped DEF IInv, Commands
  <2> QED BY <1>1, <2>1, <2>2 DEF r
<1>3. /\ wpc[k] = "slot" /\ rec[k].state = "queued" /\ hold[k] = None
      /\ UNCHANGED <<rec, hold, flag, left, rc, progress, summary, stuck, output, reused>>
  BY DEF IInv, Talk, At
<1> HIDE DEF r, c, Spawn
<1>4. TypeOK'
  <2>1. wpc' \in [Jobs -> Control]
    BY <1>1 DEF IInv, TypeOK, Control, Owning
  <2>2. cmd' \in [Jobs -> Commands]
    BY <1>2 DEF IInv, TypeOK
  <2>3. faults' \in 0 .. MaxFaults
    BY <1>1, JobConstants DEF IInv, TypeOK
  <2> QED BY <1>3, <2>1, <2>2, <2>3 DEF IInv, TypeOK, output
<1>5. /\ wpc'[k] = at /\ cmd'[k] = c
      /\ \A j \in Jobs : j # k => wpc'[j] = wpc[j] /\ cmd'[j] = cmd[j]
  BY <1>1, <1>2 DEF IInv, TypeOK
<1>6. ASSUME NEW j \in Jobs PROVE Disk(j)' /\ Owned(j)'
  BY <1>1, <1>3, <1>5 DEF IInv, Disk, Owned, Over, Owning, Simulating, Running, output
<1>7. Talk(k)'
  <2>1. Spawned(k)' /\ Sound(k, r)'
    BY <1>1, <1>2, <1>5 DEF Spawned, Sound, Over, Ends
  <2>2. Publishable(k, r)'
    BY <1>2, <1>3, <2>1 DEF Publishable, Ends
  <2>3. Publishable(k, rec[k])'
    BY <1>3, <2>1 DEF IInv, Talk, Publishable, Sound, Ends
  <2> QED BY <1>1, <1>2, <1>3, <1>5, <2>1, <2>2, <2>3 DEF IInv, Talk, Due, At
<1>8. ASSUME NEW j \in Jobs, j # k PROVE Talk(j)'
  <2>1. Spawned(j)' = Spawned(j) /\ Over(j)' = Over(j) /\ Earned(j)' = Earned(j)
    BY <1>3, <1>5, <1>8 DEF Spawned, Over, Earned, output
  <2> QED BY <1>3, <1>5, <1>8, <2>1 DEF IInv, Talk, Due, At, Publishable, Sound
<1> QED BY <1>4, <1>6, <1>7, <1>8 DEF IInv

LEMMA LaunchedKeeps == ASSUME IInv, NEW k \in Jobs, Launched(k) PROVE IInv'
<1> USE DEF Launched
<1> DEFINE r == cmd[k].seen
<1>1. At(k, "launched") /\ r \in Records /\ Publishable(k, r)
  BY CommandTyped DEF IInv, Talk, Due, At, Records
<1>2. wpc[k] # "unborn"
  BY <1>1 DEF IInv, Talk, At
<1>3. CASE rec' = [rec EXCEPT ![k] = r] /\ Stop(k) /\ UNCHANGED <<hold, faults>>
  <2> HIDE DEF r
  <2> QED BY <1>1, <1>2, <1>3, IdleTyped, PublishedKeeps DEF At, Stop
<1>4. CASE /\ Fault /\ Stop(k) /\ hold' \in {hold, [hold EXCEPT ![k] = r]} /\ UNCHANGED rec
  <2> HIDE DEF r
  <2> QED BY <1>1, <1>2, <1>4, UnpublishedKeeps DEF At
<1> QED BY <1>3, <1>4 DEF Publish

LEMMA BeginKeeps ==
  ASSUME IInv, NEW k \in Jobs, NEW kind \in {"status", "cancel"}, Begin(k, kind) PROVE IInv'
<1> USE DEF Begin
<1> DEFINE c == [cmd[k] EXCEPT !.kind = kind, !.at = "merge", !.seen = rec[k]]
<1>1. /\ cmd' = [cmd EXCEPT ![k] = c] /\ c \in Commands /\ c.at = "merge" /\ c.seen = rec[k]
      /\ UNCHANGED <<rec, hold, flag, worker, output, reused, faults>> /\ hold[k] = None
  <2>1. rec[k] \in Records
    BY DEF IInv, TypeOK
  <2>2. c \in Commands /\ c.at = "merge" /\ c.seen = rec[k]
    BY <2>1, CommandTyped DEF IInv, Commands
  <2> QED BY <2>2
<1>2. wpc[k] # "unborn"
  BY DEF IInv, Talk, NoRecord
<1> HIDE DEF c, Begin
<1>3. /\ rec'[k] = rec[k] /\ hold'[k] = None /\ cmd'[k] = c
      /\ wpc'[k] # "unborn" /\ Publishable(k, rec[k])' /\ Sound(k, rec[k])'
  BY <1>1, <1>2, SameWorld DEF IInv, TypeOK, Talk, Publishable, worker
<1>4. Talk(k)'
  BY <1>1, <1>3 DEF Talk, Due, At
<1> QED BY <1>1, <1>4, CommandKeeps

LEMMA MergeKeeps == ASSUME IInv, NEW k \in Jobs, Merge(k) PROVE IInv'
<1> USE DEF Merge
<1>1. CASE progress[k] \in DOMAIN Stands /\
             cmd' = [cmd EXCEPT ![k].at = "probe", ![k].dirty = TRUE, ![k].seen.state = Stands[progress[k]]]
  <2> DEFINE s == [cmd[k].seen EXCEPT !.state = Stands[progress[k]]]
             c == [cmd[k] EXCEPT !.at = "probe", !.dirty = TRUE, !.seen = s]
  <2>1. Stands[progress[k]] \in Ends \cup Active
    BY <1>1 DEF Stands, Ends, Active
  <2>2. s \in Records /\ s.state = Stands[progress[k]] /\ s.pid = cmd[k].seen.pid
    BY <2>1, CommandTyped DEF IInv, Records
  <2>3. cmd' = [cmd EXCEPT ![k] = c]
    BY <1>1
  <2> HIDE DEF s
  <2>4. c \in Commands /\ c.at = "probe" /\ c.seen = s
    BY <2>2, CommandTyped DEF IInv, Commands
  <2>5. UNCHANGED <<rec, hold, flag, worker, output, reused, faults>> /\ cmd'[k] = c
    BY <2>3 DEF IInv, TypeOK
  <2>6. At(k, "merge") /\ Disk(k) /\ Talk(k)
    BY DEF IInv
  <2> HIDE DEF c, Merge
  <2>7. s.state \in Ends => Over(k)
    BY <1>1, <2>2, <2>6 DEF Disk, Stands, Ends
  <2>8. Sound(k, s) /\ s.pid = rec[k].pid
    BY <2>2, <2>6, <2>7 DEF Talk, Sound, At
  <2>9. \A q : (Publishable(k, q)' <=> Publishable(k, q)) /\ (Sound(k, q)' <=> Sound(k, q))
    BY <2>5, SameWorld DEF Publishable
  <2>10. rec'[k] = rec[k] /\ hold'[k] = hold[k] /\ wpc'[k] = wpc[k]
    BY <2>5, SameWorld
  <2>11. Talk(k)'
    BY <2>4, <2>5, <2>6, <2>8, <2>9, <2>10 DEF Talk, Due, At
  <2> QED BY <2>3, <2>4, <2>5, <2>11, CommandKeeps
<1>2. CASE Go(k, "probe")
  <2> DEFINE c == [cmd[k] EXCEPT !.at = "probe"]
  <2>1. cmd' = [cmd EXCEPT ![k] = c]
    BY <1>2 DEF Go
  <2>2. c \in Commands /\ c.at = "probe" /\ c.seen = cmd[k].seen
    BY CommandTyped DEF IInv, Commands
  <2>3. UNCHANGED <<rec, hold, flag, worker, output, reused, faults>> /\ cmd'[k] = c
    BY <2>1 DEF IInv, TypeOK
  <2>4. At(k, "merge") /\ Talk(k)
    BY DEF IInv
  <2> HIDE DEF c, Merge
  <2>5. Talk(k)'
    BY <2>2, <2>3, <2>4, SameWorld DEF Talk, Due, At, Publishable
  <2> QED BY <2>1, <2>2, <2>3, <2>5, CommandKeeps
<1>3. CASE Stop(k)
  BY <1>3, StopKeeps DEF At
<1> QED BY <1>1, <1>2, <1>3

\* A process id that nobody has belongs to a worker that is gone.
LEMMA ProbeKeeps == ASSUME IInv, NEW k \in Jobs, Probe(k) PROVE IInv'
<1> DEFINE c == [cmd[k] EXCEPT !.at = "judge", !.alive = Alive(k)]
<1>1. /\ cmd' = [cmd EXCEPT ![k] = c] /\ At(k, "probe") /\ Talk(k)
      /\ UNCHANGED <<rec, hold, flag, worker, output, reused, faults>>
  BY DEF Probe, IInv
<1>2. Alive(k) \in BOOLEAN
  BY DEF Alive, IInv, TypeOK, Records
<1>3. c \in Commands /\ c.at = "judge" /\ c.seen = cmd[k].seen /\ c.alive = Alive(k)
  BY <1>2, CommandTyped DEF IInv, Commands
<1>4. ~ Alive(k) /\ rec[k].pid => wpc[k] = "gone"
  BY <1>1 DEF Talk, Publishable, Sound, Alive, Live, Spawned
<1>5. cmd'[k] = c /\ rec'[k] = rec[k] /\ hold'[k] = hold[k] /\ wpc'[k] = wpc[k]
  BY <1>1, SameWorld DEF IInv, TypeOK
<1> HIDE DEF c
<1>6. \A q : (Publishable(k, q)' <=> Publishable(k, q)) /\ (Sound(k, q)' <=> Sound(k, q))
  BY <1>1, <1>5, SameWorld DEF Publishable
<1>7. Talk(k)'
  BY <1>1, <1>3, <1>4, <1>5, <1>6 DEF Talk, Due, At
<1> QED BY <1>1, <1>3, <1>7, CommandKeeps

\* A passed summary under a completed root was earned: the root was the
\* worker's own, or another one's after its own was moved aside.
LEMMA ToldIsEarned ==
  ASSUME IInv, NEW k \in Jobs, summary[k] # "absent", Told(k) = "completed" PROVE Earned(k)
<1>1. summary[k] = "passed" /\ root # None /\ root.done
  BY DEF Told, Outcome, OutputCompleted, IInv, TypeOK
<1>2. root # Running(k)
  BY <1>1, RunningRoot
<1> QED BY <1>1, <1>2 DEF IInv, Owned, Earned

\* What a job has become may be published.
LEMMA BecomesPublishable ==
  ASSUME IInv, NEW k \in Jobs, At(k, "judge"), ~ Refused(k), NEW s \in Becomes(k),
         NEW r, r.state = s, r.pid = cmd[k].seen.pid
  PROVE  s \in Ends \cup Active \cup {"none", "queued"} /\ Publishable(k, r)
<1> DEFINE seen == cmd[k].seen
<1>1. /\ Talk(k) /\ r.pid = rec[k].pid /\ Sound(k, seen)
      /\ seen.state \in Ends \cup Active \cup {"none", "queued"}
  BY CommandTyped DEF IInv, Talk, At
<1>2. summary[k] # "absent" => Told(k) \in Ends \cup {"nothing"}
  BY DEF IInv, TypeOK, Told, Outcome, Ends
<1>3. Read(k) => summary[k] # "absent" /\ Told(k) \in Ends
  BY <1>2 DEF Read, Refused
<1>4. \/ seen.state \notin Active /\ s = seen.state
      \/ seen.state \in Active /\ ~ cmd[k].alive /\ s = IF Read(k) THEN Told(k) ELSE "failed"
      \/ seen.state \in Active /\ s \in Active
  BY DEF Becomes, Active
<1>5. s \in Ends \cup Active \cup {"none", "queued"}
  BY <1>1, <1>3, <1>4 DEF Ends
<1>6. Sound(k, r)
  <2>1. r.pid => Spawned(k)
    BY <1>1 DEF Sound
  <2>2. ASSUME r.pid, s \in Ends PROVE Over(k)
    BY <1>1, <1>4, <2>2 DEF Sound, Talk, At, Over, Ends, Active
  <2> QED BY <2>1, <2>2 DEF Sound
<1>7. s = "completed" => summary[k] # "absent" /\ Told(k) = "completed"
  BY <1>3, <1>4 DEF Refused, Ends, Active
<1>8. rec[k].state \in Ends => s = rec[k].state
  BY <1>4 DEF Refused, Ends, Active
<1> QED BY <1>5, <1>6, <1>7, <1>8, ToldIsEarned DEF Publishable

\* The command goes on to a control point whose record is due.
LEMMA DueKeeps ==
  ASSUME IInv, NEW k \in Jobs, NEW c \in Commands, cmd' = [cmd EXCEPT ![k] = c],
         c.at \in {"update", "flag", "mark"}, Publishable(k, c.seen), ~ At(k, "idle"),
         UNCHANGED <<rec, hold, worker, output, reused, faults>>, flag' \in [Jobs -> BOOLEAN]
  PROVE  IInv'
<1>1. cmd'[k] = c /\ rec'[k] = rec[k] /\ hold'[k] = hold[k] /\ wpc'[k] = wpc[k] /\ Talk(k)
  BY SameWorld DEF IInv, TypeOK
<1>2. \A q : (Publishable(k, q)' <=> Publishable(k, q)) /\ (Sound(k, q)' <=> Sound(k, q))
  BY <1>1, SameWorld DEF Publishable
<1>3. Talk(k)'
  BY <1>1, <1>2 DEF Talk, Due, At, Publishable
<1>4. TypeOK'
  BY DEF IInv, TypeOK, worker, output
<1>5. \A j \in Jobs : j # k => rec'[j] = rec[j] /\ hold'[j] = hold[j] /\ cmd'[j] = cmd[j]
  BY DEF IInv, TypeOK
<1> QED BY <1>3, <1>4, <1>5, RunnerStepKeeps

\* A command whose record may be published goes on to write the flag.
LEMMA GoDueKeeps ==
  ASSUME IInv, NEW k \in Jobs, NEW at \in {"flag", "mark"}, Go(k, at),
         Publishable(k, cmd[k].seen), ~ At(k, "idle"),
         UNCHANGED <<rec, hold, worker, output, reused, faults>>, flag' \in [Jobs -> BOOLEAN]
  PROVE  IInv'
<1> DEFINE c == [cmd[k] EXCEPT !.at = at]
<1>1. cmd' = [cmd EXCEPT ![k] = c]
  BY DEF Go
<1>2. c \in Commands /\ c.at = at /\ c.seen = cmd[k].seen
  BY CommandTyped DEF IInv, Commands
<1> HIDE DEF c
<1> QED BY <1>1, <1>2, DueKeeps

LEMMA JudgeKeeps == ASSUME IInv, NEW k \in Jobs, Judge(k) PROVE IInv'
<1>1. /\ At(k, "judge") /\ UNCHANGED <<rec, hold, flag, worker, output, reused, faults>>
      /\ flag' \in [Jobs -> BOOLEAN] /\ ~ At(k, "idle")
  BY DEF Judge, At, IInv, TypeOK
<1>2. CASE Stop(k)
  BY <1>1, <1>2, StopKeeps
<1>3. ASSUME ~ Refused(k), NEW s \in Becomes(k),
             cmd' = [cmd EXCEPT ![k].at = "update", ![k].seen.state = s]
      PROVE  IInv'
  <2> DEFINE r == [cmd[k].seen EXCEPT !.state = s]
             c == [cmd[k] EXCEPT !.at = "update", !.seen = r]
  <2>1. r.state = s /\ r.pid = cmd[k].seen.pid
    BY CommandTyped DEF IInv
  <2>2. s \in Ends \cup Active \cup {"none", "queued"} /\ Publishable(k, r)
    <3> HIDE DEF r
    <3> QED BY <1>1, <1>3, <2>1, BecomesPublishable
  <2>3. r \in Records
    BY <2>2, CommandTyped DEF IInv, Records
  <2>4. cmd' = [cmd EXCEPT ![k] = c]
    BY <1>3
  <2> HIDE DEF r
  <2>5. c \in Commands /\ c.at = "update" /\ c.seen = r
    BY <2>3, CommandTyped DEF IInv, Commands
  <2> HIDE DEF c
  <2> QED BY <1>1, <2>2, <2>4, <2>5, DueKeeps
<1>4. ASSUME ~ Refused(k), NEW s \in Becomes(k), s = cmd[k].seen.state, Go(k, "flag")
      PROVE  IInv'
  <2>1. Publishable(k, cmd[k].seen)
    BY <1>1, <1>4, BecomesPublishable
  <2> QED BY <1>1, <1>4, <2>1, GoDueKeeps
<1> QED BY <1>2, <1>3, <1>4 DEF Judge, Refreshed

LEMMA UpdateKeeps == ASSUME IInv, NEW k \in Jobs, Update(k) PROVE IInv'
<1> USE DEF Update
<1> DEFINE r == cmd[k].seen
           c == [cmd[k] EXCEPT !.at = "flag"]
<1>1. At(k, "update") /\ r \in Records /\ Publishable(k, r) /\ wpc[k] # "unborn"
  BY CommandTyped DEF IInv, Talk, Due, At, Records
<1>2. c \in Commands /\ c.at = "flag" /\ c.seen = r
  BY CommandTyped DEF IInv, Commands
<1>3. CASE rec' = [rec EXCEPT ![k] = r] /\ Go(k, "flag") /\ UNCHANGED <<hold, faults>>
  <2>1. cmd' = [cmd EXCEPT ![k] = c]
    BY <1>3 DEF Go
  <2> HIDE DEF r, c
  <2> QED BY <1>1, <1>2, <1>3, <2>1, PublishedKeeps DEF At
<1>4. CASE rec' = [rec EXCEPT ![k] = r] /\ Stop(k) /\ UNCHANGED <<hold, faults>>
  <2> HIDE DEF r, c
  <2> QED BY <1>1, <1>4, IdleTyped, PublishedKeeps DEF At, Stop
<1>5. CASE /\ Fault /\ Stop(k) /\ hold' \in {hold, [hold EXCEPT ![k] = r]} /\ UNCHANGED rec
  <2> HIDE DEF r, c
  <2> QED BY <1>1, <1>5, UnpublishedKeeps DEF At
<1> QED BY <1>3, <1>4, <1>5 DEF Publish, Refreshed

LEMMA WriteFlagKeeps == ASSUME IInv, NEW k \in Jobs, WriteFlag(k) PROVE IInv'
<1>1. At(k, "flag") /\ Publishable(k, cmd[k].seen)
  BY DEF WriteFlag, IInv, Talk, Due, At
<1>2. flag' \in [Jobs -> BOOLEAN]
  BY DEF WriteFlag, IInv, TypeOK
<1> QED BY <1>1, <1>2, GoDueKeeps DEF WriteFlag, At

LEMMA MarkKeeps == ASSUME IInv, NEW k \in Jobs, Mark(k) PROVE IInv'
<1> USE DEF Mark
<1> DEFINE r == cmd[k].seen
<1>1. At(k, "mark") /\ r \in Records /\ Publishable(k, r) /\ wpc[k] # "unborn"
  BY CommandTyped DEF IInv, Talk, Due, At, Records
<1>2. CASE rec' = [rec EXCEPT ![k] = r] /\ Stop(k) /\ UNCHANGED <<hold, faults>>
  <2> HIDE DEF r
  <2> QED BY <1>1, <1>2, IdleTyped, PublishedKeeps DEF At, Stop
<1>3. CASE /\ Fault /\ Stop(k) /\ hold' \in {hold, [hold EXCEPT ![k] = r]} /\ UNCHANGED rec
  <2> HIDE DEF r
  <2> QED BY <1>1, <1>3, UnpublishedKeeps DEF At
<1> QED BY <1>2, <1>3 DEF Publish

LEMMA RunnerDiesKeeps == ASSUME IInv, NEW k \in Jobs, RunnerDies(k) PROVE IInv'
<1>1. rec[k] \in Records /\ Publishable(k, rec[k]) /\ wpc[k] # "unborn"
  BY DEF RunnerDies, IInv, TypeOK, Talk
<1> QED BY <1>1, UnpublishedKeeps DEF RunnerDies

LEMMA PidReusedKeeps == ASSUME IInv, NEW k \in Jobs, PidReused(k) PROVE IInv'
<1> USE DEF PidReused
<1>1. TypeOK'
  BY JobConstants DEF IInv, TypeOK, runner, worker, output, Fault
<1>2. \A j \in Jobs : rec'[j] = rec[j] /\ hold'[j] = hold[j] /\ cmd'[j] = cmd[j]
  BY DEF runner
<1>3. Talk(k)'
  BY <1>2 DEF IInv, Talk, Due, At, Publishable, Sound, Earned, Spawned, Over, worker, output
<1> QED BY <1>1, <1>2, <1>3, RunnerStepKeeps

-----------------------------------------------------------------------------
(* The theorems.                                                           *)

LEMMA InitKeeps == Init => IInv
<1> SUFFICES ASSUME Init PROVE IInv
  OBVIOUS
<1> USE DEF Init
<1>1. TypeOK
  <2>1. rec \in [Jobs -> Records] /\ cmd \in [Jobs -> Commands]
    BY IdleTyped
  <2>2. hold \in [Jobs -> Records \cup {None}] /\ witness \in [Jobs -> Roots \cup {None}]
    OBVIOUS
  <2>3. flag \in [Jobs -> BOOLEAN] /\ wpc \in [Jobs -> Control]
    BY DEF Control
  <2>4. left \in [Jobs -> 0 .. Steps] /\ rc \in [Jobs -> 0 .. 2] /\ faults \in 0 .. MaxFaults
    BY JobConstants
  <2>5. /\ progress \in [Jobs -> {"absent", "empty"} \cup DOMAIN Stands]
        /\ summary \in [Jobs -> {"absent", "empty"} \cup DOMAIN Outcome]
        /\ stuck \in [Jobs -> SUBSET {"progress", "summary"}]
    OBVIOUS
  <2>6. root \in Roots \cup {None}
    <3>1. [owner |-> Legacy, done |-> TRUE] \in Roots /\ [owner |-> Legacy, done |-> FALSE] \in Roots
      BY Zenon DEF Roots
    <3> QED BY <3>1, Zenon
  <2> HIDE DEF Init
  <2>7. earned \subseteq Jobs /\ raced \subseteq Jobs \cup {Legacy} /\ reused \subseteq Jobs
    BY DEF Init
  <2> QED BY <2>1, <2>2, <2>3, <2>4, <2>5, <2>6, <2>7 DEF TypeOK
<1>2. ASSUME NEW j \in Jobs PROVE Disk(j) /\ Owned(j)
  BY DEF Disk, Owned, Outcome, Owning, Simulating
<1>3. ASSUME NEW j \in Jobs PROVE Talk(j)
  BY IdleTyped DEF Talk, Due, At, Publishable, Sound, Ends
<1> QED BY <1>1, <1>2, <1>3 DEF IInv

LEMMA StepKeepsAll == IInv /\ [JobsNext]_vars => IInv'
<1> SUFFICES ASSUME IInv, [JobsNext]_vars PROVE IInv'
  OBVIOUS
<1>1. ASSUME NEW k \in Jobs, JobNext(k) PROVE IInv'
  <2>1. CASE Submit(k) \/ Begin(k, "status") \/ Begin(k, "cancel") \/ Recover(k)
    BY <2>1, SubmitKeeps, BeginKeeps, RecoverKeeps
  <2>2. CASE RunnerStep(k)
    BY <2>2, QueueKeeps, SpawnKeeps, LaunchedKeeps, MergeKeeps, ProbeKeeps, JudgeKeeps,
       UpdateKeeps, WriteFlagKeeps, MarkKeeps DEF RunnerStep
  <2>3. CASE WorkerStep(k)
    BY <2>3, LookKeeps, RecheckKeeps, RetireKeeps, ClaimKeeps, ReserveKeeps, PollKeeps,
       StepKeeps, WriteSummaryKeeps, WriteFinalKeeps, FinishRootKeeps DEF WorkerStep
  <2>4. CASE Failure(k)
    BY <2>4, RunnerDiesKeeps, WorkerDiesKeeps, PidReusedKeeps DEF Failure
  <2> QED BY <1>1, <2>1, <2>2, <2>3, <2>4 DEF JobNext
<1>2. CASE UNCHANGED vars
  BY <1>2 DEF vars, runner, worker, output, IInv, TypeOK, Disk, Owned, Talk, Due, At,
     Publishable, Sound, Earned, Spawned, Over
<1> QED BY <1>1, <1>2 DEF JobsNext

\* The invariant above holds in every behaviour of the runner and its workers.
THEOREM Invariance == Spec => []IInv
BY InitKeeps, StepKeepsAll, PTL DEF Spec

\* Every variable keeps to its type.
THEOREM TypeCorrect == Spec => []TypeOK
BY Invariance, PTL DEF IInv

\* A job is recorded as completed only by its own worker's doing, whatever
\* commands, workers and faults interleave (refresh_job_status_record).
THEOREM EndsAreEarned == Spec => []CompletedIsEarned
<1>1. IInv => CompletedIsEarned
  BY DEF IInv, Talk, Publishable, Earned, CompletedIsEarned
<1> QED BY <1>1, Invariance, PTL

\* No end is recorded for a worker that still simulates.
THEOREM NoEndForTheLiving == Spec => []NoLiveEnd
<1>1. IInv => NoLiveEnd
  BY DEF IInv, Talk, Publishable, Sound, Over, Simulating, NoLiveEnd
<1> QED BY <1>1, Invariance, PTL

\* A worker that claimed the root has it until it is moved aside in the gap
\* between the last check of another job and its rename.
THEOREM RootStaysMine == Spec => []RootIsMine
<1>1. IInv => RootIsMine
  BY DEF IInv, Owned, Owning, Simulating, RootIsMine
<1> QED BY <1>1, Invariance, PTL

\* What a step makes of a record could be published before it.
LEMMA RecordStep ==
  ASSUME IInv, NEW k \in Jobs, JobNext(k), NEW j \in Jobs
  PROVE  rec'[j] = rec[j] \/ Publishable(j, rec'[j])
<1>1. rec \in [Jobs -> Records] /\ Talk(j)
  BY DEF IInv, TypeOK
<1>2. CASE Queue(k)
  <2>1. \A r : rec[k].state = "none" /\ r = [state |-> "queued", pid |-> FALSE] => Publishable(k, r)
    BY DEF Publishable, Sound, Ends
  <2>2. rec[k].state = "none"
    BY <1>2 DEF Queue, IInv, Talk
  <2> QED BY <1>1, <1>2, <2>1, <2>2 DEF Queue, Publish
<1>3. CASE Launched(k) \/ Update(k) \/ Mark(k)
  <2>1. Publishable(k, cmd[k].seen)
    BY <1>3 DEF IInv, Talk, Due, At, Launched, Update, Mark
  <2> QED BY <1>1, <1>3, <2>1 DEF Launched, Update, Mark, Publish
<1>4. CASE Recover(k)
  BY <1>1, <1>4 DEF Recover, IInv, Talk
<1>5. CASE Submit(k) \/ Begin(k, "status") \/ Begin(k, "cancel")
  BY <1>5 DEF Submit, Begin
<1>6. CASE Spawn(k) \/ Merge(k) \/ Probe(k) \/ Judge(k) \/ WriteFlag(k)
  BY <1>6 DEF Spawn, Merge, Probe, Judge, WriteFlag
<1>7. CASE WorkerStep(k)
  BY <1>7 DEF WorkerStep, Look, Recheck, Retire, Claim, Reserve, Poll, Step, WriteSummary,
     WriteFinal, FinishRoot, Keeps, runner
<1>8. CASE Failure(k)
  BY <1>8 DEF Failure, RunnerDies, WorkerDies, PidReused, Keeps, runner
<1> QED BY <1>2, <1>3, <1>4, <1>5, <1>6, <1>7, <1>8 DEF JobNext, RunnerStep

\* A recorded end is never left: a held publication and a late worker cannot
\* bring another one.
THEOREM EndsAreFinal == Spec => TerminalIsFinal
<1>1. ASSUME IInv, [JobsNext]_vars, NEW j \in Jobs, rec[j].state \in Ends
      PROVE  rec'[j].state = rec[j].state
  <2>1. CASE UNCHANGED vars
    BY <2>1 DEF vars, runner
  <2>2. CASE JobsNext
    BY <1>1, <2>2, RecordStep DEF JobsNext, Publishable
  <2> QED BY <1>1, <2>1, <2>2
<1>2. IInv /\ [JobsNext]_vars =>
        [\A j \in Jobs : rec[j].state \in Ends => rec'[j].state = rec[j].state]_vars
  BY <1>1
<1> QED BY <1>2, Invariance, PTL DEF Spec, TerminalIsFinal

\* A request that came in time: what the worker does from there on.
Doomed(j) == flag[j] /\ summary[j] # "passed" /\ (wpc[j] = "summary" => rc[j] # 0)

LEMMA DoomStays ==
  ASSUME IInv, NEW k \in Jobs, JobNext(k), NEW j \in Jobs, Doomed(j)
  PROVE  Doomed(j)'
<1>1. /\ flag \in [Jobs -> BOOLEAN] /\ wpc \in [Jobs -> Control] /\ rc \in [Jobs -> 0 .. 2]
      /\ summary \in [Jobs -> {"absent", "empty"} \cup DOMAIN Outcome]
  BY DEF IInv, TypeOK
<1>2. CASE Submit(k) \/ Begin(k, "status") \/ Begin(k, "cancel") \/ Recover(k)
  BY <1>1, <1>2 DEF Doomed, Submit, Begin, Recover, worker
<1>3. CASE RunnerStep(k)
  <2>1. CASE Queue(k) \/ Launched(k) \/ Update(k) \/ Mark(k)
    BY <1>1, <2>1 DEF Doomed, Queue, Launched, Update, Mark, worker
  <2>2. CASE Spawn(k)
    BY <1>1, <2>2 DEF Doomed, Spawn
  <2>3. CASE Merge(k) \/ Probe(k) \/ Judge(k)
    BY <1>1, <2>3 DEF Doomed, Merge, Probe, Judge, worker
  <2>4. CASE WriteFlag(k)
    BY <1>1, <2>4 DEF Doomed, WriteFlag, worker
  <2> QED BY <1>3, <2>1, <2>2, <2>3, <2>4 DEF RunnerStep
<1>4. CASE WorkerStep(k)
  <2>1. flag'[j] = flag[j]
    BY <1>4 DEF WorkerStep, Look, Recheck, Retire, Claim, Reserve, Poll, Step, WriteSummary,
       WriteFinal, FinishRoot, Keeps, runner
  <2>2. CASE Look(k) \/ Recheck(k) \/ Retire(k) \/ Claim(k)
    BY <1>1, <2>1, <2>2 DEF Doomed, Look, Recheck, Retire, Claim, Goto
  <2>3. CASE Reserve(k)
    BY <1>1, <2>1, <2>3 DEF Doomed, Reserve, Goto
  <2>4. CASE Poll(k) \/ Step(k)
    BY <1>1, <2>1, <2>4 DEF Doomed, Poll, Step, End, Goto
  <2>5. CASE WriteSummary(k)
    BY <1>1, <2>1, <2>5 DEF Doomed, WriteSummary, Label, Goto
  <2>6. CASE WriteFinal(k) \/ FinishRoot(k)
    BY <1>1, <2>1, <2>6 DEF Doomed, WriteFinal, FinishRoot, Goto
  <2> QED BY <1>4, <2>2, <2>3, <2>4, <2>5, <2>6 DEF WorkerStep
<1>5. CASE Failure(k)
  BY <1>1, <1>5 DEF Doomed, Failure, RunnerDies, WorkerDies, PidReused, Goto, Keeps, runner, worker
<1> QED BY <1>2, <1>3, <1>4, <1>5 DEF JobNext

\* A flag that is there before the worker's last poll keeps the job from ever
\* passing, whatever dies or fails afterwards.
THEOREM CancelIsHonoured == Spec => CancelHonoured
<1> SUFFICES ASSUME NEW j \in Jobs
    PROVE  Spec => [](flag[j] /\ wpc[j] \in Control \ {"summary", "final", "finish", "gone"}
                        => [](summary[j] # "passed"))
  BY DEF CancelHonoured
<1> DEFINE Early == flag[j] /\ wpc[j] \in Control \ {"summary", "final", "finish", "gone"}
<1>1. IInv /\ Early => Doomed(j)
  BY DEF IInv, Disk, Outcome, Doomed
<1>2. IInv /\ Doomed(j) /\ [JobsNext]_vars => Doomed(j)'
  <2> SUFFICES ASSUME IInv, Doomed(j), [JobsNext]_vars PROVE Doomed(j)'
    OBVIOUS
  <2>1. CASE JobsNext
    BY <2>1, DoomStays DEF JobsNext
  <2>2. CASE UNCHANGED vars
    BY <2>2 DEF Doomed, vars, runner, worker
  <2> QED BY <2>1, <2>2
<1>3. Doomed(j) => summary[j] # "passed"
  BY DEF Doomed
<1> QED BY <1>1, <1>2, <1>3, Invariance, PTL DEF Spec
=============================================================================
