------------------------------- MODULE JobPair -------------------------------
(***************************************************************************)
(* Publication and recovery of a native job's metadata pair:               *)
(* job_status.json and output/report.json.                                 *)
(*                                                                         *)
(* Runner commands (submit, status, cancel) take the operation lock of the *)
(* job root without waiting and refuse a root that carries a publication   *)
(* hold (physics_sim_job_guard.c).  A publication retains both generations *)
(* in a private attempt directory, writes the hold, renames the two files  *)
(* one after the other, records completion and removes the hold            *)
(* (physics_sim_job_file.c).  Two renames are never one step, so a crash   *)
(* can leave a mixed pair: the hold then keeps every reader out until an   *)
(* operator runs job_pair_recovery.py, which rolls the pair back or        *)
(* forward and can itself be killed and resumed anywhere.                  *)
(*                                                                         *)
(* Faults are the death of a process (the kernel drops its lock) and the   *)
(* failure of a call; storage is assumed to keep what was written.         *)
(***************************************************************************)
EXTENDS FiniteSets, Naturals

CONSTANTS
  Procs,        \* processes: runner commands and recovery operators
  Attempts,     \* names of publication attempts, .job-pair-PID-SEQ
  Absent,       \* a target or a retained slot that holds no file
  Legacy,       \* the bytes a file had before the first modelled attempt
  None,         \* no process, no attempt, no hold, no plan
  Torn,         \* a hold file that exists with incomplete bytes
  Found,        \* the pairs a job root may hold before the first modelled attempt
  MaxFaults,    \* bound on crashes and failed calls
  MaxStaged     \* recovery stages an attempt directory may retain

Slots == {"status", "report"}

\* A report is never there without a status beside it.
Before == {p \in [Slots -> {Absent, Legacy}] :
             p["status"] = Absent => p["report"] = Absent}

ASSUME DistinctNames ==
  /\ None \notin Procs \cup Attempts
  /\ Torn \notin Attempts \cup {None}
  /\ Absent \notin Attempts
  /\ Legacy \notin Attempts
  /\ Absent # Legacy
ASSUME FoundBefore == Found \subseteq Before
ASSUME BoundsAreNat == MaxFaults \in Nat /\ MaxStaged \in Nat

VARIABLES
  owner,        \* process that holds the operation lock exclusively, or None
  target,       \* bytes of the two live files
  hold,         \* the publication hold: None, Torn, or the attempt it names
  old, new,     \* attempt -> the retained generations
  marks,        \* attempt -> records written into its directory
  displaced,    \* attempt -> files recovery moved out of the way
  staged,       \* attempt -> recovery stage files left in its directory
  pc,           \* process -> control point
  attempt,      \* process -> the attempt it works on
  seen,         \* process -> what it has read under the guard
  plan,         \* process -> the evidence an operator reviewed, or None
  way,          \* process -> direction of the recovery it runs
  slot,         \* process -> the slot its recovery is working on
  faults        \* crashes and failed calls so far

vars == <<owner, target, hold, old, new, marks, displaced, staged,
          pc, attempt, seen, plan, way, slot, faults>>

disk   == <<target, hold, old, new, marks, displaced, staged>>
locals == <<attempt, seen, plan, way, slot>>

Bytes == Attempts \cup {Absent, Legacy}
Pair  == [Slots -> Bytes]
Nothing == [s \in Slots |-> Absent]

Ways   == {"rollback", "forward"}
Intent(d) == IF d = "forward" THEN "forward-intent" ELSE "rollback-intent"
Receipt(d) == IF d = "forward" THEN "forwarded" ELSE "rolled-back"
Marks  == {"copies", "plan", "completed-torn", "completed",
           "rollback-intent", "rolled-back", "forward-intent", "forwarded"}

Reading    == {"guarded", "status-read", "read"}
Publishing == {"prepared", "capsule", "retained", "planned", "hold-open",
               "held", "status-live", "report-live", "completing", "complete"}
Recovering == {"intent-stage", "intent", "stage", "retain", "restore",
               "receipt-stage", "receipt", "clear"}
Control    == {"idle", "returned"} \cup Reading \cup Publishing \cup Recovering

(***************************************************************************)
(* What an operator's plan binds: every byte the recovery looks at.        *)
(***************************************************************************)
Evidence ==
  IF hold \in Attempts
  THEN [attempt |-> hold, target |-> target, marks |-> marks[hold],
        displaced |-> displaced[hold], staged |-> staged[hold]]
  ELSE None

Evidences == [attempt : Attempts, target : Pair, marks : SUBSET Marks,
              displaced : Pair, staged : Nat]

Init ==
  /\ target \in Found
  /\ owner = None
  /\ hold = None
  /\ old = [a \in Attempts |-> Nothing]
  /\ new = [a \in Attempts |-> Nothing]
  /\ marks = [a \in Attempts |-> {}]
  /\ displaced = [a \in Attempts |-> Nothing]
  /\ staged = [a \in Attempts |-> 0]
  /\ pc = [p \in Procs |-> "idle"]
  /\ attempt = [p \in Procs |-> None]
  /\ seen = [p \in Procs |-> Nothing]
  /\ plan = [p \in Procs |-> None]
  /\ way = [p \in Procs |-> "rollback"]
  /\ slot = [p \in Procs |-> "status"]
  /\ faults = 0

Goto(p, from, to) == /\ pc[p] = from
                     /\ pc' = [pc EXCEPT ![p] = to]

Mark(a, m) == marks' = [marks EXCEPT ![a] = @ \cup {m}]

-----------------------------------------------------------------------------
(* The operation guard.                                                    *)

\* Mutant: the hold is not looked for at admission.
GuardBeginUnheld(p) ==
  /\ owner = None
  /\ Goto(p, "idle", "guarded")
  /\ owner' = p
  /\ UNCHANGED <<disk, locals, faults>>

\* The lock is tried, never awaited; a root with a hold of any kind is
\* refused and the lock dropped again, which leaves no trace.
GuardBegin(p) ==
  /\ owner = None
  /\ hold = None
  /\ Goto(p, "idle", "guarded")
  /\ owner' = p
  /\ UNCHANGED <<disk, locals, faults>>

GuardEnd(p) ==
  /\ pc[p] \in Reading \cup {"returned"}
  /\ pc' = [pc EXCEPT ![p] = "idle"]
  /\ owner' = None
  /\ seen' = [seen EXCEPT ![p] = Nothing]
  /\ attempt' = [attempt EXCEPT ![p] = None]
  /\ UNCHANGED <<disk, plan, way, slot, faults>>

(* status and cancel load the status record, then the report beside it. *)
LoadStatus(p) ==
  /\ Goto(p, "guarded", "status-read")
  /\ seen' = [seen EXCEPT ![p]["status"] = target["status"]]
  /\ UNCHANGED <<owner, disk, attempt, plan, way, slot, faults>>

LoadReport(p) ==
  /\ Goto(p, "status-read", "read")
  /\ seen' = [seen EXCEPT ![p]["report"] = target["report"]]
  /\ UNCHANGED <<owner, disk, attempt, plan, way, slot, faults>>

-----------------------------------------------------------------------------
(* Publication of a pair.                                                  *)

\* Both files are serialised into stages next to their targets and checked.
\* A report or a status may come out with the very bytes it had before.
\* The predecessor each stage was opened over is old[a].
Prepare(p) ==
  /\ pc[p] \in {"guarded", "read"}
  /\ pc' = [pc EXCEPT ![p] = "prepared"]
  /\ \E a \in Attempts, fresh \in SUBSET Slots :
       /\ \A q \in Procs : attempt[q] # a
       /\ "copies" \notin marks[a] /\ old[a] = Nothing /\ new[a] = Nothing
       /\ \A s \in Slots : target[s] = Absent => s \in fresh
       /\ attempt' = [attempt EXCEPT ![p] = a]
       /\ old' = [old EXCEPT ![a] = target]
       /\ new' = [new EXCEPT ![a] =
                    [s \in Slots |-> IF s \in fresh THEN a ELSE target[s]]]
  /\ seen' = [seen EXCEPT ![p] = Nothing]
  /\ UNCHANGED <<owner, target, hold, marks, displaced, staged,
                 plan, way, slot, faults>>

\* Refused when a hold is already there; otherwise the attempt directory.
MakeCapsule(p) ==
  /\ hold = None
  /\ Goto(p, "prepared", "capsule")
  /\ UNCHANGED <<owner, disk, locals, faults>>

RetainCopies(p) ==
  /\ Goto(p, "capsule", "retained")
  /\ Mark(attempt[p], "copies")
  /\ UNCHANGED <<owner, target, hold, old, new, displaced, staged, locals, faults>>

WritePlan(p) ==
  /\ Goto(p, "retained", "planned")
  /\ Mark(attempt[p], "plan")
  /\ UNCHANGED <<owner, target, hold, old, new, displaced, staged, locals, faults>>

\* The hold is created empty (O_EXCL) and then filled: death in between
\* leaves a hold that names nothing.
OpenHold(p) ==
  /\ hold = None
  /\ Goto(p, "planned", "hold-open")
  /\ hold' = Torn
  /\ UNCHANGED <<owner, target, old, new, marks, displaced, staged, locals, faults>>

FillHold(p) ==
  /\ Goto(p, "hold-open", "held")
  /\ hold' = attempt[p]
  /\ UNCHANGED <<owner, target, old, new, marks, displaced, staged, locals, faults>>

\* A file is ready while the bytes it replaces are the ones it was opened over.
Ready(p, s) == target[s] = old[attempt[p]][s]

PublishStatus(p) ==
  /\ Goto(p, "held", "status-live")
  /\ Ready(p, "status") /\ Ready(p, "report")
  /\ target' = [target EXCEPT !["status"] = new[attempt[p]]["status"]]
  /\ UNCHANGED <<owner, hold, old, new, marks, displaced, staged, locals, faults>>

PublishReport(p) ==
  /\ Goto(p, "status-live", "report-live")
  /\ hold = attempt[p]
  /\ Ready(p, "report")
  /\ target' = [target EXCEPT !["report"] = new[attempt[p]]["report"]]
  /\ UNCHANGED <<owner, hold, old, new, marks, displaced, staged, locals, faults>>

\* The completion record is written in place, so it too can be left torn.
OpenCompleted(p) ==
  /\ Goto(p, "report-live", "completing")
  /\ target = new[attempt[p]]
  /\ Mark(attempt[p], "completed-torn")
  /\ UNCHANGED <<owner, target, hold, old, new, displaced, staged, locals, faults>>

WriteCompleted(p) ==
  /\ Goto(p, "completing", "complete")
  /\ marks' = [marks EXCEPT ![attempt[p]] =
                 (@ \ {"completed-torn"}) \cup {"completed"}]
  /\ UNCHANGED <<owner, target, hold, old, new, displaced, staged, locals, faults>>

\* Mutant: the hold goes after the first of the two renames.
ReleaseHoldEarly(p) ==
  /\ Goto(p, "status-live", "guarded")
  /\ hold = attempt[p]
  /\ hold' = None
  /\ attempt' = [attempt EXCEPT ![p] = None]
  /\ UNCHANGED <<owner, target, old, new, marks, displaced, staged,
                 seen, plan, way, slot, faults>>

\* Everything is read back once more before the hold is removed.
ReleaseHold(p) ==
  /\ Goto(p, "complete", "guarded")
  /\ hold = attempt[p]
  /\ target = new[attempt[p]]
  /\ hold' = None
  /\ attempt' = [attempt EXCEPT ![p] = None]
  /\ UNCHANGED <<owner, target, old, new, marks, displaced, staged,
                 seen, plan, way, slot, faults>>

\* Mutant: a failed publication tidies up its hold.
PublishFailsTidily(p) ==
  /\ faults < MaxFaults
  /\ pc[p] \in Publishing
  /\ pc' = [pc EXCEPT ![p] = "returned"]
  /\ hold' = None
  /\ faults' = faults + 1
  /\ UNCHANGED <<owner, target, old, new, marks, displaced, staged, locals>>

\* Any failed call sends the publication to its exit: nothing is undone.
PublishFails(p) ==
  /\ faults < MaxFaults
  /\ pc[p] \in Publishing
  /\ pc' = [pc EXCEPT ![p] = "returned"]
  /\ faults' = faults + 1
  /\ UNCHANGED <<owner, disk, locals>>

-----------------------------------------------------------------------------
(* What a recovery admits.                                                 *)

Forwarding(a)  == marks[a] \cap {"forward-intent", "forwarded"} # {}
RollingBack(a) == marks[a] \cap {"rollback-intent", "rolled-back"} # {}

\* The retained generation that a direction restores.
Restored(d, a) == IF d = "forward" THEN new[a] ELSE old[a]

\* Whole-evidence inspection: every state it does not recognise stays held.
\* A slot may be in either generation, or away while its displaced bytes
\* wait for the restore; a displaced slot can only come back as desired.
Inspectable ==
  /\ hold \in Attempts
  /\ {"copies", "plan"} \subseteq marks[hold]
  /\ "completed-torn" \notin marks[hold]
  /\ staged[hold] <= MaxStaged
  /\ ~ (Forwarding(hold) /\ RollingBack(hold))
  /\ \A d \in Ways :
       Receipt(d) \in marks[hold] => /\ Intent(d) \in marks[hold]
                                     /\ target = Restored(d, hold)
  /\ displaced[hold] # Nothing =>
       marks[hold] \cap {Intent(d) : d \in Ways} # {}
  /\ \A s \in Slots :
       LET was  == old[hold][s]
           away == displaced[hold][s]
           want == Restored(IF Forwarding(hold) THEN "forward" ELSE "rollback",
                            hold)[s]
       IN /\ {target[s], away} \subseteq {was, new[hold][s], Absent}
          /\ was # Absent /\ target[s] = Absent => away # Absent
          /\ away # Absent /\ target[s] # Absent => target[s] = want

\* The read-only plan, under the shared lock: nobody owns the root meanwhile.
Review(q) ==
  /\ pc[q] = "idle"
  /\ owner = None
  /\ Inspectable
  /\ plan[q] # Evidence
  /\ plan' = [plan EXCEPT ![q] = Evidence]
  /\ UNCHANGED <<owner, disk, pc, attempt, seen, way, slot, faults>>

-----------------------------------------------------------------------------
(* Recovery.  Each step inspects the whole evidence before it acts; the    *)
(* inspection after a step is the one before the next.                     *)

\* Mutant: a direction selected earlier is not consulted.
RecoverStartEither(q, d) ==
  /\ owner = None
  /\ Inspectable
  /\ plan[q] = Evidence
  /\ Goto(q, "idle", "intent-stage")
  /\ owner' = q
  /\ way' = [way EXCEPT ![q] = d]
  /\ slot' = [slot EXCEPT ![q] = "status"]
  /\ UNCHANGED <<disk, attempt, seen, plan, faults>>

RecoverStart(q, d) ==
  /\ owner = None
  /\ Inspectable
  /\ plan[q] = Evidence
  /\ d = "forward" => ~ RollingBack(hold)
  /\ d = "rollback" => ~ Forwarding(hold)
  /\ Goto(q, "idle", "intent-stage")
  /\ owner' = q
  /\ way' = [way EXCEPT ![q] = d]
  /\ slot' = [slot EXCEPT ![q] = "status"]
  /\ UNCHANGED <<disk, attempt, seen, plan, faults>>

\* A record is staged unless an interrupted recovery already left it.
StageRecord(q, m, from, install, skip) ==
  /\ Inspectable
  /\ \/ /\ m \in marks[hold]
        /\ Goto(q, from, skip)
        /\ UNCHANGED staged
     \/ /\ m \notin marks[hold]
        /\ Goto(q, from, install)
        /\ staged' = [staged EXCEPT ![hold] = @ + 1]
  /\ UNCHANGED <<owner, target, hold, old, new, marks, displaced, locals, faults>>

\* The stage is renamed to the record.
InstallRecord(q, m, from, to) ==
  /\ Goto(q, from, to)
  /\ Inspectable
  /\ Mark(hold, m)
  /\ staged' = [staged EXCEPT ![hold] = @ - 1]
  /\ UNCHANGED <<owner, target, hold, old, new, displaced, locals, faults>>

StageIntent(q)   == StageRecord(q, Intent(way[q]), "intent-stage", "intent", "stage")
InstallIntent(q) == InstallRecord(q, Intent(way[q]), "intent", "stage")

Wanted(q) == Restored(way[q], hold)[slot[q]]

\* After a slot comes the other one, then the completion record.
NextSlot(q, from) ==
  /\ pc[q] = from
  /\ pc' = [pc EXCEPT ![q] = IF slot[q] = "status" THEN "stage" ELSE "receipt-stage"]
  /\ slot' = [slot EXCEPT ![q] = "report"]

\* The restored bytes are staged, unless the slot already has them.
StageSlot(q) ==
  /\ pc[q] = "stage"
  /\ Inspectable
  /\ \/ /\ target[slot[q]] = Wanted(q)
        /\ NextSlot(q, "stage")
        /\ UNCHANGED staged
     \/ /\ target[slot[q]] # Wanted(q)
        /\ Goto(q, "stage", IF target[slot[q]] = Absent THEN "restore" ELSE "retain")
        /\ staged' = [staged EXCEPT ![hold] =
                        IF Wanted(q) = Absent THEN @ ELSE @ + 1]
        /\ UNCHANGED slot
  /\ UNCHANGED <<owner, target, hold, old, new, marks, displaced,
                 attempt, seen, plan, way, faults>>

\* Mutant: the current file is unlinked instead of moved aside.
RetainSlotNowhere(q) ==
  /\ pc[q] = "retain"
  /\ Inspectable
  /\ target' = [target EXCEPT ![slot[q]] = Absent]
  /\ \/ Wanted(q) = Absent /\ NextSlot(q, "retain")
     \/ Wanted(q) # Absent /\ Goto(q, "retain", "restore") /\ UNCHANGED slot
  /\ UNCHANGED <<owner, hold, old, new, marks, displaced, staged,
                 attempt, seen, plan, way, faults>>

\* The current file is moved aside, never overwritten.
RetainSlot(q) ==
  /\ pc[q] = "retain"
  /\ Inspectable
  /\ displaced[hold][slot[q]] = Absent
  /\ displaced' = [displaced EXCEPT ![hold][slot[q]] = target[slot[q]]]
  /\ target' = [target EXCEPT ![slot[q]] = Absent]
  /\ \/ Wanted(q) = Absent /\ NextSlot(q, "retain")
     \/ Wanted(q) # Absent /\ Goto(q, "retain", "restore") /\ UNCHANGED slot
  /\ UNCHANGED <<owner, hold, old, new, marks, staged,
                 attempt, seen, plan, way, faults>>

RestoreSlot(q) ==
  /\ NextSlot(q, "restore")
  /\ Inspectable
  /\ target[slot[q]] = Absent
  /\ target' = [target EXCEPT ![slot[q]] = Wanted(q)]
  /\ staged' = [staged EXCEPT ![hold] = @ - 1]
  /\ UNCHANGED <<owner, hold, old, new, marks, displaced,
                 attempt, seen, plan, way, faults>>

\* Mutant: the readback compares with the candidate, whatever the direction.
StageReceiptOfNew(q) ==
  /\ pc[q] = "receipt-stage"
  /\ hold \in Attempts
  /\ target = new[hold]
  /\ StageRecord(q, Receipt(way[q]), "receipt-stage", "receipt", "clear")

StageReceipt(q) ==
  /\ pc[q] = "receipt-stage"
  /\ hold \in Attempts
  /\ target = Restored(way[q], hold)
  /\ StageRecord(q, Receipt(way[q]), "receipt-stage", "receipt", "clear")

InstallReceipt(q) == InstallRecord(q, Receipt(way[q]), "receipt", "clear")

\* Mutant: the hold goes once the intent is recorded, before the slots.
ClearHoldFirst(q) ==
  /\ Goto(q, "stage", "idle")
  /\ Inspectable
  /\ hold' = None
  /\ owner' = None
  /\ UNCHANGED <<target, old, new, marks, displaced, staged, locals, faults>>

\* The hold goes last, and the lock with the recovery process.
ClearHold(q) ==
  /\ Goto(q, "clear", "idle")
  /\ Inspectable
  /\ hold' = None
  /\ owner' = None
  /\ UNCHANGED <<target, old, new, marks, displaced, staged, locals, faults>>

-----------------------------------------------------------------------------
(* Ends that complete nothing.                                             *)

\* The disk and the digest the operator noted remain; the kernel drops the lock.
Leave(p) ==
  /\ pc' = [pc EXCEPT ![p] = "idle"]
  /\ owner' = None
  /\ attempt' = [attempt EXCEPT ![p] = None]
  /\ seen' = [seen EXCEPT ![p] = Nothing]
  /\ UNCHANGED <<disk, plan, way, slot>>

\* Recovery meets evidence it does not admit (too many stages) and raises.
RecoverRefused(q) ==
  /\ pc[q] \in Recovering
  /\ ~ Inspectable
  /\ Leave(q)
  /\ UNCHANGED faults

\* Death, or an exception out of a recovery: nothing is undone.
Crash(p) ==
  /\ faults < MaxFaults
  /\ pc[p] # "idle"
  /\ Leave(p)
  /\ faults' = faults + 1

Command(p) ==
  \/ GuardBegin(p) \/ GuardEnd(p) \/ LoadStatus(p) \/ LoadReport(p)
  \/ Prepare(p)

Publication(p) ==
  \/ MakeCapsule(p) \/ RetainCopies(p) \/ WritePlan(p)
  \/ OpenHold(p) \/ FillHold(p) \/ PublishStatus(p) \/ PublishReport(p)
  \/ OpenCompleted(p) \/ WriteCompleted(p) \/ ReleaseHold(p)

Recovery(q) ==
  \/ StageIntent(q) \/ InstallIntent(q) \/ StageSlot(q) \/ RetainSlot(q)
  \/ RestoreSlot(q) \/ StageReceipt(q) \/ InstallReceipt(q) \/ ClearHold(q)
  \/ RecoverRefused(q)

Next ==
  \E p \in Procs :
    \/ Command(p) \/ Publication(p) \/ PublishFails(p)
    \/ Review(p) \/ (\E d \in Ways : RecoverStart(p, d)) \/ Recovery(p)
    \/ Crash(p)

Spec == Init /\ [][Next]_vars

(***************************************************************************)
(* A process that runs goes on running.  Nothing obliges anybody to start  *)
(* a command, and nothing repairs a held root by itself: progress of a     *)
(* hold is promised only to an operator who keeps reviewing and recovering.*)
(***************************************************************************)
Fairness ==
  \A p \in Procs :
    /\ WF_vars(GuardEnd(p) \/ Publication(p) \/ Recovery(p))
    /\ WF_vars(Review(p))
    /\ WF_vars(\E d \in Ways : RecoverStart(p, d))

FairSpec == Spec /\ Fairness

-----------------------------------------------------------------------------
(* Properties.                                                             *)

\* The types of the state; the count of stages never falls below zero, so a
\* recovery renames no stage that was not written.
TypeOK ==
  /\ owner \in Procs \cup {None}
  /\ target \in Pair
  /\ hold \in Attempts \cup {None, Torn}
  /\ old \in [Attempts -> Pair] /\ new \in [Attempts -> Pair]
  /\ marks \in [Attempts -> SUBSET Marks]
  /\ displaced \in [Attempts -> Pair]
  /\ staged \in [Attempts -> Nat]
  /\ pc \in [Procs -> Control]
  /\ attempt \in [Procs -> Attempts \cup {None}]
  /\ seen \in [Procs -> Pair]
  /\ plan \in [Procs -> Evidences \cup {None}]
  /\ way \in [Procs -> Ways]
  /\ slot \in [Procs -> Slots]
  /\ faults \in Nat

\* The pairs that belong together: what was there before, and what each
\* publication prepared.
Generations ==
  Before \cup {new[a] : a \in {b \in Attempts : new[b] # Nothing}}

\* Whenever no hold marks the root, the two files are of one generation:
\* no interleaving of publications, crashes and recoveries ends with a mixed
\* pair that later commands would take for a whole one.
MixedOnlyUnderHold == hold = None => target \in Generations

\* status and cancel judge a pair that was published whole, although they
\* read the two files one after the other.
ReadsWhole ==
  \A p \in Procs : pc[p] = "read" => seen[p] = target /\ seen[p] \in Generations

\* However a publication or a recovery was cut off, what it leaves is
\* evidence the recovery tool admits, so the job is not lost; the exceptions
\* are a torn completion record and too many retained stages.
HoldRecoverable ==
  /\ hold \in Attempts
  /\ owner = None
  /\ "completed-torn" \notin marks[hold]
  /\ staged[hold] <= MaxStaged
  => Inspectable

\* The direction of a recovery is chosen once: no attempt, however often its
\* recovery is killed and resumed by operators who want different things,
\* carries the intents of both.
OneDirection == \A a \in Attempts : ~ (Forwarding(a) /\ RollingBack(a))

\* A hold that goes away leaves the generation that was decided on: the one
\* the recorded intent names, or the new one of a completed publication.
IntentHonoured ==
  [][\A a \in Attempts :
       hold = a /\ hold' # a =>
         /\ hold' = None
         /\ target' = Restored(IF RollingBack(a) THEN "rollback" ELSE "forward", a)
         /\ RollingBack(a) \/ Forwarding(a) \/ "completed" \in marks[a]]_vars

(* What the guard shows: a held root is shown to nobody, and stands for the *)
(* generation it held before until the hold goes.                           *)
Register == INSTANCE PairRegister WITH
  pair    <- IF hold \in Attempts THEN old[hold] ELSE target,
  offered <- {new[a] : a \in {b \in Attempts : new[b] # Nothing}}

\* Two renames, a crash between them and a recovery of several steps are, to
\* every reader that takes the guard, one atomic change of one register.
ActsAsRegister == Register!Spec

\* An operator who keeps trying gets every hold cleared, unless a crash tore
\* the completion record or killed recoveries left more stages than the tool
\* inspects: nothing here repairs either.
HoldResolved ==
  hold \in Attempts ~>
    \/ hold \notin Attempts
    \/ "completed-torn" \in marks[hold]
    \/ staged[hold] > MaxStaged

-----------------------------------------------------------------------------
(* What makes the safety properties inductive: who holds the lock, where   *)
(* the hold stands at each control point, and what a control point knows   *)
(* about the two files.                                                    *)

\* The lock is held by the one process that is doing anything.
LockIsControl == \A p \in Procs : pc[p] # "idle" <=> owner = p

\* The attempt a publication works on is its own, fresh, and still whole.
PublicationKnows ==
  \A p \in Procs :
    /\ pc[p] \in Publishing => /\ attempt[p] \in Attempts
                               /\ new[attempt[p]] # Nothing
                               /\ ~ RollingBack(attempt[p])
                               /\ ~ Forwarding(attempt[p])
    /\ pc[p] \in {"prepared", "capsule", "retained", "planned", "hold-open"} =>
         target = old[attempt[p]]
    /\ pc[p] = "complete" => "completed" \in marks[attempt[p]]

\* Where the hold stands at each control point.
HoldFollowsControl ==
  \A p \in Procs :
    /\ pc[p] \in Reading \cup {"prepared", "capsule", "retained", "planned"} =>
         hold = None
    /\ pc[p] = "hold-open" => hold = Torn
    /\ pc[p] \in {"held", "status-live", "report-live", "completing", "complete"} =>
         hold = attempt[p]
    /\ pc[p] \in Recovering => hold \in Attempts

\* A recovery knows its direction is free, then recorded, then reached.
RecoveryKnows ==
  \A q \in Procs :
    /\ pc[q] \in {"intent-stage", "intent"} =>
         /\ way[q] = "forward" => ~ RollingBack(hold)
         /\ way[q] = "rollback" => ~ Forwarding(hold)
    /\ pc[q] \in Recovering \ {"intent-stage", "intent"} =>
         Intent(way[q]) \in marks[hold]
    /\ pc[q] \in {"receipt", "clear"} => target = Restored(way[q], hold)

\* Where a stage is about to be renamed there is one.
StagesCounted ==
  \A q \in Procs :
    /\ pc[q] \in {"intent", "receipt"} => staged[hold] > 0
    /\ pc[q] \in {"retain", "restore"} =>
         (Wanted(q) # Absent => staged[hold] > 0)
    /\ pc[q] = "restore" => Wanted(q) # Absent

\* A generation is never forgotten and no hold names an unprepared attempt.
GenerationsKept ==
  /\ \A a \in Attempts : old[a] \in Generations
  /\ \A a \in Attempts : new[a] = Nothing => marks[a] = {}
  /\ hold \in Attempts => new[hold] # Nothing

\* What a reader has read is what is there.
ReaderKnows ==
  \A p \in Procs :
    /\ pc[p] = "status-read" => seen[p]["status"] = target["status"]
    /\ pc[p] = "read" => seen[p] = target

\* The inductive invariant of JobPairProofs.
IndInv ==
  /\ TypeOK
  /\ LockIsControl
  /\ PublicationKnows
  /\ HoldFollowsControl
  /\ RecoveryKnows
  /\ StagesCounted
  /\ GenerationsKept
  /\ ReaderKnows
  /\ MixedOnlyUnderHold
  /\ OneDirection
=============================================================================
