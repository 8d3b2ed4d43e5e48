---------------------------- MODULE AgentSession ----------------------------
(***************************************************************************)
(* The agent session: short-lived service processes that start, control    *)
(* and inspect solver runs, and one worker process per run that outlives   *)
(* them.  They share only a directory per run.                             *)
(*                                                                         *)
(*   service.py   every operation holds service.lock, which the kernel     *)
(*                drops when its process dies; several files are written   *)
(*                one after the other, each atomically.                    *)
(*   worker.c     holds owner.lock from before it exists (the descriptor   *)
(*                is inherited) until it dies; reads numbered command      *)
(*                files, publishes snapshots, writes numbered receipts.    *)
(*                                                                         *)
(* Faults are the death of a process, a signal, a failed write or export   *)
(* of the worker; the five second wait for a worker that is slow to come   *)
(* up may elapse a bounded number of times.                                *)
(***************************************************************************)
EXTENDS FiniteSetsExt, Naturals

CONSTANTS
  Clients,      \* service processes, each serving one call at a time
  Runs,         \* run ids
  Pauses, Continues, Steps, Cancels,    \* command ids, by action
  Interruptible,                        \* the solver polls inside a step
  Limit,        \* ticks after which a run is complete
  None,
  MaxFaults,    \* bound on deaths, signals and failed writes
  MaxTimeouts   \* bound on startup waits that elapse

Commands == Pauses \cup Continues \cup Steps \cup Cancels

Verdicts == {"applied", "rejected", "cancelled", "failed"}
Answers  == Verdicts \cup {"not_applied"}

ASSUME CommandsAreDisjoint ==
  /\ Pauses \cap (Continues \cup Steps \cup Cancels) = {}
  /\ Continues \cap (Steps \cup Cancels) = {}
  /\ Steps \cap Cancels = {}
  /\ IsFiniteSet(Commands)
ASSUME NoneIsNobody == None \notin Clients \cup Runs \cup Commands \cup Verdicts
ASSUME SessionBounds ==
  /\ Limit \in Nat \ {0} /\ MaxFaults \in Nat /\ MaxTimeouts \in Nat
  /\ Interruptible \in BOOLEAN

VARIABLES
  lock,         \* the client that holds service.lock, or None
  pc, op, view, \* client -> control point, call, status it has read
  made, request, ready,     \* run -> its directory, request.json and ready exist
  snap,         \* run -> snapshot.json; an absent one reads as Starting
  ids,          \* run -> command -> the sequence its identity file names, or 0
  commands,     \* run -> sequence -> the command file, or None
  receipts,     \* run -> sequence -> the receipt's status, or None
  told,         \* run -> command -> answers clients were given
  wpc, w,       \* run -> the worker's control point and memory
  faults, timeouts

client == <<lock, pc, op, view, told>>
admit  == <<made, request>>
queue  == <<ids, commands>>
worker == <<wpc, w, ready, receipts>>
budget == <<faults, timeouts>>
vars   == <<client, admit, queue, worker, snap, budget>>

Seqs == 1 .. Cardinality(Commands)
TerminalStates == {"completed", "cancelled", "failed"}
States == {"starting", "running", "paused"} \cup TerminalStates
Snapshots == [state : States, tick : 0 .. Limit, cmd : 0 .. Cardinality(Commands)]
Starting == [state |-> "starting", tick |-> 0, cmd |-> 0]
Terminal(s) == s.state \in TerminalStates

Calls == [kind : {"none", "start", "again", "inspect", "control", "late"},
          run : Runs \cup {None}, at : Runs \cup {None},
          cmd : Commands \cup {None}, todo : SUBSET Runs]
NoCall == [kind |-> "none", run |-> None, at |-> None, cmd |-> None, todo |-> {}]

ClientControl == {"idle", "scan", "look", "mkdir", "made", "requested", "await",
                  "unconfirmed", "repair", "identify", "allocate", "publish", "poll"}
WorkerControl == {"none", "boot", "init", "loop", "solving", "settle", "apply",
                  "receipt", "finish", "final", "exiting", "dead"}
\* What the worker is doing for: itself, a command, a step command, or a
\* command it refuses; and the cancel that interrupted its solver, or 0.
Memories == [state : States, tick : 0 .. Limit, cmd : 0 .. Cardinality(Commands),
             doing : {"free", "command", "step", "refused"},
             pending : 0 .. Cardinality(Commands)]

Init ==
  /\ lock = None
  /\ pc = [c \in Clients |-> "idle"]
  /\ op = [c \in Clients |-> NoCall]
  /\ view = [c \in Clients |-> Starting]
  /\ made = [r \in Runs |-> FALSE]
  /\ request = [r \in Runs |-> FALSE]
  /\ ready = [r \in Runs |-> FALSE]
  /\ snap = [r \in Runs |-> Starting]
  /\ ids = [r \in Runs |-> [k \in Commands |-> 0]]
  /\ commands = [r \in Runs |-> [s \in Seqs |-> None]]
  /\ receipts = [r \in Runs |-> [s \in Seqs |-> None]]
  /\ told = [r \in Runs |-> [k \in Commands |-> {}]]
  /\ wpc = [r \in Runs |-> "none"]
  /\ w = [r \in Runs |-> [state |-> "starting", tick |-> 0, cmd |-> 0,
                          doing |-> "free", pending |-> 0]]
  /\ faults = 0
  /\ timeouts = 0

Live(r) == wpc[r] \notin {"none", "dead"}

\* The lock is taken by the worker once it runs, not inherited.
OwnerHeldAfterBoot(r) == wpc[r] \notin {"none", "dead", "boot"}

\* owner.lock is taken by the service and inherited across exec, so it is
\* held for exactly as long as the worker process exists.
OwnerHeld(r) == Live(r)

-----------------------------------------------------------------------------
(* Service calls.                                                          *)

\* service.lock is awaited.
Call(c, to, call) ==
  /\ lock = None
  /\ pc[c] = "idle"
  /\ lock' = c
  /\ pc' = [pc EXCEPT ![c] = to]
  /\ op' = [op EXCEPT ![c] = call]

Leave(c) ==
  /\ lock' = IF lock = c THEN None ELSE lock
  /\ pc' = [pc EXCEPT ![c] = "idle"]
  /\ op' = [op EXCEPT ![c] = NoCall]
  /\ view' = [view EXCEPT ![c] = Starting]

Move(c, from, to) == /\ pc[c] = from
                     /\ pc' = [pc EXCEPT ![c] = to]

\* run_start, a run id never seen: every other run is looked at first.
StartNew(c, r) ==
  /\ ~ made[r]
  /\ LET others == {q \in Runs : request[q]}
     IN Call(c, IF others = {} THEN "mkdir" ELSE "scan",
             [NoCall EXCEPT !.kind = "start", !.run = r, !.todo = others])
  /\ UNCHANGED <<view, told, admit, queue, worker, snap, budget>>

\* run_start repeated, and run_inspect: the status of the run.  A directory
\* without a request is an error, which changes nothing.
StartAgain(c, r) ==
  /\ made[r] /\ request[r]
  /\ Call(c, "scan", [NoCall EXCEPT !.kind = "again", !.run = r, !.todo = {r}])
  /\ UNCHANGED <<view, told, admit, queue, worker, snap, budget>>

Inspect(c, r) ==
  /\ request[r]
  /\ Call(c, "scan", [NoCall EXCEPT !.kind = "inspect", !.run = r, !.todo = {r}])
  /\ UNCHANGED <<view, told, admit, queue, worker, snap, budget>>

Control(c, r, k) ==
  /\ request[r]
  /\ Call(c, "repair", [NoCall EXCEPT !.kind = "control", !.run = r, !.cmd = k])
  /\ UNCHANGED <<view, told, admit, queue, worker, snap, budget>>

-----------------------------------------------------------------------------
(* _status: the snapshot is read, then the owner lock is tried.            *)

ReadSnapshot(c) ==
  /\ Move(c, "scan", "look")
  /\ \E r \in op[c].todo :
       /\ view' = [view EXCEPT ![c] = snap[r]]
       /\ op' = [op EXCEPT ![c].at = r, ![c].todo = @ \ {r}]
  /\ UNCHANGED <<lock, told, admit, queue, worker, snap, budget>>

\* A run that is not over and whose owner lock is free has no worker: after
\* a second reading of the snapshot it is declared failed.
Declared(s) == [s EXCEPT !.state = "failed"]

Abandoned(c) ==
  LET r == op[c].at
  IN ~ Terminal(view[c]) /\ ~ OwnerHeld(r) /\ ~ Terminal(snap[r])

Status(c) ==
  LET r == op[c].at
  IN IF Terminal(view[c]) \/ OwnerHeld(r) THEN view[c]
     ELSE IF Terminal(snap[r]) THEN snap[r] ELSE Declared(snap[r])

\* What the first reading showed is written back.
ReconcileFirstReading(c) ==
  snap' = IF ~ Terminal(view[c]) /\ ~ OwnerHeld(op[c].at)
          THEN [snap EXCEPT ![op[c].at] = Declared(view[c])] ELSE snap

Reconcile(c) ==
  snap' = IF Abandoned(c) THEN [snap EXCEPT ![op[c].at] = Declared(@)] ELSE snap

Over(c) == Terminal(Status(c))

\* The status is the answer to the call.
ReturnStatus(c) ==
  /\ pc[c] = "look"
  /\ op[c].kind \in {"again", "inspect"}
  /\ Reconcile(c)
  /\ Leave(c)
  /\ UNCHANGED <<told, admit, queue, worker, budget>>

\* run_start goes on to the next run, or refuses because this one is active.
AdmitScan(c) ==
  /\ pc[c] = "look"
  /\ op[c].kind = "start"
  /\ Reconcile(c)
  /\ \/ ~ Over(c) /\ Leave(c)
     \/ /\ Over(c)
        /\ pc' = [pc EXCEPT ![c] = IF op[c].todo = {} THEN "mkdir" ELSE "scan"]
        /\ UNCHANGED <<lock, op, view>>
  /\ UNCHANGED <<told, admit, queue, worker, budget>>

\* run_control allocates a sequence for a run that is not over.
AdmitCommand(c) ==
  /\ pc[c] = "look"
  /\ op[c].kind = "control"
  /\ Reconcile(c)
  /\ \/ Over(c) /\ Leave(c)
     \/ ~ Over(c) /\ pc' = [pc EXCEPT ![c] = "allocate"] /\ UNCHANGED <<lock, op, view>>
  /\ UNCHANGED <<told, admit, queue, worker, budget>>

\* The answer of a wait that found no receipt.
AnswerLate(c) ==
  /\ pc[c] = "look"
  /\ op[c].kind = "late"
  /\ Reconcile(c)
  /\ told' = IF Over(c)
             THEN [told EXCEPT ![op[c].run][op[c].cmd] = @ \cup {"not_applied"}]
             ELSE told
  /\ Leave(c)
  /\ UNCHANGED <<admit, queue, worker, budget>>

-----------------------------------------------------------------------------
(* run_start: one directory, its request, then the worker.                 *)

MakeDirectory(c) ==
  /\ Move(c, "mkdir", "made")
  /\ made' = [made EXCEPT ![op[c].run] = TRUE]
  /\ UNCHANGED <<lock, op, view, told, request, queue, worker, snap, budget>>

WriteRequest(c) ==
  /\ Move(c, "made", "requested")
  /\ request' = [request EXCEPT ![op[c].run] = TRUE]
  /\ UNCHANGED <<lock, op, view, told, made, queue, worker, snap, budget>>

Launch(c) ==
  /\ Move(c, "requested", "await")
  /\ wpc' = [wpc EXCEPT ![op[c].run] = "boot"]
  /\ UNCHANGED <<lock, op, view, told, admit, queue, w, ready, receipts, snap, budget>>

\* Only the report ends the wait.
LaunchedWhenReady(c) ==
  /\ Move(c, "await", "scan")
  /\ ready[op[c].run]
  /\ op' = [op EXCEPT ![c].kind = "again", ![c].todo = {op[c].run}]
  /\ UNCHANGED <<lock, view, told, admit, queue, worker, snap, budget>>

\* The worker reported, or is gone already: the run's status is returned.
Launched(c) ==
  /\ Move(c, "await", "scan")
  /\ ready[op[c].run] \/ ~ Live(op[c].run)
  /\ op' = [op EXCEPT ![c].kind = "again", ![c].todo = {op[c].run}]
  /\ UNCHANGED <<lock, view, told, admit, queue, worker, snap, budget>>

\* The wait elapses; that nothing was reported is looked at once more.
Unconfirmed(c) ==
  /\ timeouts < MaxTimeouts
  /\ Move(c, "await", "unconfirmed")
  /\ ~ ready[op[c].run] /\ Live(op[c].run)
  /\ timeouts' = timeouts + 1
  /\ UNCHANGED <<lock, op, view, told, admit, queue, worker, snap, faults>>

\* A starting snapshot is left for the next inspection to find.
WriteStarting(c) ==
  /\ pc[c] = "unconfirmed"
  /\ snap' = [snap EXCEPT ![op[c].run] = Starting]
  /\ Leave(c)
  /\ UNCHANGED <<told, admit, queue, worker, budget>>

-----------------------------------------------------------------------------
(* run_control: the identity is durable before the command is published.   *)

\* Identities whose command file an interrupted call never wrote.
Unpublished(r) == {k \in Commands : ids[r][k] # 0 /\ commands[r][ids[r][k]] = None}

\* A command file is written once.
PublishCommand(r, k) ==
  commands' = [commands EXCEPT ![r][ids[r][k]] = IF @ = None THEN k ELSE @]

Repair(c) ==
  /\ pc[c] = "repair"
  /\ \E k \in Unpublished(op[c].run) : PublishCommand(op[c].run, k)
  /\ UNCHANGED <<client, admit, ids, worker, snap, budget>>

\* A new sequence is allocated whatever an interrupted call left.
RepairedUnchecked(c) ==
  /\ Move(c, "repair", "identify")
  /\ UNCHANGED <<lock, op, view, told, admit, queue, worker, snap, budget>>

Repaired(c) ==
  /\ Move(c, "repair", "identify")
  /\ Unpublished(op[c].run) = {}
  /\ UNCHANGED <<lock, op, view, told, admit, queue, worker, snap, budget>>

\* A known command id keeps its sequence; an unknown one needs a live run.
Identify(c) ==
  LET known == ids[op[c].run][op[c].cmd] # 0
  IN /\ Move(c, "identify", IF known THEN "publish" ELSE "scan")
     /\ op' = IF known THEN op ELSE [op EXCEPT ![c].todo = {op[c].run}]
     /\ UNCHANGED <<lock, view, told, admit, queue, worker, snap, budget>>

\* The sequence after the last receipt, not after the last command.
NextSequenceByReceipts(r) == 1 + Max({0} \cup {s \in Seqs : receipts[r][s] # None})

NextSequence(r) == 1 + Max({0} \cup {s \in Seqs : commands[r][s] # None})

Allocate(c) ==
  /\ Move(c, "allocate", "publish")
  /\ ids' = [ids EXCEPT ![op[c].run][op[c].cmd] = NextSequence(op[c].run)]
  /\ UNCHANGED <<lock, op, view, told, admit, commands, worker, snap, budget>>

\* The command file is written; then the lock is given back.
Publish(c) ==
  /\ Move(c, "publish", "poll")
  /\ lock' = None
  /\ PublishCommand(op[c].run, op[c].cmd)
  /\ UNCHANGED <<op, view, told, admit, ids, worker, snap, budget>>

Receipt(c) == receipts[op[c].run][ids[op[c].run][op[c].cmd]]

AnswerReceipt(c) ==
  /\ pc[c] = "poll"
  /\ Receipt(c) # None
  /\ told' = [told EXCEPT ![op[c].run][op[c].cmd] = @ \cup {Receipt(c)}]
  /\ Leave(c)
  /\ UNCHANGED <<admit, queue, worker, snap, budget>>

\* The wait ends without a receipt: the run is inspected under the lock.
Late(c) ==
  /\ lock = None
  /\ Move(c, "poll", "scan")
  /\ lock' = c
  /\ op' = [op EXCEPT ![c].kind = "late", ![c].todo = {op[c].run}]
  /\ UNCHANGED <<view, told, admit, queue, worker, snap, budget>>

\* A call ends early: an exception, or the death of its process.
ClientDies(c) ==
  /\ faults < MaxFaults
  /\ pc[c] # "idle"
  /\ Leave(c)
  /\ faults' = faults + 1
  /\ UNCHANGED <<told, admit, queue, worker, snap, timeouts>>

-----------------------------------------------------------------------------
(* The worker.  A write that fails makes its run fail (lost), and spends   *)
(* a fault.                                                                *)

Go(r, to, m) == /\ wpc' = [wpc EXCEPT ![r] = to]
                /\ w' = [w EXCEPT ![r] = m]

Broken(m, lost) == IF lost THEN [m EXCEPT !.state = "failed"] ELSE m

Risk(lost) == /\ lost => faults < MaxFaults
              /\ faults' = IF lost THEN faults + 1 ELSE faults
              /\ UNCHANGED timeouts

Shown(m) == [state |-> m.state, tick |-> m.tick, cmd |-> m.cmd]

\* publish(s, event): the snapshot is replaced, then an event may be appended;
\* a failure of the second leaves the first done.
PublishSnapshot(r, m, event, lost) ==
  \/ (lost => event) /\ snap' = [snap EXCEPT ![r] = Shown(m)]
  \/ lost /\ UNCHANGED snap

\* The inherited lock is confirmed and readiness is reported.
Boot(r) ==
  /\ wpc[r] = "boot"
  /\ wpc' = [wpc EXCEPT ![r] = "init"]
  /\ ready' = [ready EXCEPT ![r] = TRUE]
  /\ UNCHANGED <<w, receipts, client, admit, queue, snap, budget>>

\* A scene, model or budget the worker refuses, published or not.
InitFails(r) ==
  /\ wpc[r] = "init"
  /\ LET m == [w[r] EXCEPT !.state = "failed"]
     IN /\ Go(r, "exiting", m)
        /\ snap' \in {snap, [snap EXCEPT ![r] = Shown(m)]}
  /\ UNCHANGED <<ready, receipts, client, admit, queue, budget>>

InitDone(r) ==
  /\ wpc[r] = "init"
  /\ \E s \in {"paused", "running"} :
       LET m == [w[r] EXCEPT !.state = s]
       IN Go(r, "loop", m) /\ snap' = [snap EXCEPT ![r] = Shown(m)]
  /\ UNCHANGED <<ready, receipts, client, admit, queue, budget>>

\* The last number is never looked for.
NextCommandShort(r) ==
  IF w[r].cmd + 2 \in Seqs THEN commands[r][w[r].cmd + 1] ELSE None

NextCommand(r) ==
  IF w[r].cmd + 1 \in Seqs THEN commands[r][w[r].cmd + 1] ELSE None

\* The loop takes the next numbered command.  A cancel exports the accepted
\* fields before it is published.
TakeCommand(r) ==
  /\ wpc[r] = "loop"
  /\ LET k == NextCommand(r)
         m == [w[r] EXCEPT !.cmd = @ + 1, !.doing = "command"]
     IN \/ /\ k \in Pauses
           /\ Go(r, "apply", [m EXCEPT !.state = "paused"])
           /\ Risk(FALSE)
        \/ /\ k \in Continues
           /\ Go(r, "apply", [m EXCEPT !.state = "running"])
           /\ Risk(FALSE)
        \/ /\ k \in Cancels
           /\ \E lost \in {FALSE, Interruptible} :
                /\ Go(r, "apply", Broken([m EXCEPT !.state = "cancelled"], lost))
                /\ Risk(lost)
        \/ /\ k \in Steps /\ m.state = "paused"
           /\ Go(r, "solving", [m EXCEPT !.doing = "step"])
           /\ Risk(FALSE)
        \/ /\ k \in Steps /\ m.state # "paused"
           /\ Go(r, "apply", [m EXCEPT !.doing = "refused"])
           /\ Risk(FALSE)
  /\ UNCHANGED <<ready, receipts, client, admit, queue, snap>>

FreeStep(r) ==
  /\ wpc[r] = "loop"
  /\ NextCommand(r) = None
  /\ w[r].state = "running"
  /\ Go(r, "solving", w[r])
  /\ UNCHANGED <<ready, receipts, client, admit, queue, snap, budget>>

\* A signal is seen at the head of the loop; the export that follows may fail.
Interrupted(r) ==
  /\ wpc[r] = "loop"
  /\ Risk(TRUE)
  /\ \E s \in {"cancelled", IF Interruptible THEN "failed" ELSE "cancelled"} :
       Go(r, "finish", [w[r] EXCEPT !.state = s])
  /\ UNCHANGED <<ready, receipts, client, admit, queue, snap>>

-----------------------------------------------------------------------------
(* One step of the solver.                                                 *)

StepEnds(r, m) == Go(r, IF m.doing = "step" THEN "apply" ELSE "settle", m)

Finished(m) == m.tick >= Limit

\* An accepted tick; the last one exports its fields before the run is over.
StepDone(r) ==
  /\ wpc[r] = "solving"
  /\ LET m == [w[r] EXCEPT !.tick = @ + 1]
     IN \/ /\ ~ Finished(m)
           /\ StepEnds(r, m)
           /\ Risk(FALSE)
        \/ /\ Finished(m)
           /\ \E lost \in BOOLEAN :
                /\ StepEnds(r, Broken([m EXCEPT !.state = "completed"], lost))
                /\ Risk(lost)
  /\ UNCHANGED <<ready, receipts, client, admit, queue, snap>>

\* The solver gives up, before its tick is accepted or, with metrics that are
\* not finite, after.
StepFails(r) ==
  /\ wpc[r] = "solving"
  /\ \E accepted \in 0 .. 1 :
       StepEnds(r, [w[r] EXCEPT !.state = "failed", !.tick = @ + accepted])
  /\ UNCHANGED <<ready, receipts, client, admit, queue, snap, budget>>

\* Inside a step the next command is looked at, not taken: a cancel stops
\* the solver, and the fields of the last accepted tick are exported.
PollCancel(r) ==
  /\ Interruptible
  /\ wpc[r] = "solving"
  /\ NextCommand(r) \in Cancels
  /\ \E lost \in BOOLEAN :
       /\ StepEnds(r, Broken([w[r] EXCEPT !.state = "cancelled",
                                          !.pending = w[r].cmd + 1], lost))
       /\ Risk(lost)
  /\ UNCHANGED <<ready, receipts, client, admit, queue, snap>>

\* The state of the last accepted tick is published from inside the step.
PollPublish(r) ==
  /\ Interruptible
  /\ wpc[r] = "solving"
  /\ \E lost \in BOOLEAN :
       /\ PublishSnapshot(r, w[r], FALSE, lost)
       /\ Risk(lost)
       /\ IF lost THEN StepEnds(r, [w[r] EXCEPT !.state = "failed"])
                  ELSE UNCHANGED <<wpc, w>>
  /\ UNCHANGED <<ready, receipts, client, admit, queue>>

\* A signal stops an interruptible solver.
PollInterrupted(r) ==
  /\ Interruptible
  /\ wpc[r] = "solving"
  /\ Risk(TRUE)
  /\ StepEnds(r, [w[r] EXCEPT !.state = "cancelled"])
  /\ UNCHANGED <<ready, receipts, client, admit, queue, snap>>

-----------------------------------------------------------------------------
(* After a step or a command: what happened is published, then receipted.  *)

\* Only an end that was reached ends the loop.
ResumeUnlessDone(r, m) ==
  Go(r, IF m.state \in {"completed", "cancelled"} THEN "finish" ELSE "loop", [m EXCEPT !.doing = "free"])

Resume(r, m) == Go(r, IF Terminal(m) THEN "finish" ELSE "loop",
                   [m EXCEPT !.doing = "free"])

\* A step of the loop's own is published at most every tenth of a second.
Settle(r) ==
  /\ wpc[r] = "settle"
  /\ \/ Resume(r, w[r]) /\ Risk(FALSE) /\ UNCHANGED snap
     \/ \E lost \in BOOLEAN :
          /\ PublishSnapshot(r, w[r], FALSE, lost)
          /\ Resume(r, Broken(w[r], lost))
          /\ Risk(lost)
  /\ UNCHANGED <<ready, receipts, client, admit, queue>>

\* A snapshot that could not be published is not noticed.
ApplyUnnoticed(r) ==
  /\ wpc[r] = "apply"
  /\ \E lost \in BOOLEAN :
       /\ PublishSnapshot(r, w[r], TRUE, lost)
       /\ Go(r, "receipt", w[r])
       /\ Risk(lost)
  /\ UNCHANGED <<ready, receipts, client, admit, queue>>

Apply(r) ==
  /\ wpc[r] = "apply"
  /\ \E lost \in BOOLEAN :
       /\ PublishSnapshot(r, w[r], TRUE, lost)
       /\ Go(r, "receipt", Broken(w[r], lost))
       /\ Risk(lost)
  /\ UNCHANGED <<ready, receipts, client, admit, queue>>

\* A failure on the way to the receipt is not reported.
VerdictOptimistic(m) ==
  IF m.doing = "refused" THEN "rejected"
  ELSE IF m.doing = "step" /\ m.state = "cancelled" THEN "cancelled"
  ELSE "applied"

Verdict(m) ==
  IF m.doing = "refused" THEN "rejected"
  ELSE IF m.state = "failed" THEN "failed"
  ELSE IF m.doing = "step" /\ m.state = "cancelled" THEN "cancelled"
  ELSE "applied"

\* A step that was interrupted is left to the cancel's receipt.
PutReceiptUnlessCancelled(r, s, verdict, lost) ==
  receipts' = IF lost \/ verdict = "cancelled" THEN receipts
              ELSE [receipts EXCEPT ![r][s] = verdict]

PutReceipt(r, s, verdict, lost) ==
  receipts' = IF lost THEN receipts ELSE [receipts EXCEPT ![r][s] = verdict]

WriteReceipt(r) ==
  /\ wpc[r] = "receipt"
  /\ \E lost \in BOOLEAN :
       /\ PutReceipt(r, w[r].cmd, Verdict(w[r]), lost)
       /\ Resume(r, Broken(w[r], lost))
       /\ Risk(lost)
  /\ UNCHANGED <<ready, client, admit, queue, snap>>

-----------------------------------------------------------------------------
(* After the loop.                                                         *)

NothingPending(r) ==
  /\ wpc[r] = "finish" /\ w[r].pending = 0
  /\ Go(r, "final", w[r])
  /\ UNCHANGED <<ready, receipts, client, admit, queue, snap, budget>>

\* The cancel that stopped the solver is taken and receipted, provided it is
\* still the next command.
FinishCancel(r) ==
  LET s == w[r].pending
      valid == NextCommand(r) \in Cancels /\ s = w[r].cmd + 1
      m == [w[r] EXCEPT !.cmd = s]
  IN /\ wpc[r] = "finish" /\ s # 0
     /\ IF valid
        THEN \E lost \in BOOLEAN :
               /\ PutReceipt(r, s, Verdict(m), lost)
               /\ Go(r, "final", Broken(m, lost))
               /\ Risk(lost)
        ELSE Go(r, "final", Broken(w[r], TRUE)) /\ UNCHANGED <<receipts, budget>>
     /\ UNCHANGED <<ready, client, admit, queue, snap>>

Final(r) ==
  /\ wpc[r] = "final"
  /\ wpc' = [wpc EXCEPT ![r] = "exiting"]
  /\ \E lost \in BOOLEAN : PublishSnapshot(r, w[r], TRUE, lost) /\ Risk(lost)
  /\ UNCHANGED <<w, ready, receipts, client, admit, queue>>

Exits(r) ==
  /\ wpc[r] = "exiting"
  /\ wpc' = [wpc EXCEPT ![r] = "dead"]
  /\ UNCHANGED <<w, ready, receipts, client, admit, queue, snap, budget>>

WorkerDies(r) ==
  /\ Live(r)
  /\ Risk(TRUE)
  /\ wpc' = [wpc EXCEPT ![r] = "dead"]
  /\ UNCHANGED <<w, ready, receipts, client, admit, queue, snap>>

-----------------------------------------------------------------------------
Ask(c) ==
  \E r \in Runs :
    \/ StartNew(c, r) \/ StartAgain(c, r) \/ Inspect(c, r)
    \/ \E k \in Commands : Control(c, r, k)

\* What a call does once it has the lock.
Serve(c) ==
  \/ ReadSnapshot(c) \/ ReturnStatus(c) \/ AdmitScan(c)
  \/ MakeDirectory(c) \/ WriteRequest(c) \/ Launch(c) \/ Launched(c)
  \/ Unconfirmed(c) \/ WriteStarting(c)
  \/ Repair(c) \/ Repaired(c) \/ Identify(c) \/ AdmitCommand(c)
  \/ Allocate(c) \/ Publish(c) \/ AnswerLate(c)

Await(c) == AnswerReceipt(c) \/ Late(c)

Work(r) ==
  \/ Boot(r) \/ InitFails(r) \/ InitDone(r)
  \/ TakeCommand(r) \/ FreeStep(r)
  \/ StepDone(r) \/ StepFails(r) \/ PollCancel(r) \/ PollPublish(r)
  \/ Settle(r) \/ Apply(r) \/ WriteReceipt(r)
  \/ NothingPending(r) \/ FinishCancel(r) \/ Final(r) \/ Exits(r)

Disturbed(r) == Interrupted(r) \/ PollInterrupted(r) \/ WorkerDies(r)

Next ==
  \/ \E c \in Clients : Ask(c) \/ Serve(c) \/ Await(c) \/ ClientDies(c)
  \/ \E r \in Runs : Work(r) \/ Disturbed(r)

Spec == Init /\ [][Next]_vars

\* A process that can take a step takes one; nothing says that a call is ever
\* made, that a wait for a receipt ends, or that a fault happens.
FairSpec ==
  /\ Spec
  /\ \A c \in Clients : WF_vars(Serve(c))
  /\ \A r \in Runs : WF_vars(Work(r))

-----------------------------------------------------------------------------
(* Properties.                                                             *)

\* The types of the state: the files hold what the code writes to them.
TypeOK ==
  /\ lock \in Clients \cup {None}
  /\ pc \in [Clients -> ClientControl]
  /\ op \in [Clients -> Calls]
  /\ view \in [Clients -> Snapshots]
  /\ made \in [Runs -> BOOLEAN]
  /\ request \in [Runs -> BOOLEAN]
  /\ ready \in [Runs -> BOOLEAN]
  /\ snap \in [Runs -> Snapshots]
  /\ ids \in [Runs -> [Commands -> {0} \cup Seqs]]
  /\ commands \in [Runs -> [Seqs -> Commands \cup {None}]]
  /\ receipts \in [Runs -> [Seqs -> Verdicts \cup {None}]]
  /\ told \in [Runs -> [Commands -> SUBSET Answers]]
  /\ wpc \in [Runs -> WorkerControl]
  /\ w \in [Runs -> Memories]
  /\ faults \in 0 .. MaxFaults
  /\ timeouts \in 0 .. MaxTimeouts

\* One active run: two workers are never both at work on a run that is not
\* over, whatever call was cut short and however slowly a worker came up
\* (the scan of run_start, owner.lock and its inheritance).
OneActiveRun ==
  \A q, r \in Runs :
    Live(q) /\ Live(r) /\ ~ Terminal(w[q]) /\ ~ Terminal(w[r]) => q = r

\* A command id and a sequence number name each other for good, and published
\* sequences have no gap the worker would wait at, although identity and
\* command are two files and a call may end between them (run_control).
CommandsBound ==
  \A r \in Runs :
    /\ \A k, l \in Commands : ids[r][k] = ids[r][l] /\ ids[r][k] # 0 => k = l
    /\ \A s \in Seqs : commands[r][s] # None =>
         /\ ids[r][commands[r][s]] = s
         /\ \A q \in 1 .. s : commands[r][q] # None

\* A final answer to a command id is the receipt of that very command, for
\* every client that ever asked and whatever was repaired in between.
AnswersAgree ==
  \A r \in Runs, k \in Commands : \A v \in told[r][k] \ {"not_applied"} :
    /\ commands[r][ids[r][k]] = k
    /\ receipts[r][ids[r][k]] = v

\* The worker goes past no command without a receipt, unless its run failed:
\* also when a cancel was seen, but not taken, inside another command's step.
NoSkippedReceipt ==
  \A r \in Runs, s \in Seqs :
    s < w[r].cmd /\ receipts[r][s] = None => w[r].state = "failed"

\* A cancel that was acknowledged stays.  Its run is cancelled, not failed and
\* not completed, and whoever inspects it is shown so, at once and for good.  But
\* a cancel that stopped the solver is receipted before the last snapshot: if
\* that one is lost, or the worker dies first, the run looks unfinished, and
\* the service declares it failed once the worker is gone; never completed.
CancelIsFinal ==
  \A r \in Runs, s \in Seqs :
    commands[r][s] \in Cancels /\ receipts[r][s] = "applied" =>
      /\ w[r].state = "cancelled"
      /\ \/ snap[r].state = "cancelled"
         \/ /\ w[r].pending = s
            /\ Terminal(snap[r]) => snap[r].state = "failed" /\ ~ Live(r)

\* Who has read "applied" and inspects the run finds a snapshot that counts
\* the command, except for a cancel that stopped the solver: its receipt is
\* written before the last snapshot.
AppliedIsVisible ==
  \A r \in Runs, s \in Seqs :
    receipts[r][s] = "applied" => snap[r].cmd >= s \/ w[r].pending = s

\* The service declares a run failed only when its worker is gone: a snapshot
\* says failed while the worker does not only if there is no worker.
FailureNotInvented ==
  \A r \in Runs :
    snap[r].state = "failed" /\ w[r].state # "failed" => ~ Live(r)

\* Nobody who inspects a run sees it go back: the tick and the commands
\* counted never decrease, a run that is over stays over, and only to failed
\* does the way it ended change.
SnapshotForward ==
  [][\A r \in Runs :
       /\ snap'[r].tick >= snap[r].tick
       /\ snap'[r].cmd >= snap[r].cmd
       /\ Terminal(snap[r]) => snap'[r].state \in {snap[r].state, "failed"}]_vars

Log == INSTANCE CommandLog WITH log <- commands, settled <- receipts

\* Two files per command, a worker that looks at one place and takes in another
\* and receipts that may be lost are, to all who ask, one log of commands.
KeepsALog == Log!Spec

\* "never replace completion with a stale running snapshot" (service.py:516):
\* a snapshot that says the run is over is not replaced by one that does not.
NeverUnfinished ==
  [][\A r \in Runs : Terminal(snap[r]) => Terminal(snap'[r])]_vars

\* "Identical ID retries reuse their outcome" (docs/agent_session.md:255): a
\* command id is never given two different final answers.
RetriesReuseOutcome ==
  \A r \in Runs, k \in Commands : \A u, v \in told[r][k] : u = v

\* Every published command is receipted, or its run is over or its worker gone.
Answered ==
  \A r \in Runs, s \in Seqs :
    commands[r][s] # None ~> receipts[r][s] # None \/ Terminal(w[r]) \/ ~ Live(r)

\* No call keeps service.lock for good, not even one that waits for a worker
\* that died before it reported.
LockReturned == \A c \in Clients : lock = c ~> lock # c
=============================================================================
