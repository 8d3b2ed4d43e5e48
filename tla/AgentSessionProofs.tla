------------------------- MODULE AgentSessionProofs -------------------------
(***************************************************************************)
(* Proofs about AgentSession, for any number of clients, runs and commands *)
(* and any bounds: one active run, one number for a command, one receipt   *)
(* for each command the worker goes past, and an end that is final.        *)
(***************************************************************************)
EXTENDS AgentSession, FiniteSetTheorems, FunctionTheorems, TLAPS

-----------------------------------------------------------------------------
(* The inductive invariant.                                                *)

\* The control points of a call that holds service.lock.
Holding == ClientControl \ {"idle", "poll"}

Fresh == [state |-> "starting", tick |-> 0, cmd |-> 0, doing |-> "free", pending |-> 0]

\* A run that stands in nobody's way: it has no worker, or its worker is done.
Past(r) == ~ Live(r) \/ Terminal(w[r])

\* Where a worker is and what it has in mind.
Solver(r) ==
  /\ wpc[r] \in {"none", "boot", "init"} => w[r] = Fresh
  /\ wpc[r] \in {"loop", "solving"} => w[r].state \in {"paused", "running"} /\ w[r].pending = 0
  /\ wpc[r] \in {"settle", "apply", "receipt"} => w[r].state # "starting"
  /\ wpc[r] \in {"finish", "final", "exiting"} => Terminal(w[r])
  /\ ~ Terminal(w[r]) => w[r].tick < Limit
  /\ wpc[r] \in {"apply", "receipt"} => w[r].doing # "free"
  /\ wpc[r] = "solving" => w[r].doing \in {"free", "step"}
  /\ w[r].doing # "free" => wpc[r] \in {"solving", "apply", "receipt", "dead"}

\* The command a worker has taken, and the cancel that stopped its solver.
Taken(r) ==
  /\ w[r].doing # "free" => w[r].cmd \in Seqs /\ commands[r][w[r].cmd] # None
  /\ w[r].doing \in {"step", "refused"} => commands[r][w[r].cmd] \in Steps
  /\ w[r].doing = "command" /\ commands[r][w[r].cmd] \in Cancels =>
       w[r].state \in {"cancelled", "failed"}
  /\ w[r].pending # 0 =>
       /\ w[r].state \in {"cancelled", "failed"} /\ w[r].doing \in {"free", "step"}
       /\ wpc[r] \in {"settle", "apply", "receipt", "finish"} =>
            /\ w[r].pending = w[r].cmd + 1 /\ w[r].pending \in Seqs
            /\ commands[r][w[r].pending] \in Cancels

\* The receipts are those of the commands the worker is done with.
Receipted(r) == \A s \in Seqs :
  /\ receipts[r][s] # None =>
       /\ commands[r][s] # None /\ s <= w[r].cmd
       /\ s = w[r].cmd => w[r].doing = "free"
  /\ receipts[r][s] = None /\ s <= w[r].cmd =>
       w[r].state = "failed" \/ (s = w[r].cmd /\ w[r].doing # "free")
  /\ commands[r][s] \in Cancels /\ receipts[r][s] = "applied" =>
       /\ w[r].state = "cancelled" /\ wpc[r] \in {"finish", "final", "exiting", "dead"}
       /\ wpc[r] = "finish" => w[r].pending = 0

\* The snapshot is behind the worker, and over only if the worker is.
Reported(r) ==
  /\ snap[r].tick <= w[r].tick /\ snap[r].cmd <= w[r].cmd
  /\ Terminal(snap[r]) /\ Live(r) => w[r].state \in {snap[r].state, "failed"}
  /\ ~ request[r] => snap[r] = Starting
  /\ wpc[r] # "none" => request[r]
  /\ request[r] => made[r]

\* Sequence numbers are given once and published without a gap.
Numbered(r) ==
  /\ \A k, l \in Commands : ids[r][k] = ids[r][l] /\ ids[r][k] # 0 => k = l
  /\ \A s \in Seqs : commands[r][s] # None => ids[r][commands[r][s]] = s
  /\ \A k \in Commands : ids[r][k] # 0 => \A q \in 1 .. ids[r][k] - 1 : commands[r][q] # None

Answer(r, k, v) == /\ ids[r][k] # 0 /\ commands[r][ids[r][k]] = k
                   /\ receipts[r][ids[r][k]] = v /\ v # None

Told(r) == \A k \in Commands : \A v \in told[r][k] \ {"not_applied"} : Answer(r, k, v)

Run(r) == Solver(r) /\ Taken(r) /\ Receipted(r) /\ Reported(r) /\ Numbered(r) /\ Told(r)

Wants(c) == op[c].kind = "control" /\ pc[c] \in {"scan", "look"}

\* What a call knows at its control point.
Caller(c) ==
  /\ lock = c <=> pc[c] \in Holding
  /\ pc[c] = "idle" => op[c] = NoCall
  /\ pc[c] # "idle" => op[c].run \in Runs /\ op[c].kind # "none"
  /\ pc[c] \in {"mkdir", "made", "requested", "await", "unconfirmed"} => op[c].kind = "start"
  /\ pc[c] \in {"repair", "identify", "allocate", "publish", "poll"} => op[c].kind = "control"
  /\ op[c].kind = "late" => pc[c] \in {"scan", "look"}
  /\ \A q \in op[c].todo : request[q]
  /\ pc[c] = "look" => op[c].at \in Runs /\ request[op[c].at]
  /\ op[c].kind \in {"again", "inspect", "control", "late"} => request[op[c].run]
  /\ pc[c] \in {"requested", "await", "unconfirmed"} => request[op[c].run]
  /\ pc[c] = "made" => made[op[c].run]

\* What run_start has found out so far.
Starter(c) ==
  /\ pc[c] = "look" /\ Terminal(view[c]) => Past(op[c].at)
  /\ op[c].kind = "start" /\ pc[c] \in {"scan", "look", "mkdir", "made"} => ~ request[op[c].run]
  /\ op[c].kind = "start" /\ pc[c] \in {"scan", "look"} =>
       \A q \in Runs : q \in op[c].todo \/ (pc[c] = "look" /\ q = op[c].at) \/ Past(q)
  /\ pc[c] \in {"mkdir", "made", "requested"} => \A q \in Runs : Past(q)
  /\ pc[c] = "requested" => wpc[op[c].run] = "none" /\ snap[op[c].run] = Starting

\* What run_control knows of its command.
Commander(c) ==
  /\ op[c].kind \in {"control", "late"} => op[c].cmd \in Commands
  /\ pc[c] \in {"identify", "allocate"} \/ Wants(c) => Unpublished(op[c].run) = {}
  /\ pc[c] = "allocate" \/ Wants(c) => ids[op[c].run][op[c].cmd] = 0
  /\ pc[c] = "publish" => ids[op[c].run][op[c].cmd] # 0
  /\ pc[c] = "poll" \/ op[c].kind = "late" =>
       /\ ids[op[c].run][op[c].cmd] # 0
       /\ commands[op[c].run][ids[op[c].run][op[c].cmd]] = op[c].cmd

IInv == /\ TypeOK /\ OneActiveRun
        /\ \A r \in Runs : Run(r)
        /\ \A c \in Clients : Caller(c) /\ Starter(c) /\ Commander(c)

\* What is said to be applied can be seen, and the end that is seen, if it is
\* not a failure, is the one the worker had in mind.
Seen(r) ==
  /\ wpc[r] = "receipt" /\ w[r].state # "failed" =>
       snap[r].cmd = w[r].cmd /\ snap[r].state = w[r].state
  /\ \A s \in Seqs : receipts[r][s] = "applied" => snap[r].cmd >= s \/ w[r].pending = s
  /\ \A s \in Seqs : commands[r][s] \in Cancels /\ receipts[r][s] = "applied" =>
       snap[r].state = "cancelled" \/ w[r].pending = s
  /\ Terminal(snap[r]) /\ snap[r].state # "failed" => w[r].state \in {snap[r].state, "failed"}

\* No command is asked for before a run is requested and its start is over.
StartingUp == {"requested", "await", "unconfirmed"}

Unasked ==
  /\ \A r \in Runs : ~ request[r] => \A s \in Seqs : commands[r][s] = None
  /\ \A c \in Clients :
       pc[c] \in StartingUp => \A s \in Seqs : commands[op[c].run][s] = None

Visible == Unasked /\ \A r \in Runs : Seen(r)
-----------------------------------------------------------------------------
(* Frames.                                                                 *)

LEMMA Bound == /\ Cardinality(Commands) \in Nat /\ Limit \in Nat /\ Limit # 0
               /\ None \notin Commands /\ None \notin Verdicts /\ None \notin Clients
BY CommandsAreDisjoint, NoneIsNobody, SessionBounds, FS_CardinalityType

LEMMA OneActive == OneActiveRun <=> \A q, r \in Runs : Past(q) \/ Past(r) \/ q = r
BY DEF OneActiveRun, Past

\* A step of the worker of r: calls and the other runs are not disturbed.
LEMMA WorkerFrame ==
  ASSUME IInv, TypeOK', NEW r \in Runs, Live(r), Live(r)' \/ wpc'[r] = "dead",
         UNCHANGED <<lock, pc, op, view, told, made, request, ids, commands>>,
         \A q \in Runs \ {r} : /\ wpc'[q] = wpc[q] /\ w'[q] = w[q]
                               /\ receipts'[q] = receipts[q] /\ snap'[q] = snap[q],
         Solver(r)', Taken(r)', Receipted(r)', Reported(r)',
         Terminal(w[r]) => Terminal(w'[r]),
         \A s \in Seqs : receipts[r][s] # None => receipts'[r][s] = receipts[r][s]
  PROVE  IInv'
<1>1. \A q \in Runs : Past(q) => Past(q)'
  BY DEF Past, Live, Terminal
<1>2. OneActiveRun'
  <2>1. \A q, s \in Runs : Past(q)' \/ Past(s)' \/ q = s
    BY <1>1, OneActive DEF IInv
  <2> QED BY <2>1 DEF OneActiveRun, Past, Live, Terminal
<1>3. Numbered(r)' /\ Told(r)'
  <2>1. Numbered(r) /\ Told(r)
    BY DEF IInv, Run
  <2>2. Numbered(r)'
    BY <2>1 DEF Numbered
  <2>3. \A k \in Commands : ids[r][k] # 0 => ids[r][k] \in Seqs
    BY DEF IInv, TypeOK
  <2>4. Told(r)'
    BY <2>1, <2>3 DEF Told, Answer
  <2> QED BY <2>2, <2>4
<1>4. ASSUME NEW q \in Runs, q # r PROVE Run(q)'
  <2>1. Run(q) /\ Live(q)' = Live(q)
    BY <1>4 DEF IInv, Live
  <2>2. Solver(q)' /\ Taken(q)'
    BY <1>4, <2>1 DEF Run, Solver, Taken, Terminal
  <2>3. Receipted(q)' /\ Reported(q)'
    BY <1>4, <2>1 DEF Run, Receipted, Reported, Terminal
  <2>4. Numbered(q)' /\ Told(q)'
    BY <1>4, <2>1 DEF Run, Numbered, Told, Answer
  <2> QED BY <2>2, <2>3, <2>4 DEF Run
<1>5. ASSUME NEW c \in Clients PROVE Caller(c)' /\ Starter(c)' /\ Commander(c)'
  <2>1. Caller(c) /\ Starter(c) /\ Commander(c)
    BY DEF IInv
  <2>2. Caller(c)'
    BY <2>1 DEF Caller
  <2>3. Commander(c)'
    BY <2>1 DEF Commander, Wants, Unpublished
  <2>4. Starter(c)'
    <3>1. pc[c] = "look" => op[c].at \in Runs
      BY <2>1 DEF Caller
    <3>2. pc[c] = "requested" => /\ op[c].run \in Runs /\ op[c].run # r
                                 /\ wpc[op[c].run] = "none" /\ snap[op[c].run] = Starting
      BY <2>1 DEF Caller, Starter, Live
    <3>3. pc[c] = "look" /\ Terminal(view[c]) => Past(op[c].at)'
      <4>1. pc[c] = "look" /\ Terminal(view[c]) => Past(op[c].at)
        BY <2>1 DEF Starter
      <4>2. \A q \in Runs : q = op[c].at => Past(op[c].at)' = Past(q)'
        BY DEF Past, Live, Terminal
      <4> QED BY <1>1, <3>1, <4>1, <4>2
    <3>4. Terminal(view[c])' = Terminal(view[c])
      BY DEF Terminal
    <3>5. pc'[c] = "requested" => wpc'[op'[c].run] = "none" /\ snap'[op'[c].run] = Starting
      BY <3>2
    <3>6. op'[c].kind = "start" /\ pc'[c] \in {"scan", "look"} =>
            \A q \in Runs : q \in op'[c].todo \/ (pc'[c] = "look" /\ q = op'[c].at) \/ Past(q)'
      BY <1>1, <2>1 DEF Starter
    <3>7. pc'[c] \in {"mkdir", "made", "requested"} => \A q \in Runs : Past(q)'
      BY <1>1, <2>1 DEF Starter
    <3>8. op'[c].kind = "start" /\ pc'[c] \in {"scan", "look", "mkdir", "made"} => ~ request'[op'[c].run]
      BY <2>1 DEF Starter
    <3>9. pc'[c] = "look" /\ Terminal(view[c])' => Past(op[c].at)'
      BY <3>3, <3>4
    <3> QED BY <3>5, <3>6, <3>7, <3>8, <3>9 DEF Starter
  <2> QED BY <2>2, <2>3, <2>4
<1> QED BY <1>2, <1>3, <1>4, <1>5 DEF IInv, Run

\* What was published or numbered stays so.
Grown == /\ \A r \in Runs : (made[r] => made'[r]) /\ (request[r] => request'[r])
         /\ \A r \in Runs, k \in Commands : ids[r][k] # 0 => ids'[r][k] = ids[r][k]
         /\ \A r \in Runs, s \in Seqs : commands[r][s] # None => commands'[r][s] = commands[r][s]

\* A step of client c: under the lock the others have nothing to lose, and
\* without it c leaves the files alone.
LEMMA ClientFrame ==
  ASSUME IInv, TypeOK', NEW c \in Clients, OneActiveRun', Grown,
         \A d \in Clients \ {c} : /\ pc'[d] = pc[d] /\ op'[d] = op[d] /\ view'[d] = view[d]
                                  /\ lock' = d <=> lock = d,
         lock = c \/ UNCHANGED <<request, ids, commands, wpc, w, snap>>,
         \A r \in Runs : Run(r)',
         Caller(c)', Starter(c)', Commander(c)'
  PROVE  IInv'
<1>1. ASSUME NEW d \in Clients, d # c PROVE Caller(d)' /\ Starter(d)' /\ Commander(d)'
  <2>1. Caller(d) /\ Starter(d) /\ Commander(d)
    BY DEF IInv
  <2>2. op[d].todo \subseteq Runs /\ op[d].run \in Runs \cup {None} /\ op[d].at \in Runs \cup {None}
    BY DEF IInv, TypeOK, Calls
  <2>3. Caller(d)'
    BY <1>1, <2>1, <2>2 DEF Caller, Grown, NoCall
  <2>4. CASE lock = c
    <3>1. pc[d] \in {"idle", "poll"}
      <4>1. pc[d] \notin Holding /\ pc[d] \in ClientControl
        BY <1>1, <2>1, <2>4 DEF Caller, IInv, TypeOK
      <4> QED BY <4>1 DEF Holding
    <3>2. Starter(d)'
      BY <1>1, <3>1 DEF Starter
    <3>3. CASE pc[d] = "idle"
      <4>1. op[d].kind = "none"
        BY <2>1, <3>3 DEF Caller, NoCall
      <4> QED BY <1>1, <2>3, <3>2, <3>3, <4>1 DEF Commander, Wants
    <3>4. CASE pc[d] = "poll"
      <4>1. op[d].kind = "control" /\ op[d].run \in Runs /\ op[d].cmd \in Commands
        BY <2>1, <3>4 DEF Caller, Commander
      <4>2. /\ ids[op[d].run][op[d].cmd] # 0 /\ ids[op[d].run][op[d].cmd] \in Seqs
            /\ commands[op[d].run][ids[op[d].run][op[d].cmd]] = op[d].cmd
        <5>1. /\ ids[op[d].run][op[d].cmd] # 0
              /\ commands[op[d].run][ids[op[d].run][op[d].cmd]] = op[d].cmd
          BY <2>1, <3>4 DEF Commander
        <5>2. ids[op[d].run][op[d].cmd] \in {0} \cup Seqs
          BY <4>1 DEF IInv, TypeOK
        <5> QED BY <5>1, <5>2
      <4>3. /\ ids'[op[d].run][op[d].cmd] = ids[op[d].run][op[d].cmd]
            /\ commands'[op[d].run][ids[op[d].run][op[d].cmd]] = op[d].cmd
        BY <4>1, <4>2, Bound DEF Grown
      <4> QED BY <1>1, <2>3, <3>2, <3>4, <4>1, <4>2, <4>3 DEF Commander, Wants
    <3> QED BY <3>1, <3>3, <3>4
  <2>5. CASE UNCHANGED <<request, ids, commands, wpc, w, snap>>
    <3>1. Starter(d)'
      <4>1. \A q : Past(q)' = Past(q)
        BY <2>5 DEF Past, Live, Terminal
      <4>2. Terminal(view[d]') = Terminal(view[d])
        BY <1>1 DEF Terminal
      <4>3. Past(op[d].at)' = Past(op[d].at)
        BY <1>1, <2>5 DEF Past, Live, Terminal
      <4> QED BY <1>1, <2>1, <2>5, <4>1, <4>2, <4>3 DEF Starter, Terminal
    <3>2. Commander(d)'
      <4>1. \A r : Unpublished(r)' = Unpublished(r)
        BY <2>5 DEF Unpublished
      <4>2. Unpublished(op[d].run)' = Unpublished(op[d].run)
        BY <1>1, <2>5 DEF Unpublished
      <4> QED BY <1>1, <2>1, <2>5, <4>1, <4>2 DEF Commander, Wants
    <3> QED BY <2>3, <3>1, <3>2
  <2> QED BY <2>4, <2>5
<1> QED BY <1>1 DEF IInv

\* A step that changes no file, and the answers told only to the truth.
LEMMA QuietStep ==
  ASSUME IInv, TypeOK', NEW c \in Clients,
         UNCHANGED <<made, request, ids, commands, wpc, w, receipts, snap>>,
         \A d \in Clients \ {c} : /\ pc'[d] = pc[d] /\ op'[d] = op[d] /\ view'[d] = view[d]
                                  /\ lock' = d <=> lock = d,
         \A r \in Runs : Told(r)',
         Caller(c)', Starter(c)', Commander(c)'
  PROVE  IInv'
<1>1. Grown
  BY DEF Grown
<1>2. OneActiveRun'
  BY DEF IInv, OneActiveRun, Live, Terminal
<1>3. ASSUME NEW r \in Runs PROVE Run(r)'
  <2>1. Run(r)
    BY DEF IInv
  <2>2. Solver(r)' /\ Taken(r)'
    BY <2>1 DEF Run, Solver, Taken, Terminal
  <2>3. Receipted(r)' /\ Reported(r)' /\ Numbered(r)'
    BY <2>1 DEF Run, Receipted, Reported, Numbered, Terminal, Live
  <2> QED BY <2>2, <2>3 DEF Run
<1> QED BY <1>1, <1>2, <1>3, ClientFrame

-----------------------------------------------------------------------------
(* Calls.                                                                  *)

\* A client that leaves knows nothing.
LEMMA LeaveKeeps ==
  ASSUME IInv, NEW c \in Clients, Leave(c)
  PROVE  /\ Caller(c)' /\ Starter(c)' /\ Commander(c)'
         /\ \A d \in Clients \ {c} : /\ pc'[d] = pc[d] /\ op'[d] = op[d] /\ view'[d] = view[d]
                                     /\ lock' = d <=> lock = d
         /\ lock' \in Clients \cup {None} /\ pc' \in [Clients -> ClientControl]
         /\ op' \in [Clients -> Calls] /\ view' \in [Clients -> Snapshots]
<1>1. /\ pc \in [Clients -> ClientControl] /\ op \in [Clients -> Calls]
      /\ view \in [Clients -> Snapshots] /\ lock \in Clients \cup {None}
  BY DEF IInv, TypeOK
<1>2. NoCall \in Calls /\ Starting \in Snapshots
  BY Bound DEF NoCall, Calls, Starting, Snapshots, States
<1>3. pc'[c] = "idle" /\ op'[c] = NoCall /\ view'[c] = Starting
  BY <1>1 DEF Leave
<1>4. lock' # c /\ \A d \in Clients \ {c} : lock' = d <=> lock = d
  BY Bound DEF Leave
<1>5. Caller(c)'
  BY <1>3, <1>4 DEF Caller, Holding, NoCall
<1>6. Starter(c)' /\ Commander(c)'
  BY <1>3 DEF Starter, Commander, Wants, NoCall
<1>7. \A d \in Clients \ {c} : pc'[d] = pc[d] /\ op'[d] = op[d] /\ view'[d] = view[d]
  BY <1>1 DEF Leave
<1>8. /\ lock' \in Clients \cup {None} /\ pc' \in [Clients -> ClientControl]
      /\ op' \in [Clients -> Calls] /\ view' \in [Clients -> Snapshots]
  BY <1>1, <1>2 DEF Leave, ClientControl
<1> QED BY <1>4, <1>5, <1>6, <1>7, <1>8

\* A call begins at to.
LEMMA CallKeeps ==
  ASSUME IInv, NEW c \in Clients, NEW to \in Holding, NEW call \in Calls, Call(c, to, call),
         UNCHANGED <<view, told, admit, queue, worker, snap, budget>>,
         call.run \in Runs, call.kind # "none",
         \/ to \in {"scan", "mkdir"} /\ call.kind = "start"
         \/ to = "scan" /\ call.kind \in {"again", "inspect"}
         \/ to = "repair" /\ call.kind = "control" /\ call.cmd \in Commands,
         \A q \in call.todo : request[q],
         IF call.kind = "start"
         THEN /\ ~ request[call.run]
              /\ \A q \in Runs : q \in call.todo \/ Past(q)
              /\ to = "mkdir" => \A q \in Runs : Past(q)
         ELSE request[call.run]
  PROVE  IInv'
<1>1. UNCHANGED <<made, request, ids, commands, wpc, w, ready, receipts, snap, faults, timeouts>>
  BY DEF admit, queue, worker, budget
<1>2. pc[c] = "idle" /\ to \in ClientControl /\ lock = None /\ lock' = c
  BY DEF Call, Holding
<1>3. /\ pc' \in [Clients -> ClientControl] /\ pc'[c] = to
      /\ op' \in [Clients -> Calls] /\ op'[c] = call
      /\ \A d \in Clients \ {c} : pc'[d] = pc[d] /\ op'[d] = op[d]
  BY <1>2 DEF Call, IInv, TypeOK
<1>4. \A d \in Clients \ {c} : lock' = d <=> lock = d
  BY <1>2, Bound
<1>5. TypeOK'
  BY <1>1, <1>2, <1>3 DEF IInv, TypeOK
<1>6. \A r \in Runs : Told(r)'
  BY <1>1 DEF IInv, Run, Told, Answer
<1>7. Caller(c)'
  BY <1>1, <1>2, <1>3 DEF Caller, Holding
<1>8. Starter(c)'
  BY <1>1, <1>3 DEF Starter, Past, Live, Terminal
<1>9. Commander(c)'
  BY <1>1, <1>3 DEF Commander, Wants
<1> QED BY <1>1, <1>3, <1>4, <1>5, <1>6, <1>7, <1>8, <1>9, QuietStep

LEMMA StartNewKeeps == ASSUME IInv, NEW c \in Clients, NEW r \in Runs, StartNew(c, r) PROVE IInv'
<1> DEFINE others == {q \in Runs : request[q]}
           to == IF others = {} THEN "mkdir" ELSE "scan"
           call == [NoCall EXCEPT !.kind = "start", !.run = r, !.todo = others]
<1>1. Call(c, to, call) /\ ~ made[r] /\ UNCHANGED <<view, told, admit, queue, worker, snap, budget>>
  BY DEF StartNew
<1>2. /\ call \in Calls /\ call.run = r /\ call.kind = "start" /\ call.todo = others
      /\ to \in {"scan", "mkdir"} /\ to \in Holding
  BY DEF NoCall, Calls, Holding, ClientControl
<1>3. \A q \in Runs : Reported(q)
  BY DEF IInv, Run
<1>4. ~ request[r] /\ \A q \in Runs : q \in others \/ Past(q)
  BY <1>1, <1>3 DEF Reported, Past, Live
<1>5. to = "mkdir" => \A q \in Runs : Past(q)
  BY <1>4
<1> HIDE DEF to, call
<1> QED BY <1>1, <1>2, <1>4, <1>5, CallKeeps

LEMMA StartAgainKeeps ==
  ASSUME IInv, NEW c \in Clients, NEW r \in Runs, StartAgain(c, r) PROVE IInv'
<1> DEFINE call == [NoCall EXCEPT !.kind = "again", !.run = r, !.todo = {r}]
<1>1. Call(c, "scan", call) /\ request[r] /\ UNCHANGED <<view, told, admit, queue, worker, snap, budget>>
  BY DEF StartAgain
<1>2. /\ call \in Calls /\ call.run = r /\ call.kind = "again" /\ call.todo = {r}
      /\ "scan" \in Holding
  BY DEF NoCall, Calls, Holding, ClientControl
<1> HIDE DEF call
<1> QED BY <1>1, <1>2, CallKeeps

LEMMA InspectKeeps ==
  ASSUME IInv, NEW c \in Clients, NEW r \in Runs, Inspect(c, r) PROVE IInv'
<1> DEFINE call == [NoCall EXCEPT !.kind = "inspect", !.run = r, !.todo = {r}]
<1>1. Call(c, "scan", call) /\ request[r] /\ UNCHANGED <<view, told, admit, queue, worker, snap, budget>>
  BY DEF Inspect
<1>2. /\ call \in Calls /\ call.run = r /\ call.kind = "inspect" /\ call.todo = {r}
      /\ "scan" \in Holding
  BY DEF NoCall, Calls, Holding, ClientControl
<1> HIDE DEF call
<1> QED BY <1>1, <1>2, CallKeeps

LEMMA ControlKeeps ==
  ASSUME IInv, NEW c \in Clients, NEW r \in Runs, NEW k \in Commands, Control(c, r, k) PROVE IInv'
<1> DEFINE call == [NoCall EXCEPT !.kind = "control", !.run = r, !.cmd = k]
<1>1. Call(c, "repair", call) /\ request[r] /\ UNCHANGED <<view, told, admit, queue, worker, snap, budget>>
  BY DEF Control
<1>2. /\ call \in Calls /\ call.run = r /\ call.kind = "control" /\ call.cmd = k /\ call.todo = {}
      /\ "repair" \in Holding
  BY DEF NoCall, Calls, Holding, ClientControl
<1> HIDE DEF call
<1> QED BY <1>1, <1>2, CallKeeps

\* A call dies: what it was about to do is left undone.
LEMMA ClientDiesKeeps == ASSUME IInv, NEW c \in Clients, ClientDies(c) PROVE IInv'
<1>1. /\ Leave(c) /\ faults < MaxFaults /\ faults' = faults + 1
      /\ UNCHANGED <<told, made, request, ids, commands, wpc, w, ready, receipts, snap, timeouts>>
  BY DEF ClientDies, admit, queue, worker
<1>2. TypeOK'
  <2>1. faults' \in 0 .. MaxFaults
    BY <1>1, SessionBounds DEF IInv, TypeOK
  <2> QED BY <1>1, <2>1, LeaveKeeps DEF IInv, TypeOK
<1>3. \A r \in Runs : Told(r)'
  BY <1>1 DEF IInv, Run, Told, Answer
<1> QED BY <1>1, <1>2, <1>3, LeaveKeeps, QuietStep

\* A call under the lock goes on to to, with call, and has seen v.
LEMMA GoesOn ==
  ASSUME IInv, NEW c \in Clients, pc[c] \in Holding, NEW to \in Holding, NEW call \in Calls,
         NEW v \in Snapshots,
         pc' = [pc EXCEPT ![c] = to], op' = [op EXCEPT ![c] = call],
         view' = [view EXCEPT ![c] = v],
         UNCHANGED <<lock, told, made, request, ids, commands, wpc, w, ready, receipts, snap, faults>>,
         timeouts' \in 0 .. MaxTimeouts,
         Caller(c)', Starter(c)', Commander(c)'
  PROVE  IInv'
<1>1. to \in ClientControl
  BY DEF Holding
<1>2. TypeOK' /\ \A d \in Clients \ {c} : pc'[d] = pc[d] /\ op'[d] = op[d] /\ view'[d] = view[d]
  BY <1>1 DEF IInv, TypeOK
<1>3. \A r \in Runs : Told(r)'
  BY DEF IInv, Run, Told, Answer
<1> QED BY <1>2, <1>3, QuietStep

\* What of a client's state a step under the lock starts from.
LEMMA Present ==
  ASSUME IInv, NEW c \in Clients
  PROVE  /\ pc[c] \in ClientControl /\ op[c] \in Calls /\ view[c] \in Snapshots
         /\ pc \in [Clients -> ClientControl] /\ op \in [Clients -> Calls]
         /\ view \in [Clients -> Snapshots] /\ timeouts \in 0 .. MaxTimeouts
         /\ Caller(c) /\ Starter(c) /\ Commander(c)
         /\ op = [op EXCEPT ![c] = op[c]] /\ view = [view EXCEPT ![c] = view[c]]
         /\ op[c].todo \subseteq Runs
BY DEF IInv, TypeOK, Calls

LEMMA ReadSnapshotKeeps == ASSUME IInv, NEW c \in Clients, ReadSnapshot(c) PROVE IInv'
<1>1. PICK r \in op[c].todo : /\ view' = [view EXCEPT ![c] = snap[r]]
                              /\ op' = [op EXCEPT ![c].at = r, ![c].todo = @ \ {r}]
  BY DEF ReadSnapshot
<1>2. /\ pc[c] = "scan" /\ pc' = [pc EXCEPT ![c] = "look"] /\ "look" \in Holding /\ pc[c] \in Holding
      /\ UNCHANGED <<lock, told, made, request, ids, commands, wpc, w, ready, receipts, snap, faults, timeouts>>
  BY DEF ReadSnapshot, Move, admit, queue, worker, budget, Holding, ClientControl
<1>3. r \in Runs /\ snap[r] \in Snapshots /\ Reported(r)
  BY <1>1, Present DEF IInv, TypeOK, Run
<1>4. PICK call : call = [op[c] EXCEPT !.at = r, !.todo = @ \ {r}]
  OBVIOUS
<1>5. /\ call \in Calls /\ call.at = r /\ call.todo = op[c].todo \ {r}
      /\ call.run = op[c].run /\ call.kind = op[c].kind /\ call.cmd = op[c].cmd
  BY <1>3, <1>4, Present DEF Calls
<1>6. op' = [op EXCEPT ![c] = call]
  BY <1>1, <1>4, Present
<1>7. pc'[c] = "look" /\ op'[c] = call /\ view'[c] = snap[r]
  BY <1>1, <1>2, <1>6, Present
<1>8. Caller(c)'
  BY <1>1, <1>2, <1>3, <1>5, <1>7, Present DEF Caller, Holding, ClientControl
<1>9. Starter(c)'
  <2>1. Terminal(snap[r]) => Past(r)
    BY <1>3 DEF Reported, Past, Terminal, TerminalStates
  <2>2. Terminal(view[c])' => Past(op[c].at)'
    BY <1>2, <1>5, <1>7, <2>1 DEF Past, Live, Terminal
  <2>3. op[c].kind = "start" =>
          ~ request[op[c].run] /\ \A q \in Runs : q \in op[c].todo \/ Past(q)
    BY <1>2, Present DEF Starter
  <2>4. \A q : Past(q)' = Past(q)
    BY <1>2 DEF Past, Live, Terminal
  <2>5. op'[c].kind = "start" =>
          ~ request'[op'[c].run] /\ \A q \in Runs : q \in op'[c].todo \/ q = op'[c].at \/ Past(q)'
    BY <1>2, <1>5, <1>7, <2>3, <2>4
  <2> QED BY <1>7, <2>2, <2>5 DEF Starter
<1>10. Commander(c)'
  BY <1>2, <1>5, <1>7, Present DEF Commander, Wants, Unpublished
<1> QED BY <1>1, <1>2, <1>3, <1>5, <1>6, <1>8, <1>9, <1>10, Present, GoesOn

LEMMA LaunchedKeeps == ASSUME IInv, NEW c \in Clients, Launched(c) PROVE IInv'
<1>1. /\ pc[c] = "await" /\ pc' = [pc EXCEPT ![c] = "scan"] /\ "scan" \in Holding /\ pc[c] \in Holding
      /\ UNCHANGED <<lock, view, told, made, request, ids, commands, wpc, w, ready, receipts, snap, faults, timeouts>>
  BY DEF Launched, Move, admit, queue, worker, budget, Holding, ClientControl
<1>2. op[c].run \in Runs /\ request[op[c].run]
  BY <1>1, Present DEF Caller
<1>3. PICK call : call = [op[c] EXCEPT !.kind = "again", !.todo = {op[c].run}]
  OBVIOUS
<1>4. call \in Calls /\ call.kind = "again" /\ call.run = op[c].run /\ call.todo = {op[c].run}
  BY <1>2, <1>3, Present DEF Calls
<1>5. op' = [op EXCEPT ![c] = call]
  BY <1>3, Present DEF Launched
<1>6. pc'[c] = "scan" /\ op'[c] = call
  BY <1>1, <1>5, Present
<1>7. Caller(c)'
  BY <1>1, <1>2, <1>4, <1>6, Present DEF Caller, Holding, ClientControl
<1>8. Starter(c)' /\ Commander(c)'
  BY <1>4, <1>6 DEF Starter, Commander, Wants
<1> QED BY <1>1, <1>4, <1>5, <1>7, <1>8, Present, GoesOn

LEMMA UnconfirmedKeeps == ASSUME IInv, NEW c \in Clients, Unconfirmed(c) PROVE IInv'
<1>1. /\ pc[c] = "await" /\ pc' = [pc EXCEPT ![c] = "unconfirmed"]
      /\ "unconfirmed" \in Holding /\ pc[c] \in Holding
      /\ UNCHANGED <<lock, op, view, told, made, request, ids, commands, wpc, w, ready, receipts, snap, faults>>
  BY DEF Unconfirmed, Move, admit, queue, worker, budget, Holding, ClientControl
<1>2. timeouts' \in 0 .. MaxTimeouts
  BY SessionBounds DEF Unconfirmed, IInv, TypeOK
<1>3. pc'[c] = "unconfirmed" /\ op'[c] = op[c]
  BY <1>1, Present
<1>4. Caller(c)'
  BY <1>1, <1>3, Present DEF Caller, Holding, ClientControl
<1>5. Starter(c)' /\ Commander(c)'
  BY <1>1, <1>3, Present DEF Caller, Starter, Commander, Wants
<1> QED BY <1>1, <1>2, <1>4, <1>5, Present, GoesOn

LEMMA RepairedKeeps == ASSUME IInv, NEW c \in Clients, Repaired(c) PROVE IInv'
<1>1. /\ pc[c] = "repair" /\ pc' = [pc EXCEPT ![c] = "identify"]
      /\ "identify" \in Holding /\ pc[c] \in Holding /\ Unpublished(op[c].run) = {}
      /\ UNCHANGED <<lock, op, view, told, made, request, ids, commands, wpc, w, ready, receipts, snap, faults, timeouts>>
  BY DEF Repaired, Move, admit, queue, worker, budget, Holding, ClientControl
<1>2. pc'[c] = "identify" /\ op'[c] = op[c]
  BY <1>1, Present
<1>3. Caller(c)'
  BY <1>1, <1>2, Present DEF Caller, Holding, ClientControl
<1>4. Starter(c)' /\ Commander(c)'
  BY <1>1, <1>2, Present DEF Caller, Starter, Commander, Wants, Unpublished
<1> QED BY <1>1, <1>3, <1>4, Present, GoesOn

LEMMA IdentifyKeeps == ASSUME IInv, NEW c \in Clients, Identify(c) PROVE IInv'
<1> DEFINE known == ids[op[c].run][op[c].cmd] # 0
<1>1. /\ pc[c] = "identify" /\ pc' = [pc EXCEPT ![c] = IF known THEN "publish" ELSE "scan"]
      /\ op' = IF known THEN op ELSE [op EXCEPT ![c].todo = {op[c].run}]
      /\ "publish" \in Holding /\ "scan" \in Holding /\ pc[c] \in Holding
      /\ UNCHANGED <<lock, view, told, made, request, ids, commands, wpc, w, ready, receipts, snap, faults, timeouts>>
  BY DEF Identify, Move, admit, queue, worker, budget, Holding, ClientControl
<1>2. /\ op[c].run \in Runs /\ op[c].kind = "control" /\ request[op[c].run] /\ op[c].cmd \in Commands
      /\ Unpublished(op[c].run) = {}
  BY <1>1, Present DEF Caller, Commander
<1> HIDE DEF known
<1>3. CASE known
  <2>1. pc'[c] = "publish" /\ op'[c] = op[c] /\ UNCHANGED op
    BY <1>1, <1>3, Present
  <2>2. Caller(c)'
    BY <1>1, <2>1, Present DEF Caller, Holding, ClientControl
  <2>3. Starter(c)' /\ Commander(c)'
    BY <1>1, <1>2, <1>3, <2>1, Present DEF Caller, Starter, Commander, Wants, known
  <2>4. /\ pc' = [pc EXCEPT ![c] = "publish"] /\ op' = [op EXCEPT ![c] = op[c]]
        /\ view' = [view EXCEPT ![c] = view[c]]
    BY <1>1, <1>3, <2>1, Present
  <2>5. /\ pc[c] \in Holding /\ "publish" \in Holding /\ op[c] \in Calls /\ view[c] \in Snapshots
        /\ timeouts' \in 0 .. MaxTimeouts
        /\ UNCHANGED <<lock, told, made, request, ids, commands, wpc, w, ready, receipts, snap, faults>>
    BY <1>1, Present
  <2> QED BY <2>2, <2>3, <2>4, <2>5, GoesOn
<1>4. CASE ~ known
  <2>1. PICK call : call = [op[c] EXCEPT !.todo = {op[c].run}]
    OBVIOUS
  <2>2. /\ call \in Calls /\ call.kind = "control" /\ call.run = op[c].run /\ call.cmd = op[c].cmd
        /\ call.todo = {op[c].run}
    BY <1>2, <2>1, Present DEF Calls
  <2>3. op' = [op EXCEPT ![c] = call] /\ op'[c] = call /\ pc'[c] = "scan"
    BY <1>1, <1>4, <2>1, Present
  <2>4. Caller(c)'
    BY <1>1, <1>2, <2>2, <2>3, Present DEF Caller, Holding, ClientControl
  <2>5. Starter(c)' /\ Commander(c)'
    BY <1>1, <1>2, <1>4, <2>2, <2>3 DEF Starter, Commander, Wants, Unpublished, known
  <2>6. pc' = [pc EXCEPT ![c] = "scan"] /\ view' = [view EXCEPT ![c] = view[c]]
    BY <1>1, <1>4, Present
  <2>7. UNCHANGED <<lock, told, made, request, ids, commands, wpc, w, ready, receipts, snap, faults>>
    BY <1>1
  <2>8. /\ pc[c] \in Holding /\ "scan" \in Holding /\ view[c] \in Snapshots
        /\ timeouts' \in 0 .. MaxTimeouts
    BY <1>1, Present
  <2> QED BY <2>2, <2>3, <2>4, <2>5, <2>6, <2>7, <2>8, GoesOn
<1> QED BY <1>3, <1>4

\* The wait for a receipt ends: the call takes the lock again.
LEMMA LateKeeps == ASSUME IInv, NEW c \in Clients, Late(c) PROVE IInv'
<1>1. /\ pc[c] = "poll" /\ pc' = [pc EXCEPT ![c] = "scan"] /\ lock = None /\ lock' = c
      /\ UNCHANGED <<view, told, made, request, ids, commands, wpc, w, ready, receipts, snap, faults, timeouts>>
  BY DEF Late, Move, admit, queue, worker, budget
<1>2. /\ op[c].run \in Runs /\ op[c].kind = "control" /\ request[op[c].run] /\ op[c].cmd \in Commands
      /\ ids[op[c].run][op[c].cmd] # 0
      /\ commands[op[c].run][ids[op[c].run][op[c].cmd]] = op[c].cmd
  BY <1>1, Present DEF Caller, Commander
<1>3. PICK call : call = [op[c] EXCEPT !.kind = "late", !.todo = {op[c].run}]
  OBVIOUS
<1>4. /\ call \in Calls /\ call.kind = "late" /\ call.run = op[c].run /\ call.cmd = op[c].cmd
      /\ call.todo = {op[c].run}
  <2>1. op[c] \in Calls /\ {op[c].run} \in SUBSET Runs
    BY <1>2, Present
  <2> QED BY <1>3, <2>1 DEF Calls
<1>5. op' = [op EXCEPT ![c] = call]
  BY <1>3, Present DEF Late
<1>6. /\ op'[c] = call /\ pc'[c] = "scan"
      /\ \A d \in Clients \ {c} : /\ pc'[d] = pc[d] /\ op'[d] = op[d] /\ view'[d] = view[d]
                                  /\ lock' = d <=> lock = d
  BY <1>1, <1>5, Present, Bound
<1>7. TypeOK'
  <2>1. "scan" \in ClientControl
    BY DEF ClientControl
  <2> QED BY <1>1, <1>4, <1>5, <2>1 DEF IInv, TypeOK
<1>8. Caller(c)'
  BY <1>1, <1>2, <1>4, <1>6, Present DEF Caller, Holding, ClientControl
<1>9. Starter(c)' /\ Commander(c)'
  BY <1>1, <1>2, <1>4, <1>6 DEF Starter, Commander, Wants
<1>10. \A r \in Runs : Told(r)'
  BY <1>1 DEF IInv, Run, Told, Answer
<1> QED BY <1>1, <1>6, <1>7, <1>8, <1>9, <1>10, QuietStep

LEMMA AnswerReceiptKeeps == ASSUME IInv, NEW c \in Clients, AnswerReceipt(c) PROVE IInv'
<1> DEFINE r == op[c].run
           k == op[c].cmd
<1>1. /\ pc[c] = "poll" /\ Leave(c) /\ receipts[r][ids[r][k]] # None
      /\ told' = [told EXCEPT ![r][k] = @ \cup {receipts[r][ids[r][k]]}]
      /\ UNCHANGED <<made, request, ids, commands, wpc, w, ready, receipts, snap, faults, timeouts>>
  BY DEF AnswerReceipt, Receipt, admit, queue, worker, budget
<1>2. /\ r \in Runs /\ k \in Commands /\ ids[r][k] # 0 /\ commands[r][ids[r][k]] = k
  BY <1>1, Present DEF Caller, Commander
<1>3. receipts[r][ids[r][k]] \in Verdicts
  <2>1. ids[r][k] \in Seqs
    BY <1>2 DEF IInv, TypeOK
  <2>2. receipts \in [Runs -> [Seqs -> Verdicts \cup {None}]]
    BY DEF IInv, TypeOK
  <2>3. receipts[r][ids[r][k]] \in Verdicts \cup {None}
    BY <1>2, <2>1, <2>2
  <2> QED BY <1>1, <2>3
<1> HIDE DEF r, k
<1>4. told' \in [Runs -> [Commands -> SUBSET Answers]]
  BY <1>1, <1>2, <1>3 DEF IInv, TypeOK, Answers
<1>5. \A q \in Runs, l \in Commands : \A v \in told'[q][l] :
        v \in told[q][l] \/ (q = r /\ l = k /\ v = receipts[r][ids[r][k]])
  BY <1>1, <1>2 DEF IInv, TypeOK
<1>6. TypeOK'
  BY <1>1, <1>4, LeaveKeeps DEF IInv, TypeOK
<1>7. ASSUME NEW q \in Runs PROVE Told(q)'
  <2>1. Told(q)
    BY DEF IInv, Run
  <2>2. ASSUME NEW l \in Commands, NEW v \in told'[q][l] \ {"not_applied"} PROVE Answer(q, l, v)'
    <3>1. CASE v \in told[q][l]
      BY <1>1, <2>1, <2>2, <3>1 DEF Told, Answer
    <3>2. CASE q = r /\ l = k /\ v = receipts[r][ids[r][k]]
      BY <1>1, <1>2, <3>2 DEF Answer
    <3> QED BY <1>5, <2>2, <3>1, <3>2
  <2> QED BY <2>2 DEF Told
<1> QED BY <1>1, <1>6, <1>7, LeaveKeeps, QuietStep

-----------------------------------------------------------------------------
(* Calls that reconcile a snapshot.                                        *)

\* Only a snapshot without a worker is declared failed.
LEMMA Reconciled ==
  ASSUME IInv, NEW c \in Clients, pc[c] = "look", Reconcile(c),
         UNCHANGED <<made, request, ids, commands, wpc, w, receipts>>
  PROVE  /\ snap' \in [Runs -> Snapshots] /\ lock = c
         /\ \A r \in Runs : Run(r)' <=> Run(r) /\ Told(r)'
         /\ \A q : Past(q)' = Past(q)
         /\ OneActiveRun' /\ Grown
<1>1. op[c].at \in Runs /\ lock = c /\ request[op[c].at]
  BY Present DEF Caller, Holding, ClientControl
<1>2. PICK a \in Runs : a = op[c].at
  BY <1>1
<1>3. \/ UNCHANGED snap
      \/ /\ ~ Live(a) /\ request[a]
         /\ snap' = [snap EXCEPT ![a] = [snap[a] EXCEPT !.state = "failed"]]
  BY <1>1, <1>2 DEF Reconcile, Abandoned, OwnerHeld, Declared, IInv, TypeOK
<1>4. PICK s \in Snapshots : s = [snap[a] EXCEPT !.state = "failed"]
  <2>1. snap[a] \in Snapshots
    BY DEF IInv, TypeOK
  <2> QED BY <2>1 DEF Snapshots, States, TerminalStates
<1>5. s.tick = snap[a].tick /\ s.cmd = snap[a].cmd
  BY <1>4 DEF IInv, TypeOK, Snapshots
<1>6. snap' \in [Runs -> Snapshots]
  BY <1>3, <1>4 DEF IInv, TypeOK
<1>7. ASSUME NEW r \in Runs PROVE Reported(r)'
  <2>1. Reported(r)
    BY DEF IInv, Run
  <2>2. CASE snap'[r] = snap[r]
    BY <2>1, <2>2 DEF Reported, Terminal, Live
  <2>3. CASE r = a /\ ~ Live(a) /\ request[a] /\ snap'[a] = s
    BY <1>5, <2>1, <2>3 DEF Reported, Live
  <2> QED BY <1>3, <1>4, <2>2, <2>3 DEF IInv, TypeOK
<1>8. ASSUME NEW r \in Runs PROVE Run(r)' <=> Run(r) /\ Told(r)'
  <2>1. Run(r)
    BY DEF IInv
  <2>2. Solver(r)' /\ Taken(r)'
    BY <2>1 DEF Run, Solver, Taken, Terminal
  <2>3. Receipted(r)' /\ Numbered(r)'
    BY <2>1 DEF Run, Receipted, Numbered
  <2> QED BY <1>7, <2>1, <2>2, <2>3 DEF Run
<1>9. \A q : Past(q)' = Past(q)
  BY DEF Past, Live, Terminal
<1>10. OneActiveRun' /\ Grown
  BY DEF IInv, OneActiveRun, Live, Terminal, Grown
<1> QED BY <1>1, <1>6, <1>8, <1>9, <1>10

LEMMA ReturnStatusKeeps == ASSUME IInv, NEW c \in Clients, ReturnStatus(c) PROVE IInv'
<1>1. /\ pc[c] = "look" /\ Reconcile(c) /\ Leave(c)
      /\ UNCHANGED <<told, made, request, ids, commands, wpc, w, ready, receipts, faults, timeouts>>
  BY DEF ReturnStatus, admit, queue, worker, budget
<1>2. TypeOK'
  BY <1>1, Reconciled, LeaveKeeps DEF IInv, TypeOK
<1>3. \A r \in Runs : Told(r)'
  BY <1>1 DEF IInv, Run, Told, Answer
<1>4. \A r \in Runs : Run(r)'
  BY <1>1, <1>3, Reconciled DEF IInv
<1> QED BY <1>1, <1>2, <1>4, Reconciled, LeaveKeeps, ClientFrame

LEMMA AnswerLateKeeps == ASSUME IInv, NEW c \in Clients, AnswerLate(c) PROVE IInv'
<1>1. /\ pc[c] = "look" /\ Reconcile(c) /\ Leave(c) /\ op[c].kind = "late"
      /\ \/ UNCHANGED told
         \/ told' = [told EXCEPT ![op[c].run][op[c].cmd] = @ \cup {"not_applied"}]
      /\ UNCHANGED <<made, request, ids, commands, wpc, w, ready, receipts, faults, timeouts>>
  BY DEF AnswerLate, admit, queue, worker, budget
<1>2. op[c].run \in Runs /\ op[c].cmd \in Commands
  BY <1>1, Present DEF Caller, Commander
<1>3. /\ told' \in [Runs -> [Commands -> SUBSET Answers]]
      /\ \A q \in Runs, l \in Commands : told'[q][l] \ {"not_applied"} \subseteq told[q][l]
  <2>1. told \in [Runs -> [Commands -> SUBSET Answers]] /\ "not_applied" \in Answers
    BY DEF IInv, TypeOK, Answers
  <2>2. PICK r \in Runs, k \in Commands : r = op[c].run /\ k = op[c].cmd
    BY <1>2
  <2>3. CASE UNCHANGED told
    BY <2>1, <2>3
  <2>4. CASE told' = [told EXCEPT ![r][k] = @ \cup {"not_applied"}]
    <3>1. \A q \in Runs, l \in Commands :
            told'[q][l] = IF q = r /\ l = k THEN told[q][l] \cup {"not_applied"} ELSE told[q][l]
      BY <2>1, <2>4
    <3>2. told' \in [Runs -> [Commands -> SUBSET Answers]]
      BY <2>1, <2>4
    <3> QED BY <3>1, <3>2
  <2> QED BY <1>1, <2>2, <2>3, <2>4
<1>4. TypeOK'
  BY <1>1, <1>3, Reconciled, LeaveKeeps DEF IInv, TypeOK
<1>5. \A r \in Runs : Told(r)'
  BY <1>1, <1>3 DEF IInv, Run, Told, Answer
<1>6. \A r \in Runs : Run(r)'
  BY <1>1, <1>5, Reconciled DEF IInv
<1> QED BY <1>1, <1>4, <1>6, Reconciled, LeaveKeeps, ClientFrame

\* A status that is over stands for a run that is past.
LEMMA OverIsPast ==
  ASSUME IInv, NEW c \in Clients, pc[c] = "look", Over(c)
  PROVE  Past(op[c].at)
<1>1. CASE Terminal(view[c])
  BY <1>1, Present DEF Starter
<1>2. CASE ~ Terminal(view[c])
  BY <1>2 DEF Over, Status, OwnerHeld, Past
<1> QED BY <1>1, <1>2

LEMMA AdmitScanKeeps == ASSUME IInv, NEW c \in Clients, AdmitScan(c) PROVE IInv'
<1>1. /\ pc[c] = "look" /\ op[c].kind = "start" /\ Reconcile(c)
      /\ UNCHANGED <<told, made, request, ids, commands, wpc, w, ready, receipts, faults, timeouts>>
  BY DEF AdmitScan, admit, queue, worker, budget
<1>2. \A r \in Runs : Run(r)'
  <2>1. \A r \in Runs : Told(r)'
    BY <1>1 DEF IInv, Run, Told, Answer
  <2> QED BY <1>1, <2>1, Reconciled DEF IInv
<1>3. CASE Leave(c)
  <2>1. TypeOK'
    BY <1>1, <1>3, Reconciled, LeaveKeeps DEF IInv, TypeOK
  <2> QED BY <1>1, <1>2, <1>3, <2>1, Reconciled, LeaveKeeps, ClientFrame
<1>4. CASE /\ Over(c) /\ UNCHANGED <<lock, op, view>>
           /\ pc' = [pc EXCEPT ![c] = IF op[c].todo = {} THEN "mkdir" ELSE "scan"]
  <2>1. PICK to \in Holding : to = IF op[c].todo = {} THEN "mkdir" ELSE "scan"
    BY DEF Holding, ClientControl
  <2>2. pc' = [pc EXCEPT ![c] = to] /\ to \in {"mkdir", "scan"}
    BY <1>4, <2>1
  <2>3. pc'[c] = to /\ op'[c] = op[c] /\ \A d \in Clients \ {c} : pc'[d] = pc[d]
    BY <1>4, <2>2, Present
  <2>4. TypeOK'
    BY <1>1, <1>4, <2>1, <2>2, Reconciled DEF IInv, TypeOK, Holding
  <2>5. Caller(c)'
    BY <1>1, <1>4, <2>1, <2>2, <2>3, Reconciled, Present DEF Caller
  <2>6. \A q \in Runs : q \in op[c].todo \/ Past(q)
    BY <1>1, <1>4, OverIsPast, Present DEF Starter
  <2>7. Starter(c)'
    <3>1. \A q \in Runs : q \in op[c].todo \/ Past(q)'
      BY <1>1, <2>6, Reconciled
    <3>2. to = "mkdir" => \A q \in Runs : Past(q)'
      BY <2>1, <3>1
    <3>3. ~ request'[op'[c].run]
      BY <1>1, <2>3, Present DEF Starter
    <3> QED BY <2>2, <2>3, <3>1, <3>2, <3>3 DEF Starter
  <2>8. Commander(c)'
    BY <1>1, <2>2, <2>3 DEF Commander, Wants
  <2> QED BY <1>1, <1>2, <1>4, <2>3, <2>4, <2>5, <2>7, <2>8, Reconciled, ClientFrame
<1> QED BY <1>3, <1>4 DEF AdmitScan

LEMMA AdmitCommandKeeps == ASSUME IInv, NEW c \in Clients, AdmitCommand(c) PROVE IInv'
<1>1. /\ pc[c] = "look" /\ op[c].kind = "control" /\ Reconcile(c)
      /\ UNCHANGED <<told, made, request, ids, commands, wpc, w, ready, receipts, faults, timeouts>>
  BY DEF AdmitCommand, admit, queue, worker, budget
<1>2. \A r \in Runs : Run(r)'
  <2>1. \A r \in Runs : Told(r)'
    BY <1>1 DEF IInv, Run, Told, Answer
  <2> QED BY <1>1, <2>1, Reconciled DEF IInv
<1>3. CASE Leave(c)
  <2>1. TypeOK'
    BY <1>1, <1>3, Reconciled, LeaveKeeps DEF IInv, TypeOK
  <2> QED BY <1>1, <1>2, <1>3, <2>1, Reconciled, LeaveKeeps, ClientFrame
<1>4. CASE pc' = [pc EXCEPT ![c] = "allocate"] /\ UNCHANGED <<lock, op, view>>
  <2>1. pc'[c] = "allocate" /\ op'[c] = op[c] /\ \A d \in Clients \ {c} : pc'[d] = pc[d]
    BY <1>4, Present
  <2>2. "allocate" \in Holding /\ "allocate" \in ClientControl
    BY DEF Holding, ClientControl
  <2>3. TypeOK'
    BY <1>1, <1>4, <2>2, Reconciled DEF IInv, TypeOK
  <2>4. Caller(c)'
    BY <1>1, <1>4, <2>1, <2>2, Reconciled, Present DEF Caller
  <2>5. Starter(c)'
    BY <2>1 DEF Starter
  <2>6. Commander(c)'
    BY <1>1, <2>1, Present DEF Commander, Wants, Unpublished
  <2> QED BY <1>1, <1>2, <1>4, <2>1, <2>3, <2>4, <2>5, <2>6, Reconciled, ClientFrame
<1> QED BY <1>3, <1>4 DEF AdmitCommand

-----------------------------------------------------------------------------
(* run_start.                                                              *)

LEMMA WriteStartingKeeps == ASSUME IInv, NEW c \in Clients, WriteStarting(c) PROVE IInv'
<1>1. /\ pc[c] = "unconfirmed" /\ Leave(c) /\ snap' = [snap EXCEPT ![op[c].run] = Starting]
      /\ UNCHANGED <<told, made, request, ids, commands, wpc, w, ready, receipts, faults, timeouts>>
  BY DEF WriteStarting, admit, queue, worker, budget
<1>2. op[c].run \in Runs /\ lock = c
  BY <1>1, Present DEF Caller, Holding, ClientControl
<1>3. PICK a \in Runs, s \in Snapshots : a = op[c].run /\ s = Starting
  <2>1. Starting \in Snapshots
    BY Bound DEF Starting, Snapshots, States
  <2> QED BY <1>2, <2>1
<1>4. /\ snap' \in [Runs -> Snapshots]
      /\ \A r \in Runs : snap'[r] = IF r = a THEN Starting ELSE snap[r]
  BY <1>1, <1>3 DEF IInv, TypeOK
<1>5. TypeOK'
  BY <1>1, <1>4, LeaveKeeps DEF IInv, TypeOK
<1>6. ASSUME NEW r \in Runs PROVE Run(r)'
  <2>1. Run(r)
    BY DEF IInv
  <2>2. Solver(r)' /\ Taken(r)' /\ Receipted(r)'
    BY <1>1, <2>1 DEF Run, Solver, Taken, Receipted, Terminal
  <2>3. Numbered(r)' /\ Told(r)'
    BY <1>1, <2>1 DEF Run, Numbered, Told, Answer
  <2>4. w[r].tick \in 0 .. Limit /\ w[r].cmd \in 0 .. Cardinality(Commands)
    BY DEF IInv, TypeOK, Memories
  <2>5. /\ Starting.tick = 0 /\ Starting.cmd = 0 /\ Starting.state \notin TerminalStates
    BY DEF Starting, TerminalStates
  <2>6. Reported(r)'
    <3>1. CASE r = a
      BY <1>1, <1>4, <2>1, <2>4, <2>5, <3>1 DEF Run, Reported, Terminal
    <3>2. CASE r # a
      BY <1>1, <1>4, <2>1, <3>2 DEF Run, Reported, Terminal, Live
    <3> QED BY <3>1, <3>2
  <2> QED BY <2>2, <2>3, <2>6 DEF Run
<1>7. OneActiveRun' /\ Grown
  BY <1>1 DEF IInv, OneActiveRun, Live, Terminal, Grown
<1> QED BY <1>1, <1>2, <1>5, <1>6, <1>7, LeaveKeeps, ClientFrame

LEMMA MakeDirectoryKeeps == ASSUME IInv, NEW c \in Clients, MakeDirectory(c) PROVE IInv'
<1>1. /\ pc[c] = "mkdir" /\ pc' = [pc EXCEPT ![c] = "made"] /\ made' = [made EXCEPT ![op[c].run] = TRUE]
      /\ UNCHANGED <<lock, op, view, told, request, ids, commands, wpc, w, ready, receipts, snap, faults, timeouts>>
      /\ "made" \in ClientControl /\ "made" \in Holding
  BY DEF MakeDirectory, Move, queue, worker, budget, ClientControl, Holding
<1>2. op[c].run \in Runs /\ lock = c
  BY <1>1, Present DEF Caller, Holding, ClientControl
<1>3. /\ made' \in [Runs -> BOOLEAN] /\ made'[op[c].run]
      /\ \A r \in Runs : made[r] => made'[r]
  BY <1>1, <1>2 DEF IInv, TypeOK
<1>4. TypeOK'
  BY <1>1, <1>3 DEF IInv, TypeOK
<1>5. pc'[c] = "made" /\ op'[c] = op[c] /\ \A d \in Clients \ {c} : pc'[d] = pc[d]
  BY <1>1, Present
<1>6. ASSUME NEW r \in Runs PROVE Run(r)'
  <2>1. Run(r)
    BY DEF IInv
  <2>2. Solver(r)' /\ Taken(r)' /\ Receipted(r)' /\ Numbered(r)'
    BY <1>1, <2>1 DEF Run, Solver, Taken, Receipted, Numbered, Terminal
  <2>3. Reported(r)' /\ Told(r)'
    BY <1>1, <1>3, <2>1 DEF Run, Reported, Told, Answer, Terminal, Live
  <2> QED BY <2>2, <2>3 DEF Run
<1>7. OneActiveRun' /\ Grown
  BY <1>1, <1>3 DEF IInv, OneActiveRun, Live, Terminal, Grown
<1>8. Caller(c)'
  BY <1>1, <1>2, <1>3, <1>5, Present DEF Caller
<1>9. Starter(c)'
  <2>1. ~ request[op[c].run] /\ \A q \in Runs : Past(q)
    BY <1>1, Present DEF Starter, Caller
  <2>2. \A q : Past(q)' = Past(q)
    BY <1>1 DEF Past, Live, Terminal
  <2> QED BY <1>1, <1>5, <2>1, <2>2 DEF Starter
<1>10. Commander(c)'
  BY <1>1, <1>5, Present DEF Commander, Caller, Wants
<1> QED BY <1>1, <1>2, <1>4, <1>5, <1>6, <1>7, <1>8, <1>9, <1>10, ClientFrame

LEMMA WriteRequestKeeps == ASSUME IInv, NEW c \in Clients, WriteRequest(c) PROVE IInv'
<1>1. /\ pc[c] = "made" /\ pc' = [pc EXCEPT ![c] = "requested"]
      /\ request' = [request EXCEPT ![op[c].run] = TRUE]
      /\ UNCHANGED <<lock, op, view, told, made, ids, commands, wpc, w, ready, receipts, snap, faults, timeouts>>
      /\ "requested" \in ClientControl /\ "requested" \in Holding
  BY DEF WriteRequest, Move, queue, worker, budget, ClientControl, Holding
<1>2. op[c].run \in Runs /\ lock = c /\ made[op[c].run] /\ op[c].kind = "start"
  BY <1>1, Present DEF Caller, Holding, ClientControl
<1>3. /\ request' \in [Runs -> BOOLEAN] /\ request'[op[c].run]
      /\ \A r \in Runs : request[r] => request'[r]
      /\ \A r \in Runs : request'[r] => request[r] \/ r = op[c].run
  BY <1>1, <1>2 DEF IInv, TypeOK
<1>4. TypeOK'
  BY <1>1, <1>3 DEF IInv, TypeOK
<1>5. pc'[c] = "requested" /\ op'[c] = op[c] /\ \A d \in Clients \ {c} : pc'[d] = pc[d]
  BY <1>1, Present
<1>6. ASSUME NEW r \in Runs PROVE Run(r)'
  <2>1. Run(r)
    BY DEF IInv
  <2>2. Solver(r)' /\ Taken(r)' /\ Receipted(r)' /\ Numbered(r)'
    BY <1>1, <2>1 DEF Run, Solver, Taken, Receipted, Numbered, Terminal
  <2>3. Reported(r)' /\ Told(r)'
    BY <1>1, <1>2, <1>3, <2>1 DEF Run, Reported, Told, Answer, Terminal, Live
  <2> QED BY <2>2, <2>3 DEF Run
<1>7. OneActiveRun' /\ Grown
  BY <1>1, <1>3 DEF IInv, OneActiveRun, Live, Terminal, Grown
<1>8. Caller(c)'
  BY <1>1, <1>2, <1>3, <1>5, Present DEF Caller
<1>9. Starter(c)'
  <2>1. ~ request[op[c].run] /\ \A q \in Runs : Past(q)
    BY <1>1, <1>2, Present DEF Starter
  <2>2. wpc[op[c].run] = "none" /\ snap[op[c].run] = Starting
    BY <1>2, <2>1 DEF IInv, Run, Reported
  <2>3. \A q : Past(q)' = Past(q)
    BY <1>1 DEF Past, Live, Terminal
  <2> QED BY <1>1, <1>5, <2>1, <2>2, <2>3 DEF Starter
<1>10. Commander(c)'
  BY <1>1, <1>2, <1>5, Present DEF Commander, Wants
<1> QED BY <1>1, <1>2, <1>4, <1>5, <1>6, <1>7, <1>8, <1>9, <1>10, ClientFrame

\* The new worker is the only one at work: all other runs were looked at.
LEMMA LaunchKeeps == ASSUME IInv, NEW c \in Clients, Launch(c) PROVE IInv'
<1>1. /\ pc[c] = "requested" /\ pc' = [pc EXCEPT ![c] = "await"]
      /\ wpc' = [wpc EXCEPT ![op[c].run] = "boot"]
      /\ UNCHANGED <<lock, op, view, told, made, request, ids, commands, w, ready, receipts, snap, faults, timeouts>>
      /\ "await" \in ClientControl /\ "await" \in Holding
  BY DEF Launch, Move, admit, queue, budget, ClientControl, Holding
<1>2. /\ op[c].run \in Runs /\ lock = c /\ op[c].kind = "start" /\ request[op[c].run]
      /\ wpc[op[c].run] = "none" /\ snap[op[c].run] = Starting /\ \A q \in Runs : Past(q)
  BY <1>1, Present DEF Caller, Starter, Holding, ClientControl
<1>3. PICK a \in Runs : a = op[c].run
  BY <1>2
<1>4. /\ wpc' \in [Runs -> WorkerControl] /\ wpc'[a] = "boot"
      /\ \A r \in Runs \ {a} : wpc'[r] = wpc[r]
  BY <1>1, <1>3 DEF IInv, TypeOK, WorkerControl
<1>5. TypeOK'
  BY <1>1, <1>4 DEF IInv, TypeOK
<1>6. pc'[c] = "await" /\ op'[c] = op[c] /\ \A d \in Clients \ {c} : pc'[d] = pc[d]
  BY <1>1, Present
<1>7. Run(a)'
  <2>1. Run(a) /\ w[a] = Fresh
    BY <1>2, <1>3 DEF IInv, Run, Solver
  <2>2. ~ Terminal(Fresh) /\ Fresh.state = "starting" /\ Fresh.doing = "free" /\ Fresh.pending = 0
        /\ Fresh.tick = 0
    BY DEF Terminal, TerminalStates, Fresh
  <2>3. Solver(a)' /\ Taken(a)'
    BY <1>1, <1>4, <2>1, <2>2, SessionBounds DEF Run, Solver, Taken, Terminal
  <2>4. Receipted(a)'
    BY <1>1, <1>4, <2>1, <2>2 DEF Run, Receipted
  <2>5. Reported(a)'
    <3>1. snap'[a] = Starting /\ ~ Terminal(Starting)
      BY <1>1, <1>2, <1>3 DEF Starting, Terminal, TerminalStates
    <3> QED BY <1>1, <1>2, <1>3, <2>1, <3>1 DEF Run, Reported, Terminal
  <2>6. Numbered(a)' /\ Told(a)'
    BY <1>1, <2>1 DEF Run, Numbered, Told, Answer
  <2> QED BY <2>3, <2>4, <2>5, <2>6 DEF Run
<1>8. ASSUME NEW r \in Runs, r # a PROVE Run(r)'
  <2>1. Run(r)
    BY DEF IInv
  <2>2. Solver(r)' /\ Taken(r)' /\ Receipted(r)'
    BY <1>1, <1>4, <1>8, <2>1 DEF Run, Solver, Taken, Receipted, Terminal
  <2>3. Reported(r)' /\ Numbered(r)' /\ Told(r)'
    BY <1>1, <1>4, <1>8, <2>1 DEF Run, Reported, Numbered, Told, Answer, Terminal, Live
  <2> QED BY <2>2, <2>3 DEF Run
<1>9. OneActiveRun'
  <2>1. \A r \in Runs \ {a} : Past(r)'
    BY <1>1, <1>2, <1>4 DEF Past, Live, Terminal
  <2> QED BY <2>1 DEF OneActiveRun, Past
<1>10. Grown
  BY <1>1 DEF Grown
<1>11. Caller(c)'
  BY <1>1, <1>2, <1>6, Present DEF Caller
<1>12. Starter(c)' /\ Commander(c)'
  BY <1>1, <1>2, <1>6, Present DEF Starter, Commander, Wants
<1> QED BY <1>1, <1>2, <1>5, <1>6, <1>7, <1>8, <1>9, <1>10, <1>11, <1>12, ClientFrame

-----------------------------------------------------------------------------
(* run_control.                                                            *)

\* The command file of a numbered command is written, or there already.
LEMMA Published ==
  ASSUME IInv, NEW r \in Runs, NEW k \in Commands, ids[r][k] # 0, PublishCommand(r, k),
         UNCHANGED <<made, request, ids, wpc, w, receipts, snap, told>>
  PROVE  /\ commands' \in [Runs -> [Seqs -> Commands \cup {None}]]
         /\ commands'[r][ids[r][k]] = k
         /\ \A q \in Runs : Run(q)'
         /\ OneActiveRun' /\ Grown
<1>1. PICK i \in Seqs : i = ids[r][k]
  BY DEF IInv, TypeOK
<1>2. commands \in [Runs -> [Seqs -> Commands \cup {None}]]
  BY DEF IInv, TypeOK
<1>3. commands' = [commands EXCEPT ![r][i] = IF @ = None THEN k ELSE @]
  BY <1>1 DEF PublishCommand
<1>4. commands' \in [Runs -> [Seqs -> Commands \cup {None}]]
  BY <1>2, <1>3
<1>5. \A q \in Runs, s \in Seqs :
        commands'[q][s] = IF q = r /\ s = i /\ commands[r][i] = None THEN k ELSE commands[q][s]
  BY <1>2, <1>3
<1>6. \A q \in Runs : Run(q)
  BY DEF IInv
<1>7. commands[r][i] \in {None, k}
  <2>1. ASSUME commands[r][i] # None PROVE commands[r][i] = k
    <3>1. PICK l \in Commands : l = commands[r][i]
      BY <1>2, <2>1
    <3>2. ids[r][l] = i
      BY <1>6, <2>1, <3>1 DEF Run, Numbered
    <3> QED BY <1>1, <1>6, <3>1, <3>2 DEF Run, Numbered
  <2> QED BY <2>1
<1>8. \A q \in Runs, s \in Seqs : commands[q][s] # None => commands'[q][s] = commands[q][s]
  BY <1>5, <1>7
<1>9. ASSUME NEW q \in Runs PROVE Run(q)'
  <2>1. Solver(q)' /\ Reported(q)'
    BY <1>6 DEF Run, Solver, Reported, Terminal, Live
  <2>2. Taken(q)'
    <3>1. w[q].pending \in Nat
      BY Bound DEF IInv, TypeOK, Memories
    <3>2. \A s \in Seqs : commands[q][s] \in Cancels => commands[q][s] # None
      BY Bound DEF Commands
    <3> QED BY <1>6, <1>8, <3>1, <3>2 DEF Run, Taken
  <2>3. Receipted(q)'
    <3>1. "applied" # None
      BY Bound DEF Verdicts
    <3> QED BY <1>6, <1>8, <3>1 DEF Run, Receipted
  <2>4. Numbered(q)'
    <3>1. \A l \in Commands : ids[q][l] # 0 => ids[q][l] \in Seqs
      BY DEF IInv, TypeOK
    <3>2. \A s \in Seqs : commands'[q][s] # None => ids[q][commands'[q][s]] = s
      BY <1>1, <1>5, <1>6 DEF Run, Numbered
    <3>3. \A l \in Commands : ids[q][l] # 0 => \A s \in 1 .. ids[q][l] - 1 : commands'[q][s] # None
      <4>1. \A l \in Commands : ids[q][l] # 0 => \A s \in 1 .. ids[q][l] - 1 : s \in Seqs
        BY <3>1, Bound DEF Seqs
      <4> QED BY <1>6, <1>8, <4>1 DEF Run, Numbered
    <3> QED BY <1>6, <3>2, <3>3 DEF Run, Numbered
  <2>5. Told(q)'
    <3>1. \A l \in Commands : ids[q][l] # 0 => ids[q][l] \in Seqs
      BY DEF IInv, TypeOK
    <3> QED BY <1>6, <1>8, <3>1, Bound DEF Run, Told, Answer
  <2> QED BY <2>1, <2>2, <2>3, <2>4, <2>5 DEF Run
<1>10. OneActiveRun' /\ Grown
  BY <1>8 DEF IInv, OneActiveRun, Live, Terminal, Grown
<1> QED BY <1>1, <1>4, <1>5, <1>7, <1>9, <1>10

LEMMA RepairKeeps == ASSUME IInv, NEW c \in Clients, Repair(c) PROVE IInv'
<1>1. /\ pc[c] = "repair"
      /\ UNCHANGED <<lock, pc, op, view, told, made, request, ids, wpc, w, ready, receipts, snap, faults, timeouts>>
  BY DEF Repair, client, admit, worker, budget
<1>2. op[c].run \in Runs /\ lock = c /\ op[c].kind = "control"
  BY <1>1, Present DEF Caller, Holding, ClientControl
<1>3. PICK k \in Commands : ids[op[c].run][k] # 0 /\ PublishCommand(op[c].run, k)
  BY DEF Repair, Unpublished
<1>4. /\ commands' \in [Runs -> [Seqs -> Commands \cup {None}]]
      /\ \A q \in Runs : Run(q)'
      /\ OneActiveRun' /\ Grown
  BY <1>1, <1>2, <1>3, Published
<1>5. TypeOK'
  BY <1>1, <1>4 DEF IInv, TypeOK
<1>6. Caller(c)' /\ Starter(c)'
  BY <1>1, Present DEF Caller, Starter
<1>7. Commander(c)'
  BY <1>1, <1>2, Present DEF Commander, Wants
<1> QED BY <1>1, <1>2, <1>4, <1>5, <1>6, <1>7, ClientFrame

LEMMA PublishKeeps == ASSUME IInv, NEW c \in Clients, Publish(c) PROVE IInv'
<1>1. /\ pc[c] = "publish" /\ pc' = [pc EXCEPT ![c] = "poll"] /\ lock' = None
      /\ PublishCommand(op[c].run, op[c].cmd)
      /\ UNCHANGED <<op, view, told, made, request, ids, wpc, w, ready, receipts, snap, faults, timeouts>>
      /\ "poll" \in ClientControl /\ "poll" \notin Holding
  BY DEF Publish, Move, admit, worker, budget, ClientControl, Holding
<1>2. /\ op[c].run \in Runs /\ lock = c /\ op[c].kind = "control" /\ op[c].cmd \in Commands
      /\ ids[op[c].run][op[c].cmd] # 0
  BY <1>1, Present DEF Caller, Commander, Holding, ClientControl
<1>3. /\ commands' \in [Runs -> [Seqs -> Commands \cup {None}]]
      /\ commands'[op[c].run][ids[op[c].run][op[c].cmd]] = op[c].cmd
      /\ \A q \in Runs : Run(q)'
      /\ OneActiveRun' /\ Grown
  BY <1>1, <1>2, Published
<1>4. TypeOK'
  BY <1>1, <1>3 DEF IInv, TypeOK
<1>5. /\ pc'[c] = "poll" /\ op'[c] = op[c] /\ \A d \in Clients \ {c} : pc'[d] = pc[d]
      /\ \A d \in Clients : lock' # d
  BY <1>1, Present, Bound
<1>6. Caller(c)' /\ Starter(c)'
  BY <1>1, <1>2, <1>5, Present DEF Caller, Starter
<1>7. Commander(c)'
  BY <1>1, <1>2, <1>3, <1>5 DEF Commander, Wants
<1> QED BY <1>1, <1>2, <1>3, <1>4, <1>5, <1>6, <1>7, ClientFrame

\* Nothing is left to repair: the next number is free, and no number below it is.
LEMMA NextIsFree ==
  ASSUME IInv, NEW r \in Runs, NEW k \in Commands, Unpublished(r) = {}, ids[r][k] = 0
  PROVE  /\ NextSequence(r) \in Seqs
         /\ \A l \in Commands : ids[r][l] # NextSequence(r)
         /\ \A q \in 1 .. NextSequence(r) - 1 : commands[r][q] # None
<1> DEFINE T == {s \in Seqs : commands[r][s] # None}
           N == Cardinality(Commands)
           top == CHOOSE x \in {0} \cup T : \A y \in {0} \cup T : x >= y
<1>1. N \in Nat /\ IsFiniteSet(Commands) /\ Seqs = 1 .. N
  BY CommandsAreDisjoint, FS_CardinalityType DEF Seqs
<1>2. Numbered(r) /\ commands[r] \in [Seqs -> Commands \cup {None}] /\ ids[r] \in [Commands -> {0} \cup Seqs]
  BY DEF IInv, Run, TypeOK
<1>3. ASSUME NEW s \in T PROVE 1 .. s \subseteq T
  <2>1. s \in Seqs /\ commands[r][s] \in Commands /\ ids[r][commands[r][s]] = s
    BY <1>2, <1>3 DEF Numbered
  <2>2. \A q \in 1 .. s - 1 : commands[r][q] # None
    BY <1>1, <1>2, <2>1 DEF Numbered
  <2> QED BY <1>1, <1>3, <2>1, <2>2
<1>4. T = 1 .. Cardinality(T) /\ Cardinality(T) \in Nat
  <2>1. IsFiniteSet(T) /\ Cardinality(T) \in Nat
    <3>1. IsFiniteSet(1 .. N) /\ T \in SUBSET (1 .. N)
      BY <1>1, FS_Interval
    <3> QED BY <3>1, FS_Subset, FS_CardinalityType
  <2>2. ASSUME NEW s \in T PROVE s <= Cardinality(T)
    <3>1. s \in Nat
      BY <1>1
    <3>2. Cardinality(1 .. s) = s
      BY <3>1, FS_Interval
    <3> QED BY <1>3, <2>1, <3>2, FS_Subset
  <2>3. T \subseteq 1 .. Cardinality(T)
    BY <1>1, <2>1, <2>2
  <2>4. IsFiniteSet(1 .. Cardinality(T)) /\ Cardinality(1 .. Cardinality(T)) = Cardinality(T)
    BY <2>1, FS_Interval
  <2> QED BY <2>1, <2>3, <2>4, FS_Subset
<1>5. /\ NextSequence(r) = 1 + top /\ top \in Nat /\ \A q \in 1 .. top : q \in T
      /\ 1 + top \notin T
  <2>1. \E x \in {0} \cup T : \A y \in {0} \cup T : x >= y
    <3>1. PICK n \in Nat : T = 1 .. n
      BY <1>4
    <3> HIDE DEF T
    <3>2. n \in {0} \cup T /\ \A y \in {0} \cup T : n >= y
      BY <3>1
    <3> QED BY <3>2
  <2>2. top \in {0} \cup T /\ \A y \in {0} \cup T : top >= y
    BY <2>1
  <2>3. NextSequence(r) = 1 + top
    BY DEF NextSequence, Max
  <2>4. PICK n \in Nat : T = 1 .. n
    BY <1>4
  <2> HIDE DEF top, T
  <2> QED BY <2>2, <2>3, <2>4
<1> HIDE DEF top
<1>6. top < N
  <2> DEFINE f == [s \in 1 .. top |-> commands[r][s]]
             rest == Commands \ {k}
  <2>1. f \in Injection(1 .. top, rest)
    <3>1. \A s \in 1 .. top : s \in Seqs /\ f[s] \in Commands /\ ids[r][f[s]] = s
      BY <1>2, <1>5 DEF Numbered
    <3>2. \A s \in 1 .. top : f[s] # k
      BY <3>1
    <3> QED BY <3>1, <3>2, <1>2 DEF Injection, IsInjective
  <2>2. IsFiniteSet(rest) /\ Cardinality(rest) = N - 1
    BY <1>1, FS_RemoveElement
  <2>3. Cardinality(1 .. top) <= Cardinality(rest)
    BY <2>1, <2>2, FS_Injection
  <2>4. Cardinality(1 .. top) = top
    BY <1>5, FS_Interval
  <2> QED BY <1>1, <1>5, <2>2, <2>3, <2>4
<1>7. 1 + top \in Seqs /\ commands[r][1 + top] = None
  BY <1>1, <1>5, <1>6
<1>8. \A l \in Commands : ids[r][l] # 1 + top
  <2>1. 1 + top # 0
    BY <1>5
  <2> QED BY <1>7, <2>1 DEF Unpublished
<1>9. \A q \in 1 .. NextSequence(r) - 1 : commands[r][q] # None
  BY <1>5
<1> QED BY <1>5, <1>7, <1>8, <1>9

LEMMA AllocateKeeps == ASSUME IInv, NEW c \in Clients, Allocate(c) PROVE IInv'
<1>1. /\ pc[c] = "allocate" /\ pc' = [pc EXCEPT ![c] = "publish"]
      /\ ids' = [ids EXCEPT ![op[c].run][op[c].cmd] = NextSequence(op[c].run)]
      /\ UNCHANGED <<lock, op, view, told, made, request, commands, wpc, w, ready, receipts, snap, faults, timeouts>>
      /\ "publish" \in ClientControl /\ "publish" \in Holding
  BY DEF Allocate, Move, admit, worker, budget, ClientControl, Holding
<1>2. /\ op[c].run \in Runs /\ lock = c /\ op[c].kind = "control" /\ op[c].cmd \in Commands
      /\ Unpublished(op[c].run) = {} /\ ids[op[c].run][op[c].cmd] = 0
  BY <1>1, Present DEF Caller, Commander, Holding, ClientControl
<1>3. PICK r \in Runs, k \in Commands, n \in Seqs :
        r = op[c].run /\ k = op[c].cmd /\ n = NextSequence(op[c].run)
  BY <1>2, NextIsFree
<1>4. (\A l \in Commands : ids[r][l] # n) /\ \A q \in 1 .. n - 1 : commands[r][q] # None
  BY <1>2, <1>3, NextIsFree
<1>5. /\ ids \in [Runs -> [Commands -> {0} \cup Seqs]] /\ ids' = [ids EXCEPT ![r][k] = n]
      /\ ids[r][k] = 0 /\ n # 0
  BY <1>1, <1>2, <1>3 DEF IInv, TypeOK, Seqs
<1>6. /\ ids' \in [Runs -> [Commands -> {0} \cup Seqs]]
      /\ \A q \in Runs, l \in Commands : ids'[q][l] = IF q = r /\ l = k THEN n ELSE ids[q][l]
  BY <1>5
<1>7. TypeOK'
  BY <1>1, <1>6 DEF IInv, TypeOK
<1>8. ASSUME NEW q \in Runs PROVE Run(q)'
  <2>1. Run(q) /\ commands[q] \in [Seqs -> Commands \cup {None}]
    BY DEF IInv, TypeOK
  <2>2. Solver(q)' /\ Taken(q)'
    BY <1>1, <2>1 DEF Run, Solver, Taken, Terminal
  <2>3. Receipted(q)' /\ Reported(q)'
    BY <1>1, <2>1 DEF Run, Receipted, Reported, Terminal, Live
  <2>4. Numbered(q)'
    <3>1. \A l, m \in Commands : ids'[q][l] = ids'[q][m] /\ ids'[q][l] # 0 => l = m
      BY <1>4, <1>5, <1>6, <2>1 DEF Run, Numbered
    <3>2. ASSUME NEW s \in Seqs, commands[q][s] # None PROVE ids'[q][commands[q][s]] = s
      <4>1. commands[q][s] \in Commands /\ ids[q][commands[q][s]] = s
        BY <2>1, <3>2 DEF Run, Numbered
      <4>2. s # 0
        BY Bound DEF Seqs
      <4> QED BY <1>5, <1>6, <4>1, <4>2
    <3>3. \A l \in Commands : ids'[q][l] # 0 => \A s \in 1 .. ids'[q][l] - 1 : commands[q][s] # None
      BY <1>4, <1>6, <2>1 DEF Run, Numbered
    <3> QED BY <1>1, <3>1, <3>2, <3>3 DEF Numbered
  <2>5. Told(q)'
    BY <1>1, <1>5, <1>6, <2>1 DEF Run, Told, Answer
  <2> QED BY <2>2, <2>3, <2>4, <2>5 DEF Run
<1>9. OneActiveRun' /\ Grown
  BY <1>1, <1>5, <1>6 DEF IInv, OneActiveRun, Live, Terminal, Grown
<1>10. pc'[c] = "publish" /\ op'[c] = op[c] /\ \A d \in Clients \ {c} : pc'[d] = pc[d]
  BY <1>1, Present
<1>11. Caller(c)' /\ Starter(c)'
  BY <1>1, <1>2, <1>10, Present DEF Caller, Starter
<1>12. Commander(c)'
  BY <1>1, <1>2, <1>3, <1>5, <1>6, <1>10 DEF Commander, Wants
<1> QED BY <1>1, <1>2, <1>7, <1>8, <1>9, <1>10, <1>11, <1>12, ClientFrame

-----------------------------------------------------------------------------
(* Workers.                                                                *)

\* What a worker's step starts from.

\* No snapshot goes back.
Forward ==
  \A r \in Runs :
    /\ snap'[r].tick >= snap[r].tick
    /\ snap'[r].cmd >= snap[r].cmd
    /\ Terminal(snap[r]) => snap'[r].state \in {snap[r].state, "failed"}

LEMMA AtWork ==
  ASSUME IInv, NEW r \in Runs
  PROVE  /\ Run(r) /\ w[r] \in Memories /\ snap[r] \in Snapshots /\ wpc[r] \in WorkerControl
         /\ w \in [Runs -> Memories] /\ wpc \in [Runs -> WorkerControl] /\ snap \in [Runs -> Snapshots]
         /\ receipts \in [Runs -> [Seqs -> Verdicts \cup {None}]]
         /\ receipts[r] \in [Seqs -> Verdicts \cup {None}]
         /\ commands[r] \in [Seqs -> Commands \cup {None}]
         /\ w[r].cmd \in 0 .. Cardinality(Commands) /\ w[r].tick \in 0 .. Limit
         /\ w[r].pending \in 0 .. Cardinality(Commands)
         /\ snap[r].cmd \in 0 .. Cardinality(Commands) /\ snap[r].tick \in 0 .. Limit
BY DEF IInv, TypeOK, Memories, Snapshots

LEMMA RiskKeeps ==
  ASSUME IInv, NEW lost \in BOOLEAN, Risk(lost)
  PROVE  faults' \in 0 .. MaxFaults /\ timeouts' \in 0 .. MaxTimeouts
BY SessionBounds DEF Risk, IInv, TypeOK

LEMMA BudgetKeeps ==
  ASSUME IInv, UNCHANGED budget
  PROVE  faults' \in 0 .. MaxFaults /\ timeouts' \in 0 .. MaxTimeouts
BY DEF IInv, TypeOK, budget

LEMMA ShownKeeps ==
  ASSUME IInv, NEW r \in Runs, NEW m \in Memories
  PROVE  /\ Shown(m) \in Snapshots /\ snap[r] \in Snapshots /\ snap = [snap EXCEPT ![r] = snap[r]]
         /\ Shown(m).state = m.state /\ Shown(m).tick = m.tick /\ Shown(m).cmd = m.cmd
         /\ \A event, lost : PublishSnapshot(r, m, event, lost) =>
              \E s \in {snap[r], Shown(m)} : snap' = [snap EXCEPT ![r] = s]
<1>1. snap \in [Runs -> Snapshots]
  BY DEF IInv, TypeOK
<1>2. Shown(m) \in Snapshots
  BY DEF Shown, Memories, Snapshots
<1>3. Shown(m).state = m.state /\ Shown(m).tick = m.tick /\ Shown(m).cmd = m.cmd
  BY DEF Shown
<1> QED BY <1>1, <1>2, <1>3 DEF PublishSnapshot

\* The receipts of r that are out stay in rec.
Kept(r, rec) == \A s \in Seqs : receipts[r][s] # None => rec[s] = receipts[r][s]

\* A worker's step: it goes to to with m in mind, it may have published what
\* it had or has in mind, and it wrote receipts only where there were none.
LEMMA WorkKeeps ==
  ASSUME IInv, NEW r \in Runs, Live(r), NEW to \in WorkerControl, to # "none", NEW m \in Memories,
         Go(r, to, m),
         UNCHANGED <<client, admit, queue>>, ready' \in [Runs -> BOOLEAN],
         faults' \in 0 .. MaxFaults, timeouts' \in 0 .. MaxTimeouts,
         NEW shown \in {snap[r], Shown(w[r]), Shown(m)}, snap' = [snap EXCEPT ![r] = shown],
         NEW rec \in [Seqs -> Verdicts \cup {None}], receipts' = [receipts EXCEPT ![r] = rec],
         Kept(r, rec),
         w[r].tick <= m.tick, w[r].cmd <= m.cmd,
         Terminal(w[r]) => m.state \in {w[r].state, "failed"},
         wpc'[r] = to /\ w'[r] = m /\ receipts'[r] = rec /\ UNCHANGED commands =>
           Solver(r)' /\ Taken(r)' /\ Receipted(r)'
  PROVE  IInv' /\ Forward
<1>1. UNCHANGED <<lock, pc, op, view, told, made, request, ids, commands>>
  BY DEF client, admit, queue
<1>2. /\ wpc' = [wpc EXCEPT ![r] = to] /\ w' = [w EXCEPT ![r] = m]
  BY DEF Go
<1>3. shown \in Snapshots
  BY AtWork, ShownKeeps
<1>4. TypeOK'
  BY <1>1, <1>2, <1>3 DEF IInv, TypeOK
<1>5. /\ wpc'[r] = to /\ w'[r] = m /\ snap'[r] = shown /\ receipts'[r] = rec
      /\ \A q \in Runs \ {r} : /\ wpc'[q] = wpc[q] /\ w'[q] = w[q]
                               /\ receipts'[q] = receipts[q] /\ snap'[q] = snap[q]
  BY <1>2, AtWork
<1>6. Live(r)' \/ wpc'[r] = "dead"
  BY <1>5 DEF Live
<1>7. Terminal(w[r]) => Terminal(w'[r])
  BY <1>5 DEF Terminal, TerminalStates
<1>8. Reported(r)'
  <2>1. Reported(r) /\ request[r]
    BY AtWork DEF Run, Reported, Live
  <2>2. /\ m.tick \in Nat /\ m.cmd \in Nat /\ shown.tick \in Nat /\ shown.cmd \in Nat
        /\ w[r].tick \in Nat /\ w[r].cmd \in Nat
    BY <1>3, AtWork, Bound DEF Memories, Snapshots
  <2>3. \/ shown = snap[r]
        \/ shown.state = w[r].state /\ shown.tick = w[r].tick /\ shown.cmd = w[r].cmd
        \/ shown.state = m.state /\ shown.tick = m.tick /\ shown.cmd = m.cmd
    BY AtWork, ShownKeeps
  <2>4. shown.tick <= m.tick /\ shown.cmd <= m.cmd
    BY <2>1, <2>2, <2>3 DEF Reported
  <2>5. Terminal(shown) => m.state \in {shown.state, "failed"}
    BY <2>1, <2>3 DEF Reported, Terminal, TerminalStates
  <2> QED BY <1>1, <1>5, <2>1, <2>4, <2>5 DEF Reported, Terminal
<1>9. Solver(r)' /\ Taken(r)' /\ Receipted(r)'
  BY <1>1, <1>5
<1>10. \A s \in Seqs : receipts[r][s] # None => receipts'[r][s] = receipts[r][s]
  BY <1>5 DEF Kept
<1>11. IInv'
  BY <1>1, <1>4, <1>5, <1>6, <1>7, <1>8, <1>9, <1>10, WorkerFrame
<1>12. Forward
  <2>1. Reported(r)
    BY AtWork DEF Run
  <2>2. /\ m.tick \in Nat /\ m.cmd \in Nat /\ w[r].tick \in Nat /\ w[r].cmd \in Nat
        /\ \A q \in Runs : snap[q].tick \in Nat /\ snap[q].cmd \in Nat
    BY AtWork, Bound DEF Memories
  <2>3. \/ shown = snap[r]
        \/ shown.state = w[r].state /\ shown.tick = w[r].tick /\ shown.cmd = w[r].cmd
        \/ shown.state = m.state /\ shown.tick = m.tick /\ shown.cmd = m.cmd
    BY AtWork, ShownKeeps
  <2>4. /\ shown.tick >= snap[r].tick /\ shown.cmd >= snap[r].cmd
        /\ Terminal(snap[r]) => shown.state \in {snap[r].state, "failed"}
    BY <2>1, <2>2, <2>3 DEF Reported, Terminal, TerminalStates
  <2> QED BY <1>5, <2>2, <2>4 DEF Forward
<1> QED BY <1>11, <1>12

\* The receipts stay.
LEMMA ReceiptsStay ==
  ASSUME IInv, NEW r \in Runs, UNCHANGED <<ready, receipts>>
  PROVE  /\ receipts[r] \in [Seqs -> Verdicts \cup {None}]
         /\ receipts' = [receipts EXCEPT ![r] = receipts[r]] /\ ready' \in [Runs -> BOOLEAN]
         /\ Kept(r, receipts[r])
BY AtWork DEF IInv, TypeOK, Kept

\* In the loop and in the solver no receipt of a cancel is out, and every
\* command taken so far is receipted, but the one at hand.
LEMMA Busy ==
  ASSUME IInv, NEW r \in Runs, wpc[r] \in {"loop", "solving"}
  PROVE  /\ Live(r) /\ w[r].state \in {"paused", "running"} /\ ~ Terminal(w[r])
         /\ w[r].pending = 0 /\ w[r].tick < Limit
         /\ wpc[r] = "loop" => w[r].doing = "free"
         /\ wpc[r] = "solving" => w[r].doing \in {"free", "step"}
         /\ \A s \in Seqs : /\ receipts[r][s] # None => s <= w[r].cmd
                            /\ receipts[r][s] = None /\ s <= w[r].cmd => s = w[r].cmd /\ w[r].doing # "free"
                            /\ commands[r][s] \in Cancels => receipts[r][s] # "applied"
<1>1. Solver(r) /\ Receipted(r)
  BY AtWork DEF Run
<1>2. w[r].state \in {"paused", "running"} /\ ~ Terminal(w[r]) /\ Live(r)
  BY <1>1 DEF Solver, Terminal, TerminalStates, Live
<1>3. w[r].doing \in {"free", "command", "step", "refused"}
  BY AtWork DEF Memories
<1> QED BY <1>1, <1>2, <1>3 DEF Solver, Receipted

LEMMA BootKeeps == ASSUME IInv, NEW r \in Runs, Boot(r) PROVE IInv' /\ Forward
<1>1. /\ wpc[r] = "boot" /\ wpc' = [wpc EXCEPT ![r] = "init"] /\ ready' = [ready EXCEPT ![r] = TRUE]
      /\ UNCHANGED <<w, receipts, client, admit, queue, snap, budget>> /\ UNCHANGED commands
      /\ Live(r) /\ "init" \in WorkerControl
  BY DEF Boot, Live, WorkerControl, queue
<1>2. w[r] \in Memories /\ Go(r, "init", w[r]) /\ ready' \in [Runs -> BOOLEAN]
  BY <1>1, AtWork DEF Go, IInv, TypeOK
<1>3. Solver(r) /\ Taken(r) /\ Receipted(r) /\ w[r] = Fresh
  BY <1>1, AtWork DEF Run, Solver
<1>4. wpc'[r] = "init" => Solver(r)' /\ Taken(r)' /\ Receipted(r)'
  <2>1. w[r].doing = "free" /\ w[r].pending = 0 /\ ~ Terminal(w[r])
    BY <1>3 DEF Fresh, Terminal, TerminalStates
  <2>2. \A s \in Seqs : ~ (commands[r][s] \in Cancels /\ receipts[r][s] = "applied")
    BY <1>1, <1>3 DEF Receipted
  <2>3. w'[r] = w[r] /\ receipts'[r] = receipts[r] /\ Terminal(w[r])' = Terminal(w[r])
    BY <1>1 DEF Terminal
  <2> QED BY <1>1, <1>3, <2>1, <2>2, <2>3 DEF Solver, Taken, Receipted
<1>5. receipts' = [receipts EXCEPT ![r] = receipts[r]] /\ Kept(r, receipts[r])
  BY <1>1, AtWork DEF Kept
<1>6. snap' = [snap EXCEPT ![r] = snap[r]]
  BY <1>1, AtWork
<1>7. w[r].tick <= w[r].tick /\ w[r].cmd <= w[r].cmd
  BY AtWork, Bound
<1> QED BY <1>1, <1>2, <1>4, <1>5, <1>6, <1>7, AtWork, BudgetKeeps, WorkKeeps

LEMMA InitFailsKeeps == ASSUME IInv, NEW r \in Runs, InitFails(r) PROVE IInv' /\ Forward
<1>1. PICK m : m = [w[r] EXCEPT !.state = "failed"]
  OBVIOUS
<1>2. /\ wpc[r] = "init" /\ Go(r, "exiting", m)
      /\ UNCHANGED <<ready, receipts, client, admit, queue, budget>>
      /\ Live(r) /\ "exiting" \in WorkerControl
  BY <1>1 DEF InitFails, Live, WorkerControl
<1>3. PICK shown \in {snap[r], Shown(w[r]), Shown(m)} : snap' = [snap EXCEPT ![r] = shown]
  <2>1. snap' \in {snap, [snap EXCEPT ![r] = Shown(m)]}
    BY <1>1 DEF InitFails
  <2> QED BY <2>1, AtWork
<1>4. /\ m \in Memories /\ m.state = "failed" /\ m.tick = w[r].tick /\ m.cmd = w[r].cmd
      /\ m.doing = w[r].doing /\ m.pending = w[r].pending
  BY <1>1, AtWork DEF Memories, States, TerminalStates
<1>5. Solver(r) /\ Taken(r) /\ Receipted(r) /\ w[r] = Fresh
  BY <1>2, AtWork DEF Run, Solver
<1>6. wpc'[r] = "exiting" /\ w'[r] = m /\ receipts'[r] = receipts[r] /\ UNCHANGED commands =>
        Solver(r)' /\ Taken(r)' /\ Receipted(r)'
  <2>1. m.doing = "free" /\ m.pending = 0 /\ Terminal(m)
    BY <1>4, <1>5 DEF Fresh, Terminal, TerminalStates
  <2>2. \A s \in Seqs : ~ (commands[r][s] \in Cancels /\ receipts[r][s] = "applied")
    BY <1>2, <1>5 DEF Receipted
  <2>3. \A s \in Seqs : receipts[r][s] # None => commands[r][s] # None /\ s <= m.cmd
    BY <1>4, <1>5 DEF Receipted
  <2> QED BY <1>4, <2>1, <2>2, <2>3 DEF Solver, Taken, Receipted, Terminal
<1>7. w[r].tick <= m.tick /\ w[r].cmd <= m.cmd
  BY <1>4, AtWork, Bound
<1> QED BY <1>2, <1>3, <1>4, <1>6, <1>7, ReceiptsStay, BudgetKeeps, WorkKeeps

LEMMA InitDoneKeeps == ASSUME IInv, NEW r \in Runs, InitDone(r) PROVE IInv' /\ Forward
<1>0. PICK s \in {"paused", "running"} :
        /\ Go(r, "loop", [w[r] EXCEPT !.state = s])
        /\ snap' = [snap EXCEPT ![r] = Shown([w[r] EXCEPT !.state = s])]
  BY DEF InitDone
<1>1. PICK m : /\ m = [w[r] EXCEPT !.state = s] /\ Go(r, "loop", m)
               /\ snap' = [snap EXCEPT ![r] = Shown(m)]
  BY <1>0
<1>2. /\ wpc[r] = "init" /\ UNCHANGED <<ready, receipts, client, admit, queue, budget>>
      /\ Live(r) /\ "loop" \in WorkerControl
  BY DEF InitDone, Live, WorkerControl
<1>3. /\ m \in Memories /\ m.state = s /\ m.tick = w[r].tick /\ m.cmd = w[r].cmd
      /\ m.doing = w[r].doing /\ m.pending = w[r].pending
  BY <1>1, AtWork DEF Memories, States
<1>4. Solver(r) /\ Taken(r) /\ Receipted(r) /\ w[r] = Fresh
  BY <1>2, AtWork DEF Run, Solver
<1>5. wpc'[r] = "loop" /\ w'[r] = m /\ receipts'[r] = receipts[r] /\ UNCHANGED commands =>
        Solver(r)' /\ Taken(r)' /\ Receipted(r)'
  <2>1. m.doing = "free" /\ m.pending = 0 /\ ~ Terminal(m) /\ m.tick < Limit /\ m.cmd = 0
        /\ ~ Terminal(w[r])
    BY <1>3, <1>4, SessionBounds DEF Fresh, Terminal, TerminalStates
  <2>2. \A q \in Seqs : receipts[r][q] = None /\ ~ (q <= 0)
    BY <1>4, Bound DEF Receipted, Fresh, Seqs
  <2>3. "applied" # None
    BY Bound DEF Verdicts
  <2> QED BY <1>3, <2>1, <2>2, <2>3 DEF Solver, Taken, Receipted, Terminal
<1>6. w[r].tick <= m.tick /\ w[r].cmd <= m.cmd
  BY <1>3, AtWork, Bound
<1>7. ~ Terminal(w[r])
  BY <1>4 DEF Fresh, Terminal, TerminalStates
<1>8. /\ faults' \in 0 .. MaxFaults /\ timeouts' \in 0 .. MaxTimeouts
      /\ Go(r, "loop", m) /\ UNCHANGED <<client, admit, queue>>
  BY <1>1, <1>2, BudgetKeeps
<1>9. /\ receipts[r] \in [Seqs -> Verdicts \cup {None}] /\ receipts' = [receipts EXCEPT ![r] = receipts[r]]
      /\ Kept(r, receipts[r]) /\ ready' \in [Runs -> BOOLEAN]
  BY <1>2, ReceiptsStay
<1> QED BY <1>1, <1>2, <1>3, <1>5, <1>6, <1>7, <1>8, <1>9, WorkKeeps

LEMMA NextIs ==
  ASSUME IInv, NEW r \in Runs, NextCommand(r) \in Commands
  PROVE  /\ w[r].cmd + 1 \in Seqs /\ commands[r][w[r].cmd + 1] = NextCommand(r)
         /\ w[r].cmd + 1 \in 0 .. Cardinality(Commands)
<1>1. w[r].cmd + 1 \in Seqs /\ commands[r][w[r].cmd + 1] = NextCommand(r)
  BY Bound DEF NextCommand
<1> QED BY <1>1, Bound, AtWork DEF Seqs

\* The loop takes command k, to apply it or to solve a step of it.
LEMMA TakenUp ==
  ASSUME IInv, NEW r \in Runs, wpc[r] = "loop", NEW k \in Commands, NextCommand(r) = k,
         NEW to \in {"apply", "solving"}, NEW m \in Memories, Go(r, to, m),
         NEW lost \in BOOLEAN, Risk(lost),
         UNCHANGED <<ready, receipts, client, admit, queue, snap>>,
         m.cmd = w[r].cmd + 1, m.tick = w[r].tick, m.pending = 0, m.state # "starting",
         m.doing \in {"command", "step", "refused"},
         m.doing \in {"step", "refused"} => k \in Steps,
         m.doing = "command" /\ k \in Cancels => m.state \in {"cancelled", "failed"},
         to = "solving" => m.doing = "step" /\ m.state = "paused"
  PROVE  IInv' /\ Forward
<1>1. /\ w[r].cmd + 1 \in Seqs /\ commands[r][m.cmd] = k /\ m.cmd \in Seqs
      /\ w[r].cmd \in Nat /\ w[r].tick \in Nat /\ k # None
  BY NextIs, AtWork, Bound
<1>2. to \in WorkerControl /\ to # "none"
  BY DEF WorkerControl
<1>3. wpc'[r] = to /\ w'[r] = m /\ receipts'[r] = receipts[r] /\ UNCHANGED commands =>
        Solver(r)' /\ Taken(r)' /\ Receipted(r)'
  <2>1. SUFFICES ASSUME wpc'[r] = to, w'[r] = m, receipts'[r] = receipts[r], UNCHANGED commands
                 PROVE  Solver(r)' /\ Taken(r)' /\ Receipted(r)'
    OBVIOUS
  <2>2. Solver(r)'
    BY <2>1, Busy DEF Solver, Terminal
  <2>3. Taken(r)'
    BY <1>1, <2>1 DEF Taken
  <2>4. ASSUME NEW s \in Seqs
        PROVE  /\ receipts[r][s] # None => commands[r][s] # None /\ s <= m.cmd /\ s # m.cmd
               /\ receipts[r][s] = None /\ s <= m.cmd => s = m.cmd
               /\ ~ (commands[r][s] \in Cancels /\ receipts[r][s] = "applied")
    <3>1. receipts[r][s] # None => commands[r][s] # None
      BY AtWork DEF Run, Receipted
    <3>2. s \in Nat
      BY Bound DEF Seqs
    <3> QED BY <1>1, <3>1, <3>2, Busy
  <2>5. Receipted(r)'
    BY <2>1, <2>4 DEF Receipted
  <2> QED BY <2>2, <2>3, <2>5
<1>4. w[r].tick <= m.tick /\ w[r].cmd <= m.cmd
  BY <1>1
<1>5. snap' = [snap EXCEPT ![r] = snap[r]]
  BY AtWork
<1> QED BY <1>2, <1>3, <1>4, <1>5, Busy, ReceiptsStay, RiskKeeps, WorkKeeps

LEMMA TakeCommandKeeps == ASSUME IInv, NEW r \in Runs, TakeCommand(r) PROVE IInv' /\ Forward
<1> DEFINE k == NextCommand(r)
           m == [w[r] EXCEPT !.cmd = @ + 1, !.doing = "command"]
<1>1. wpc[r] = "loop" /\ UNCHANGED <<ready, receipts, client, admit, queue, snap>>
  BY DEF TakeCommand
<1>2. k \in Commands
  BY DEF TakeCommand, Commands
<1>3. w[r].cmd + 1 \in 0 .. Cardinality(Commands) /\ w[r] \in Memories /\ w[r].pending = 0
  BY <1>1, <1>2, NextIs, AtWork, Busy
<1>4. /\ m \in Memories /\ m.state = w[r].state /\ m.cmd = w[r].cmd + 1 /\ m.tick = w[r].tick
      /\ m.pending = 0 /\ m.doing = "command"
  BY <1>3 DEF Memories
<1>5. \A s \in {"paused", "running", "cancelled", "failed"} :
        LET n == [m EXCEPT !.state = s]
        IN /\ n \in Memories /\ n.state = s /\ n.cmd = w[r].cmd + 1 /\ n.tick = w[r].tick
           /\ n.pending = 0 /\ n.doing = "command"
  BY <1>4 DEF Memories, States, TerminalStates
<1>6. \A d \in {"step", "refused"} :
        LET n == [m EXCEPT !.doing = d]
        IN /\ n \in Memories /\ n.state = w[r].state /\ n.cmd = w[r].cmd + 1 /\ n.tick = w[r].tick
           /\ n.pending = 0 /\ n.doing = d
  BY <1>4 DEF Memories
<1>7. w[r].state \in {"paused", "running"}
  BY <1>1, Busy
<1>8. (k \in Pauses => k \notin Cancels) /\ (k \in Continues => k \notin Cancels)
  BY CommandsAreDisjoint
<1>9. CASE k \in Pauses /\ Go(r, "apply", [m EXCEPT !.state = "paused"]) /\ Risk(FALSE)
  <2>1. PICK n : n = [m EXCEPT !.state = "paused"]
    OBVIOUS
  <2> HIDE DEF m
  <2> QED BY <1>1, <1>2, <1>5, <1>8, <1>9, <2>1, TakenUp
<1>10. CASE k \in Continues /\ Go(r, "apply", [m EXCEPT !.state = "running"]) /\ Risk(FALSE)
  <2>1. PICK n : n = [m EXCEPT !.state = "running"]
    OBVIOUS
  <2> HIDE DEF m
  <2> QED BY <1>1, <1>2, <1>5, <1>8, <1>10, <2>1, TakenUp
<1>11. CASE /\ k \in Cancels
            /\ \E lost \in {FALSE, Interruptible} :
                 /\ Go(r, "apply", Broken([m EXCEPT !.state = "cancelled"], lost))
                 /\ Risk(lost)
  <2>1. PICK lost \in BOOLEAN :
          Go(r, "apply", Broken([m EXCEPT !.state = "cancelled"], lost)) /\ Risk(lost)
    BY <1>11, SessionBounds
  <2>a. PICK s \in {"cancelled", "failed"} :
          [m EXCEPT !.state = s] = Broken([m EXCEPT !.state = "cancelled"], lost)
    BY DEF Broken
  <2>2. PICK n : n = [m EXCEPT !.state = s] /\ n = Broken([m EXCEPT !.state = "cancelled"], lost)
    BY <2>a
  <2> HIDE DEF m
  <2>3. /\ n \in Memories /\ n.state = s /\ n.cmd = w[r].cmd + 1 /\ n.tick = w[r].tick
        /\ n.pending = 0 /\ n.doing = "command"
    BY <1>5, <2>2
  <2> QED BY <1>1, <1>2, <2>1, <2>2, <2>3, TakenUp
<1>12. CASE k \in Steps /\ m.state = "paused" /\ Go(r, "solving", [m EXCEPT !.doing = "step"]) /\ Risk(FALSE)
  <2>1. PICK n : n = [m EXCEPT !.doing = "step"]
    OBVIOUS
  <2>2. m.state = w[r].state
    BY <1>4
  <2> HIDE DEF m
  <2>3. /\ n \in Memories /\ n.state = "paused" /\ n.cmd = w[r].cmd + 1 /\ n.tick = w[r].tick
        /\ n.pending = 0 /\ n.doing = "step"
    BY <1>6, <1>12, <2>1, <2>2
  <2>4. Go(r, "solving", n) /\ Risk(FALSE) /\ k \in Steps
    BY <1>12, <2>1
  <2> QED BY <1>1, <1>2, <2>3, <2>4, TakenUp
<1>13. CASE k \in Steps /\ Go(r, "apply", [m EXCEPT !.doing = "refused"]) /\ Risk(FALSE)
  <2>1. PICK n : n = [m EXCEPT !.doing = "refused"]
    OBVIOUS
  <2> HIDE DEF m
  <2> QED BY <1>1, <1>2, <1>6, <1>7, <1>13, <2>1, TakenUp
<1> QED BY <1>9, <1>10, <1>11, <1>12, <1>13 DEF TakeCommand

LEMMA FreeStepKeeps == ASSUME IInv, NEW r \in Runs, FreeStep(r) PROVE IInv' /\ Forward
<1>1. /\ wpc[r] = "loop" /\ Go(r, "solving", w[r]) /\ "solving" \in WorkerControl
      /\ UNCHANGED <<ready, receipts, client, admit, queue, snap, budget>>
  BY DEF FreeStep, WorkerControl
<1>2. Solver(r) /\ Taken(r) /\ Receipted(r)
  BY AtWork DEF Run
<1>3. wpc'[r] = "solving" /\ w'[r] = w[r] /\ receipts'[r] = receipts[r] /\ UNCHANGED commands =>
        Solver(r)' /\ Taken(r)' /\ Receipted(r)'
  BY <1>1, <1>2, Busy DEF Solver, Taken, Receipted, Terminal
<1>4. w[r].tick <= w[r].tick /\ w[r].cmd <= w[r].cmd /\ snap' = [snap EXCEPT ![r] = snap[r]]
  BY <1>1, AtWork, Bound
<1>5. Live(r) /\ w[r] \in Memories /\ ~ Terminal(w[r])
  BY <1>1, Busy, AtWork
<1> QED BY <1>1, <1>3, <1>4, <1>5, ReceiptsStay, BudgetKeeps, WorkKeeps

LEMMA InterruptedKeeps == ASSUME IInv, NEW r \in Runs, Interrupted(r) PROVE IInv' /\ Forward
<1>0. PICK s \in {"cancelled", "failed"} : Go(r, "finish", [w[r] EXCEPT !.state = s])
  BY DEF Interrupted
<1>1. PICK m : m = [w[r] EXCEPT !.state = s] /\ Go(r, "finish", m)
  BY <1>0
<1>2. /\ wpc[r] = "loop" /\ Risk(TRUE) /\ "finish" \in WorkerControl
      /\ UNCHANGED <<ready, receipts, client, admit, queue, snap>>
  BY DEF Interrupted, WorkerControl
<1>3. /\ m \in Memories /\ m.state = s /\ m.tick = w[r].tick /\ m.cmd = w[r].cmd
      /\ m.doing = w[r].doing /\ m.pending = w[r].pending
  BY <1>1, AtWork DEF Memories, States, TerminalStates
<1>4. wpc'[r] = "finish" /\ w'[r] = m /\ receipts'[r] = receipts[r] /\ UNCHANGED commands =>
        Solver(r)' /\ Taken(r)' /\ Receipted(r)'
  <2>1. m.doing = "free" /\ m.pending = 0 /\ Terminal(m)
    BY <1>2, <1>3, Busy DEF Terminal, TerminalStates
  <2>2. Receipted(r)
    BY AtWork DEF Run
  <2>3. \A q \in Seqs : /\ receipts[r][q] = None => ~ (q <= w[r].cmd)
                        /\ ~ (commands[r][q] \in Cancels /\ receipts[r][q] = "applied")
    BY <1>2, <1>3, <2>1, Busy
  <2> QED BY <1>3, <2>1, <2>2, <2>3 DEF Solver, Taken, Receipted, Terminal
<1>5. w[r].tick <= m.tick /\ w[r].cmd <= m.cmd /\ snap' = [snap EXCEPT ![r] = snap[r]]
  BY <1>2, <1>3, AtWork, Bound
<1>6. Live(r) /\ ~ Terminal(w[r])
  BY <1>2, Busy
<1>7. /\ faults' \in 0 .. MaxFaults /\ timeouts' \in 0 .. MaxTimeouts
      /\ Go(r, "finish", m) /\ UNCHANGED <<client, admit, queue>>
  BY <1>1, <1>2, RiskKeeps
<1>8. /\ receipts[r] \in [Seqs -> Verdicts \cup {None}] /\ receipts' = [receipts EXCEPT ![r] = receipts[r]]
      /\ Kept(r, receipts[r]) /\ ready' \in [Runs -> BOOLEAN]
  BY <1>2, ReceiptsStay
<1> QED BY <1>2, <1>3, <1>4, <1>5, <1>6, <1>7, <1>8, WorkKeeps

-----------------------------------------------------------------------------
(* One step of the solver ends.                                            *)

\* The solver is left with m in mind, at the same command.
LEMMA SolvedKeeps ==
  ASSUME IInv, NEW r \in Runs, wpc[r] = "solving", NEW m \in Memories, StepEnds(r, m),
         UNCHANGED <<ready, receipts, client, admit, queue>>,
         faults' \in 0 .. MaxFaults, timeouts' \in 0 .. MaxTimeouts,
         NEW shown \in {snap[r], Shown(w[r]), Shown(m)}, snap' = [snap EXCEPT ![r] = shown],
         m.cmd = w[r].cmd, w[r].tick <= m.tick, m.doing = w[r].doing, m.state # "starting",
         ~ Terminal(m) => m.tick < Limit,
         \/ m.pending = 0
         \/ /\ m.pending = w[r].cmd + 1 /\ m.pending \in Seqs /\ m.state \in {"cancelled", "failed"}
            /\ commands[r][m.pending] \in Cancels
  PROVE  IInv' /\ Forward
<1>1. PICK to \in {"apply", "settle"} : to = IF m.doing = "step" THEN "apply" ELSE "settle"
  OBVIOUS
<1>2. Go(r, to, m) /\ to \in WorkerControl /\ to # "none"
  BY <1>1 DEF StepEnds, WorkerControl
<1>3. m.doing \in {"free", "step"} /\ (to = "apply" <=> m.doing # "free")
  BY <1>1, Busy
<1>4. Taken(r) /\ Receipted(r)
  BY AtWork DEF Run
<1>5. wpc'[r] = to /\ w'[r] = m /\ receipts'[r] = receipts[r] /\ UNCHANGED commands =>
        Solver(r)' /\ Taken(r)' /\ Receipted(r)'
  <2>1. SUFFICES ASSUME wpc'[r] = to, w'[r] = m, receipts'[r] = receipts[r], UNCHANGED commands
                 PROVE  Solver(r)' /\ Taken(r)' /\ Receipted(r)'
    OBVIOUS
  <2>2. Solver(r)'
    BY <1>3, <2>1 DEF Solver, Terminal
  <2>3. Taken(r)'
    BY <1>3, <1>4, <2>1 DEF Taken
  <2>4. Receipted(r)'
    BY <1>4, <2>1, Busy DEF Receipted
  <2> QED BY <2>2, <2>3, <2>4
<1>6. w[r].cmd <= m.cmd
  BY AtWork, Bound
<1> QED BY <1>2, <1>5, <1>6, Busy, ReceiptsStay, WorkKeeps

LEMMA StepDoneKeeps == ASSUME IInv, NEW r \in Runs, StepDone(r) PROVE IInv' /\ Forward
<1> DEFINE m == [w[r] EXCEPT !.tick = @ + 1]
<1>1. /\ wpc[r] = "solving" /\ UNCHANGED <<ready, receipts, client, admit, queue, snap>>
      /\ snap' = [snap EXCEPT ![r] = snap[r]]
  BY AtWork DEF StepDone
<1>2. /\ w[r] \in Memories /\ w[r].tick < Limit /\ w[r].tick \in Nat /\ Limit \in Nat
      /\ w[r].pending = 0 /\ w[r].state \in {"paused", "running"}
  BY <1>1, AtWork, Busy, Bound
<1>3. /\ m \in Memories /\ m.state = w[r].state /\ m.cmd = w[r].cmd /\ m.tick = w[r].tick + 1
      /\ m.pending = 0 /\ m.doing = w[r].doing
  BY <1>2 DEF Memories
<1>4. CASE ~ Finished(m) /\ StepEnds(r, m) /\ Risk(FALSE)
  <2>1. m.tick < Limit /\ w[r].tick <= m.tick /\ m.state # "starting"
    BY <1>2, <1>3, <1>4 DEF Finished
  <2> HIDE DEF m
  <2> QED BY <1>1, <1>3, <1>4, <2>1, RiskKeeps, SolvedKeeps
<1>5. CASE /\ Finished(m)
           /\ \E lost \in BOOLEAN : /\ StepEnds(r, Broken([m EXCEPT !.state = "completed"], lost))
                                    /\ Risk(lost)
  <2>1. PICK lost \in BOOLEAN :
          StepEnds(r, Broken([m EXCEPT !.state = "completed"], lost)) /\ Risk(lost)
    BY <1>5
  <2> HIDE DEF m
  <2>a. PICK s \in {"completed", "failed"} :
          [m EXCEPT !.state = s] = Broken([m EXCEPT !.state = "completed"], lost)
    BY DEF Broken
  <2>2. PICK n : n = [m EXCEPT !.state = s] /\ n = Broken([m EXCEPT !.state = "completed"], lost)
    BY <2>a
  <2>3. /\ n \in Memories /\ n.state = s /\ n.cmd = w[r].cmd /\ n.tick = w[r].tick + 1
        /\ n.pending = 0 /\ n.doing = w[r].doing
    BY <1>3, <2>2 DEF Memories, States, TerminalStates
  <2>4. Terminal(n) /\ n.state # "starting" /\ w[r].tick <= n.tick
    BY <1>2, <2>3 DEF Terminal, TerminalStates
  <2>5. /\ StepEnds(r, n) /\ faults' \in 0 .. MaxFaults /\ timeouts' \in 0 .. MaxTimeouts
        /\ UNCHANGED <<ready, receipts, client, admit, queue>>
    BY <1>1, <2>1, <2>2, RiskKeeps
  <2> QED BY <1>1, <2>3, <2>4, <2>5, SolvedKeeps
<1> QED BY <1>4, <1>5 DEF StepDone

LEMMA StepFailsKeeps == ASSUME IInv, NEW r \in Runs, StepFails(r) PROVE IInv' /\ Forward
<1>0. PICK accepted \in 0 .. 1 :
        StepEnds(r, [w[r] EXCEPT !.state = "failed", !.tick = @ + accepted])
  BY DEF StepFails
<1>1. PICK m : m = [w[r] EXCEPT !.state = "failed", !.tick = @ + accepted] /\ StepEnds(r, m)
  BY <1>0
<1>2. /\ wpc[r] = "solving" /\ UNCHANGED <<ready, receipts, client, admit, queue, snap, budget>>
      /\ snap' = [snap EXCEPT ![r] = snap[r]]
  BY AtWork DEF StepFails
<1>3. /\ w[r] \in Memories /\ w[r].tick < Limit /\ w[r].tick \in Nat /\ Limit \in Nat
      /\ w[r].pending = 0
  BY <1>2, AtWork, Busy, Bound
<1>4. /\ m \in Memories /\ m.state = "failed" /\ m.cmd = w[r].cmd /\ w[r].tick <= m.tick
      /\ m.pending = 0 /\ m.doing = w[r].doing
  <2>1. PICK t \in 0 .. Limit : t = w[r].tick + accepted /\ w[r].tick <= t
    BY <1>3
  <2>2. m = [w[r] EXCEPT !.state = "failed", !.tick = t]
    BY <1>1, <1>3, <2>1 DEF Memories
  <2>3. "failed" \in States
    BY DEF States, TerminalStates
  <2> QED BY <1>3, <2>1, <2>2, <2>3 DEF Memories
<1>5. Terminal(m)
  BY <1>4 DEF Terminal, TerminalStates
<1> QED BY <1>1, <1>2, <1>4, <1>5, BudgetKeeps, SolvedKeeps

\* A cancel seen by the solver is remembered, not taken.
LEMMA PollCancelKeeps == ASSUME IInv, NEW r \in Runs, PollCancel(r) PROVE IInv' /\ Forward
<1> DEFINE stopped == [w[r] EXCEPT !.state = "cancelled", !.pending = w[r].cmd + 1]
<1>1. PICK lost \in BOOLEAN : StepEnds(r, Broken(stopped, lost)) /\ Risk(lost)
  BY DEF PollCancel
<1>2. /\ wpc[r] = "solving" /\ NextCommand(r) \in Cancels
      /\ UNCHANGED <<ready, receipts, client, admit, queue, snap>>
      /\ snap' = [snap EXCEPT ![r] = snap[r]]
  BY AtWork DEF PollCancel
<1>3. /\ w[r].cmd + 1 \in Seqs /\ commands[r][w[r].cmd + 1] \in Cancels
      /\ w[r].cmd + 1 \in 0 .. Cardinality(Commands)
  <2>1. NextCommand(r) \in Commands
    BY <1>2 DEF Commands
  <2> QED BY <1>2, <2>1, NextIs
<1>4. PICK m : m = Broken(stopped, lost)
  OBVIOUS
<1>5. /\ m \in Memories /\ m.state \in {"cancelled", "failed"} /\ m.cmd = w[r].cmd
      /\ m.tick = w[r].tick /\ m.pending = w[r].cmd + 1 /\ m.doing = w[r].doing
  BY <1>3, <1>4, AtWork DEF Memories, States, TerminalStates, Broken
<1>6. Terminal(m) /\ w[r].tick <= m.tick
  BY <1>5, AtWork, Bound DEF Terminal, TerminalStates
<1> HIDE DEF stopped
<1> QED BY <1>1, <1>2, <1>3, <1>4, <1>5, <1>6, RiskKeeps, SolvedKeeps

LEMMA PollPublishKeeps == ASSUME IInv, NEW r \in Runs, PollPublish(r) PROVE IInv' /\ Forward
<1>1. PICK lost \in BOOLEAN :
        /\ PublishSnapshot(r, w[r], FALSE, lost) /\ Risk(lost)
        /\ IF lost THEN StepEnds(r, [w[r] EXCEPT !.state = "failed"]) ELSE UNCHANGED <<wpc, w>>
  BY DEF PollPublish
<1>2. wpc[r] = "solving" /\ UNCHANGED <<ready, receipts, client, admit, queue>>
  BY DEF PollPublish
<1>3. PICK shown \in {snap[r], Shown(w[r])} : snap' = [snap EXCEPT ![r] = shown]
  BY <1>1, AtWork, ShownKeeps
<1>4. CASE lost
  <2>1. PICK m : m = [w[r] EXCEPT !.state = "failed"]
    OBVIOUS
  <2>2. /\ m \in Memories /\ m.state = "failed" /\ m.cmd = w[r].cmd
        /\ m.tick = w[r].tick /\ m.pending = 0 /\ m.doing = w[r].doing
    BY <1>2, <2>1, Busy, AtWork DEF Memories, States, TerminalStates
  <2>3. Terminal(m) /\ w[r].tick <= m.tick
    BY <2>2, AtWork, Bound DEF Terminal, TerminalStates
  <2>4. StepEnds(r, m)
    BY <1>1, <1>4, <2>1
  <2> QED BY <1>1, <1>2, <1>3, <2>2, <2>3, <2>4, RiskKeeps, SolvedKeeps
<1>5. CASE ~ lost
  <2>1. Go(r, "solving", w[r]) /\ "solving" \in WorkerControl
    BY <1>1, <1>2, <1>5, AtWork DEF Go, WorkerControl
  <2>2. Solver(r) /\ Taken(r) /\ Receipted(r)
    BY AtWork DEF Run
  <2>3. wpc'[r] = "solving" /\ w'[r] = w[r] /\ receipts'[r] = receipts[r] /\ UNCHANGED commands =>
          Solver(r)' /\ Taken(r)' /\ Receipted(r)'
    BY <1>2, <2>2 DEF Solver, Taken, Receipted, Terminal
  <2>4. w[r].tick <= w[r].tick /\ w[r].cmd <= w[r].cmd /\ w[r] \in Memories
    BY AtWork, Bound
  <2> QED BY <1>1, <1>2, <1>3, <2>1, <2>3, <2>4, Busy, ReceiptsStay, RiskKeeps, WorkKeeps
<1> QED BY <1>4, <1>5

LEMMA PollInterruptedKeeps == ASSUME IInv, NEW r \in Runs, PollInterrupted(r) PROVE IInv' /\ Forward
<1>1. PICK m : m = [w[r] EXCEPT !.state = "cancelled"] /\ StepEnds(r, m)
  BY DEF PollInterrupted
<1>2. /\ wpc[r] = "solving" /\ Risk(TRUE) /\ UNCHANGED <<ready, receipts, client, admit, queue, snap>>
      /\ snap' = [snap EXCEPT ![r] = snap[r]]
  BY AtWork DEF PollInterrupted
<1>3. /\ m \in Memories /\ m.state = "cancelled" /\ m.cmd = w[r].cmd
      /\ m.tick = w[r].tick /\ m.pending = 0 /\ m.doing = w[r].doing
  BY <1>1, <1>2, Busy, AtWork DEF Memories, States, TerminalStates
<1>4. Terminal(m) /\ w[r].tick <= m.tick
  BY <1>3, AtWork, Bound DEF Terminal, TerminalStates
<1> QED BY <1>1, <1>2, <1>3, <1>4, RiskKeeps, SolvedKeeps

-----------------------------------------------------------------------------
(* What happened is published, then receipted.                             *)

\* The receipts of r after one more, or none.
LEMMA ReceiptPut ==
  ASSUME IInv, NEW r \in Runs, NEW s \in Seqs, NEW v \in Verdicts, NEW lost \in BOOLEAN,
         PutReceipt(r, s, v, lost), receipts[r][s] = None
  PROVE  \E rec \in [Seqs -> Verdicts \cup {None}] :
           /\ receipts' = [receipts EXCEPT ![r] = rec]
           /\ \A q \in Seqs : rec[q] = IF q = s /\ ~ lost THEN v ELSE receipts[r][q]
<1>1. /\ receipts \in [Runs -> [Seqs -> Verdicts \cup {None}]]
      /\ receipts[r] \in [Seqs -> Verdicts \cup {None}]
  BY AtWork
<1>2. CASE lost
  BY <1>1, <1>2 DEF PutReceipt
<1>3. CASE ~ lost
  <2>1. PICK rec : rec = [receipts[r] EXCEPT ![s] = v]
    OBVIOUS
  <2>2. receipts' = [receipts EXCEPT ![r] = rec]
    BY <1>1, <1>3, <2>1 DEF PutReceipt
  <2>3. rec \in [Seqs -> Verdicts \cup {None}]
    BY <1>1, <2>1
  <2>4. \A q \in Seqs : rec[q] = IF q = s /\ ~ lost THEN v ELSE receipts[r][q]
    BY <1>1, <1>3, <2>1
  <2> QED BY <2>2, <2>3, <2>4
<1> QED BY <1>2, <1>3

\* The loop goes on, or is over.
LEMMA ResumeIs ==
  ASSUME IInv, NEW r \in Runs, NEW n \in Memories, Resume(r, n), n.state # "starting"
  PROVE  \E m \in Memories, to \in {"finish", "loop"} :
           /\ Go(r, to, m) /\ m.state = n.state /\ m.tick = n.tick /\ m.cmd = n.cmd
           /\ m.pending = n.pending /\ m.doing = "free" /\ to \in WorkerControl
           /\ to = "finish" => Terminal(m)
           /\ to = "loop" => m.state \in {"paused", "running"}
<1>1. PICK m, to : m = [n EXCEPT !.doing = "free"] /\ to = IF Terminal(n) THEN "finish" ELSE "loop"
  OBVIOUS
<1>2. Go(r, to, m)
  BY <1>1 DEF Resume
<1>3. /\ m \in Memories /\ m.state = n.state /\ m.tick = n.tick /\ m.cmd = n.cmd
      /\ m.pending = n.pending /\ m.doing = "free"
  BY <1>1 DEF Memories
<1>4. to \in {"finish", "loop"} /\ to \in WorkerControl
  BY <1>1 DEF WorkerControl
<1>5. (to = "finish" => Terminal(m)) /\ (to = "loop" => m.state \in {"paused", "running"})
  BY <1>1, <1>3 DEF Terminal, Memories, States
<1> QED BY <1>2, <1>3, <1>4, <1>5

LEMMA BrokenIs ==
  ASSUME NEW m \in Memories, NEW lost \in BOOLEAN
  PROVE  /\ Broken(m, lost) \in Memories
         /\ Broken(m, lost).state = IF lost THEN "failed" ELSE m.state
         /\ Broken(m, lost).tick = m.tick /\ Broken(m, lost).cmd = m.cmd
         /\ Broken(m, lost).doing = m.doing /\ Broken(m, lost).pending = m.pending
BY DEF Broken, Memories, States, TerminalStates

LEMMA SettleKeeps == ASSUME IInv, NEW r \in Runs, Settle(r) PROVE IInv' /\ Forward
<1>1. wpc[r] = "settle" /\ UNCHANGED <<ready, receipts, client, admit, queue>> /\ Live(r)
  BY DEF Settle, Live
<1>2. Solver(r) /\ Taken(r) /\ Receipted(r) /\ w[r] \in Memories /\ w[r].state # "starting"
  BY <1>1, AtWork DEF Run, Solver
<1>3. PICK lost \in BOOLEAN, shown \in {snap[r], Shown(w[r])} :
        Resume(r, Broken(w[r], lost)) /\ Risk(lost) /\ snap' = [snap EXCEPT ![r] = shown]
  <2>1. CASE Resume(r, w[r]) /\ Risk(FALSE) /\ UNCHANGED snap
    <3>1. Broken(w[r], FALSE) = w[r]
      BY DEF Broken
    <3> QED BY <2>1, <3>1, AtWork
  <2>2. CASE \E lost \in BOOLEAN : /\ PublishSnapshot(r, w[r], FALSE, lost)
                                   /\ Resume(r, Broken(w[r], lost)) /\ Risk(lost)
    <3>1. PICK lost \in BOOLEAN : /\ PublishSnapshot(r, w[r], FALSE, lost)
                                  /\ Resume(r, Broken(w[r], lost)) /\ Risk(lost)
      BY <2>2
    <3>2. \E shown \in {snap[r], Shown(w[r])} : snap' = [snap EXCEPT ![r] = shown]
      BY <1>2, <3>1, ShownKeeps
    <3> QED BY <3>1, <3>2
  <2> QED BY <2>1, <2>2 DEF Settle
<1>4. PICK m \in Memories, to \in {"finish", "loop"} :
        /\ Go(r, to, m) /\ m.state = (IF lost THEN "failed" ELSE w[r].state) /\ m.tick = w[r].tick
        /\ m.cmd = w[r].cmd /\ m.pending = w[r].pending /\ m.doing = "free" /\ to \in WorkerControl
        /\ to = "finish" => Terminal(m)
        /\ to = "loop" => m.state \in {"paused", "running"}
  BY <1>2, <1>3, BrokenIs, ResumeIs
<1>5. w[r].doing = "free"
  BY <1>1, <1>2 DEF Solver, Memories
<1>6. wpc'[r] = to /\ w'[r] = m /\ receipts'[r] = receipts[r] /\ UNCHANGED commands =>
        Solver(r)' /\ Taken(r)' /\ Receipted(r)'
  <2>1. SUFFICES ASSUME wpc'[r] = to, w'[r] = m, receipts'[r] = receipts[r], UNCHANGED commands
                 PROVE  Solver(r)' /\ Taken(r)' /\ Receipted(r)'
    OBVIOUS
  <2>2. to = "loop" => m.pending = 0
    BY <1>2, <1>4 DEF Taken
  <2>3. ~ Terminal(m) => m.tick < Limit
    BY <1>2, <1>4 DEF Solver, Terminal, TerminalStates
  <2>4. Solver(r)'
    BY <1>4, <2>1, <2>2, <2>3 DEF Solver, Terminal
  <2>5. Taken(r)'
    BY <1>1, <1>2, <1>4, <1>5, <2>1 DEF Taken
  <2>6. \A s \in Seqs : ~ (commands[r][s] \in Cancels /\ receipts[r][s] = "applied")
    BY <1>1, <1>2 DEF Receipted
  <2>7. Receipted(r)'
    BY <1>2, <1>4, <1>5, <2>1, <2>6 DEF Receipted
  <2> QED BY <2>4, <2>5, <2>7
<1>7. w[r].tick <= m.tick /\ w[r].cmd <= m.cmd
  BY <1>4, AtWork, Bound
<1> QED BY <1>1, <1>3, <1>4, <1>6, <1>7, ReceiptsStay, RiskKeeps, WorkKeeps

LEMMA ApplyKeeps == ASSUME IInv, NEW r \in Runs, Apply(r) PROVE IInv' /\ Forward
<1>1. /\ wpc[r] = "apply" /\ UNCHANGED <<ready, receipts, client, admit, queue>> /\ Live(r)
      /\ "receipt" \in WorkerControl
  BY DEF Apply, Live, WorkerControl
<1>2. Solver(r) /\ Taken(r) /\ Receipted(r) /\ w[r] \in Memories
  BY <1>1, AtWork DEF Run
<1>3. PICK lost \in BOOLEAN, shown \in {snap[r], Shown(w[r])} :
        Go(r, "receipt", Broken(w[r], lost)) /\ Risk(lost) /\ snap' = [snap EXCEPT ![r] = shown]
  <2>1. PICK lost \in BOOLEAN : /\ PublishSnapshot(r, w[r], TRUE, lost)
                                /\ Go(r, "receipt", Broken(w[r], lost)) /\ Risk(lost)
    BY DEF Apply
  <2>2. \E shown \in {snap[r], Shown(w[r])} : snap' = [snap EXCEPT ![r] = shown]
    BY <1>2, <2>1, ShownKeeps
  <2> QED BY <2>1, <2>2
<1>4. PICK m \in Memories :
        /\ Go(r, "receipt", m) /\ m.state = (IF lost THEN "failed" ELSE w[r].state)
        /\ m.tick = w[r].tick /\ m.cmd = w[r].cmd /\ m.pending = w[r].pending /\ m.doing = w[r].doing
  BY <1>2, <1>3, BrokenIs
<1>5. wpc'[r] = "receipt" /\ w'[r] = m /\ receipts'[r] = receipts[r] /\ UNCHANGED commands =>
        Solver(r)' /\ Taken(r)' /\ Receipted(r)'
  <2>1. SUFFICES ASSUME wpc'[r] = "receipt", w'[r] = m, receipts'[r] = receipts[r], UNCHANGED commands
                 PROVE  Solver(r)' /\ Taken(r)' /\ Receipted(r)'
    OBVIOUS
  <2>2. Solver(r)'
    BY <1>1, <1>2, <1>4, <2>1 DEF Solver, Terminal, TerminalStates
  <2>3. Taken(r)'
    BY <1>1, <1>2, <1>4, <2>1 DEF Taken
  <2>4. \A s \in Seqs : ~ (commands[r][s] \in Cancels /\ receipts[r][s] = "applied")
    BY <1>1, <1>2 DEF Receipted
  <2>5. Receipted(r)'
    BY <1>2, <1>4, <2>1, <2>4 DEF Receipted
  <2> QED BY <2>2, <2>3, <2>5
<1>6. w[r].tick <= m.tick /\ w[r].cmd <= m.cmd
  BY <1>4, AtWork, Bound
<1> QED BY <1>1, <1>3, <1>4, <1>5, <1>6, ReceiptsStay, RiskKeeps, WorkKeeps

LEMMA WriteReceiptKeeps == ASSUME IInv, NEW r \in Runs, WriteReceipt(r) PROVE IInv' /\ Forward
<1> DEFINE s == w[r].cmd
           v == Verdict(w[r])
<1>1. /\ wpc[r] = "receipt" /\ UNCHANGED <<ready, client, admit, queue, snap>> /\ Live(r)
      /\ ready' \in [Runs -> BOOLEAN] /\ snap' = [snap EXCEPT ![r] = snap[r]]
  BY AtWork DEF WriteReceipt, Live, IInv, TypeOK
<1>2. /\ Solver(r) /\ Taken(r) /\ Receipted(r) /\ w[r] \in Memories
      /\ w[r].state # "starting" /\ w[r].doing \in {"command", "step", "refused"}
  BY <1>1, AtWork DEF Run, Solver, Memories
<1>3. s \in Seqs /\ commands[r][s] # None /\ receipts[r][s] = None /\ v \in Verdicts
  BY <1>2 DEF Taken, Receipted, Verdict, Verdicts
<1>4. PICK lost \in BOOLEAN :
        PutReceipt(r, s, v, lost) /\ Resume(r, Broken(w[r], lost)) /\ Risk(lost)
  BY DEF WriteReceipt
<1>5. PICK rec \in [Seqs -> Verdicts \cup {None}] :
        /\ receipts' = [receipts EXCEPT ![r] = rec]
        /\ \A q \in Seqs : rec[q] = IF q = s /\ ~ lost THEN v ELSE receipts[r][q]
  BY <1>3, <1>4, ReceiptPut
<1>6. PICK m \in Memories, to \in {"finish", "loop"} :
        /\ Go(r, to, m) /\ m.state = (IF lost THEN "failed" ELSE w[r].state) /\ m.tick = w[r].tick
        /\ m.cmd = s /\ m.pending = w[r].pending /\ m.doing = "free" /\ to \in WorkerControl
        /\ to = "finish" => Terminal(m)
        /\ to = "loop" => m.state \in {"paused", "running"}
  BY <1>2, <1>4, BrokenIs, ResumeIs
<1>7. commands[r][s] \in Cancels /\ v = "applied" =>
        w[r].doing = "command" /\ w[r].pending = 0 /\ w[r].state = "cancelled"
  <2>1. commands[r][s] \in Cancels => w[r].doing = "command"
    BY <1>2, CommandsAreDisjoint DEF Taken
  <2> QED BY <1>2, <2>1 DEF Taken, Verdict
<1> HIDE DEF s, v
<1>8. wpc'[r] = to /\ w'[r] = m /\ receipts'[r] = rec /\ UNCHANGED commands =>
        Solver(r)' /\ Taken(r)' /\ Receipted(r)'
  <2>1. SUFFICES ASSUME wpc'[r] = to, w'[r] = m, receipts'[r] = rec, UNCHANGED commands
                 PROVE  Solver(r)' /\ Taken(r)' /\ Receipted(r)'
    OBVIOUS
  <2>2. to = "loop" => m.pending = 0
    BY <1>2, <1>6 DEF Taken
  <2>3. ~ Terminal(m) => m.tick < Limit
    BY <1>2, <1>6 DEF Solver, Terminal, TerminalStates
  <2>4. Solver(r)'
    BY <1>6, <2>1, <2>2, <2>3 DEF Solver, Terminal
  <2>5. Taken(r)'
    BY <1>1, <1>2, <1>6, <2>1 DEF Taken, s
  <2>6. ASSUME NEW q \in Seqs
        PROVE  /\ rec[q] # None => commands[r][q] # None /\ q <= m.cmd
               /\ rec[q] = None /\ q <= m.cmd => m.state = "failed"
               /\ commands[r][q] \in Cancels /\ rec[q] = "applied" =>
                    m.state = "cancelled" /\ to = "finish" /\ m.pending = 0
    <3>1. CASE q = s /\ ~ lost
      <4>1. rec[q] = v /\ v # None /\ q <= m.cmd /\ commands[r][q] # None
        BY <1>3, <1>5, <1>6, <3>1, AtWork, Bound DEF s
      <4>2. commands[r][q] \in Cancels /\ v = "applied" =>
              m.state = "cancelled" /\ to = "finish" /\ m.pending = 0
        BY <1>6, <1>7, <3>1
      <4> QED BY <4>1, <4>2
    <3>2. CASE ~ (q = s /\ ~ lost)
      <4>1. rec[q] = receipts[r][q] /\ (q = s => m.state = "failed")
        BY <1>5, <1>6, <3>2
      <4> QED BY <1>1, <1>2, <1>6, <4>1 DEF Receipted, s
    <3> QED BY <3>1, <3>2
  <2>7. Receipted(r)'
    BY <1>6, <2>1, <2>6 DEF Receipted
  <2> QED BY <2>4, <2>5, <2>7
<1>9. w[r].tick <= m.tick /\ w[r].cmd <= m.cmd
  BY <1>6, AtWork, Bound DEF s
<1>10. Kept(r, rec)
  BY <1>3, <1>5 DEF Kept
<1>11. /\ faults' \in 0 .. MaxFaults /\ timeouts' \in 0 .. MaxTimeouts
       /\ m.state \in {w[r].state, "failed"} /\ Go(r, to, m) /\ m \in Memories
       /\ rec \in [Seqs -> Verdicts \cup {None}] /\ receipts' = [receipts EXCEPT ![r] = rec]
  BY <1>4, <1>5, <1>6, RiskKeeps
<1>12. to \in WorkerControl /\ to # "none"
  BY <1>6
<1>13. PICK shown \in {snap[r], Shown(w[r]), Shown(m)} : snap' = [snap EXCEPT ![r] = shown]
  BY <1>1
<1>14. UNCHANGED <<client, admit, queue>> /\ Live(r) /\ ready' \in [Runs -> BOOLEAN]
  BY <1>1
<1> QED BY <1>8, <1>9, <1>10, <1>11, <1>12, <1>13, <1>14, WorkKeeps

-----------------------------------------------------------------------------
(* After the loop.                                                         *)

\* A worker that is done goes on to an end, with the same in mind.
LEMMA LeavesKeeps ==
  ASSUME IInv, NEW r \in Runs, Live(r), NEW to \in {"final", "exiting", "dead"},
         Go(r, to, w[r]), UNCHANGED <<ready, receipts, client, admit, queue>>,
         to = "dead" \/ Terminal(w[r]), wpc[r] = "finish" => w[r].pending = 0 \/ to = "dead",
         to = "dead" \/ wpc[r] \in {"finish", "final", "exiting"},
         faults' \in 0 .. MaxFaults, timeouts' \in 0 .. MaxTimeouts,
         NEW shown \in {snap[r], Shown(w[r])}, snap' = [snap EXCEPT ![r] = shown]
  PROVE  IInv' /\ Forward
<1>1. Solver(r) /\ Taken(r) /\ Receipted(r) /\ w[r] \in Memories
  BY AtWork DEF Run
<1>2. to \in WorkerControl /\ to # "none"
  BY DEF WorkerControl
<1>3. wpc'[r] = to /\ w'[r] = w[r] /\ receipts'[r] = receipts[r] /\ UNCHANGED commands =>
        Solver(r)' /\ Taken(r)' /\ Receipted(r)'
  <2>1. SUFFICES ASSUME wpc'[r] = to, w'[r] = w[r], receipts'[r] = receipts[r], UNCHANGED commands
                 PROVE  Solver(r)' /\ Taken(r)' /\ Receipted(r)'
    OBVIOUS
  <2>2. Solver(r)'
    BY <1>1, <2>1 DEF Solver, Terminal
  <2>3. Taken(r)' /\ Receipted(r)'
    BY <1>1, <2>1 DEF Taken, Receipted
  <2> QED BY <2>2, <2>3
<1>4. w[r].tick <= w[r].tick /\ w[r].cmd <= w[r].cmd
  BY AtWork, Bound
<1> QED BY <1>1, <1>2, <1>3, <1>4, ReceiptsStay, WorkKeeps

LEMMA NothingPendingKeeps == ASSUME IInv, NEW r \in Runs, NothingPending(r) PROVE IInv' /\ Forward
<1>1. /\ wpc[r] = "finish" /\ w[r].pending = 0 /\ Go(r, "final", w[r]) /\ Live(r)
      /\ UNCHANGED <<ready, receipts, client, admit, queue, snap, budget>>
      /\ snap' = [snap EXCEPT ![r] = snap[r]]
  BY AtWork DEF NothingPending, Live
<1>2. Terminal(w[r])
  BY <1>1, AtWork DEF Run, Solver
<1> QED BY <1>1, <1>2, BudgetKeeps, LeavesKeeps

LEMMA FinalKeeps == ASSUME IInv, NEW r \in Runs, Final(r) PROVE IInv' /\ Forward
<1>1. /\ wpc[r] = "final" /\ Go(r, "exiting", w[r]) /\ Live(r)
      /\ UNCHANGED <<ready, receipts, client, admit, queue>>
  BY AtWork DEF Final, Live, Go
<1>2. PICK lost \in BOOLEAN : PublishSnapshot(r, w[r], TRUE, lost) /\ Risk(lost)
  BY DEF Final
<1>3. PICK shown \in {snap[r], Shown(w[r])} : snap' = [snap EXCEPT ![r] = shown]
  BY <1>2, AtWork, ShownKeeps
<1>4. Terminal(w[r])
  BY <1>1, AtWork DEF Run, Solver
<1> QED BY <1>1, <1>2, <1>3, <1>4, RiskKeeps, LeavesKeeps

LEMMA ExitsKeeps == ASSUME IInv, NEW r \in Runs, Exits(r) PROVE IInv' /\ Forward
<1>1. /\ wpc[r] = "exiting" /\ Go(r, "dead", w[r]) /\ Live(r)
      /\ UNCHANGED <<ready, receipts, client, admit, queue, budget>>
      /\ snap' = [snap EXCEPT ![r] = snap[r]]
  BY AtWork DEF Exits, Live, Go
<1> QED BY <1>1, BudgetKeeps, LeavesKeeps

LEMMA WorkerDiesKeeps == ASSUME IInv, NEW r \in Runs, WorkerDies(r) PROVE IInv' /\ Forward
<1>1. /\ Go(r, "dead", w[r]) /\ Live(r) /\ Risk(TRUE)
      /\ UNCHANGED <<ready, receipts, client, admit, queue>>
      /\ snap' = [snap EXCEPT ![r] = snap[r]]
  BY AtWork DEF WorkerDies, Go
<1> QED BY <1>1, RiskKeeps, LeavesKeeps

\* The cancel that stopped the solver is still the next command: it is taken.
LEMMA FinishCancelKeeps == ASSUME IInv, NEW r \in Runs, FinishCancel(r) PROVE IInv' /\ Forward
<1> DEFINE s == w[r].pending
           n == [w[r] EXCEPT !.cmd = s]
           v == Verdict(n)
<1>1. /\ wpc[r] = "finish" /\ s # 0 /\ UNCHANGED <<ready, client, admit, queue, snap>> /\ Live(r)
      /\ ready' \in [Runs -> BOOLEAN] /\ snap' = [snap EXCEPT ![r] = snap[r]]
  BY AtWork DEF FinishCancel, Live, IInv, TypeOK
<1>2. /\ Solver(r) /\ Taken(r) /\ Receipted(r) /\ w[r] \in Memories
      /\ Terminal(w[r]) /\ w[r].doing = "free"
  BY <1>1, AtWork DEF Run, Solver, Memories
<1>3. /\ s = w[r].cmd + 1 /\ s \in Seqs /\ commands[r][s] \in Cancels
      /\ w[r].state \in {"cancelled", "failed"}
  BY <1>1, <1>2 DEF Taken
<1>4. w[r].cmd \in Nat /\ w[r].tick \in Nat /\ receipts[r][s] = None
  BY <1>2, <1>3, AtWork, Bound DEF Receipted
<1>5. NextCommand(r) \in Cancels
  BY <1>3 DEF NextCommand
<1>6. /\ n \in Memories /\ n.state = w[r].state /\ n.tick = w[r].tick /\ n.cmd = s
      /\ n.pending = s /\ n.doing = "free"
  BY <1>2, AtWork DEF Memories
<1>7. v \in Verdicts /\ (v = "applied" => w[r].state = "cancelled")
  <2> HIDE DEF n
  <2> QED BY <1>3, <1>6 DEF Verdict, Verdicts
<1>8. PICK lost \in BOOLEAN :
        PutReceipt(r, s, v, lost) /\ Go(r, "final", Broken(n, lost)) /\ Risk(lost)
  BY <1>3, <1>5 DEF FinishCancel
<1> HIDE DEF n, v, s
<1>9. PICK rec \in [Seqs -> Verdicts \cup {None}] :
        /\ receipts' = [receipts EXCEPT ![r] = rec]
        /\ \A q \in Seqs : rec[q] = IF q = s /\ ~ lost THEN v ELSE receipts[r][q]
  BY <1>3, <1>4, <1>7, <1>8, ReceiptPut
<1>10. PICK m \in Memories :
        /\ Go(r, "final", m) /\ m.state = (IF lost THEN "failed" ELSE w[r].state)
        /\ m.tick = w[r].tick /\ m.cmd = s /\ m.pending = s /\ m.doing = "free"
  BY <1>6, <1>8, BrokenIs
<1>11. Terminal(m) /\ "final" \in WorkerControl
  BY <1>2, <1>10 DEF Terminal, TerminalStates, WorkerControl
<1>12. wpc'[r] = "final" /\ w'[r] = m /\ receipts'[r] = rec /\ UNCHANGED commands =>
        Solver(r)' /\ Taken(r)' /\ Receipted(r)'
  <2>1. SUFFICES ASSUME wpc'[r] = "final", w'[r] = m, receipts'[r] = rec, UNCHANGED commands
                 PROVE  Solver(r)' /\ Taken(r)' /\ Receipted(r)'
    OBVIOUS
  <2>2. Solver(r)'
    BY <1>10, <1>11, <2>1 DEF Solver, Terminal
  <2>3. Taken(r)'
    BY <1>3, <1>10, <2>1 DEF Taken
  <2>4. ASSUME NEW q \in Seqs
        PROVE  /\ rec[q] # None => commands[r][q] # None /\ q <= m.cmd
               /\ rec[q] = None /\ q <= m.cmd => m.state = "failed"
               /\ commands[r][q] \in Cancels /\ rec[q] = "applied" => m.state = "cancelled"
    <3>1. CASE q = s /\ ~ lost
      <4>1. rec[q] = v /\ v # None /\ q <= m.cmd /\ m.state = w[r].state
        BY <1>3, <1>4, <1>7, <1>9, <1>10, <3>1, Bound
      <4>2. commands[r][q] # None
        BY <1>3, <3>1, Bound DEF Commands
      <4> QED BY <1>7, <4>1, <4>2
    <3>2. CASE ~ (q = s /\ ~ lost)
      <4>1. rec[q] = receipts[r][q] /\ (q = s => m.state = "failed")
        BY <1>9, <1>10, <3>2
      <4>2. receipts[r][q] # None => commands[r][q] # None /\ q <= w[r].cmd
        BY <1>2 DEF Receipted
      <4>3. receipts[r][q] = None /\ q <= w[r].cmd => w[r].state = "failed"
        BY <1>2 DEF Receipted
      <4>4. ~ (commands[r][q] \in Cancels /\ receipts[r][q] = "applied")
        BY <1>1, <1>2 DEF Receipted, s
      <4>5. q \in Nat /\ (q <= m.cmd => q = s \/ q <= w[r].cmd) /\ w[r].cmd <= m.cmd
        BY <1>3, <1>4, <1>10, Bound DEF Seqs
      <4> QED BY <1>3, <1>4, <1>10, <4>1, <4>2, <4>3, <4>4, <4>5
    <3> QED BY <3>1, <3>2
  <2>5. Receipted(r)'
    BY <1>10, <2>1, <2>4 DEF Receipted
  <2> QED BY <2>2, <2>3, <2>5
<1>13. w[r].tick <= m.tick /\ w[r].cmd <= m.cmd /\ m.state \in {w[r].state, "failed"}
  BY <1>3, <1>4, <1>10
<1>14. Kept(r, rec)
  BY <1>4, <1>9 DEF Kept
<1>15. /\ faults' \in 0 .. MaxFaults /\ timeouts' \in 0 .. MaxTimeouts /\ Go(r, "final", m) /\ m \in Memories
       /\ rec \in [Seqs -> Verdicts \cup {None}] /\ receipts' = [receipts EXCEPT ![r] = rec]
  BY <1>8, <1>9, <1>10, RiskKeeps
<1>16. PICK shown \in {snap[r], Shown(w[r]), Shown(m)} : snap' = [snap EXCEPT ![r] = shown]
  BY <1>1
<1>17. UNCHANGED <<client, admit, queue>> /\ Live(r) /\ ready' \in [Runs -> BOOLEAN]
  BY <1>1
<1>18. "final" \in WorkerControl /\ "final" # "none"
  BY <1>11
<1> QED BY <1>12, <1>13, <1>14, <1>15, <1>16, <1>17, <1>18, WorkKeeps

-----------------------------------------------------------------------------
(* The invariant is inductive.                                             *)

LEMMA InitKeeps == ASSUME Init PROVE IInv
<1>1. Fresh \in Memories /\ Starting \in Snapshots /\ NoCall \in Calls
  BY Bound DEF Fresh, Memories, Starting, Snapshots, States, NoCall, Calls
<1>2. TypeOK
  <2>1. faults \in 0 .. MaxFaults /\ timeouts \in 0 .. MaxTimeouts
    BY SessionBounds DEF Init
  <2> QED BY <1>1, <2>1 DEF Init, TypeOK, ClientControl, WorkerControl, Fresh
<1>3. \A q \in Runs : ~ Live(q)
  BY DEF Init, Live
<1>4. OneActiveRun
  BY <1>3 DEF OneActiveRun
<1>5. ASSUME NEW r \in Runs PROVE Run(r)
  <2>1. w[r] = Fresh /\ wpc[r] = "none" /\ snap[r] = Starting /\ ~ Live(r)
    BY <1>3 DEF Init, Fresh
  <2>2. Solver(r)
    BY <2>1, SessionBounds DEF Solver, Fresh
  <2>3. /\ \A s \in Seqs : commands[r][s] = None /\ receipts[r][s] = None /\ ~ (s <= 0)
        /\ \A k \in Commands : ids[r][k] = 0 /\ told[r][k] = {}
        /\ ~ request[r]
    BY Bound DEF Init, Seqs
  <2>4. Taken(r) /\ Receipted(r)
    <3>1. w[r].doing = "free" /\ w[r].pending = 0 /\ w[r].cmd = 0 /\ None # "applied"
      BY <2>1, Bound DEF Fresh, Verdicts
    <3> QED BY <2>3, <3>1 DEF Taken, Receipted
  <2>5. Reported(r) /\ Numbered(r) /\ Told(r)
    BY <2>1, <2>3 DEF Reported, Numbered, Told, Fresh, Starting
  <2> QED BY <2>2, <2>4, <2>5 DEF Run
<1>6. ASSUME NEW c \in Clients PROVE Caller(c) /\ Starter(c) /\ Commander(c)
  <2>1. pc[c] = "idle" /\ op[c] = NoCall /\ lock # c
    BY Bound DEF Init
  <2> QED BY <2>1 DEF Caller, Starter, Commander, Wants, Holding, NoCall
<1> QED BY <1>2, <1>4, <1>5, <1>6 DEF IInv

LEMMA StutterKeeps == ASSUME IInv, UNCHANGED vars PROVE IInv'
<1>1. UNCHANGED <<lock, pc, op, view, told, made, request, ids, commands, wpc, w, ready, receipts,
                  snap, faults, timeouts>>
  BY DEF vars, client, admit, queue, worker, budget
<1>2. TypeOK' /\ OneActiveRun' /\ Grown
  BY <1>1 DEF IInv, TypeOK, OneActiveRun, Live, Terminal, Grown
<1>3. ASSUME NEW r \in Runs PROVE Run(r)'
  <2>1. Run(r)
    BY DEF IInv
  <2>2. Solver(r)' /\ Taken(r)' /\ Receipted(r)'
    BY <1>1, <2>1 DEF Run, Solver, Taken, Receipted, Terminal
  <2>3. Reported(r)' /\ Numbered(r)' /\ Told(r)'
    BY <1>1, <2>1 DEF Run, Reported, Numbered, Told, Answer, Terminal, Live
  <2> QED BY <2>2, <2>3 DEF Run
<1>4. ASSUME NEW c \in Clients PROVE Caller(c)' /\ Starter(c)' /\ Commander(c)'
  <2>1. Caller(c)' /\ Commander(c)'
    BY <1>1, Present DEF Caller, Commander, Wants, Unpublished
  <2>2. Starter(c)'
    BY <1>1, Present DEF Starter, Past, Live, Terminal
  <2> QED BY <2>1, <2>2
<1> QED BY <1>2, <1>3, <1>4 DEF IInv

LEMMA WorkStep == ASSUME IInv, NEW r \in Runs, Work(r) \/ Disturbed(r) PROVE IInv' /\ Forward
<1>1. CASE Boot(r) \/ InitFails(r) \/ InitDone(r) \/ TakeCommand(r) \/ FreeStep(r)
  BY <1>1, BootKeeps, InitFailsKeeps, InitDoneKeeps, TakeCommandKeeps, FreeStepKeeps
<1>2. CASE StepDone(r) \/ StepFails(r) \/ PollCancel(r) \/ PollPublish(r)
  BY <1>2, StepDoneKeeps, StepFailsKeeps, PollCancelKeeps, PollPublishKeeps
<1>3. CASE Settle(r) \/ Apply(r) \/ WriteReceipt(r)
  BY <1>3, SettleKeeps, ApplyKeeps, WriteReceiptKeeps
<1>4. CASE NothingPending(r) \/ FinishCancel(r) \/ Final(r) \/ Exits(r)
  BY <1>4, NothingPendingKeeps, FinishCancelKeeps, FinalKeeps, ExitsKeeps
<1>5. CASE Interrupted(r) \/ PollInterrupted(r) \/ WorkerDies(r)
  BY <1>5, InterruptedKeeps, PollInterruptedKeeps, WorkerDiesKeeps
<1> QED BY <1>1, <1>2, <1>3, <1>4, <1>5 DEF Work, Disturbed

LEMMA CallStep ==
  ASSUME IInv, NEW c \in Clients, Ask(c) \/ Serve(c) \/ Await(c) \/ ClientDies(c)
  PROVE  IInv'
<1>1. CASE Ask(c)
  BY <1>1, StartNewKeeps, StartAgainKeeps, InspectKeeps, ControlKeeps DEF Ask
<1>2. CASE Await(c) \/ ClientDies(c)
  BY <1>2, AnswerReceiptKeeps, LateKeeps, ClientDiesKeeps DEF Await
<1>3. CASE ReadSnapshot(c) \/ ReturnStatus(c) \/ AdmitScan(c) \/ AdmitCommand(c) \/ AnswerLate(c)
  BY <1>3, ReadSnapshotKeeps, ReturnStatusKeeps, AdmitScanKeeps, AdmitCommandKeeps, AnswerLateKeeps
<1>4. CASE \/ MakeDirectory(c) \/ WriteRequest(c) \/ Launch(c) \/ Launched(c)
           \/ Unconfirmed(c) \/ WriteStarting(c)
  BY <1>4, MakeDirectoryKeeps, WriteRequestKeeps, LaunchKeeps, LaunchedKeeps, UnconfirmedKeeps,
     WriteStartingKeeps
<1>5. CASE Repair(c) \/ Repaired(c) \/ Identify(c) \/ Allocate(c) \/ Publish(c)
  BY <1>5, RepairKeeps, RepairedKeeps, IdentifyKeeps, AllocateKeeps, PublishKeeps
<1> QED BY <1>1, <1>2, <1>3, <1>4, <1>5 DEF Serve

LEMMA StepKeeps == IInv /\ [Next]_vars => IInv'
<1>1. SUFFICES ASSUME IInv, [Next]_vars PROVE IInv'
  OBVIOUS
<1>2. CASE UNCHANGED vars
  BY <1>1, <1>2, StutterKeeps
<1>3. CASE Next
  BY <1>1, <1>3, WorkStep, CallStep DEF Next
<1> QED BY <1>1, <1>2, <1>3

LEMMA Invariance == Spec => []IInv
BY InitKeeps, StepKeeps, PTL DEF Spec

-----------------------------------------------------------------------------
(* What follows.                                                           *)

\* The files and the memory of clients and workers hold what the code writes
\* to them, whatever the number of clients, runs and commands.
THEOREM TypeCorrect == Spec => []TypeOK
<1>1. IInv => TypeOK
  BY DEF IInv
<1> QED BY <1>1, Invariance, PTL

\* Two workers are never both at work on runs that are not over: run_start
\* looks at every run under service.lock, and owner.lock outlives the call.
THEOREM OneWorkerActive == Spec => []OneActiveRun
<1>1. IInv => OneActiveRun
  BY DEF IInv
<1> QED BY <1>1, Invariance, PTL

\* Identity and command files are two writes, and still name each other; the
\* published sequence numbers have no gap (run_control and its repair).
THEOREM NumbersAreBound == Spec => []CommandsBound
<1>1. ASSUME IInv PROVE CommandsBound
  <2>1. ASSUME NEW r \in Runs, NEW s \in Seqs, commands[r][s] # None
        PROVE  ids[r][commands[r][s]] = s /\ \A q \in 1 .. s : commands[r][q] # None
    <3>1. Numbered(r) /\ commands[r][s] \in Commands /\ s \in Nat /\ s # 0
      <4>1. Numbered(r) /\ commands[r][s] \in Commands
        BY <1>1, <2>1, AtWork DEF Run
      <4>2. s \in Nat /\ s # 0
        BY Bound DEF Seqs
      <4> QED BY <4>1, <4>2
    <3>2. ids[r][commands[r][s]] = s
      BY <2>1, <3>1 DEF Numbered
    <3>3. \A q \in 1 .. s - 1 : commands[r][q] # None
      BY <3>1, <3>2 DEF Numbered
    <3> QED BY <2>1, <3>1, <3>2, <3>3
  <2> QED BY <1>1, <2>1 DEF CommandsBound, IInv, Run, Numbered
<1> QED BY <1>1, Invariance, PTL

\* Whoever is told an outcome is told the receipt of that command: retries and
\* repairs do not mix answers up.
THEOREM AnswersAreReceipts == Spec => []AnswersAgree
<1>1. IInv => AnswersAgree
  BY DEF IInv, Run, Told, Answer, AnswersAgree
<1> QED BY <1>1, Invariance, PTL

\* The worker leaves no command behind without a receipt unless it failed,
\* wherever its solver was when the command came.
THEOREM ReceiptsAreComplete == Spec => []NoSkippedReceipt
<1>1. ASSUME IInv, NEW r \in Runs, NEW s \in Seqs, s < w[r].cmd, receipts[r][s] = None
      PROVE  w[r].state = "failed"
  <2>1. s \in Nat /\ w[r].cmd \in Nat
    BY <1>1, AtWork, Bound DEF Seqs
  <2> QED BY <1>1, <2>1 DEF IInv, Run, Receipted
<1>2. IInv => NoSkippedReceipt
  BY <1>1 DEF NoSkippedReceipt
<1> QED BY <1>2, Invariance, PTL

\* No inspection declares a run failed under a worker that still lives.
THEOREM FailuresAreReal == Spec => []FailureNotInvented
<1>1. ASSUME IInv, NEW r \in Runs, snap[r].state = "failed", w[r].state # "failed"
      PROVE  ~ Live(r)
  <2>1. Reported(r) /\ Terminal(snap[r])
    BY <1>1 DEF IInv, Run, Terminal, TerminalStates
  <2> QED BY <1>1, <2>1 DEF Reported
<1>2. IInv => FailureNotInvented
  BY <1>1 DEF FailureNotInvented
<1> QED BY <1>2, Invariance, PTL

-----------------------------------------------------------------------------
(* What can be seen.                                                       *)

\* All that a call does to a snapshot: that of a run that is not over, and has
\* no worker, is declared failed.
Declares(r) ==
  \/ snap'[r] = snap[r]
  \/ /\ ~ Live(r) /\ ~ Terminal(snap[r])
     /\ snap'[r].state = "failed" /\ snap'[r].cmd = snap[r].cmd

\* A step of a call declares runs failed, and leaves counters and workers alone.
LEMMA CallSees ==
  ASSUME IInv, NEW c \in Clients, Ask(c) \/ Serve(c) \/ Await(c) \/ ClientDies(c),
         ~ WriteStarting(c)
  PROVE  /\ Forward
         /\ \A r \in Runs : Declares(r)
         /\ UNCHANGED <<receipts, w>>
         /\ \A r \in Runs : wpc'[r] = "receipt" => wpc[r] = "receipt"
<1>1. ASSUME UNCHANGED <<receipts, w>>, UNCHANGED wpc,
             UNCHANGED snap \/ (pc[c] = "look" /\ Reconcile(c))
      PROVE  /\ Forward
             /\ \A r \in Runs : Declares(r)
             /\ UNCHANGED <<receipts, w>>
             /\ \A r \in Runs : wpc'[r] = "receipt" => wpc[r] = "receipt"
  <2>1. \A r \in Runs : snap[r].tick \in Nat /\ snap[r].cmd \in Nat
    BY AtWork, Bound
  <2>2. ASSUME NEW r \in Runs
        PROVE  /\ snap'[r].tick = snap[r].tick /\ snap'[r].cmd = snap[r].cmd
               /\ snap'[r].state \in {snap[r].state, "failed"} /\ Declares(r)
    <3>1. \/ snap'[r] = snap[r]
          \/ ~ Live(r) /\ ~ Terminal(snap[r]) /\ snap'[r] = [snap[r] EXCEPT !.state = "failed"]
      BY <1>1, AtWork DEF Reconcile, Abandoned, OwnerHeld, Declared
    <3> QED BY <3>1, AtWork DEF Snapshots, Declares
  <2> QED BY <1>1, <2>1, <2>2 DEF Forward
<1>2. CASE Ask(c)
  BY <1>1, <1>2 DEF Ask, StartNew, StartAgain, Inspect, Control, worker
<1>3. CASE Await(c) \/ ClientDies(c)
  BY <1>1, <1>3 DEF Await, AnswerReceipt, Late, ClientDies, worker
<1>4. CASE ReturnStatus(c) \/ AdmitScan(c) \/ AdmitCommand(c) \/ AnswerLate(c)
  BY <1>1, <1>4 DEF ReturnStatus, AdmitScan, AdmitCommand, AnswerLate, worker
<1>5. CASE ReadSnapshot(c) \/ MakeDirectory(c) \/ WriteRequest(c) \/ Launched(c) \/ Unconfirmed(c)
  BY <1>1, <1>5 DEF ReadSnapshot, MakeDirectory, WriteRequest, Launched, Unconfirmed, worker
<1>6. CASE Repair(c) \/ Repaired(c) \/ Identify(c) \/ Allocate(c) \/ Publish(c)
  BY <1>1, <1>6 DEF Repair, Repaired, Identify, Allocate, Publish, worker
<1>7. CASE Launch(c)
  <2>1. UNCHANGED <<receipts, w>> /\ UNCHANGED snap /\ wpc' = [wpc EXCEPT ![op[c].run] = "boot"]
    BY <1>7 DEF Launch
  <2>2. \A r \in Runs : snap[r].tick \in Nat /\ snap[r].cmd \in Nat
    BY AtWork, Bound
  <2> QED BY <2>1, <2>2, AtWork DEF Forward, Declares
<1> QED BY <1>2, <1>3, <1>4, <1>5, <1>6, <1>7 DEF Serve

\* A step of a call replaces no command.
LEMMA CommandsStay ==
  ASSUME IInv, NEW c \in Clients, Ask(c) \/ Serve(c) \/ Await(c) \/ ClientDies(c)
  PROVE  \A r \in Runs, s \in Seqs : commands[r][s] # None => commands'[r][s] = commands[r][s]
<1>1. commands \in [Runs -> [Seqs -> Commands \cup {None}]]
  BY DEF IInv, TypeOK
<1>2. CASE UNCHANGED commands
  BY <1>2
<1>3. ASSUME NEW r, NEW k, PublishCommand(r, k)
      PROVE  \A q \in Runs, s \in Seqs : commands[q][s] # None => commands'[q][s] = commands[q][s]
  BY <1>1, <1>3 DEF PublishCommand
<1>4. CASE Repair(c) \/ Publish(c)
  BY <1>3, <1>4 DEF Repair, Publish
<1>5. CASE Ask(c)
  BY <1>2, <1>5 DEF Ask, StartNew, StartAgain, Inspect, Control, queue
<1>6. CASE Await(c) \/ ClientDies(c)
  BY <1>2, <1>6 DEF Await, AnswerReceipt, Late, ClientDies, queue
<1>7. CASE ReturnStatus(c) \/ AdmitScan(c) \/ AdmitCommand(c) \/ AnswerLate(c)
  BY <1>2, <1>7 DEF ReturnStatus, AdmitScan, AdmitCommand, AnswerLate, queue
<1>8. CASE ReadSnapshot(c) \/ MakeDirectory(c) \/ WriteRequest(c) \/ Launch(c) \/ Launched(c)
  BY <1>2, <1>8 DEF ReadSnapshot, MakeDirectory, WriteRequest, Launch, Launched, queue
<1>9. CASE Unconfirmed(c) \/ WriteStarting(c) \/ Repaired(c) \/ Identify(c) \/ Allocate(c)
  BY <1>2, <1>9 DEF Unconfirmed, WriteStarting, Repaired, Identify, Allocate, queue
<1> QED BY <1>4, <1>5, <1>6, <1>7, <1>8, <1>9 DEF Serve

\* No call comes to an elapsed wait.
LEMMA NoneUnconfirmed ==
  ASSUME IInv, MaxTimeouts = 0, NEW c \in Clients,
         Ask(c) \/ Serve(c) \/ Await(c) \/ ClientDies(c),
         \A d \in Clients : pc[d] # "unconfirmed"
  PROVE  \A d \in Clients : pc'[d] # "unconfirmed"
<1>1. ~ Unconfirmed(c) /\ pc \in [Clients -> ClientControl]
  BY DEF Unconfirmed, IInv, TypeOK
<1>2. CASE UNCHANGED pc
  BY <1>2
<1>3. CASE \E to \in ClientControl \ {"unconfirmed"} : pc' = [pc EXCEPT ![c] = to]
  BY <1>1, <1>3
<1>4. CASE Ask(c)
  BY <1>3, <1>4 DEF Ask, StartNew, StartAgain, Inspect, Control, Call, ClientControl
<1>5. CASE Await(c) \/ ClientDies(c)
  BY <1>3, <1>5 DEF Await, AnswerReceipt, Late, ClientDies, Leave, Move, ClientControl
<1>6. CASE ReturnStatus(c) \/ AdmitScan(c) \/ AdmitCommand(c) \/ AnswerLate(c)
  BY <1>3, <1>6 DEF ReturnStatus, AdmitScan, AdmitCommand, AnswerLate, Leave, ClientControl
<1>7. CASE \/ ReadSnapshot(c) \/ MakeDirectory(c) \/ WriteRequest(c) \/ Launch(c) \/ Launched(c)
           \/ WriteStarting(c)
  BY <1>3, <1>7 DEF ReadSnapshot, MakeDirectory, WriteRequest, Launch, Launched, WriteStarting,
                    Leave, Move, ClientControl
<1>8. CASE Repair(c) \/ Repaired(c) \/ Identify(c) \/ Allocate(c) \/ Publish(c)
  BY <1>2, <1>3, <1>8 DEF Repair, Repaired, Identify, Allocate, Publish, Move, ClientControl, client
<1> QED BY <1>1, <1>4, <1>5, <1>6, <1>7, <1>8 DEF Serve

\* A worker asks for nothing, and no call moves.
LEMMA WorkAsksNothing ==
  ASSUME NEW r \in Runs, Work(r) \/ Disturbed(r)
  PROVE  UNCHANGED <<client, admit, queue>>
<1>1. CASE Boot(r) \/ InitFails(r) \/ InitDone(r) \/ TakeCommand(r) \/ FreeStep(r) \/ Interrupted(r)
  BY <1>1 DEF Boot, InitFails, InitDone, TakeCommand, FreeStep, Interrupted
<1>2. CASE \/ StepDone(r) \/ StepFails(r) \/ PollCancel(r) \/ PollInterrupted(r) \/ PollPublish(r)
           \/ Settle(r) \/ Apply(r)
  BY <1>2 DEF StepDone, StepFails, PollCancel, PollInterrupted, PollPublish, Settle, Apply
<1>3. CASE \/ WriteReceipt(r) \/ NothingPending(r) \/ FinishCancel(r) \/ Final(r) \/ Exits(r)
           \/ WorkerDies(r)
  BY <1>3 DEF WriteReceipt, NothingPending, FinishCancel, Final, Exits, WorkerDies
<1> QED BY <1>1, <1>2, <1>3 DEF Work, Disturbed

\* A worker that is gone after a step left its run as it was.
LEMMA WorkLives ==
  ASSUME IInv, NEW r \in Runs, Work(r) \/ Disturbed(r)
  PROVE  Live(r)' \/ (w'[r] = w[r] /\ snap'[r] = snap[r])
<1>1. wpc \in [Runs -> WorkerControl]
  BY AtWork
<1>2. \A to \in WorkerControl \ {"none", "dead"} : \A m : Go(r, to, m) => Live(r)'
  BY <1>1 DEF Go, Live
<1>3. \A to \in WorkerControl \ {"none", "dead"} : wpc' = [wpc EXCEPT ![r] = to] => Live(r)'
  BY <1>1 DEF Live
<1>4. CASE Exits(r) \/ WorkerDies(r)
  BY <1>4 DEF Exits, WorkerDies
<1>5. CASE Boot(r) \/ Final(r)
  BY <1>3, <1>5 DEF Boot, Final, WorkerControl
<1>6. CASE InitFails(r) \/ InitDone(r) \/ FreeStep(r) \/ Interrupted(r) \/ NothingPending(r) \/ FinishCancel(r)
  BY <1>2, <1>6 DEF InitFails, InitDone, FreeStep, Interrupted, NothingPending, FinishCancel, WorkerControl
<1>7. CASE TakeCommand(r)
  BY <1>2, <1>7 DEF TakeCommand, WorkerControl
<1>8. CASE StepDone(r) \/ StepFails(r) \/ PollCancel(r) \/ PollInterrupted(r)
  <2>1. \A m : StepEnds(r, m) => Live(r)'
    BY <1>2 DEF StepEnds, WorkerControl
  <2> QED BY <1>8, <2>1 DEF StepDone, StepFails, PollCancel, PollInterrupted
<1>9. CASE PollPublish(r)
  <2>1. \A m : StepEnds(r, m) => Live(r)'
    BY <1>2 DEF StepEnds, WorkerControl
  <2> QED BY <1>9, <2>1 DEF PollPublish, Live
<1>10. CASE Settle(r) \/ Apply(r) \/ WriteReceipt(r)
  <2>1. \A m : Resume(r, m) => Live(r)'
    BY <1>2 DEF Resume, WorkerControl
  <2> QED BY <1>2, <1>10, <2>1 DEF Settle, Apply, WriteReceipt, WorkerControl
<1> QED BY <1>4, <1>5, <1>6, <1>7, <1>8, <1>9, <1>10 DEF Work, Disturbed

\* An applied cancel that has been seen stays so, and an end that is seen stays
\* the worker's, in a step of the worker.
LEMMA EndSeen ==
  ASSUME IInv, IInv', Forward, NEW r \in Runs, Seen(r), commands' = commands,
         Live(r)' \/ (w'[r] = w[r] /\ snap'[r] = snap[r])
  PROVE  /\ Terminal(snap[r])' /\ snap'[r].state # "failed" => w'[r].state \in {snap'[r].state, "failed"}
         /\ \A s \in Seqs :
              commands[r][s] \in Cancels /\ receipts'[r][s] = "applied" /\ snap[r].state = "cancelled" =>
                snap'[r].state = "cancelled"
<1>1. Reported(r)' /\ Receipted(r)'
  BY DEF IInv, Run
<1>2. Terminal(snap[r]) => snap'[r].state \in {snap[r].state, "failed"}
  BY DEF Forward
<1>3. Terminal(snap[r])' /\ snap'[r].state # "failed" => w'[r].state \in {snap'[r].state, "failed"}
  BY <1>1 DEF Reported, Seen, Terminal
<1>4. ASSUME NEW s \in Seqs, commands[r][s] \in Cancels, receipts'[r][s] = "applied",
             snap[r].state = "cancelled"
      PROVE  snap'[r].state = "cancelled"
  <2>1. w'[r].state = "cancelled"
    BY <1>1, <1>4 DEF Receipted
  <2>2. snap'[r].state \in {"cancelled", "failed"}
    BY <1>2, <1>4 DEF Terminal, TerminalStates
  <2>3. snap'[r].state = "failed" => Terminal(snap[r])'
    BY DEF Terminal, TerminalStates
  <2> QED BY <1>1, <1>4, <2>1, <2>2, <2>3 DEF Reported
<1> QED BY <1>3, <1>4

\* A run whose receipts stay, and whose worker is not about to write one.
LEMMA SeenFrame ==
  ASSUME IInv, IInv', Forward, NEW r \in Runs, Seen(r), receipts'[r] = receipts[r],
         commands' = commands, Live(r)' \/ (w'[r] = w[r] /\ snap'[r] = snap[r]),
         w'[r].pending = w[r].pending \/ w[r].pending = 0, wpc'[r] # "receipt"
  PROVE  Seen(r)'
<1>1. snap[r].cmd \in Nat /\ snap'[r].cmd \in Nat /\ snap'[r].cmd >= snap[r].cmd
  BY Bound DEF IInv, TypeOK, Snapshots, Forward
<1>2. \A s \in Seqs : s \in Nat /\ s # 0
  BY Bound DEF Seqs
<1>3. \A s \in Seqs : receipts'[r][s] = "applied" => snap'[r].cmd >= s \/ w'[r].pending = s
  BY <1>1, <1>2 DEF Seen
<1>4. \A s \in Seqs : commands'[r][s] \in Cancels /\ receipts'[r][s] = "applied" =>
        snap'[r].state = "cancelled" \/ w'[r].pending = s
  BY <1>2, EndSeen DEF Seen
<1> QED BY <1>3, <1>4, EndSeen DEF Seen

\* A worker leaves the other runs alone.
LEMMA OthersStay ==
  ASSUME IInv, NEW r \in Runs, Work(r) \/ Disturbed(r), NEW q \in Runs, q # r
  PROVE  wpc'[q] = wpc[q] /\ w'[q] = w[q] /\ snap'[q] = snap[q] /\ receipts'[q] = receipts[q]
<1>1. /\ wpc \in [Runs -> WorkerControl] /\ w \in [Runs -> Memories] /\ snap \in [Runs -> Snapshots]
      /\ receipts \in [Runs -> [Seqs -> Verdicts \cup {None}]]
  BY AtWork
<1>2. \A to, m : Go(r, to, m) => wpc'[q] = wpc[q] /\ w'[q] = w[q]
  BY <1>1 DEF Go
<1>3. \A m, event, lost : PublishSnapshot(r, m, event, lost) => snap'[q] = snap[q]
  BY <1>1 DEF PublishSnapshot
<1>4. \A s, v, lost : PutReceipt(r, s, v, lost) => receipts'[q] = receipts[q]
  BY <1>1 DEF PutReceipt
<1>5. CASE Boot(r) \/ InitFails(r) \/ InitDone(r)
  BY <1>1, <1>2, <1>5 DEF Boot, InitFails, InitDone
<1>6. CASE TakeCommand(r) \/ FreeStep(r) \/ Interrupted(r)
  BY <1>2, <1>6 DEF TakeCommand, FreeStep, Interrupted
<1>7. CASE StepDone(r) \/ StepFails(r) \/ PollCancel(r) \/ PollInterrupted(r)
  BY <1>2, <1>7 DEF StepDone, StepFails, PollCancel, PollInterrupted, StepEnds
<1>8. CASE PollPublish(r)
  BY <1>2, <1>3, <1>8 DEF PollPublish, StepEnds
<1>9. CASE Settle(r) \/ Apply(r)
  BY <1>2, <1>3, <1>9 DEF Settle, Apply, Resume
<1>10. CASE WriteReceipt(r) \/ FinishCancel(r)
  BY <1>2, <1>4, <1>10 DEF WriteReceipt, FinishCancel, Resume
<1>11. CASE NothingPending(r)
  BY <1>2, <1>11 DEF NothingPending
<1>12. CASE Final(r) \/ Exits(r) \/ WorkerDies(r)
  BY <1>1, <1>3, <1>12 DEF Final, Exits, WorkerDies
<1> QED BY <1>5, <1>6, <1>7, <1>8, <1>9, <1>10, <1>11, <1>12 DEF Work, Disturbed

\* The step to the receipt publishes; the receipt is written after.
LEMMA WorkSees ==
  ASSUME IInv, IInv', Forward, NEW r \in Runs, Work(r) \/ Disturbed(r), Seen(r)
  PROVE  Seen(r)'
<1>0. commands' = commands /\ (Live(r)' \/ (w'[r] = w[r] /\ snap'[r] = snap[r]))
  BY WorkAsksNothing, WorkLives DEF queue
<1>1. /\ wpc \in [Runs -> WorkerControl] /\ w \in [Runs -> Memories] /\ snap \in [Runs -> Snapshots]
      /\ receipts \in [Runs -> [Seqs -> Verdicts \cup {None}]] /\ w[r] \in Memories
      /\ Solver(r) /\ Taken(r) /\ Receipted(r) /\ Reported(r)
  BY AtWork DEF Run
<1>2. \A to, m : Go(r, to, m) => wpc'[r] = to /\ w'[r] = m
  BY <1>1 DEF Go
<1>3. ASSUME receipts'[r] = receipts[r], w'[r].pending = w[r].pending \/ w[r].pending = 0,
             wpc'[r] # "receipt"
      PROVE  Seen(r)'
  BY <1>0, <1>3, SeenFrame
<1>4. CASE Boot(r) \/ Final(r) \/ Exits(r) \/ WorkerDies(r)
  BY <1>1, <1>3, <1>4 DEF Boot, Final, Exits, WorkerDies
<1>5. CASE InitFails(r) \/ InitDone(r)
  BY <1>1, <1>2, <1>3, <1>5 DEF InitFails, InitDone, Memories
<1>6. CASE TakeCommand(r) \/ FreeStep(r) \/ Interrupted(r)
  <2>1. w[r].pending = 0 /\ receipts'[r] = receipts[r]
    BY <1>1, <1>6 DEF TakeCommand, FreeStep, Interrupted, Solver
  <2>2. wpc'[r] # "receipt"
    <3>1. \A m : Go(r, "apply", m) \/ Go(r, "solving", m) \/ Go(r, "finish", m) => wpc'[r] # "receipt"
      BY <1>2
    <3>2. CASE TakeCommand(r)
      BY <3>1, <3>2 DEF TakeCommand
    <3>3. CASE FreeStep(r) \/ Interrupted(r)
      BY <3>1, <3>3 DEF FreeStep, Interrupted
    <3> QED BY <1>6, <3>2, <3>3
  <2> QED BY <1>3, <2>1, <2>2
<1>7. CASE StepDone(r) \/ StepFails(r) \/ PollCancel(r) \/ PollInterrupted(r) \/ PollPublish(r)
  <2>1. wpc[r] = "solving" /\ receipts'[r] = receipts[r]
    BY <1>7 DEF StepDone, StepFails, PollCancel, PollInterrupted, PollPublish
  <2>2. w[r].pending = 0
    BY <1>1, <2>1 DEF Solver
  <2>3. \A m : StepEnds(r, m) => wpc'[r] # "receipt"
    BY <1>2 DEF StepEnds
  <2>4. wpc'[r] # "receipt"
    BY <1>7, <2>1, <2>3 DEF StepDone, StepFails, PollCancel, PollInterrupted, PollPublish
  <2> QED BY <1>3, <2>1, <2>2, <2>4
<1>8. CASE Settle(r)
  <2>1. \A lost \in BOOLEAN : Broken(w[r], lost).pending = w[r].pending
    BY <1>1, BrokenIs
  <2>2. \A m \in Memories : Resume(r, m) => wpc'[r] # "receipt" /\ w'[r].pending = m.pending
    BY <1>2 DEF Resume, Memories
  <2>3. \A lost \in BOOLEAN : Broken(w[r], lost) \in Memories
    BY <1>1, BrokenIs
  <2> QED BY <1>1, <1>3, <1>8, <2>1, <2>2, <2>3 DEF Settle
<1>9. CASE NothingPending(r)
  BY <1>2, <1>3, <1>9 DEF NothingPending
<1>10. CASE Apply(r)
  <2>1. PICK lost \in BOOLEAN :
          PublishSnapshot(r, w[r], TRUE, lost) /\ Go(r, "receipt", Broken(w[r], lost))
    BY <1>10 DEF Apply
  <2>2. w'[r] = Broken(w[r], lost) /\ receipts'[r] = receipts[r]
    BY <1>2, <1>10, <2>1 DEF Apply
  <2>3. /\ w'[r].pending = w[r].pending /\ w'[r].cmd = w[r].cmd
        /\ lost => w'[r].state = "failed"
    BY <1>1, <2>2, BrokenIs
  <2>4. ~ lost => snap'[r].cmd = w[r].cmd /\ snap'[r].state = w[r].state /\ w'[r].state = w[r].state
    BY <1>1, <2>1, <2>2 DEF PublishSnapshot, Shown, Broken
  <2>5. \A s \in Seqs : receipts'[r][s] = "applied" => snap'[r].cmd >= s \/ w'[r].pending = s
    <3>1. snap[r].cmd \in Nat /\ snap'[r].cmd \in Nat /\ snap'[r].cmd >= snap[r].cmd
      BY Bound DEF IInv, TypeOK, Snapshots, Forward
    <3>2. \A s \in Seqs : s \in Nat
      BY Bound DEF Seqs
    <3> QED BY <2>2, <2>3, <3>1, <3>2 DEF Seen
  <2>6. \A s \in Seqs : commands'[r][s] \in Cancels /\ receipts'[r][s] = "applied" =>
          snap'[r].state = "cancelled" \/ w'[r].pending = s
    BY <1>0, <2>2, <2>3, EndSeen DEF Seen
  <2> QED BY <1>0, <2>3, <2>4, <2>5, <2>6, EndSeen DEF Seen
<1>11. CASE WriteReceipt(r)
  <2>1. PICK lost \in BOOLEAN :
          PutReceipt(r, w[r].cmd, Verdict(w[r]), lost) /\ Resume(r, Broken(w[r], lost))
    BY <1>11 DEF WriteReceipt
  <2>2. wpc[r] = "receipt" /\ UNCHANGED snap /\ wpc'[r] # "receipt"
    BY <1>2, <1>11, <2>1 DEF WriteReceipt, Resume
  <2>3. w'[r].pending = w[r].pending
    <3>1. Broken(w[r], lost) \in Memories /\ Broken(w[r], lost).pending = w[r].pending
      BY <1>1, BrokenIs
    <3> QED BY <1>2, <2>1, <3>1 DEF Resume, Memories
  <2>4. \A s \in Seqs : receipts'[r][s] = "applied" =>
          receipts[r][s] = "applied" \/ (s = w[r].cmd /\ Verdict(w[r]) = "applied")
    BY <1>1, <2>1 DEF PutReceipt
  <2>5. Verdict(w[r]) = "applied" => snap[r].cmd = w[r].cmd
    BY <2>2 DEF Verdict, Seen
  <2>6. w[r].cmd \in Nat /\ snap[r].cmd \in Nat
    BY AtWork, Bound
  <2>7. commands[r][w[r].cmd] \in Cancels /\ Verdict(w[r]) = "applied" => snap'[r].state = "cancelled"
    <3>1. ASSUME commands[r][w[r].cmd] \in Cancels PROVE w[r].doing = "command"
      BY <1>1, <2>2, <3>1, CommandsAreDisjoint DEF Solver, Taken, Memories
    <3> QED BY <1>1, <2>2, <3>1 DEF Seen, Taken, Verdict
  <2>8. \A s \in Seqs : commands'[r][s] \in Cancels /\ receipts'[r][s] = "applied" =>
          snap'[r].state = "cancelled" \/ w'[r].pending = s
    BY <1>0, <2>2, <2>3, <2>4, <2>7 DEF Seen
  <2>9. \A s \in Seqs : receipts'[r][s] = "applied" => snap'[r].cmd >= s \/ w'[r].pending = s
    BY <2>2, <2>3, <2>4, <2>5, <2>6 DEF Seen
  <2> QED BY <1>0, <2>2, <2>8, <2>9, EndSeen DEF Seen
<1>12. CASE FinishCancel(r)
  <2>1. wpc'[r] # "receipt" /\ w'[r].pending = w[r].pending /\ UNCHANGED snap
    <3>1. \A s \in 0 .. Cardinality(Commands), lost \in BOOLEAN :
            Broken([w[r] EXCEPT !.cmd = s], lost).pending = w[r].pending
      BY <1>1 DEF Broken, Memories
    <3>2. Broken(w[r], TRUE).pending = w[r].pending
      BY <1>1, BrokenIs
    <3>3. UNCHANGED snap /\ w[r].pending \in 0 .. Cardinality(Commands)
      BY <1>12, AtWork DEF FinishCancel
    <3>4. \A m : Go(r, "final", m) => wpc'[r] # "receipt" /\ w'[r] = m
      BY <1>2
    <3>5. \/ \E lost \in BOOLEAN : Go(r, "final", Broken([w[r] EXCEPT !.cmd = w[r].pending], lost))
          \/ Go(r, "final", Broken(w[r], TRUE))
      BY <1>12 DEF FinishCancel
    <3> QED BY <3>1, <3>2, <3>3, <3>4, <3>5
  <2>2. \A s \in Seqs : receipts'[r][s] = "applied" => receipts[r][s] = "applied" \/ s = w[r].pending
    BY <1>1, <1>12 DEF FinishCancel, PutReceipt
  <2> QED BY <1>0, <2>1, <2>2, EndSeen DEF Seen
<1> QED BY <1>4, <1>5, <1>6, <1>7, <1>8, <1>9, <1>10, <1>11, <1>12 DEF Work, Disturbed

\* A step of c that publishes no command, and starts no run it had not started.
LEMMA AsksNothing ==
  ASSUME IInv, Unasked, NEW c \in Clients, commands' = commands,
         \A r \in Runs : request[r] => request'[r],
         \A d \in Clients \ {c} : pc'[d] = pc[d] /\ op'[d] = op[d],
         pc'[c] \in StartingUp => pc[c] \in StartingUp /\ op'[c] = op[c]
  PROVE  Unasked'
BY DEF Unasked

\* Nothing is asked of a run while its start is under way: the lock is held.
LEMMA CallAsks ==
  ASSUME IInv, Unasked, NEW c \in Clients, Ask(c) \/ Serve(c) \/ Await(c) \/ ClientDies(c)
  PROVE  Unasked'
<1>0. /\ pc \in [Clients -> ClientControl] /\ op \in [Clients -> Calls]
      /\ request \in [Runs -> BOOLEAN] /\ Caller(c) /\ Starter(c)
  BY DEF IInv, TypeOK
<1>1. ASSUME NEW to, pc' = [pc EXCEPT ![c] = to] \/ UNCHANGED pc
      PROVE  \A d \in Clients \ {c} : pc'[d] = pc[d]
  BY <1>0, <1>1
<1>2. ASSUME NEW x, op' = [op EXCEPT ![c] = x] \/ UNCHANGED op
      PROVE  \A d \in Clients \ {c} : op'[d] = op[d]
  BY <1>0, <1>2
<1>3. ASSUME UNCHANGED <<commands, request>>, UNCHANGED op \/ \E x : op' = [op EXCEPT ![c] = x],
             \/ UNCHANGED <<pc, op>>
             \/ \E to \in ClientControl \ StartingUp : pc' = [pc EXCEPT ![c] = to]
             \/ /\ pc[c] \in StartingUp /\ UNCHANGED op
                /\ \E to \in StartingUp : pc' = [pc EXCEPT ![c] = to]
      PROVE  Unasked'
  <2>1. \A d \in Clients \ {c} : pc'[d] = pc[d] /\ op'[d] = op[d]
    BY <1>1, <1>2, <1>3
  <2>2. pc'[c] \in StartingUp => pc[c] \in StartingUp /\ op'[c] = op[c]
    BY <1>0, <1>3
  <2> QED BY <1>3, <2>1, <2>2, AsksNothing
<1>4. CASE Ask(c)
  BY <1>3, <1>4 DEF Ask, StartNew, StartAgain, Inspect, Control, Call, ClientControl, StartingUp,
                    admit, queue
<1>5. CASE Await(c) \/ ClientDies(c)
  BY <1>3, <1>5 DEF Await, AnswerReceipt, Late, ClientDies, Leave, Move, ClientControl, StartingUp,
                    admit, queue
<1>6. CASE ReturnStatus(c) \/ AdmitScan(c) \/ AdmitCommand(c) \/ AnswerLate(c) \/ WriteStarting(c)
  BY <1>3, <1>6 DEF ReturnStatus, AdmitScan, AdmitCommand, AnswerLate, WriteStarting, Leave,
                    ClientControl, StartingUp, admit, queue
<1>7. CASE MakeDirectory(c) \/ Launch(c) \/ Unconfirmed(c) \/ Repaired(c) \/ Allocate(c)
  BY <1>3, <1>7 DEF MakeDirectory, Launch, Unconfirmed, Repaired, Allocate, Move,
                    ClientControl, StartingUp, admit, queue
<1>8. CASE ReadSnapshot(c) \/ Launched(c) \/ Identify(c)
  <2>1. /\ UNCHANGED <<commands, request>>
        /\ \E to \in ClientControl \ StartingUp : pc' = [pc EXCEPT ![c] = to]
    BY <1>8 DEF ReadSnapshot, Launched, Identify, Move, ClientControl, StartingUp, admit, queue
  <2>2. \A d \in Clients \ {c} : op'[d] = op[d]
    BY <1>0, <1>8 DEF ReadSnapshot, Launched, Identify
  <2>3. pc'[c] \notin StartingUp /\ \A d \in Clients \ {c} : pc'[d] = pc[d]
    BY <1>0, <2>1
  <2> QED BY <2>1, <2>2, <2>3, AsksNothing
<1>9. CASE WriteRequest(c)
  <2>1. /\ pc[c] = "made" /\ pc' = [pc EXCEPT ![c] = "requested"]
        /\ request' = [request EXCEPT ![op[c].run] = TRUE] /\ UNCHANGED <<op, commands>>
    BY <1>9 DEF WriteRequest, Move, queue
  <2>2. op[c].run \in Runs /\ ~ request[op[c].run]
    BY <1>0, <2>1 DEF Caller, Starter
  <2> QED BY <1>0, <2>1, <2>2 DEF Unasked
<1>10. CASE Repair(c) \/ Publish(c)
  <2>1. /\ pc[c] \in {"repair", "publish"} /\ pc'[c] \notin StartingUp /\ UNCHANGED <<op, request>>
        /\ \A d \in Clients \ {c} : pc'[d] = pc[d]
        /\ \E k \in Commands : PublishCommand(op[c].run, k)
    <3>1. CASE Repair(c)
      BY <3>1 DEF Repair, Unpublished, client, admit, StartingUp
    <3>2. CASE Publish(c)
      <4>1. op[c].cmd \in Commands
        BY <3>2 DEF Publish, Move, IInv, Commander, Caller
      <4> QED BY <1>0, <3>2, <4>1 DEF Publish, Move, admit, StartingUp
    <3> QED BY <1>10, <3>1, <3>2
  <2>2. lock = c /\ op[c].run \in Runs /\ request[op[c].run]
    BY <1>0, <2>1 DEF Caller, Holding
  <2>3. \A d \in Clients \ {c} : pc[d] \notin StartingUp
    <3>1. ASSUME NEW d \in Clients, d # c PROVE pc[d] \notin Holding
      BY <2>2, <3>1 DEF IInv, Caller
    <3> QED BY <3>1 DEF Holding, ClientControl, StartingUp
  <2>4. ASSUME NEW r \in Runs, r # op[c].run PROVE commands'[r] = commands[r]
    BY <2>1, <2>4 DEF PublishCommand, IInv, TypeOK
  <2> QED BY <2>1, <2>2, <2>3, <2>4 DEF Unasked
<1> QED BY <1>4, <1>5, <1>6, <1>7, <1>8, <1>9, <1>10 DEF Serve

\* The starting snapshot finds no receipt it could take back.
LEMMA StartingHides ==
  ASSUME IInv, Visible, NEW c \in Clients, WriteStarting(c)
  PROVE  \A r \in Runs : Seen(r)'
<1>1. /\ pc[c] = "unconfirmed" /\ UNCHANGED <<receipts, w, wpc>>
      /\ snap' = [snap EXCEPT ![op[c].run] = Starting]
  BY DEF WriteStarting, worker
<1>0. UNCHANGED commands
  BY DEF WriteStarting, queue
<1>2. ASSUME NEW r \in Runs PROVE Seen(r)'
  <2>1. CASE r = op[c].run
    <3>1. \A s \in Seqs : commands[r][s] = None
      BY <1>1, <2>1 DEF Visible, Unasked, StartingUp
    <3>2. \A s \in Seqs : receipts[r][s] = None
      BY <3>1 DEF IInv, Run, Receipted
    <3>3. wpc[r] # "receipt"
      BY <3>1 DEF IInv, Run, Solver, Taken
    <3>4. snap'[r].state = "starting"
      BY <1>1, <2>1 DEF IInv, TypeOK, Starting
    <3> QED BY <1>1, <3>2, <3>3, <3>4, Bound DEF Seen, Verdicts, Terminal, TerminalStates
  <2>2. CASE r # op[c].run
    <3>1. snap'[r] = snap[r]
      BY <1>1, <2>2 DEF IInv, TypeOK
    <3> QED BY <1>1, <1>0, <3>1 DEF Visible, Seen, Terminal
  <2> QED BY <2>1, <2>2
<1> QED BY <1>2

\* Every step keeps what is visible.
LEMMA VisibleStep == IInv /\ Visible /\ [Next]_vars => Visible'
<1>1. SUFFICES ASSUME IInv, Visible, [Next]_vars PROVE Visible'
  OBVIOUS
<1>2. IInv'
  BY <1>1, StepKeeps
<1>3. CASE UNCHANGED vars
  BY <1>1, <1>3 DEF Visible, Unasked, Seen, Terminal, vars, client, worker, admit, queue
<1>4. ASSUME NEW c \in Clients, Ask(c) \/ Serve(c) \/ Await(c) \/ ClientDies(c)
      PROVE  Visible'
  <2>1. Unasked'
    BY <1>1, <1>4, CallAsks DEF Visible
  <2>2. CASE WriteStarting(c)
    BY <1>1, <2>1, <2>2, StartingHides DEF Visible
  <2>3. CASE ~ WriteStarting(c)
    <3>1. /\ \A r \in Runs : Declares(r)
          /\ UNCHANGED <<receipts, w>>
          /\ \A r \in Runs : wpc'[r] = "receipt" => wpc[r] = "receipt"
      BY <1>1, <1>4, <2>3, CallSees
    <3>2. ASSUME NEW r \in Runs PROVE Seen(r)'
      <4>1. /\ Seen(r) /\ Declares(r) /\ (wpc'[r] = "receipt" => wpc[r] = "receipt")
            /\ UNCHANGED <<receipts, w>>
        BY <1>1, <3>1 DEF Visible
      <4>2. \A s \in Seqs : receipts[r][s] = "applied" => commands'[r][s] = commands[r][s]
        BY <1>1, <1>4, CommandsStay, Bound DEF IInv, Run, Receipted, Verdicts
      <4>3. CASE snap'[r] = snap[r]
        BY <4>1, <4>2, <4>3 DEF Seen, Terminal
      <4>4. CASE /\ ~ Live(r) /\ ~ Terminal(snap[r])
                 /\ snap'[r].state = "failed" /\ snap'[r].cmd = snap[r].cmd
        BY <4>1, <4>2, <4>4 DEF Seen, Terminal, TerminalStates, Live
      <4> QED BY <4>1, <4>3, <4>4 DEF Declares
    <3> QED BY <2>1, <3>2 DEF Visible
  <2> QED BY <2>2, <2>3
<1>5. ASSUME NEW r \in Runs, Work(r) \/ Disturbed(r) PROVE Visible'
  <2>1. Forward
    BY <1>1, <1>5, WorkStep
  <2>2. Unasked'
    BY <1>1, <1>5, WorkAsksNothing DEF Visible, Unasked, client, admit, queue
  <2>3. ASSUME NEW q \in Runs PROVE Seen(q)'
    <3>1. Seen(q)
      BY <1>1 DEF Visible
    <3>2. CASE q = r
      BY <1>1, <1>2, <1>5, <2>1, <3>1, <3>2, WorkSees
    <3>3. CASE q # r
      BY <1>1, <1>5, <3>1, <3>3, OthersStay, WorkAsksNothing DEF Seen, Terminal, queue
    <3> QED BY <3>2, <3>3
  <2> QED BY <2>2, <2>3 DEF Visible
<1> QED BY <1>1, <1>3, <1>4, <1>5 DEF Next

LEMMA InitVisible == Init => Visible
<1>1. ASSUME Init PROVE Visible
  <2>1. \A r \in Runs, s \in Seqs : receipts[r][s] # "applied" /\ commands[r][s] = None
    BY <1>1, Bound DEF Init, Verdicts
  <2>2. (\A c \in Clients : pc[c] \notin StartingUp) /\ \A r \in Runs : wpc[r] # "receipt"
    BY <1>1 DEF Init, StartingUp
  <2>3. \A r \in Runs : snap[r].state = "starting"
    BY <1>1 DEF Init, Starting
  <2> QED BY <2>1, <2>2, <2>3 DEF Visible, Unasked, Seen, Terminal, TerminalStates
<1> QED BY <1>1

\* Who has been told that a command was applied and inspects the run finds it
\* counted: the worker publishes before it writes the receipt, the cancel that
\* stopped its solver excepted.  A starting snapshot that comes late can hide no
\* command, because none can be asked for while run_start has the lock.
THEOREM AppliedIsSeen == Spec => []AppliedIsVisible
<1>1. Visible => AppliedIsVisible
  BY DEF Visible, Seen, AppliedIsVisible
<1>2. IInv /\ Visible /\ [Next]_vars => Visible'
  BY VisibleStep
<1> QED BY <1>1, <1>2, InitVisible, Invariance, PTL DEF Spec

\* A run whose cancel was acknowledged is cancelled in its worker's mind for
\* good, and inspected it is cancelled at once and for good, or, if the cancel
\* stopped the solver, unfinished until the worker's last snapshot; without a
\* worker and that snapshot the service declares it failed, and never completed.
THEOREM CancelStays == Spec => []CancelIsFinal
<1>1. ASSUME IInv, Visible, NEW r \in Runs, NEW s \in Seqs,
             commands[r][s] \in Cancels, receipts[r][s] = "applied"
      PROVE  /\ w[r].state = "cancelled"
             /\ \/ snap[r].state = "cancelled"
                \/ w[r].pending = s /\ (Terminal(snap[r]) => snap[r].state = "failed" /\ ~ Live(r))
  <2>1. w[r].state = "cancelled"
    BY <1>1 DEF IInv, Run, Receipted
  <2>2. snap[r].state = "cancelled" \/ w[r].pending = s
    BY <1>1 DEF Visible, Seen
  <2>3. Terminal(snap[r]) /\ snap[r].state # "cancelled" => snap[r].state = "failed" /\ ~ Live(r)
    BY <1>1, <2>1 DEF IInv, Run, Reported, Visible, Seen
  <2> QED BY <2>1, <2>2, <2>3
<1>2. IInv /\ Visible => CancelIsFinal
  BY <1>1 DEF CancelIsFinal
<1>3. IInv /\ Visible /\ [Next]_vars => Visible'
  BY VisibleStep
<1> QED BY <1>2, <1>3, InitVisible, Invariance, PTL DEF Spec

-----------------------------------------------------------------------------
(* What is never taken back, provided that no startup wait elapses: the    *)
(* starting snapshot that such a wait writes may replace a later one.      *)

Confirmed == \A c \in Clients : pc[c] # "unconfirmed"

\* With no wait elapsing no step takes a snapshot back.
LEMMA ConfirmedStep ==
  IInv /\ MaxTimeouts = 0 /\ Confirmed /\ [Next]_vars => Confirmed' /\ (Forward \/ UNCHANGED vars)
<1>1. SUFFICES ASSUME IInv, MaxTimeouts = 0, Confirmed, [Next]_vars
               PROVE  Confirmed' /\ (Forward \/ UNCHANGED vars)
  OBVIOUS
<1>2. CASE UNCHANGED vars
  BY <1>1, <1>2 DEF Confirmed, vars, client
<1>3. ASSUME NEW c \in Clients, Ask(c) \/ Serve(c) \/ Await(c) \/ ClientDies(c)
      PROVE  Confirmed' /\ Forward
  <2>1. ~ WriteStarting(c)
    BY <1>1 DEF Confirmed, WriteStarting
  <2> QED BY <1>1, <1>3, <2>1, CallSees, NoneUnconfirmed DEF Confirmed
<1>4. ASSUME NEW r \in Runs, Work(r) \/ Disturbed(r) PROVE Confirmed' /\ Forward
  BY <1>1, <1>4, WorkStep, WorkAsksNothing DEF Confirmed, client
<1> QED BY <1>1, <1>2, <1>3, <1>4 DEF Next

\* While no startup wait elapses, the snapshots that inspections read never go
\* back, whoever writes them: worker, run_start, run_inspect or run_control.
THEOREM SnapshotsForward == MaxTimeouts = 0 /\ Spec => SnapshotForward
<1> SUFFICES ASSUME MaxTimeouts = 0 PROVE Spec => SnapshotForward
  OBVIOUS
<1>1. IInv /\ Confirmed /\ [Next]_vars => Confirmed'
  BY ConfirmedStep
<1>2. IInv /\ Confirmed /\ [Next]_vars =>
        [\A r \in Runs :
           /\ snap'[r].tick >= snap[r].tick
           /\ snap'[r].cmd >= snap[r].cmd
           /\ Terminal(snap[r]) => snap'[r].state \in {snap[r].state, "failed"}]_vars
  BY ConfirmedStep DEF Forward
<1>3. Init => Confirmed
  BY DEF Init, Confirmed
<1> QED BY <1>1, <1>2, <1>3, Invariance, PTL DEF Spec, SnapshotForward
=============================================================================
