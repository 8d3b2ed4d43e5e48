-------------------------- MODULE CommandLogProofs --------------------------
(***************************************************************************)
(* AgentSession implements CommandLog, for any number of clients, runs and *)
(* commands and any bounds.  Built on the invariant of AgentSessionProofs. *)
(***************************************************************************)
EXTENDS AgentSessionProofs

\* A failed verdict is the worker's last state but for the cancel that stopped
\* it, and a command is refused only by a worker that settled all before it.
Orderly(r) ==
  /\ \A s \in Seqs : receipts[r][s] = "failed" => w[r].state = "failed"
  /\ w[r].doing = "refused" =>
       \A s \in Seqs : s < w[r].cmd => receipts[r][s] \notin {None, "failed"}

LogInv == IInv /\ \A r \in Runs : Orderly(r)

LogStep == [Log!Next]_<<commands, receipts, told>>

-----------------------------------------------------------------------------
(* The two places at which a receipt is written.                           *)

\* The receipt of the command at hand.
LEMMA WriteReceiptIs ==
  ASSUME IInv, NEW r \in Runs, WriteReceipt(r)
  PROVE  \E lost \in BOOLEAN :
           /\ PutReceipt(r, w[r].cmd, Verdict(w[r]), lost)
           /\ w'[r].state = IF lost THEN "failed" ELSE w[r].state
           /\ w'[r].doing = "free"
           /\ wpc[r] = "receipt" /\ w[r].doing \in {"command", "step", "refused"}
           /\ w[r].cmd \in Seqs /\ Verdict(w[r]) \in Verdicts
           /\ commands[r][w[r].cmd] # None /\ receipts[r][w[r].cmd] = None
<1>1. PICK lost \in BOOLEAN : /\ PutReceipt(r, w[r].cmd, Verdict(w[r]), lost)
                              /\ Resume(r, Broken(w[r], lost))
  BY DEF WriteReceipt
<1>2. /\ wpc[r] = "receipt" /\ Solver(r) /\ Taken(r) /\ Receipted(r) /\ w[r] \in Memories
      /\ w[r].state # "starting" /\ w[r].doing \in {"command", "step", "refused"}
  BY AtWork DEF WriteReceipt, Run, Solver, Memories
<1>3. \E m \in Memories : /\ \E t : Go(r, t, m)
                         /\ m.doing = "free" /\ m.state = IF lost THEN "failed" ELSE w[r].state
  BY <1>1, <1>2, BrokenIs, ResumeIs
<1>4. w'[r].doing = "free" /\ w'[r].state = IF lost THEN "failed" ELSE w[r].state
  BY <1>3, AtWork DEF Go
<1>5. /\ w[r].cmd \in Seqs /\ Verdict(w[r]) \in Verdicts
      /\ commands[r][w[r].cmd] # None /\ receipts[r][w[r].cmd] = None
  BY <1>2 DEF Taken, Receipted, Verdict, Verdicts
<1> QED BY <1>1, <1>2, <1>4, <1>5

\* The receipt of the cancel that stopped the solver: it applied, or failed.
LEMMA FinishCancelIs ==
  ASSUME IInv, NEW r \in Runs, FinishCancel(r)
  PROVE  \E lost \in BOOLEAN, v \in {"applied", "failed"} :
           /\ PutReceipt(r, w[r].pending, v, lost)
           /\ w'[r].state = IF lost THEN "failed" ELSE w[r].state
           /\ w'[r].doing = "free"
           /\ v = "failed" <=> w[r].state = "failed"
           /\ wpc[r] = "finish" /\ w[r].doing = "free" /\ w[r].pending = w[r].cmd + 1
           /\ w[r].pending \in Seqs /\ commands[r][w[r].pending] \in Cancels
<1> DEFINE s == w[r].pending
           n == [w[r] EXCEPT !.cmd = s]
<1>1. /\ wpc[r] = "finish" /\ s # 0 /\ Taken(r) /\ w[r] \in Memories /\ w[r].doing = "free"
  BY AtWork DEF FinishCancel, Run, Solver, Memories
<1>2. /\ s = w[r].cmd + 1 /\ s \in Seqs /\ commands[r][s] \in Cancels
      /\ w[r].state \in {"cancelled", "failed"}
  BY <1>1 DEF Taken
<1>3. NextCommand(r) \in Cancels
  BY <1>2 DEF NextCommand
<1>4. n \in Memories /\ n.state = w[r].state /\ n.doing = "free"
  BY <1>1, AtWork DEF Memories
<1>5. Verdict(n) = IF w[r].state = "failed" THEN "failed" ELSE "applied"
  <2> HIDE DEF n
  <2> QED BY <1>4 DEF Verdict
<1>6. PICK lost \in BOOLEAN : PutReceipt(r, s, Verdict(n), lost) /\ Go(r, "final", Broken(n, lost))
  BY <1>2, <1>3 DEF FinishCancel
<1> HIDE DEF n
<1>7. /\ w'[r].doing = "free"
      /\ w'[r].state = IF lost THEN "failed" ELSE w[r].state
  BY <1>4, <1>6, BrokenIs, AtWork DEF Go
<1> QED BY <1>1, <1>2, <1>5, <1>6, <1>7

-----------------------------------------------------------------------------
(* The worker is orderly.                                                  *)

\* A step that writes no receipt, does not recover from failure, and refuses
\* nothing new.
LEMMA OrderlyFrame ==
  ASSUME NEW r \in Runs, Orderly(r), receipts'[r] = receipts[r],
         w[r].state = "failed" => w'[r].state = "failed",
         w'[r].doing = "refused" => w[r].doing = "refused" /\ w'[r].cmd = w[r].cmd
  PROVE  Orderly(r)'
BY DEF Orderly

\* A step of the loop or of the solver: no receipt says failed yet.
LEMMA OrderlyBusy ==
  ASSUME IInv, NEW r \in Runs, Orderly(r), receipts'[r] = receipts[r],
         wpc[r] \in {"loop", "solving"},
         w'[r].doing = "refused" => wpc[r] = "loop" /\ w'[r].cmd = w[r].cmd + 1
  PROVE  Orderly(r)'
<1>1. w[r].state # "failed"
  BY Busy
<1>2. \A s \in Seqs : receipts[r][s] # "failed"
  BY <1>1 DEF Orderly
<1>3. ASSUME w'[r].doing = "refused", NEW s \in Seqs, s < w'[r].cmd
      PROVE  receipts[r][s] # None
  <2>1. s <= w[r].cmd
    BY <1>3, AtWork, Bound DEF Seqs
  <2> QED BY <1>3, <2>1, Busy
<1> QED BY <1>2, <1>3 DEF Orderly

\* What a memory says of the command at hand, whatever state it is given.
Memory == [state : States, tick : Nat, cmd : Nat, doing : {"free", "command", "step", "refused"},
           pending : Nat]

LEMMA SameCommand ==
  ASSUME NEW m \in Memory
  PROVE  /\ \A t \in States : LET n == [m EXCEPT !.state = t]
                              IN n \in Memory /\ n.doing = m.doing /\ n.cmd = m.cmd
         /\ \A lost : LET n == Broken(m, lost)
                      IN n.doing = m.doing /\ n.cmd = m.cmd
         /\ \A t \in States, lost \in BOOLEAN : LET n == Broken([m EXCEPT !.state = t], lost)
                                               IN n.doing = m.doing /\ n.cmd = m.cmd
BY DEF Memory, Broken

\* A step of the solver is for whom it was for.
LEMMA StepIsFor ==
  ASSUME IInv, NEW r \in Runs,
         StepDone(r) \/ StepFails(r) \/ PollCancel(r) \/ PollPublish(r) \/ PollInterrupted(r)
  PROVE  wpc[r] = "solving" /\ receipts'[r] = receipts[r] /\ w'[r].doing = w[r].doing
<1>0. /\ w \in [Runs -> Memories] /\ w[r] \in Memory /\ w[r].tick \in Nat /\ w[r].cmd \in Nat
      /\ "completed" \in States /\ "failed" \in States /\ "cancelled" \in States
      /\ w[r].cmd + 1 \in Nat
  BY AtWork, Bound DEF Memories, Memory, States, TerminalStates
<1>1. \A m : StepEnds(r, m) => w'[r] = m
  BY <1>0 DEF StepEnds, Go
<1>2. CASE StepDone(r)
  <2> DEFINE m == [w[r] EXCEPT !.tick = @ + 1]
  <2>1. m \in Memory /\ m.doing = w[r].doing
    BY <1>0 DEF Memory
  <2>2. \/ StepEnds(r, m)
        \/ \E lost \in BOOLEAN : StepEnds(r, Broken([m EXCEPT !.state = "completed"], lost))
    BY <1>2 DEF StepDone
  <2> HIDE DEF m
  <2>3. w'[r] = m \/ \E lost \in BOOLEAN : w'[r] = Broken([m EXCEPT !.state = "completed"], lost)
    BY <1>1, <2>2
  <2>4. w'[r].doing = m.doing
    BY <1>0, <2>1, <2>3, SameCommand
  <2> QED BY <1>2, <2>1, <2>4 DEF StepDone
<1>3. CASE StepFails(r)
  <2>1. PICK accepted \in 0 .. 1 :
          StepEnds(r, [w[r] EXCEPT !.state = "failed", !.tick = @ + accepted])
    BY <1>3 DEF StepFails
  <2>2. [w[r] EXCEPT !.state = "failed", !.tick = @ + accepted].doing = w[r].doing
    BY <1>0 DEF Memory
  <2> QED BY <1>1, <1>3, <2>1, <2>2 DEF StepFails
<1>4. CASE PollCancel(r)
  <2> DEFINE m == [w[r] EXCEPT !.state = "cancelled", !.pending = w[r].cmd + 1]
  <2>1. m \in Memory /\ m.doing = w[r].doing
    BY <1>0 DEF Memory
  <2>2. \E lost : StepEnds(r, Broken(m, lost))
    BY <1>4 DEF PollCancel
  <2> HIDE DEF m
  <2>3. \E lost : w'[r] = Broken(m, lost)
    BY <1>1, <2>2
  <2>4. w'[r].doing = m.doing
    BY <2>1, <2>3, SameCommand
  <2> QED BY <1>4, <2>1, <2>4 DEF PollCancel
<1>5. CASE PollPublish(r) \/ PollInterrupted(r)
  <2>1. w' = w \/ \E t \in States : StepEnds(r, [w[r] EXCEPT !.state = t])
    BY <1>0, <1>5 DEF PollPublish, PollInterrupted
  <2>2. \A t \in States : [w[r] EXCEPT !.state = t].doing = w[r].doing
    BY <1>0, SameCommand
  <2>3. w'[r].doing = w[r].doing
    BY <1>1, <2>1, <2>2
  <2> QED BY <1>5, <2>3 DEF PollPublish, PollInterrupted
<1> QED BY <1>2, <1>3, <1>4, <1>5

\* A command that is taken is the next one.
LEMMA TakenIsNext ==
  ASSUME IInv, NEW r \in Runs, TakeCommand(r)
  PROVE  wpc[r] = "loop" /\ receipts'[r] = receipts[r] /\ w'[r].cmd = w[r].cmd + 1
<1>0. /\ w \in [Runs -> Memories] /\ w[r] \in Memory /\ w[r].cmd \in Nat
      /\ "paused" \in States /\ "running" \in States /\ "cancelled" \in States
      /\ w[r].cmd + 1 \in Nat
  BY AtWork, Bound DEF Memories, Memory, States, TerminalStates
<1> DEFINE m == [w[r] EXCEPT !.cmd = @ + 1, !.doing = "command"]
<1>1. m \in Memory /\ m.cmd = w[r].cmd + 1
  BY <1>0 DEF Memory
<1>2. \/ \E to : \E t \in {"paused", "running"} : Go(r, to, [m EXCEPT !.state = t])
      \/ \E to : \E lost \in BOOLEAN : Go(r, to, Broken([m EXCEPT !.state = "cancelled"], lost))
      \/ \E to : \E d \in {"step", "refused"} : Go(r, to, [m EXCEPT !.doing = d])
  BY SessionBounds DEF TakeCommand
<1> HIDE DEF m
<1>3. \/ \E t \in {"paused", "running"} : w'[r] = [m EXCEPT !.state = t]
      \/ \E lost \in BOOLEAN : w'[r] = Broken([m EXCEPT !.state = "cancelled"], lost)
      \/ \E d \in {"step", "refused"} : w'[r] = [m EXCEPT !.doing = d]
  BY <1>0, <1>2 DEF Go
<1>4. \A d \in {"step", "refused"} : [m EXCEPT !.doing = d].cmd = m.cmd
  BY <1>1 DEF Memory
<1>5. \A t \in States : /\ [m EXCEPT !.state = t].cmd = m.cmd
                       /\ \A lost \in BOOLEAN : Broken([m EXCEPT !.state = t], lost).cmd = m.cmd
  BY <1>1, SameCommand
<1>6. w'[r].cmd = m.cmd
  BY <1>0, <1>3, <1>4, <1>5
<1> QED BY <1>1, <1>6 DEF TakeCommand

LEMMA OrderlyWork ==
  ASSUME IInv, NEW r \in Runs, Orderly(r), Work(r) \/ Disturbed(r)
  PROVE  Orderly(r)'
<1>0. w \in [Runs -> Memories] /\ w[r] \in Memories /\ Solver(r)
  BY AtWork DEF Run
<1>1. CASE Boot(r) \/ NothingPending(r) \/ Final(r) \/ Exits(r) \/ WorkerDies(r)
  <2>1. receipts'[r] = receipts[r] /\ w'[r] = w[r]
    BY <1>0, <1>1 DEF Boot, NothingPending, Final, Exits, WorkerDies, Go
  <2> QED BY <2>1, OrderlyFrame
<1>2. CASE InitFails(r) \/ InitDone(r)
  <2>1. /\ receipts'[r] = receipts[r] /\ wpc[r] = "init"
        /\ \E t : w'[r] = [w[r] EXCEPT !.state = t]
    BY <1>0, <1>2 DEF InitFails, InitDone, Go
  <2>2. w[r].state = "starting" /\ w'[r].doing = "free"
    BY <1>0, <2>1 DEF Solver, Fresh
  <2> QED BY <2>1, <2>2, OrderlyFrame
<1>3. CASE TakeCommand(r)
  BY <1>3, TakenIsNext, OrderlyBusy
<1>4. CASE FreeStep(r) \/ Interrupted(r)
  <2>1. wpc[r] = "loop" /\ receipts'[r] = receipts[r] /\ w'[r].doing = w[r].doing
    BY <1>0, <1>4 DEF FreeStep, Interrupted, Go, Memories
  <2>2. w[r].doing = "free"
    BY <2>1, Busy
  <2> QED BY <2>1, <2>2, OrderlyBusy
<1>5. CASE StepDone(r) \/ StepFails(r) \/ PollCancel(r) \/ PollPublish(r) \/ PollInterrupted(r)
  <2>1. wpc[r] = "solving" /\ receipts'[r] = receipts[r] /\ w'[r].doing = w[r].doing
    BY <1>5, StepIsFor
  <2>2. w[r].doing \in {"free", "step"}
    BY <2>1, Busy
  <2> QED BY <2>1, <2>2, OrderlyBusy
<1>6. CASE Settle(r)
  <2>1. receipts'[r] = receipts[r] /\ \E lost \in BOOLEAN : Resume(r, Broken(w[r], lost))
    BY <1>6 DEF Settle, Broken
  <2>2. w'[r].doing = "free" /\ (w[r].state = "failed" => w'[r].state = "failed")
    <3>1. PICK lost \in BOOLEAN : Resume(r, Broken(w[r], lost))
      BY <2>1
    <3>2. w' = [w EXCEPT ![r] = [Broken(w[r], lost) EXCEPT !.doing = "free"]]
      BY <3>1 DEF Resume, Go
    <3> QED BY <1>0, <3>2, BrokenIs DEF Memories
  <2> QED BY <2>1, <2>2, OrderlyFrame
<1>7. CASE Apply(r)
  <2>1. receipts'[r] = receipts[r] /\ \E lost \in BOOLEAN : w' = [w EXCEPT ![r] = Broken(w[r], lost)]
    BY <1>7 DEF Apply, Go
  <2>2. /\ w'[r].doing = w[r].doing /\ w'[r].cmd = w[r].cmd
        /\ w[r].state = "failed" => w'[r].state = "failed"
    BY <1>0, <2>1, BrokenIs
  <2> QED BY <2>1, <2>2, OrderlyFrame
<1>8. CASE WriteReceipt(r)
  <2>1. PICK lost \in BOOLEAN :
          /\ PutReceipt(r, w[r].cmd, Verdict(w[r]), lost) /\ w'[r].doing = "free"
          /\ w'[r].state = IF lost THEN "failed" ELSE w[r].state
    BY <1>8, WriteReceiptIs
  <2>2. Verdict(w[r]) = "failed" => w[r].state = "failed"
    BY DEF Verdict
  <2>3. \A s \in Seqs : receipts'[r][s] = "failed" => receipts[r][s] = "failed" \/ w'[r].state = "failed"
    BY <2>1, <2>2, AtWork DEF PutReceipt
  <2> QED BY <2>1, <2>3 DEF Orderly
<1>9. CASE FinishCancel(r)
  <2>1. PICK lost \in BOOLEAN, v \in {"applied", "failed"} :
          /\ PutReceipt(r, w[r].pending, v, lost) /\ w'[r].doing = "free"
          /\ w'[r].state = IF lost THEN "failed" ELSE w[r].state
          /\ v = "failed" <=> w[r].state = "failed"
    BY <1>9, FinishCancelIs
  <2>2. \A s \in Seqs : receipts'[r][s] = "failed" => receipts[r][s] = "failed" \/ w'[r].state = "failed"
    BY <2>1, AtWork DEF PutReceipt
  <2> QED BY <2>1, <2>2 DEF Orderly
<1> QED BY <1>1, <1>2, <1>3, <1>4, <1>5, <1>6, <1>7, <1>8, <1>9 DEF Work, Disturbed

-----------------------------------------------------------------------------
(* Each step enters, settles, tells, or does nothing to the log.           *)

\* A receipt that is put where it may be settles its number.
LEMMA PutSettles ==
  ASSUME IInv, NEW r \in Runs, NEW s \in Seqs, NEW v \in Verdicts, NEW lost \in BOOLEAN,
         PutReceipt(r, s, v, lost), UNCHANGED <<commands, told>>, commands[r][s] # None,
         \A q \in Seqs : /\ receipts[r][q] # None => q < s
                         /\ q < s /\ receipts[r][q] \in {None, "failed"} => v = "failed"
                         /\ commands[r][q] \in Cancels => receipts[r][q] # "applied",
         v \in {"rejected", "cancelled"} => commands[r][s] \in Steps
  PROVE  LogStep
<1>1. CASE lost
  BY <1>1 DEF PutReceipt, LogStep
<1>2. CASE ~ lost
  <2>1. Log!Settle(r, s, v)
    BY <1>2 DEF PutReceipt, Log!Settle
  <2> QED BY <2>1 DEF LogStep, Log!Next
<1> QED BY <1>1, <1>2

LEMMA WriteReceiptSettles ==
  ASSUME IInv, NEW r \in Runs, Orderly(r), WriteReceipt(r)
  PROVE  LogStep
<1> DEFINE s == w[r].cmd
           v == Verdict(w[r])
<1>1. PICK lost \in BOOLEAN :
        /\ PutReceipt(r, s, v, lost) /\ wpc[r] = "receipt"
        /\ w[r].doing \in {"command", "step", "refused"} /\ s \in Seqs /\ v \in Verdicts
        /\ commands[r][s] # None /\ receipts[r][s] = None
  BY WriteReceiptIs
<1>2. UNCHANGED <<commands, told>>
  BY DEF WriteReceipt, queue, client
<1>3. Solver(r) /\ Taken(r) /\ Receipted(r)
  BY AtWork DEF Run
<1>4. v \in {"rejected", "cancelled"} => commands[r][s] \in Steps
  BY <1>3 DEF Taken, Verdict
<1>5. ASSUME NEW q \in Seqs, q < s, receipts[r][q] \in {None, "failed"} PROVE v = "failed"
  <2>1. w[r].doing # "refused"
    BY <1>5 DEF Orderly
  <2>2. q <= s /\ q # s
    BY <1>1, <1>5, Bound DEF Seqs
  <2>3. w[r].state = "failed"
    BY <1>3, <1>5, <2>2 DEF Orderly, Receipted
  <2> QED BY <2>1, <2>3 DEF Verdict
<1>6. ASSUME NEW q \in Seqs, receipts[r][q] # None PROVE q < s
  BY <1>1, <1>3, <1>6, Bound DEF Receipted, Seqs
<1>7. \A q \in Seqs : commands[r][q] \in Cancels => receipts[r][q] # "applied"
  BY <1>1, <1>3 DEF Receipted
<1> HIDE DEF s, v
<1> QED BY <1>1, <1>2, <1>4, <1>5, <1>6, <1>7, PutSettles

LEMMA FinishCancelSettles ==
  ASSUME IInv, NEW r \in Runs, Orderly(r), FinishCancel(r)
  PROVE  LogStep
<1> DEFINE s == w[r].pending
<1>1. PICK lost \in BOOLEAN, v \in {"applied", "failed"} :
        /\ PutReceipt(r, s, v, lost) /\ (v = "failed" <=> w[r].state = "failed")
        /\ wpc[r] = "finish" /\ w[r].doing = "free" /\ s = w[r].cmd + 1
        /\ s \in Seqs /\ commands[r][s] \in Cancels
  BY FinishCancelIs
<1>2. UNCHANGED <<commands, told>> /\ s # 0
  BY DEF FinishCancel, queue, client
<1>3. Receipted(r) /\ w[r].cmd \in Nat
  BY AtWork, Bound DEF Run
<1>4. commands[r][s] # None /\ v \in Verdicts /\ v \notin {"rejected", "cancelled"}
  BY <1>1, Bound DEF Commands, Verdicts
<1>5. ASSUME NEW q \in Seqs
      PROVE  /\ receipts[r][q] # None => q < s
             /\ q < s /\ receipts[r][q] \in {None, "failed"} => v = "failed"
             /\ commands[r][q] \in Cancels => receipts[r][q] # "applied"
  <2>1. q \in Nat /\ (q < s <=> q <= w[r].cmd)
    BY <1>1, <1>3, Bound DEF Seqs
  <2>2. receipts[r][q] # None => q <= w[r].cmd
    BY <1>3 DEF Receipted
  <2>3. q <= w[r].cmd /\ receipts[r][q] \in {None, "failed"} => w[r].state = "failed"
    BY <1>1, <1>3 DEF Receipted, Orderly
  <2>4. commands[r][q] \in Cancels => receipts[r][q] # "applied"
    BY <1>1, <1>2, <1>3 DEF Receipted
  <2> QED BY <1>1, <2>1, <2>2, <2>3, <2>4
<1> HIDE DEF s
<1> QED BY <1>1, <1>2, <1>4, <1>5, PutSettles

\* Only where a receipt is written do the receipts change.
LEMMA WorkLogs ==
  ASSUME IInv, NEW r \in Runs, Orderly(r), Work(r) \/ Disturbed(r)
  PROVE  LogStep
<1>1. UNCHANGED <<commands, told>>
  BY WorkAsksNothing DEF queue, client
<1>2. CASE UNCHANGED receipts
  BY <1>1, <1>2 DEF LogStep
<1>3. CASE Boot(r) \/ InitFails(r) \/ InitDone(r) \/ TakeCommand(r) \/ FreeStep(r) \/ Interrupted(r)
  BY <1>2, <1>3 DEF Boot, InitFails, InitDone, TakeCommand, FreeStep, Interrupted
<1>4. CASE StepDone(r) \/ StepFails(r) \/ PollCancel(r) \/ PollInterrupted(r) \/ PollPublish(r)
  BY <1>2, <1>4 DEF StepDone, StepFails, PollCancel, PollInterrupted, PollPublish
<1>5. CASE Settle(r) \/ Apply(r)
  BY <1>2, <1>5 DEF Settle, Apply
<1>6. CASE NothingPending(r) \/ Final(r) \/ Exits(r) \/ WorkerDies(r)
  BY <1>2, <1>6 DEF NothingPending, Final, Exits, WorkerDies
<1>7. CASE WriteReceipt(r) \/ FinishCancel(r)
  BY <1>7, WriteReceiptSettles, FinishCancelSettles
<1> QED BY <1>3, <1>4, <1>5, <1>6, <1>7 DEF Work, Disturbed

\* A command file that is written enters its command under the next number.
LEMMA PublishEnters ==
  ASSUME IInv, NEW r \in Runs, NEW k \in Commands, ids[r][k] # 0, PublishCommand(r, k),
         UNCHANGED <<receipts, told>>
  PROVE  LogStep
<1>1. PICK s \in Seqs : s = ids[r][k]
  BY DEF IInv, TypeOK
<1>2. /\ commands \in [Runs -> [Seqs -> Commands \cup {None}]] /\ Numbered(r)
      /\ commands' = [commands EXCEPT ![r][s] = IF @ = None THEN k ELSE @]
  BY <1>1 DEF IInv, Run, TypeOK, PublishCommand
<1>3. CASE commands[r][s] # None
  <2>1. commands' = commands
    BY <1>2, <1>3
  <2> QED BY <2>1 DEF LogStep
<1>4. CASE commands[r][s] = None
  <2>1. commands' = [commands EXCEPT ![r][s] = k]
    BY <1>2, <1>4
  <2>2. \A q \in Seqs : commands[r][q] # None =>
          /\ commands[r][q] \in Commands /\ ids[r][commands[r][q]] = q
          /\ \A p \in 1 .. q - 1 : commands[r][p] # None
    BY <1>2, Bound DEF Numbered, Seqs
  <2>3. \A q \in 1 .. s - 1 : commands[r][q] # None
    BY <1>1, <1>2 DEF Numbered
  <2>4. \A q \in Seqs : q < s <=> commands[r][q] # None
    BY <1>4, <2>2, <2>3, Bound DEF Seqs
  <2>5. \A q \in Seqs : commands[r][q] # k
    BY <1>1, <1>4, <2>2, Bound
  <2>6. Log!Enter(r, s, k)
    BY <2>1, <2>4, <2>5 DEF Log!Enter
  <2> QED BY <2>6 DEF LogStep, Log!Next
<1> QED BY <1>3, <1>4

\* An answer to a command that was published, read from its receipt or not.
LEMMA AnswerTells ==
  ASSUME IInv, NEW r \in Runs, NEW k \in Commands, NEW v \in Verdicts \cup {"not_applied"},
         ids[r][k] # 0, commands[r][ids[r][k]] = k,
         receipts[r][ids[r][k]] = v \/ v = "not_applied",
         told' = [told EXCEPT ![r][k] = @ \cup {v}], UNCHANGED <<commands, receipts>>
  PROVE  LogStep
<1>1. PICK s \in Seqs : s = ids[r][k]
  BY DEF IInv, TypeOK
<1>2. Log!Tell(r, s, v)
  BY <1>1, Bound DEF Log!Tell
<1> QED BY <1>2 DEF LogStep, Log!Next

LEMMA CallLogs ==
  ASSUME IInv, NEW c \in Clients, Ask(c) \/ Serve(c) \/ Await(c) \/ ClientDies(c)
  PROVE  LogStep
<1>1. CASE UNCHANGED <<commands, receipts, told>>
  BY <1>1 DEF LogStep
<1>2. CASE Ask(c)
  BY <1>1, <1>2 DEF Ask, StartNew, StartAgain, Inspect, Control, queue, worker
<1>3. CASE Late(c) \/ ClientDies(c)
  BY <1>1, <1>3 DEF Late, ClientDies, queue, worker
<1>4. CASE ReturnStatus(c) \/ AdmitScan(c) \/ AdmitCommand(c) \/ WriteStarting(c)
  BY <1>1, <1>4 DEF ReturnStatus, AdmitScan, AdmitCommand, WriteStarting, queue, worker
<1>5. CASE ReadSnapshot(c) \/ MakeDirectory(c) \/ WriteRequest(c) \/ Launch(c) \/ Launched(c)
  BY <1>1, <1>5 DEF ReadSnapshot, MakeDirectory, WriteRequest, Launch, Launched, queue, worker
<1>6. CASE Unconfirmed(c) \/ Repaired(c) \/ Identify(c) \/ Allocate(c)
  BY <1>1, <1>6 DEF Unconfirmed, Repaired, Identify, Allocate, queue, worker
<1>7. CASE Repair(c)
  <2>1. op[c].run \in Runs
    BY <1>7, Present DEF Repair, Caller
  <2> QED BY <1>7, <2>1, PublishEnters DEF Repair, Unpublished, client, worker
<1>8. CASE Publish(c)
  <2>1. op[c].run \in Runs /\ op[c].cmd \in Commands /\ ids[op[c].run][op[c].cmd] # 0
    BY <1>8, Present DEF Publish, Move, Caller, Commander
  <2> QED BY <1>8, <2>1, PublishEnters DEF Publish, worker
<1>9. CASE AnswerReceipt(c) \/ AnswerLate(c)
  <2>1. /\ op[c].run \in Runs /\ op[c].cmd \in Commands
        /\ ids[op[c].run][op[c].cmd] \in Seqs /\ ids[op[c].run][op[c].cmd] # 0
        /\ commands[op[c].run][ids[op[c].run][op[c].cmd]] = op[c].cmd
        /\ UNCHANGED <<commands, receipts>>
    <3>1. pc[c] = "poll" \/ (pc[c] = "look" /\ op[c].kind = "late")
      BY <1>9 DEF AnswerReceipt, AnswerLate
    <3>2. op[c].run \in Runs /\ op[c].cmd \in Commands
      BY <3>1, Present DEF Caller, Commander
    <3>3. /\ ids[op[c].run][op[c].cmd] # 0
          /\ commands[op[c].run][ids[op[c].run][op[c].cmd]] = op[c].cmd
      BY <3>1, Present DEF Commander
    <3>4. ids[op[c].run][op[c].cmd] \in Seqs
      BY <3>2, <3>3 DEF IInv, TypeOK
    <3>5. UNCHANGED <<commands, receipts>>
      BY <1>9 DEF AnswerReceipt, AnswerLate, queue, worker
    <3> QED BY <3>2, <3>3, <3>4, <3>5
  <2>2. CASE AnswerReceipt(c)
    <3>1. Receipt(c) \in Verdicts
      BY <2>1, <2>2, AtWork DEF AnswerReceipt, Receipt
    <3> QED BY <2>1, <2>2, <3>1, AnswerTells DEF AnswerReceipt, Receipt
  <2>3. CASE AnswerLate(c)
    BY <1>1, <2>1, <2>3, AnswerTells DEF AnswerLate
  <2> QED BY <1>9, <2>2, <2>3
<1> QED BY <1>2, <1>3, <1>4, <1>5, <1>6, <1>7, <1>8, <1>9 DEF Serve, Await

-----------------------------------------------------------------------------
(* The refinement.                                                         *)

LEMMA LogInit == Init => LogInv /\ Log!Init
<1>1. ASSUME Init PROVE LogInv
  <2>1. \A r \in Runs : w[r].doing = "free" /\ \A s \in Seqs : receipts[r][s] = None
    BY <1>1 DEF Init
  <2>2. None # "failed"
    BY Bound DEF Verdicts
  <2> QED BY <1>1, <2>1, <2>2, InitKeeps DEF LogInv, Orderly
<1>2. ASSUME Init PROVE Log!Init
  BY <1>2 DEF Init, Log!Init
<1> QED BY <1>1, <1>2

LEMMA LogInvStep == LogInv /\ [Next]_vars => LogInv' /\ LogStep
<1>1. SUFFICES ASSUME LogInv, [Next]_vars PROVE LogInv' /\ LogStep
  OBVIOUS
<1>2. IInv /\ IInv' /\ \A r \in Runs : Orderly(r)
  BY <1>1, StepKeeps DEF LogInv
<1>3. CASE UNCHANGED vars
  BY <1>2, <1>3 DEF LogInv, Orderly, LogStep, vars, client, queue, worker
<1>4. ASSUME NEW c \in Clients, Ask(c) \/ Serve(c) \/ Await(c) \/ ClientDies(c)
      PROVE  LogInv' /\ LogStep
  <2>1. UNCHANGED <<receipts, w>>
    <3>1. CASE WriteStarting(c)
      BY <3>1 DEF WriteStarting, worker
    <3> QED BY <1>2, <1>4, <3>1, CallSees
  <2> QED BY <1>2, <1>4, <2>1, CallLogs DEF LogInv, Orderly
<1>5. ASSUME NEW r \in Runs, Work(r) \/ Disturbed(r) PROVE LogInv' /\ LogStep
  <2>1. Orderly(r)'
    BY <1>2, <1>5, OrderlyWork
  <2>2. ASSUME NEW q \in Runs, q # r PROVE Orderly(q)'
    <3>1. w'[q] = w[q] /\ receipts'[q] = receipts[q]
      BY <1>2, <1>5, <2>2, OthersStay
    <3> QED BY <1>2, <3>1 DEF Orderly
  <2> QED BY <1>2, <1>5, <2>1, <2>2, WorkLogs DEF LogInv
<1> QED BY <1>1, <1>3, <1>4, <1>5 DEF Next

\* To all who ask, the identity and command files, the worker that polls them
\* and the receipts it may lose are one log: a command id has one number,
\* numbers are settled once and in order, and answers are what was settled.
THEOREM SessionIsACommandLog == Spec => KeepsALog
<1>1. Init => LogInv /\ Log!Init
  BY LogInit
<1>2. LogInv /\ [Next]_vars => LogInv' /\ [Log!Next]_<<commands, receipts, told>>
  BY LogInvStep DEF LogStep
<1> QED BY <1>1, <1>2, PTL DEF Spec, KeepsALog, Log!Spec
=============================================================================
