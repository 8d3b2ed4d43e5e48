--------------------------- MODULE DesktopReplace ---------------------------
(***************************************************************************)
(* Replacement of the app under its name on the Desktop, by two renames    *)
(* with a gap between them.  Every refresh works in an attempt directory   *)
(* of its own, which keeps a journal, a copy of the predecessor and the    *)
(* displaced original for good.  An attempt that was cut short holds all   *)
(* later refreshes until a recovery of it has left a proof.                *)
(*                                                                         *)
(* An app is told apart by its inventory (a build); Torn is a copy that is *)
(* none.  Another program may change the app at any time: the lock binds   *)
(* refreshes and recoveries only.                                          *)
(***************************************************************************)
EXTENDS Naturals

CONSTANTS
  Procs,        \* invocations of the command
  Attempts,     \* names of attempt directories
  Builds,       \* inventories of apps
  Absent,       \* no app under a name
  Torn,         \* a partial or mixed copy
  None,
  MaxKills, MaxExternals

ASSUME DesktopConstants ==
  /\ Absent \notin Builds /\ Torn \notin Builds /\ Absent # Torn
  /\ None \notin Procs /\ None \notin Attempts
  /\ MaxKills \in Nat /\ MaxExternals \in Nat

VARIABLES
  desktop,      \* the app under the Desktop name
  lock,         \* who has the destination's lock
  history,      \* the attempt directories made so far
  receipt,      \* attempt -> its journal
  predecessor, displaced,   \* attempt -> the copies of the predecessor it retains
  proofs,       \* attempt -> its completed recoveries
  pc, mine, record,     \* process -> control point, its attempt, its journal in memory
  plan, stage,          \* process -> its reviewed plan, the copy it has staged
  kills, externals

disk   == <<desktop, history, receipt, predecessor, displaced, proofs>>
locals == <<mine, record, plan, stage>>
vars   == <<disk, lock, pc, locals, kills, externals>>

Apps     == Builds \cup {Absent}
Copies   == Builds \cup {Absent, Torn}
States   == {"staging", "copies_verified", "predecessor_displaced", "completed", "failed_retained"}
Receipts == [state : States, old : Apps, new : Builds, settled : BOOLEAN]
Proofs   == [receipt : Receipts, inventory : Apps]
NoReceipt == [state |-> "none"]
NoPlan    == [action |-> "refused"]
Plans == [attempt : Attempts, receipt : Receipts, inventory : Apps,
          action : {"reconcile", "restore"}]

Refreshing == {"journal", "copy", "compare", "keep", "check", "displace", "note",
               "publish", "readback", "completed"}
Applying   == {"stage", "compare stage", "restore", "confirm", "confirmed"}
Control    == {"idle", "scan", "failing", "report", "reviewed"} \cup Refreshing \cup Applying

Init ==
  /\ desktop \in Apps /\ lock = None /\ history = {}
  /\ receipt = [a \in Attempts |-> NoReceipt]
  /\ predecessor = [a \in Attempts |-> Absent]
  /\ displaced = [a \in Attempts |-> Absent]
  /\ proofs = [a \in Attempts |-> {}]
  /\ pc = [p \in Procs |-> "idle"]
  /\ mine = [p \in Procs |-> None]
  /\ record = [p \in Procs |-> NoReceipt]
  /\ plan = [p \in Procs |-> NoPlan]
  /\ stage = [p \in Procs |-> Absent]
  /\ kills = 0 /\ externals = 0

-----------------------------------------------------------------------------
(* What holds a refresh, and what a recovery would do.                     *)

\* Mutant: the recovery counts only while its app is still the one installed.
RecoveredInPlace(a) ==
  \E proof \in proofs[a] : proof.receipt = receipt[a] /\ proof.inventory = desktop

\* A proof names the digest of the journal it was given for.
Recovered(a) == \E proof \in proofs[a] : proof.receipt = receipt[a]

\* An attempt without a readable journal holds as well.
Holding(a) ==
  \/ receipt[a] = NoReceipt
  \/ receipt[a].state # "completed" /\ ~ receipt[a].settled /\ ~ Recovered(a)

Held == \E a \in history : Holding(a)

\* Mutant: only the predecessor is recognised under the Desktop name.
OutcomeOfOld(a) ==
  IF desktop = receipt[a].old THEN "reconcile"
  ELSE IF desktop = Absent /\ {predecessor[a], displaced[a]} # {Absent} THEN "restore"
  ELSE "refused"

\* An app that is the predecessor or the candidate is left as it is; an absent
\* one is restored from a copy; any other is not touched.
Outcome(a) ==
  IF desktop \in {receipt[a].old, receipt[a].new} THEN "reconcile"
  ELSE IF desktop = Absent /\ {predecessor[a], displaced[a]} # {Absent} THEN "restore"
  ELSE "refused"

\* recovery_plan: every copy that is there must be the predecessor, whole.
PlanOf(a) ==
  IF receipt[a] = NoReceipt \/ Outcome(a) = "refused"
       \/ ~ {predecessor[a], displaced[a]} \subseteq {Absent, receipt[a].old}
  THEN NoPlan
  ELSE [attempt |-> a, receipt |-> receipt[a], action |-> Outcome(a),
        inventory |-> IF Outcome(a) = "restore" THEN receipt[a].old ELSE desktop]

-----------------------------------------------------------------------------
(* A refresh.                                                              *)

At(p, at) == pc[p] = at
Go(p, at) == pc' = [pc EXCEPT ![p] = at]

\* The process ends; the kernel drops its lock.
Leave(p) ==
  /\ Go(p, "idle")
  /\ lock' = IF lock = p THEN None ELSE lock
  /\ mine' = [mine EXCEPT ![p] = None]
  /\ record' = [record EXCEPT ![p] = NoReceipt]
  /\ plan' = [plan EXCEPT ![p] = NoPlan]
  /\ stage' = [stage EXCEPT ![p] = Absent]

\* The source was inventoried before the lock is tried; a lock that is taken
\* ends the call without a trace.
Refresh(p) ==
  /\ At(p, "idle") /\ lock = None /\ lock' = p
  /\ Go(p, "scan")
  /\ \E build \in Builds : record' = [record EXCEPT ![p] =
       [state |-> "staging", old |-> Absent, new |-> build, settled |-> FALSE]]
  /\ UNCHANGED <<disk, mine, plan, stage, kills, externals>>

Admit(p) ==
  /\ At(p, "scan") /\ ~ Held
  /\ Go(p, "journal")
  /\ \E a \in Attempts \ history :
       /\ history' = history \cup {a}
       /\ mine' = [mine EXCEPT ![p] = a]
  /\ record' = [record EXCEPT ![p].old = desktop]
  /\ UNCHANGED <<desktop, receipt, predecessor, displaced, proofs, lock,
                 plan, stage, kills, externals>>

\* Nothing changed yet, or nothing that anybody goes by, or all is done: the call
\* ends, by its return, an error or a kill, which is the same here.
Decline(p) ==
  /\ pc[p] \in {"scan", "completed", "reviewed"} \cup Applying
  /\ Leave(p)
  /\ UNCHANGED <<disk, kills, externals>>

\* write_record: the journal is replaced whole, by a rename.
Write(p, state) ==
  /\ record' = [record EXCEPT ![p].state = state]
  /\ receipt' = [receipt EXCEPT ![mine[p]] = record'[p]]

Journal(p) ==
  /\ At(p, "journal") /\ Go(p, "copy")
  /\ Write(p, "staging")
  /\ UNCHANGED <<desktop, history, predecessor, displaced, proofs, lock,
                 mine, plan, stage, kills, externals>>

\* A copy is partial for a while, and mixed if its source changes meanwhile.
\* The candidate stays in the attempt, where nobody looks at it again.
CopyCandidate(p) ==
  /\ At(p, "copy") /\ Go(p, "compare")
  /\ \E copy \in {Torn, record[p].new} : stage' = [stage EXCEPT ![p] = copy]
  /\ UNCHANGED <<disk, lock, mine, record, plan, kills, externals>>

Retention(p) == IF record[p].old = Absent THEN "check" ELSE "keep"

\* Mutant: the copy is published as it is.
CompareUnchecked(p) ==
  /\ At(p, "compare") /\ Go(p, Retention(p))
  /\ UNCHANGED <<disk, lock, locals, kills, externals>>

Compare(p) ==
  /\ At(p, "compare") /\ Go(p, Retention(p))
  /\ stage[p] = record[p].new
  /\ UNCHANGED <<disk, lock, locals, kills, externals>>

KeepPredecessor(p) ==
  /\ At(p, "keep") /\ Go(p, "check")
  /\ desktop # Absent
  /\ \E copy \in {Torn, desktop} : predecessor' = [predecessor EXCEPT ![mine[p]] = copy]
  /\ UNCHANGED <<desktop, history, receipt, displaced, proofs, lock,
                 locals, kills, externals>>

\* Mutant: the copy of the predecessor is not compared.
CopiesVerifiedBlindly(p) ==
  /\ At(p, "check") /\ Go(p, "displace")
  /\ record[p].old # Absent => desktop = record[p].old
  /\ Write(p, "copies_verified")
  /\ UNCHANGED <<desktop, history, predecessor, displaced, proofs, lock,
                 mine, plan, stage, kills, externals>>

CopiesVerified(p) ==
  /\ At(p, "check") /\ Go(p, "displace")
  /\ predecessor[mine[p]] = record[p].old
  /\ record[p].old # Absent => desktop = record[p].old
  /\ Write(p, "copies_verified")
  /\ UNCHANGED <<desktop, history, predecessor, displaced, proofs, lock,
                 mine, plan, stage, kills, externals>>

\* rename_exclusive: the app moves aside, whatever it is by now.
Displace(p) ==
  /\ At(p, "displace") /\ Go(p, "note")
  /\ record[p].old # Absent
  /\ desktop # Absent /\ displaced[mine[p]] = Absent
  /\ displaced' = [displaced EXCEPT ![mine[p]] = desktop]
  /\ desktop' = Absent
  /\ UNCHANGED <<history, receipt, predecessor, proofs, lock, locals,
                 kills, externals>>

NoteDisplaced(p) ==
  /\ At(p, "note") /\ Go(p, "publish")
  /\ Write(p, "predecessor_displaced")
  /\ UNCHANGED <<desktop, history, predecessor, displaced, proofs, lock,
                 mine, plan, stage, kills, externals>>

NothingToDisplace(p) ==
  /\ At(p, "displace") /\ Go(p, "publish")
  /\ record[p].old = Absent /\ desktop = Absent
  /\ UNCHANGED <<disk, lock, locals, kills, externals>>

\* Mutant: a rename that replaces what it finds.
PublishOver(p) ==
  /\ At(p, "publish") /\ Go(p, "readback")
  /\ desktop' = stage[p]
  /\ UNCHANGED <<history, receipt, predecessor, displaced, proofs, lock, locals,
                 kills, externals>>

\* rename_exclusive: an app that appeared meanwhile makes it fail.
Publish(p) ==
  /\ At(p, "publish") /\ Go(p, "readback")
  /\ desktop = Absent
  /\ desktop' = stage[p]
  /\ UNCHANGED <<history, receipt, predecessor, displaced, proofs, lock, locals,
                 kills, externals>>

Complete(p) ==
  /\ At(p, "readback") /\ Go(p, "completed")
  /\ desktop = record[p].new
  /\ Write(p, "completed")
  /\ UNCHANGED <<desktop, history, predecessor, displaced, proofs, lock,
                 mine, plan, stage, kills, externals>>

\* Any step of a refresh may fail: a comparison, a rename, a full disk; and the
\* write of a journal also after its rename, when the directory is flushed.  So
\* the handler may turn a completed journal into a failed one.
Fail(p) ==
  /\ pc[p] \in Refreshing /\ Go(p, "failing")
  /\ UNCHANGED <<disk, lock, locals, kills, externals>>

\* The handler puts a displaced predecessor back under an absent name, and
\* notes whether the app is what it was; either may fail in turn.
PutBack(p) ==
  /\ At(p, "failing") /\ Go(p, "report")
  /\ \/ UNCHANGED <<desktop, displaced>>
     \/ /\ record[p].old # Absent /\ desktop = Absent
        /\ displaced[mine[p]] = record[p].old
        /\ desktop' = displaced[mine[p]]
        /\ displaced' = [displaced EXCEPT ![mine[p]] = Absent]
  /\ \E sure \in BOOLEAN : record' = [record EXCEPT ![p].state = "failed_retained",
       ![p].settled = sure /\ desktop' = record[p].old]
  /\ UNCHANGED <<history, receipt, predecessor, proofs, lock, mine, plan,
                 stage, kills, externals>>

Report(p) ==
  /\ At(p, "report")
  /\ receipt' \in {receipt, [receipt EXCEPT ![mine[p]] = record[p]]}
  /\ Leave(p)
  /\ UNCHANGED <<desktop, history, predecessor, displaced, proofs, kills, externals>>

-----------------------------------------------------------------------------
(* A recovery of one attempt, chosen by the operator.                      *)

Review(p, a) ==
  /\ At(p, "idle") /\ a \in history
  /\ PlanOf(a) # NoPlan
  /\ Go(p, "reviewed")
  /\ plan' = [plan EXCEPT ![p] = PlanOf(a)]
  /\ UNCHANGED <<disk, lock, mine, record, stage, kills, externals>>

\* The first proof of this journal that is met decides whether the recovery
\* was done already; the proofs come in no order.
Undone(a) == ~ Recovered(a)
  \/ \E proof \in proofs[a] : proof.receipt = receipt[a] /\ proof.inventory # desktop

\* Under the lock the plan must come out as it was reviewed.
Apply(p) ==
  /\ At(p, "reviewed") /\ lock = None
  /\ PlanOf(plan[p].attempt) = plan[p] /\ Undone(plan[p].attempt)
  /\ lock' = p
  /\ Go(p, IF plan[p].action = "restore" THEN "stage" ELSE "confirm")
  /\ UNCHANGED <<disk, locals, kills, externals>>

\* The copy in predecessor/ is preferred to the displaced original.
Backup(a) == IF predecessor[a] # Absent THEN predecessor[a] ELSE displaced[a]

StageCopy(p) ==
  /\ At(p, "stage") /\ Go(p, "compare stage")
  /\ \E copy \in {Torn, Backup(plan[p].attempt)} : stage' = [stage EXCEPT ![p] = copy]
  /\ UNCHANGED <<disk, lock, mine, record, plan, kills, externals>>

CompareStage(p) ==
  /\ At(p, "compare stage") /\ Go(p, "restore")
  /\ stage[p] = plan[p].inventory
  /\ PlanOf(plan[p].attempt) = plan[p]
  /\ UNCHANGED <<disk, lock, locals, kills, externals>>

\* rename_exclusive again.
Restore(p) ==
  /\ At(p, "restore") /\ Go(p, "confirm")
  /\ desktop = Absent
  /\ desktop' = stage[p]
  /\ UNCHANGED <<history, receipt, predecessor, displaced, proofs, lock,
                 locals, kills, externals>>

ProofOf(p) == [receipt |-> plan[p].receipt, inventory |-> plan[p].inventory]

\* A second proof like one that is there changes nothing: the call just ends.
Confirm(p) ==
  /\ At(p, "confirm") /\ Go(p, "confirmed")
  /\ desktop = plan[p].inventory
  /\ ProofOf(p) \notin proofs[plan[p].attempt]
  /\ proofs' = [proofs EXCEPT ![plan[p].attempt] = @ \cup {ProofOf(p)}]
  /\ UNCHANGED <<desktop, history, receipt, predecessor, displaced, lock,
                 locals, kills, externals>>

\* The write of the proof fails after its rename: the handler turns the proof
\* into that of a failed recovery.
Withdraw(p) ==
  /\ At(p, "confirmed")
  /\ proofs' = [proofs EXCEPT ![plan[p].attempt] = @ \ {ProofOf(p)}]
  /\ Leave(p)
  /\ UNCHANGED <<desktop, history, receipt, predecessor, displaced, kills, externals>>

-----------------------------------------------------------------------------
\* SIGKILL of a refresh that has an attempt to lose.
Kill(p) ==
  /\ pc[p] \in (Refreshing \ {"completed"}) \cup {"failing", "report"} /\ kills < MaxKills
  /\ kills' = kills + 1
  /\ Leave(p)
  /\ UNCHANGED <<disk, externals>>

\* Somebody else puts an app there, or takes it away.
External ==
  /\ externals < MaxExternals /\ externals' = externals + 1
  /\ desktop' \in Apps \ {desktop}
  /\ UNCHANGED <<history, receipt, predecessor, displaced, proofs, lock,
                 pc, locals, kills>>

RefreshStep(p) ==
  \/ Refresh(p) \/ Admit(p) \/ Journal(p) \/ CopyCandidate(p) \/ Compare(p)
  \/ KeepPredecessor(p) \/ CopiesVerified(p) \/ Displace(p) \/ NoteDisplaced(p)
  \/ NothingToDisplace(p) \/ Publish(p) \/ Complete(p)
  \/ Fail(p) \/ PutBack(p) \/ Report(p)

RecoveryStep(p) ==
  \/ \E a \in Attempts : Review(p, a)
  \/ Apply(p) \/ StageCopy(p) \/ CompareStage(p) \/ Restore(p) \/ Confirm(p)
  \/ Withdraw(p)

Next == External \/ \E p \in Procs : RefreshStep(p) \/ RecoveryStep(p) \/ Decline(p) \/ Kill(p)

Spec == Init /\ [][Next]_vars

-----------------------------------------------------------------------------
(* Properties.                                                             *)

\* The types of the state.
TypeOK ==
  /\ desktop \in Copies /\ lock \in Procs \cup {None} /\ history \subseteq Attempts
  /\ receipt \in [Attempts -> Receipts \cup {NoReceipt}]
  /\ predecessor \in [Attempts -> Copies]
  /\ displaced \in [Attempts -> Copies] /\ proofs \in [Attempts -> SUBSET Proofs]
  /\ pc \in [Procs -> Control] /\ mine \in [Procs -> Attempts \cup {None}]
  /\ record \in [Procs -> Receipts \cup {NoReceipt}]
  /\ plan \in [Procs -> Plans \cup {NoPlan}] /\ stage \in [Procs -> Copies]
  /\ kills \in 0 .. MaxKills /\ externals \in 0 .. MaxExternals

\* The app under the Desktop name is never a partial or a mixed copy, whoever
\* was killed while copying (replace, recover).
OnlyWhole == desktop # Torn

\* A recovery is evidence about the journal as it is: nothing rewrites the
\* journal of an attempt once a proof for it was left, and the app it was
\* confirmed for is the predecessor or the candidate (recovery_completed).
ProofsBind == \A a \in Attempts : \A proof \in proofs[a] :
  /\ proof.receipt = receipt[a]
  /\ proof.inventory \in {receipt[a].old, receipt[a].new}

\* The interval between the two renames is recoverable: while the name is
\* absent although a predecessor was journaled, some attempt holds all
\* refreshes, and its plan is to restore that predecessor.
GapRecoverable ==
  externals = 0 /\ lock = None /\ desktop = Absent
    /\ (\E a \in history : receipt[a] # NoReceipt /\ receipt[a].old # Absent)
  => \E a \in history : Holding(a) /\ PlanOf(a).action = "restore"

\* An attempt holds refreshes for good only if it was killed before its first
\* journal or while it copied the predecessor, or if the app is by now another
\* one, put there by the recovery of another attempt.
HoldRecoverable ==
  externals = 0 /\ lock = None =>
    \A a \in history : Holding(a) =>
      \/ PlanOf(a) # NoPlan
      \/ receipt[a] = NoReceipt
      \/ predecessor[a] = Torn
      \/ desktop \notin {Absent, receipt[a].old, receipt[a].new}

\* Neither refresh nor recovery drops an app that was found under the name or
\* moved aside: it only moves between the two, into a vacant place.
NothingDropped == [][externals' = externals =>
  /\ desktop' # desktop /\ desktop # Absent =>
       /\ desktop' = Absent
       /\ \E a \in history : displaced[a] = Absent /\ displaced'[a] = desktop
  /\ \A a \in history : displaced'[a] # displaced[a] /\ displaced[a] # Absent =>
       desktop = Absent /\ desktop' = displaced[a] /\ displaced'[a] = Absent]_vars

\* The call that has just ended the hold of an attempt and still has the lock.
AtWork(p, a) ==
  /\ lock = p
  /\ \/ pc[p] = "report" /\ mine[p] = a
     \/ pc[p] = "confirmed" /\ plan[p].attempt = a /\ proofs[a] = {ProofOf(p)}

\* An attempt that stopped holding refreshes holds them again only through the
\* very call that completed it, which takes back its own last write while it
\* still has the lock.  Once that call is over nothing reopens the attempt: no
\* other attempt, no second recovery of it, and no app installed later.
NeverReopened == [][\A a \in history : ~ Holding(a) /\ Holding(a)' =>
  \E p \in Procs : AtWork(p, a)]_vars
=============================================================================
