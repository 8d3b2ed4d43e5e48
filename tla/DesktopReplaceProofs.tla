------------------------ MODULE DesktopReplaceProofs ------------------------
(***************************************************************************)
(* For any number of invocations, attempts, builds, kills and changes by   *)
(* other programs: what a refresh or a recovery never does to the app.     *)
(*                                                                         *)
(* Bound says what the holder of the lock knows of its attempt, whatever   *)
(* other programs do; it gives the first theorems.  Kept adds, while only  *)
(* refreshes and recoveries touch the app, that one attempt at most holds, *)
(* and that an absent app is kept twice by that attempt.                   *)
(***************************************************************************)
EXTENDS DesktopReplace, TLAPS

Busy == Refreshing \cup {"failing", "report"}

\* A process that went past the lock has it.
LockFollows == \A p \in Procs : lock = p <=> pc[p] \notin {"idle", "reviewed"}

\* An attempt that is not made yet has left nothing.
Fresh == \A a \in Attempts \ history : receipt[a] = NoReceipt /\ proofs[a] = {}

\* A journal that a running refresh may still replace.
Unfinished(a, p) ==
  /\ ~ receipt[a].settled
  /\ receipt[a].old = record[p].old /\ receipt[a].new = record[p].new

\* What a refresh knows of its attempt.
RunKnows(p) ==
  /\ pc[p] = "scan" => record[p] \in Receipts /\ record[p].state # "completed"
                        /\ ~ record[p].settled
  /\ pc[p] \in Busy =>
       /\ mine[p] \in history /\ record[p] \in Receipts
       /\ proofs[mine[p]] = {}
       /\ record[p].state = "completed" => pc[p] \in {"completed", "failing"}
       /\ pc[p] # "report" => ~ record[p].settled
       /\ receipt[mine[p]] = NoReceipt \/ Unfinished(mine[p], p)
       /\ receipt[mine[p]].state = "completed" => pc[p] \in {"completed", "failing", "report"}
       /\ pc[p] \in Refreshing \ {"journal"} => receipt[mine[p]] # NoReceipt
       /\ pc[p] \in {"keep", "check", "displace", "note", "publish"} => stage[p] = record[p].new
       /\ pc[p] = "keep" => record[p].old # Absent
       /\ pc[p] \in {"displace", "note"} => predecessor[mine[p]] = record[p].old

\* What a recovery knows of the attempt it recovers.
PlanKnows(p) ==
  /\ pc[p] \in {"reviewed"} \cup Applying =>
       /\ plan[p] \in Plans /\ plan[p].attempt \in history
       /\ plan[p].inventory \in {plan[p].receipt.old, plan[p].receipt.new}
  /\ pc[p] \in Applying => plan[p].receipt = receipt[plan[p].attempt]
  /\ pc[p] = "restore" => stage[p] = plan[p].inventory

Whole == desktop \in Apps /\ \A a \in Attempts : displaced[a] \in Apps

Bound ==
  /\ TypeOK /\ LockFollows /\ Fresh /\ Whole /\ ProofsBind
  /\ \A p \in Procs : RunKnows(p) /\ PlanKnows(p)

-----------------------------------------------------------------------------
(* Types.                                                                  *)

LEMMA Distinct ==
  /\ NoReceipt \notin Receipts /\ NoPlan \notin Plans
  /\ Absent \notin Builds /\ Torn \notin Apps /\ None \notin Procs /\ None \notin Attempts
  BY DesktopConstants, SMT DEF NoReceipt, NoPlan, Receipts, States, Plans, Apps

LEMMA Leaving ==
  ASSUME TypeOK, NEW p \in Procs, Leave(p)
  PROVE  /\ lock' \in Procs \cup {None} /\ pc' \in [Procs -> Control]
         /\ mine' \in [Procs -> Attempts \cup {None}]
         /\ record' \in [Procs -> Receipts \cup {NoReceipt}]
         /\ plan' \in [Procs -> Plans \cup {NoPlan}] /\ stage' \in [Procs -> Copies]
         /\ \A q \in Procs : q # p => pc'[q] = pc[q] /\ record'[q] = record[q]
                /\ mine'[q] = mine[q] /\ plan'[q] = plan[q] /\ stage'[q] = stage[q]
         /\ pc'[p] = "idle"
         /\ lock' = IF lock = p THEN None ELSE lock
  BY DEF TypeOK, Leave, Go, Control, Copies

\* A plan names its attempt's journal as it is, and the predecessor or the candidate.
LEMMA Planned ==
  ASSUME TypeOK, Whole, NEW a \in Attempts, PlanOf(a) # NoPlan
  PROVE  /\ PlanOf(a) \in Plans /\ PlanOf(a).attempt = a /\ receipt[a] # NoReceipt
         /\ PlanOf(a).receipt = receipt[a] /\ receipt[a] \in Receipts
         /\ PlanOf(a).inventory \in {receipt[a].old, receipt[a].new}
         /\ {predecessor[a], displaced[a]} \subseteq {Absent, receipt[a].old}
         /\ PlanOf(a).action = "restore" => desktop = Absent /\ PlanOf(a).inventory = receipt[a].old
         /\ PlanOf(a).action # "restore" => PlanOf(a).inventory = desktop
  <1>1. /\ receipt[a] # NoReceipt /\ Outcome(a) # "refused"
        /\ {predecessor[a], displaced[a]} \subseteq {Absent, receipt[a].old}
        /\ PlanOf(a) = [attempt |-> a, receipt |-> receipt[a], action |-> Outcome(a),
             inventory |-> IF Outcome(a) = "restore" THEN receipt[a].old ELSE desktop]
    BY Zenon DEF PlanOf
  <1>2. receipt[a] \in Receipts BY <1>1 DEF TypeOK
  <1>3. receipt[a].old \in Apps BY <1>2 DEF Receipts
  <1>4. \/ Outcome(a) = "reconcile" /\ desktop \in {receipt[a].old, receipt[a].new}
        \/ Outcome(a) = "restore" /\ desktop = Absent
    BY <1>1, Zenon DEF Outcome
  <1>. QED BY <1>1, <1>2, <1>3, <1>4 DEF Plans, Whole

-----------------------------------------------------------------------------
(* Every step of a process is one process's: the shapes they have.         *)

Elsewhere(p) == \A q \in Procs \ {p} :
  /\ pc'[q] = pc[q] /\ mine'[q] = mine[q] /\ record'[q] = record[q]
  /\ plan'[q] = plan[q] /\ stage'[q] = stage[q]

LEMMA BoundKept ==
  ASSUME Bound, NEW p \in Procs, Elsewhere(p), lock = p \/ UNCHANGED disk,
         history \subseteq history',
         TypeOK', LockFollows', Fresh', Whole', ProofsBind', RunKnows(p)', PlanKnows(p)'
  PROVE  Bound'
  <1>1. ASSUME NEW q \in Procs \ {p} PROVE RunKnows(q)' /\ PlanKnows(q)'
    <2>1. CASE UNCHANGED disk
      BY <2>1 DEF Bound, RunKnows, PlanKnows, Elsewhere, disk, Unfinished
    <2>2. CASE lock = p
      <3>1. pc[q] \in {"idle", "reviewed"} BY <2>2 DEF Bound, LockFollows
      <3>2. pc[q] \notin Busy /\ pc[q] \notin Applying /\ pc[q] # "scan" /\ pc[q] # "restore"
        BY <3>1 DEF Busy, Refreshing, Applying
      <3>3. RunKnows(q)' BY <3>2 DEF RunKnows, Elsewhere
      <3>4. PlanKnows(q)' BY <3>2 DEF Bound, PlanKnows, Elsewhere
      <3>. QED BY <3>3, <3>4
    <2>. QED BY <2>1, <2>2
  <1>. QED BY <1>1 DEF Bound

LEMMA DiskKept == ASSUME Bound, UNCHANGED disk PROVE Fresh' /\ Whole' /\ ProofsBind'
  BY DEF Bound, Fresh, Whole, ProofsBind, disk

\* The owner goes on to a point that still needs the lock.
LEMMA GoesOn ==
  ASSUME Bound, NEW p \in Procs, NEW to \in Control, pc[p] \notin {"idle", "reviewed"},
         to \notin {"idle", "reviewed"}, Go(p, to), UNCHANGED lock
  PROVE  /\ lock = p /\ LockFollows' /\ pc'[p] = to /\ pc' \in [Procs -> Control]
         /\ \A q \in Procs \ {p} : pc'[q] = pc[q]
  BY DEF Bound, TypeOK, LockFollows, Go

LEMMA Leaves ==
  ASSUME Bound, NEW p \in Procs, Leave(p)
  PROVE  /\ LockFollows' /\ Elsewhere(p) /\ RunKnows(p)' /\ PlanKnows(p)' /\ pc'[p] = "idle"
  <1>1. TypeOK BY DEF Bound
  <1>2. pc'[p] = "idle" /\ Elsewhere(p) /\ lock' = IF lock = p THEN None ELSE lock
    BY <1>1, Leaving DEF Elsewhere
  <1>3. LockFollows'
    BY <1>2, Distinct DEF Bound, LockFollows, Elsewhere
  <1>4. RunKnows(p)' /\ PlanKnows(p)'
    BY <1>2 DEF RunKnows, PlanKnows, Busy, Refreshing, Applying
  <1>. QED BY <1>2, <1>3, <1>4

\* The owner of an attempt.
LEMMA Owner ==
  ASSUME Bound, NEW p \in Procs, pc[p] \in Busy
  PROVE  /\ lock = p /\ mine[p] \in history /\ mine[p] \in Attempts /\ record[p] \in Receipts
         /\ proofs[mine[p]] = {}
         /\ record[p].state = "completed" => pc[p] \in {"completed", "failing"}
         /\ receipt[mine[p]] = NoReceipt \/ Unfinished(mine[p], p)
         /\ record[p].old \in Apps /\ record[p].new \in Builds
  BY DEF Bound, TypeOK, RunKnows, LockFollows, Busy, Refreshing, Receipts

\* A journal is replaced by one that differs in its state.
LEMMA Writing ==
  ASSUME TypeOK, NEW p \in Procs, NEW state \in States, Write(p, state),
         record[p] \in Receipts, mine[p] \in Attempts
  PROVE  /\ record' \in [Procs -> Receipts \cup {NoReceipt}]
         /\ receipt' \in [Attempts -> Receipts \cup {NoReceipt}]
         /\ receipt'[mine[p]] = record'[p] /\ record'[p] \in Receipts
         /\ record'[p].state = state /\ record'[p].old = record[p].old
         /\ record'[p].new = record[p].new /\ record'[p].settled = record[p].settled
         /\ \A a \in Attempts \ {mine[p]} : receipt'[a] = receipt[a]
         /\ \A q \in Procs \ {p} : record'[q] = record[q]
  <1>1. /\ record' = [record EXCEPT ![p].state = state]
        /\ receipt' = [receipt EXCEPT ![mine[p]] = record'[p]]
    BY DEF Write
  <1>2. record'[p] = [record[p] EXCEPT !.state = state] BY <1>1 DEF TypeOK
  <1>3. record'[p] \in Receipts BY <1>2 DEF Receipts
  <1>. QED BY <1>1, <1>2, <1>3 DEF TypeOK, Receipts

\* What a new journal leaves of the rest, while the attempt has no proofs.
LEMMA WritingKeeps ==
  ASSUME Bound, NEW p \in Procs, pc[p] \in Busy,
         UNCHANGED <<desktop, history, displaced, proofs>>,
         \A a \in Attempts \ {mine[p]} : receipt'[a] = receipt[a]
  PROVE  Fresh' /\ Whole' /\ ProofsBind'
  BY Owner DEF Bound, Fresh, Whole, ProofsBind

-----------------------------------------------------------------------------
(* The steps of a refresh.                                                 *)

LEMMA RefreshKeeps == ASSUME Bound, NEW p \in Procs, Refresh(p) PROVE Bound'
  <1>1. PICK build \in Builds : record' = [record EXCEPT ![p] =
          [state |-> "staging", old |-> Absent, new |-> build, settled |-> FALSE]]
    BY DEF Refresh
  <1>2. [state |-> "staging", old |-> Absent, new |-> build, settled |-> FALSE] \in Receipts
    BY DEF Receipts, States, Apps
  <1>3. /\ pc' = [pc EXCEPT ![p] = "scan"] /\ lock = None /\ lock' = p /\ UNCHANGED disk
        /\ UNCHANGED <<mine, plan, stage, kills, externals>>
    BY DEF Refresh, Go
  <1>4. TypeOK' BY <1>1, <1>2, <1>3 DEF Bound, TypeOK, disk, Control
  <1>5. LockFollows' BY <1>3, Distinct DEF Bound, LockFollows, TypeOK
  <1>6. Elsewhere(p) BY <1>1, <1>3 DEF Bound, TypeOK, Elsewhere
  <1>7. pc'[p] = "scan" /\ record'[p] = [state |-> "staging", old |-> Absent, new |-> build, settled |-> FALSE]
    BY <1>1, <1>3 DEF Bound, TypeOK
  <1>8. RunKnows(p)' /\ PlanKnows(p)'
    BY <1>2, <1>7 DEF RunKnows, PlanKnows, Busy, Refreshing, Applying
  <1>. QED BY <1>3, <1>4, <1>5, <1>6, <1>8, DiskKept, BoundKept DEF disk

LEMMA AdmitKeeps == ASSUME Bound, NEW p \in Procs, Admit(p) PROVE Bound'
  <1>1. PICK a \in Attempts \ history :
          history' = history \cup {a} /\ mine' = [mine EXCEPT ![p] = a]
    BY DEF Admit
  <1>2. pc[p] = "scan" /\ record[p] \in Receipts /\ record[p].state # "completed" /\ ~ record[p].settled
    BY DEF Admit, At, Bound, RunKnows
  <1>3. /\ record' = [record EXCEPT ![p].old = desktop] /\ Go(p, "journal")
        /\ UNCHANGED <<desktop, receipt, predecessor, displaced, proofs, lock,
                       plan, stage, kills, externals>>
    BY DEF Admit
  <1>4. record'[p] = [record[p] EXCEPT !.old = desktop]
    BY <1>3 DEF Bound, TypeOK
  <1>5. record'[p] \in Receipts /\ record'[p].state # "completed" /\ ~ record'[p].settled
    BY <1>2, <1>4 DEF Bound, Receipts, Whole
  <1>6. /\ lock = p /\ LockFollows' /\ pc'[p] = "journal" /\ pc' \in [Procs -> Control]
        /\ \A q \in Procs \ {p} : pc'[q] = pc[q]
    BY <1>2, <1>3, GoesOn DEF Control, Refreshing
  <1>7. TypeOK' BY <1>1, <1>3, <1>5, <1>6 DEF Bound, TypeOK
  <1>8. Elsewhere(p) BY <1>1, <1>3, <1>6 DEF Bound, TypeOK, Elsewhere
  <1>9. Fresh' /\ Whole' /\ ProofsBind' BY <1>1, <1>3 DEF Bound, Fresh, Whole, ProofsBind
  <1>10. mine'[p] = a /\ receipt[a] = NoReceipt /\ proofs[a] = {}
    BY <1>1 DEF Bound, TypeOK, Fresh
  <1>11. RunKnows(p)' /\ PlanKnows(p)'
    BY <1>1, <1>3, <1>5, <1>6, <1>10 DEF RunKnows, PlanKnows, Busy, Refreshing, Applying, NoReceipt
  <1>. QED BY <1>1, <1>6, <1>7, <1>8, <1>9, <1>11, BoundKept

LEMMA JournalKeeps == ASSUME Bound, NEW p \in Procs, Journal(p) PROVE Bound'
  <1>1. /\ pc[p] = "journal" /\ Go(p, "copy") /\ Write(p, "staging")
        /\ UNCHANGED <<desktop, history, predecessor, displaced, proofs, lock,
                       mine, plan, stage, kills, externals>>
    BY DEF Journal, At
  <1>2. pc[p] \in Busy BY <1>1 DEF Busy, Refreshing
  <1>3. /\ lock = p /\ LockFollows' /\ pc'[p] = "copy" /\ pc' \in [Procs -> Control]
        /\ \A q \in Procs \ {p} : pc'[q] = pc[q]
    BY <1>1, GoesOn DEF Control, Refreshing
  <1>4. /\ record' \in [Procs -> Receipts \cup {NoReceipt}]
        /\ receipt' \in [Attempts -> Receipts \cup {NoReceipt}]
        /\ receipt'[mine[p]] = record'[p] /\ record'[p] \in Receipts
        /\ record'[p].state = "staging" /\ record'[p].settled = record[p].settled
        /\ \A a \in Attempts \ {mine[p]} : receipt'[a] = receipt[a]
        /\ \A q \in Procs \ {p} : record'[q] = record[q]
    BY <1>1, <1>2, Owner, Writing DEF Bound, States
  <1>5. TypeOK' BY <1>1, <1>3, <1>4 DEF Bound, TypeOK
  <1>6. Elsewhere(p) BY <1>1, <1>3, <1>4 DEF Elsewhere
  <1>7. Fresh' /\ Whole' /\ ProofsBind' BY <1>1, <1>2, <1>4, WritingKeeps
  <1>8. ~ record[p].settled BY <1>1, <1>2 DEF Bound, RunKnows
  <1>9. RunKnows(p)' /\ PlanKnows(p)'
    BY <1>1, <1>2, <1>3, <1>4, <1>8, Owner, Distinct
    DEF RunKnows, PlanKnows, Busy, Refreshing, Applying, Unfinished
  <1>. QED BY <1>1, <1>3, <1>5, <1>6, <1>7, <1>9, BoundKept

LEMMA CompareKeeps == ASSUME Bound, NEW p \in Procs, Compare(p) PROVE Bound'
  <1>1. /\ pc[p] = "compare" /\ UNCHANGED <<disk, lock, locals, kills, externals>>
    BY DEF Compare, At
  <1>2. PICK to \in {"keep", "check"} : Go(p, to)
    BY DEF Compare, Retention
  <1>3. /\ lock = p /\ LockFollows' /\ pc'[p] = to /\ pc' \in [Procs -> Control]
        /\ \A q \in Procs \ {p} : pc'[q] = pc[q]
    BY <1>1, <1>2, GoesOn DEF Control, Refreshing, Applying
  <1>4. TypeOK' BY <1>1, <1>3 DEF Bound, TypeOK, disk, locals
  <1>5. Elsewhere(p) BY <1>1, <1>3 DEF Elsewhere, locals
  <1>6. RunKnows(p) /\ PlanKnows(p) BY DEF Bound
  <1>7. RunKnows(p)' /\ PlanKnows(p)'
    BY <1>1, <1>2, <1>3, <1>6
    DEF Compare, RunKnows, PlanKnows, Busy, Refreshing, Applying, Unfinished, disk, locals, Retention, Go
  <1>. QED BY <1>1, <1>3, <1>4, <1>5, <1>7, DiskKept, BoundKept DEF disk

LEMMA CopiesVerifiedKeeps == ASSUME Bound, NEW p \in Procs, CopiesVerified(p) PROVE Bound'
  <1>1. /\ pc[p] = "check" /\ Go(p, "displace") /\ Write(p, "copies_verified")
        /\ UNCHANGED <<desktop, history, predecessor, displaced, proofs, lock,
                       mine, plan, stage, kills, externals>>
    BY DEF CopiesVerified, At
  <1>2. pc[p] \in Busy BY <1>1 DEF Busy, Refreshing
  <1>3. /\ lock = p /\ LockFollows' /\ pc'[p] = "displace" /\ pc' \in [Procs -> Control]
        /\ \A q \in Procs \ {p} : pc'[q] = pc[q]
    BY <1>1, GoesOn DEF Control, Refreshing
  <1>4. /\ record' \in [Procs -> Receipts \cup {NoReceipt}]
        /\ receipt' \in [Attempts -> Receipts \cup {NoReceipt}]
        /\ receipt'[mine[p]] = record'[p] /\ record'[p] \in Receipts
        /\ record'[p].state = "copies_verified" /\ record'[p].settled = record[p].settled
        /\ record'[p].old = record[p].old /\ record'[p].new = record[p].new
        /\ \A a \in Attempts \ {mine[p]} : receipt'[a] = receipt[a]
        /\ \A q \in Procs \ {p} : record'[q] = record[q]
    BY <1>1, <1>2, Owner, Writing DEF Bound, States
  <1>5. TypeOK' BY <1>1, <1>3, <1>4 DEF Bound, TypeOK
  <1>6. Elsewhere(p) BY <1>1, <1>3, <1>4 DEF Elsewhere
  <1>7. Fresh' /\ Whole' /\ ProofsBind' BY <1>1, <1>2, <1>4, WritingKeeps
  <1>8. /\ ~ record[p].settled
        /\ pc[p] \in {"check", "note"} => stage[p] = record[p].new
        /\ pc[p] = "note" => predecessor[mine[p]] = record[p].old
    BY <1>1, <1>2 DEF Bound, RunKnows
  <1>9. RunKnows(p)' /\ PlanKnows(p)'
    BY <1>1, <1>2, <1>3, <1>4, <1>8, Owner, Distinct
    DEF RunKnows, PlanKnows, Busy, Refreshing, Applying, Unfinished, CopiesVerified
  <1>. QED BY <1>1, <1>3, <1>5, <1>6, <1>7, <1>9, BoundKept

LEMMA NoteDisplacedKeeps == ASSUME Bound, NEW p \in Procs, NoteDisplaced(p) PROVE Bound'
  <1>1. /\ pc[p] = "note" /\ Go(p, "publish") /\ Write(p, "predecessor_displaced")
        /\ UNCHANGED <<desktop, history, predecessor, displaced, proofs, lock,
                       mine, plan, stage, kills, externals>>
    BY DEF NoteDisplaced, At
  <1>2. pc[p] \in Busy BY <1>1 DEF Busy, Refreshing
  <1>3. /\ lock = p /\ LockFollows' /\ pc'[p] = "publish" /\ pc' \in [Procs -> Control]
        /\ \A q \in Procs \ {p} : pc'[q] = pc[q]
    BY <1>1, GoesOn DEF Control, Refreshing
  <1>4. /\ record' \in [Procs -> Receipts \cup {NoReceipt}]
        /\ receipt' \in [Attempts -> Receipts \cup {NoReceipt}]
        /\ receipt'[mine[p]] = record'[p] /\ record'[p] \in Receipts
        /\ record'[p].state = "predecessor_displaced" /\ record'[p].settled = record[p].settled
        /\ record'[p].old = record[p].old /\ record'[p].new = record[p].new
        /\ \A a \in Attempts \ {mine[p]} : receipt'[a] = receipt[a]
        /\ \A q \in Procs \ {p} : record'[q] = record[q]
    BY <1>1, <1>2, Owner, Writing DEF Bound, States
  <1>5. TypeOK' BY <1>1, <1>3, <1>4 DEF Bound, TypeOK
  <1>6. Elsewhere(p) BY <1>1, <1>3, <1>4 DEF Elsewhere
  <1>7. Fresh' /\ Whole' /\ ProofsBind' BY <1>1, <1>2, <1>4, WritingKeeps
  <1>8. /\ ~ record[p].settled
        /\ pc[p] \in {"check", "note"} => stage[p] = record[p].new
        /\ pc[p] = "note" => predecessor[mine[p]] = record[p].old
    BY <1>1, <1>2 DEF Bound, RunKnows
  <1>9. RunKnows(p)' /\ PlanKnows(p)'
    BY <1>1, <1>2, <1>3, <1>4, <1>8, Owner, Distinct
    DEF RunKnows, PlanKnows, Busy, Refreshing, Applying, Unfinished
  <1>. QED BY <1>1, <1>3, <1>5, <1>6, <1>7, <1>9, BoundKept

LEMMA NothingToDisplaceKeeps == ASSUME Bound, NEW p \in Procs, NothingToDisplace(p) PROVE Bound'
  <1>1. /\ pc[p] = "displace" /\ UNCHANGED <<disk, lock, locals, kills, externals>>
    BY DEF NothingToDisplace, At
  <1>2. PICK to \in {"publish"} : Go(p, to)
    BY DEF NothingToDisplace, Retention
  <1>3. /\ lock = p /\ LockFollows' /\ pc'[p] = to /\ pc' \in [Procs -> Control]
        /\ \A q \in Procs \ {p} : pc'[q] = pc[q]
    BY <1>1, <1>2, GoesOn DEF Control, Refreshing, Applying
  <1>4. TypeOK' BY <1>1, <1>3 DEF Bound, TypeOK, disk, locals
  <1>5. Elsewhere(p) BY <1>1, <1>3 DEF Elsewhere, locals
  <1>6. RunKnows(p) /\ PlanKnows(p) BY DEF Bound
  <1>7. RunKnows(p)' /\ PlanKnows(p)'
    BY <1>1, <1>2, <1>3, <1>6
    DEF NothingToDisplace, RunKnows, PlanKnows, Busy, Refreshing, Applying, Unfinished, disk, locals
  <1>. QED BY <1>1, <1>3, <1>4, <1>5, <1>7, DiskKept, BoundKept DEF disk

LEMMA FailKeeps == ASSUME Bound, NEW p \in Procs, Fail(p) PROVE Bound'
  <1>1. pc[p] \in Refreshing /\ Go(p, "failing") /\ UNCHANGED <<disk, lock, locals, kills, externals>>
    BY DEF Fail
  <1>2. pc[p] \in Busy /\ pc[p] \notin {"idle", "reviewed", "report"} BY <1>1 DEF Busy, Refreshing
  <1>3. /\ lock = p /\ LockFollows' /\ pc'[p] = "failing" /\ pc' \in [Procs -> Control]
        /\ \A q \in Procs \ {p} : pc'[q] = pc[q]
    BY <1>1, <1>2, GoesOn DEF Control
  <1>4. TypeOK' BY <1>1, <1>3 DEF Bound, TypeOK, disk, locals
  <1>5. Elsewhere(p) BY <1>1, <1>3 DEF Elsewhere, locals
  <1>6. RunKnows(p) BY DEF Bound
  <1>7. RunKnows(p)' /\ PlanKnows(p)'
    BY <1>1, <1>2, <1>3, <1>6
    DEF RunKnows, PlanKnows, Busy, Refreshing, Applying, Unfinished, disk, locals
  <1>. QED BY <1>1, <1>3, <1>4, <1>5, <1>7, DiskKept, BoundKept DEF disk

LEMMA CopyCandidateKeeps == ASSUME Bound, NEW p \in Procs, CopyCandidate(p) PROVE Bound'
  <1>1. pc[p] = "copy" /\ Go(p, "compare") /\ UNCHANGED <<disk, lock, mine, record, plan, kills, externals>>
    BY DEF CopyCandidate, At
  <1>2. pc[p] \in Busy BY <1>1 DEF Busy, Refreshing
  <1>3. PICK copy \in {Torn, record[p].new} : stage' = [stage EXCEPT ![p] = copy]
    BY DEF CopyCandidate
  <1>4. copy \in Copies BY <1>2, Owner DEF Copies
  <1>5. /\ lock = p /\ LockFollows' /\ pc'[p] = "compare" /\ pc' \in [Procs -> Control]
        /\ \A q \in Procs \ {p} : pc'[q] = pc[q]
    BY <1>1, GoesOn DEF Control, Refreshing
  <1>6. TypeOK' BY <1>1, <1>3, <1>4, <1>5 DEF Bound, TypeOK, disk
  <1>7. Elsewhere(p) BY <1>1, <1>3, <1>5 DEF Bound, TypeOK, Elsewhere
  <1>8. RunKnows(p) BY DEF Bound
  <1>9. RunKnows(p)' /\ PlanKnows(p)'
    BY <1>1, <1>5, <1>8 DEF RunKnows, PlanKnows, Busy, Refreshing, Applying, Unfinished, disk
  <1>. QED BY <1>1, <1>5, <1>6, <1>7, <1>9, DiskKept, BoundKept DEF disk

LEMMA KeepPredecessorKeeps == ASSUME Bound, NEW p \in Procs, KeepPredecessor(p) PROVE Bound'
  <1>1. /\ pc[p] = "keep" /\ Go(p, "check")
        /\ UNCHANGED <<desktop, history, receipt, displaced, proofs, lock, locals, kills, externals>>
    BY DEF KeepPredecessor, At
  <1>2. PICK copy \in {Torn, desktop} : predecessor' = [predecessor EXCEPT ![mine[p]] = copy]
    BY DEF KeepPredecessor
  <1>3. copy \in Copies BY DEF Bound, TypeOK, Copies
  <1>4. /\ lock = p /\ LockFollows' /\ pc'[p] = "check" /\ pc' \in [Procs -> Control]
        /\ \A q \in Procs \ {p} : pc'[q] = pc[q]
    BY <1>1, GoesOn DEF Control, Refreshing
  <1>5. TypeOK' BY <1>1, <1>2, <1>3, <1>4 DEF Bound, TypeOK, locals
  <1>6. Elsewhere(p) BY <1>1, <1>4 DEF Elsewhere, locals
  <1>7. Fresh' /\ Whole' /\ ProofsBind' BY <1>1 DEF Bound, Fresh, Whole, ProofsBind
  <1>8. RunKnows(p) BY DEF Bound
  <1>9. RunKnows(p)' /\ PlanKnows(p)'
    BY <1>1, <1>4, <1>8 DEF RunKnows, PlanKnows, Busy, Refreshing, Applying, Unfinished, locals
  <1>. QED BY <1>1, <1>4, <1>5, <1>6, <1>7, <1>9, BoundKept

LEMMA DisplaceKeeps == ASSUME Bound, NEW p \in Procs, Displace(p) PROVE Bound'
  <1>1. /\ pc[p] = "displace" /\ Go(p, "note") /\ desktop # Absent /\ desktop' = Absent
        /\ displaced' = [displaced EXCEPT ![mine[p]] = desktop]
        /\ UNCHANGED <<history, receipt, predecessor, proofs, lock, locals, kills, externals>>
    BY DEF Displace, At
  <1>4. /\ lock = p /\ LockFollows' /\ pc'[p] = "note" /\ pc' \in [Procs -> Control]
        /\ \A q \in Procs \ {p} : pc'[q] = pc[q]
    BY <1>1, GoesOn DEF Control, Refreshing
  <1>5. TypeOK' BY <1>1, <1>4 DEF Bound, TypeOK, locals, Copies
  <1>6. Elsewhere(p) BY <1>1, <1>4 DEF Elsewhere, locals
  <1>7. Fresh' /\ Whole' /\ ProofsBind'
    BY <1>1 DEF Bound, TypeOK, Fresh, Whole, ProofsBind, Apps
  <1>8. RunKnows(p) BY DEF Bound
  <1>9. RunKnows(p)' /\ PlanKnows(p)'
    BY <1>1, <1>4, <1>8 DEF RunKnows, PlanKnows, Busy, Refreshing, Applying, Unfinished, locals
  <1>. QED BY <1>1, <1>4, <1>5, <1>6, <1>7, <1>9, BoundKept

LEMMA PublishKeeps == ASSUME Bound, NEW p \in Procs, Publish(p) PROVE Bound'
  <1>1. /\ pc[p] = "publish" /\ Go(p, "readback") /\ desktop = Absent /\ desktop' = stage[p]
        /\ UNCHANGED <<history, receipt, predecessor, displaced, proofs, lock, locals, kills, externals>>
    BY DEF Publish, At
  <1>2. pc[p] \in Busy BY <1>1 DEF Busy, Refreshing
  <1>3. stage[p] \in Builds BY <1>1, <1>2, Owner DEF Bound, RunKnows
  <1>4. /\ lock = p /\ LockFollows' /\ pc'[p] = "readback" /\ pc' \in [Procs -> Control]
        /\ \A q \in Procs \ {p} : pc'[q] = pc[q]
    BY <1>1, GoesOn DEF Control, Refreshing
  <1>5. TypeOK' BY <1>1, <1>3, <1>4 DEF Bound, TypeOK, locals, Copies
  <1>6. Elsewhere(p) BY <1>1, <1>4 DEF Elsewhere, locals
  <1>7. Fresh' /\ Whole' /\ ProofsBind'
    BY <1>1, <1>3 DEF Bound, Fresh, Whole, ProofsBind, Apps
  <1>8. RunKnows(p) BY DEF Bound
  <1>9. RunKnows(p)' /\ PlanKnows(p)'
    BY <1>1, <1>4, <1>8 DEF RunKnows, PlanKnows, Busy, Refreshing, Applying, Unfinished, locals
  <1>. QED BY <1>1, <1>4, <1>5, <1>6, <1>7, <1>9, BoundKept

LEMMA CompleteKeeps == ASSUME Bound, NEW p \in Procs, Complete(p) PROVE Bound'
  <1>1. /\ pc[p] = "readback" /\ Go(p, "completed") /\ Write(p, "completed")
        /\ UNCHANGED <<desktop, history, predecessor, displaced, proofs, lock,
                       mine, plan, stage, kills, externals>>
    BY DEF Complete, At
  <1>2. pc[p] \in Busy BY <1>1 DEF Busy, Refreshing
  <1>3. /\ lock = p /\ LockFollows' /\ pc'[p] = "completed" /\ pc' \in [Procs -> Control]
        /\ \A q \in Procs \ {p} : pc'[q] = pc[q]
    BY <1>1, GoesOn DEF Control, Refreshing
  <1>4. /\ record' \in [Procs -> Receipts \cup {NoReceipt}]
        /\ receipt' \in [Attempts -> Receipts \cup {NoReceipt}]
        /\ receipt'[mine[p]] = record'[p] /\ record'[p] \in Receipts
        /\ record'[p].settled = record[p].settled
        /\ record'[p].old = record[p].old /\ record'[p].new = record[p].new
        /\ \A a \in Attempts \ {mine[p]} : receipt'[a] = receipt[a]
        /\ \A q \in Procs \ {p} : record'[q] = record[q]
    BY <1>1, <1>2, Owner, Writing DEF Bound, States
  <1>5. TypeOK' BY <1>1, <1>3, <1>4 DEF Bound, TypeOK
  <1>6. Elsewhere(p) BY <1>1, <1>3, <1>4 DEF Elsewhere
  <1>7. Fresh' /\ Whole' /\ ProofsBind' BY <1>1, <1>2, <1>4, WritingKeeps
  <1>8. ~ record[p].settled BY <1>1, <1>2 DEF Bound, RunKnows
  <1>9. RunKnows(p)' /\ PlanKnows(p)'
    BY <1>1, <1>2, <1>3, <1>4, <1>8, Owner, Distinct
    DEF RunKnows, PlanKnows, Busy, Refreshing, Applying, Unfinished
  <1>. QED BY <1>1, <1>3, <1>5, <1>6, <1>7, <1>9, BoundKept

LEMMA PutBackKeeps == ASSUME Bound, NEW p \in Procs, PutBack(p) PROVE Bound'
  <1>1. /\ pc[p] = "failing" /\ Go(p, "report")
        /\ \/ UNCHANGED <<desktop, displaced>>
           \/ /\ record[p].old # Absent /\ desktop = Absent
              /\ displaced[mine[p]] = record[p].old
              /\ desktop' = displaced[mine[p]]
              /\ displaced' = [displaced EXCEPT ![mine[p]] = Absent]
        /\ UNCHANGED <<history, receipt, predecessor, proofs, lock, mine, plan, stage, kills, externals>>
    BY DEF PutBack, At
  <1>2. PICK sure \in BOOLEAN : record' = [record EXCEPT ![p].state = "failed_retained",
          ![p].settled = sure /\ desktop' = record[p].old]
    BY DEF PutBack
  <1>3. pc[p] \in Busy BY <1>1 DEF Busy
  <1>4. record'[p] = [record[p] EXCEPT !.state = "failed_retained",
          !.settled = sure /\ desktop' = record[p].old]
    BY <1>2 DEF Bound, TypeOK
  <1>5. /\ record'[p] \in Receipts /\ record'[p].old = record[p].old /\ record'[p].new = record[p].new
        /\ record'[p].state # "completed"
    BY <1>3, <1>4, Owner DEF Receipts, States
  <1>6. /\ lock = p /\ LockFollows' /\ pc'[p] = "report" /\ pc' \in [Procs -> Control]
        /\ \A q \in Procs \ {p} : pc'[q] = pc[q]
    BY <1>1, GoesOn DEF Control
  <1>7. \A q \in Procs \ {p} : record'[q] = record[q] BY <1>2 DEF Bound, TypeOK
  <1>8. Whole' /\ desktop' \in Copies /\ displaced' \in [Attempts -> Copies]
    BY <1>1, <1>3, Owner DEF Bound, TypeOK, Whole, Apps, Copies
  <1>9. record' \in [Procs -> Receipts \cup {NoReceipt}] BY <1>2, <1>5, <1>7 DEF Bound, TypeOK
  <1>10. TypeOK' BY <1>1, <1>6, <1>8, <1>9 DEF Bound, TypeOK
  <1>11. Elsewhere(p) BY <1>1, <1>6, <1>7 DEF Elsewhere
  <1>12. Fresh' /\ ProofsBind' BY <1>1 DEF Bound, Fresh, ProofsBind
  <1>13. RunKnows(p)' /\ PlanKnows(p)'
    BY <1>1, <1>3, <1>5, <1>6, Owner
    DEF RunKnows, PlanKnows, Busy, Refreshing, Applying, Unfinished
  <1>. QED BY <1>1, <1>6, <1>8, <1>10, <1>11, <1>12, <1>13, BoundKept

LEMMA ReportKeeps == ASSUME Bound, NEW p \in Procs, Report(p) PROVE Bound'
  <1>1. /\ pc[p] = "report" /\ Leave(p)
        /\ receipt' \in {receipt, [receipt EXCEPT ![mine[p]] = record[p]]}
        /\ UNCHANGED <<desktop, history, predecessor, displaced, proofs, kills, externals>>
    BY DEF Report, At
  <1>2. pc[p] \in Busy BY <1>1 DEF Busy
  <1>3. TypeOK' BY <1>1, <1>2, Owner, Leaving DEF Bound, TypeOK
  <1>4. Fresh' /\ Whole' /\ ProofsBind' BY <1>1, <1>2, WritingKeeps DEF Bound, TypeOK
  <1>. QED BY <1>1, <1>2, <1>3, <1>4, Owner, Leaves, BoundKept

-----------------------------------------------------------------------------
(* The steps of a recovery.                                                *)

LEMMA ReviewKeeps == ASSUME Bound, NEW p \in Procs, NEW a \in Attempts, Review(p, a) PROVE Bound'
  <1>1. /\ pc[p] = "idle" /\ a \in history /\ PlanOf(a) # NoPlan
        /\ pc' = [pc EXCEPT ![p] = "reviewed"] /\ plan' = [plan EXCEPT ![p] = PlanOf(a)]
        /\ UNCHANGED <<disk, lock, mine, record, stage, kills, externals>>
    BY DEF Review, At, Go
  <1>2. /\ PlanOf(a) \in Plans /\ PlanOf(a).attempt = a /\ PlanOf(a).receipt = receipt[a]
        /\ PlanOf(a).inventory \in {receipt[a].old, receipt[a].new}
    BY <1>1, Planned DEF Bound
  <1>3. TypeOK' BY <1>1, <1>2 DEF Bound, TypeOK, disk, Control
  <1>4. LockFollows' BY <1>1 DEF Bound, TypeOK, LockFollows
  <1>5. Elsewhere(p) BY <1>1 DEF Bound, TypeOK, Elsewhere
  <1>6. pc'[p] = "reviewed" /\ plan'[p] = PlanOf(a) BY <1>1 DEF Bound, TypeOK
  <1>7. RunKnows(p)' BY <1>6 DEF RunKnows, Busy, Refreshing
  <1>8. PlanKnows(p)'
    <2>1. plan[p]' \in Plans /\ plan[p]'.attempt \in history' BY <1>1, <1>2, <1>6 DEF disk
    <2>2. plan[p]'.inventory \in {plan[p]'.receipt.old, plan[p]'.receipt.new} BY <1>2, <1>6
    <2>3. pc[p]' \notin Applying /\ pc[p]' # "restore" BY <1>6 DEF Applying
    <2>. QED BY <2>1, <2>2, <2>3 DEF PlanKnows
  <1>. QED BY <1>1, <1>3, <1>4, <1>5, <1>7, <1>8, DiskKept, BoundKept DEF disk

LEMMA ApplyKeeps == ASSUME Bound, NEW p \in Procs, Apply(p) PROVE Bound'
  <1>1. /\ pc[p] = "reviewed" /\ lock = None /\ lock' = p
        /\ PlanOf(plan[p].attempt) = plan[p] /\ UNCHANGED <<disk, locals, kills, externals>>
    BY DEF Apply, At
  <1>2. PICK to \in {"stage", "confirm"} : pc' = [pc EXCEPT ![p] = to] BY DEF Apply, Go
  <1>3. plan[p] \in Plans /\ plan[p].attempt \in history /\ plan[p].attempt \in Attempts
    BY <1>1 DEF Bound, TypeOK, PlanKnows
  <1>4. plan[p] # NoPlan BY <1>3, Distinct
  <1>5. plan[p].receipt = receipt[plan[p].attempt] /\ plan[p].inventory \in {plan[p].receipt.old, plan[p].receipt.new}
    BY <1>1, <1>3, <1>4, Planned DEF Bound
  <1>6. TypeOK' BY <1>1, <1>2 DEF Bound, TypeOK, disk, locals, Control, Applying
  <1>7. LockFollows' BY <1>1, <1>2, Distinct DEF Bound, TypeOK, LockFollows
  <1>8. Elsewhere(p) BY <1>1, <1>2 DEF Bound, TypeOK, Elsewhere, locals
  <1>9. pc'[p] = to BY <1>2 DEF Bound, TypeOK
  <1>10. RunKnows(p)' /\ PlanKnows(p)'
    BY <1>1, <1>3, <1>5, <1>9 DEF RunKnows, PlanKnows, Busy, Refreshing, Applying, disk, locals
  <1>. QED BY <1>1, <1>6, <1>7, <1>8, <1>10, DiskKept, BoundKept DEF disk

LEMMA StageCopyKeeps == ASSUME Bound, NEW p \in Procs, StageCopy(p) PROVE Bound'
  <1>1. /\ pc[p] = "stage" /\ Go(p, "compare stage")
        /\ UNCHANGED <<disk, lock, mine, record, plan, kills, externals>>
    BY DEF StageCopy, At
  <1>2. PICK copy \in {Torn, Backup(plan[p].attempt)} : stage' = [stage EXCEPT ![p] = copy]
    BY DEF StageCopy
  <1>3. PlanKnows(p) BY DEF Bound
  <1>4. copy \in Copies
    <2>1. plan[p].attempt \in Attempts BY <1>1, <1>3 DEF PlanKnows, Applying, Bound, TypeOK
    <2>. QED BY <1>2, <2>1 DEF Bound, TypeOK, Copies, Backup
  <1>5. /\ lock = p /\ LockFollows' /\ pc'[p] = "compare stage" /\ pc' \in [Procs -> Control]
        /\ \A q \in Procs \ {p} : pc'[q] = pc[q]
    BY <1>1, GoesOn DEF Control, Applying
  <1>6. TypeOK' BY <1>1, <1>2, <1>4, <1>5 DEF Bound, TypeOK, disk
  <1>7. Elsewhere(p) BY <1>1, <1>2, <1>5 DEF Bound, TypeOK, Elsewhere
  <1>8. RunKnows(p)' /\ PlanKnows(p)'
    BY <1>1, <1>3, <1>5 DEF RunKnows, PlanKnows, Busy, Refreshing, Applying, disk
  <1>. QED BY <1>1, <1>5, <1>6, <1>7, <1>8, DiskKept, BoundKept DEF disk

LEMMA CompareStageKeeps == ASSUME Bound, NEW p \in Procs, CompareStage(p) PROVE Bound'
  <1>1. /\ pc[p] = "compare stage" /\ UNCHANGED <<disk, lock, locals, kills, externals>>
    BY DEF CompareStage, At
  <1>2. PICK to \in {"restore"} : Go(p, to)
    BY DEF CompareStage, Retention
  <1>3. /\ lock = p /\ LockFollows' /\ pc'[p] = to /\ pc' \in [Procs -> Control]
        /\ \A q \in Procs \ {p} : pc'[q] = pc[q]
    BY <1>1, <1>2, GoesOn DEF Control, Refreshing, Applying
  <1>4. TypeOK' BY <1>1, <1>3 DEF Bound, TypeOK, disk, locals
  <1>5. Elsewhere(p) BY <1>1, <1>3 DEF Elsewhere, locals
  <1>6. RunKnows(p) /\ PlanKnows(p) BY DEF Bound
  <1>7. RunKnows(p)' /\ PlanKnows(p)'
    BY <1>1, <1>2, <1>3, <1>6
    DEF CompareStage, RunKnows, PlanKnows, Busy, Refreshing, Applying, Unfinished, disk, locals
  <1>. QED BY <1>1, <1>3, <1>4, <1>5, <1>7, DiskKept, BoundKept DEF disk

LEMMA RestoreKeeps == ASSUME Bound, NEW p \in Procs, Restore(p) PROVE Bound'
  <1>1. /\ pc[p] = "restore" /\ Go(p, "confirm") /\ desktop = Absent /\ desktop' = stage[p]
        /\ UNCHANGED <<history, receipt, predecessor, displaced, proofs, lock, locals, kills, externals>>
    BY DEF Restore, At
  <1>2. PlanKnows(p) BY DEF Bound
  <1>3. stage[p] \in Apps BY <1>1, <1>2 DEF PlanKnows, Applying, Plans
  <1>4. /\ lock = p /\ LockFollows' /\ pc'[p] = "confirm" /\ pc' \in [Procs -> Control]
        /\ \A q \in Procs \ {p} : pc'[q] = pc[q]
    BY <1>1, GoesOn DEF Control, Applying
  <1>5. TypeOK' BY <1>1, <1>3, <1>4 DEF Bound, TypeOK, locals
  <1>6. Elsewhere(p) BY <1>1, <1>4 DEF Elsewhere, locals
  <1>7. Fresh' /\ Whole' /\ ProofsBind' BY <1>1, <1>3 DEF Bound, Fresh, Whole, ProofsBind
  <1>8. RunKnows(p)' /\ PlanKnows(p)'
    BY <1>1, <1>2, <1>4 DEF RunKnows, PlanKnows, Busy, Refreshing, Applying, locals
  <1>. QED BY <1>1, <1>4, <1>5, <1>6, <1>7, <1>8, BoundKept

\* What a recovery that is about to leave its proof, or has left it, knows.
LEMMA Proving ==
  ASSUME Bound, NEW p \in Procs, pc[p] \in {"confirm", "confirmed"}
  PROVE  /\ lock = p
         /\ plan[p] \in Plans /\ plan[p].attempt \in history /\ plan[p].attempt \in Attempts
         /\ plan[p].inventory \in {plan[p].receipt.old, plan[p].receipt.new}
         /\ plan[p].receipt = receipt[plan[p].attempt]
         /\ ProofOf(p) \in Proofs
  <1>1. /\ plan[p] \in Plans /\ plan[p].attempt \in history /\ plan[p].attempt \in Attempts
        /\ plan[p].inventory \in {plan[p].receipt.old, plan[p].receipt.new}
        /\ plan[p].receipt = receipt[plan[p].attempt]
    BY DEF Bound, TypeOK, PlanKnows, Applying
  <1>2. ProofOf(p) \in Proofs BY <1>1 DEF ProofOf, Plans, Proofs
  <1>3. lock = p BY DEF Bound, LockFollows
  <1>. QED BY <1>1, <1>2, <1>3

LEMMA ConfirmKeeps == ASSUME Bound, NEW p \in Procs, Confirm(p) PROVE Bound'
  <1>1. /\ pc[p] = "confirm" /\ Go(p, "confirmed")
        /\ proofs' = [proofs EXCEPT ![plan[p].attempt] = @ \cup {ProofOf(p)}]
        /\ UNCHANGED <<desktop, history, receipt, predecessor, displaced, lock, locals, kills, externals>>
    BY DEF Confirm, At
  <1>2. PlanKnows(p) BY DEF Bound
  <1>3. /\ lock = p /\ LockFollows' /\ pc'[p] = "confirmed" /\ pc' \in [Procs -> Control]
        /\ \A q \in Procs \ {p} : pc'[q] = pc[q]
    BY <1>1, GoesOn DEF Control, Applying
  <1>4. proofs' \in [Attempts -> SUBSET Proofs] BY <1>1, Proving DEF Bound, TypeOK
  <1>5. TypeOK' BY <1>1, <1>3, <1>4 DEF Bound, TypeOK, locals
  <1>6. Elsewhere(p) BY <1>1, <1>3 DEF Elsewhere, locals
  <1>7. Whole' BY <1>1 DEF Bound, Whole
  <1>8. Fresh' BY <1>1, Proving DEF Bound, TypeOK, Fresh
  <1>9. ProofsBind' BY <1>1, Proving DEF Bound, TypeOK, ProofsBind, ProofOf
  <1>10. RunKnows(p)' /\ PlanKnows(p)'
    BY <1>1, <1>2, <1>3 DEF RunKnows, PlanKnows, Busy, Refreshing, Applying, locals
  <1>. QED BY <1>1, <1>3, <1>5, <1>6, <1>7, <1>8, <1>9, <1>10, BoundKept

LEMMA WithdrawKeeps == ASSUME Bound, NEW p \in Procs, Withdraw(p) PROVE Bound'
  <1>1. /\ pc[p] = "confirmed" /\ Leave(p)
        /\ proofs' = [proofs EXCEPT ![plan[p].attempt] = @ \ {ProofOf(p)}]
        /\ UNCHANGED <<desktop, history, receipt, predecessor, displaced, kills, externals>>
    BY DEF Withdraw, At
  <1>2. \A a \in Attempts : proofs'[a] \subseteq proofs[a]
    BY <1>1 DEF Bound, TypeOK
  <1>3. proofs' \in [Attempts -> SUBSET Proofs] BY <1>1, <1>2 DEF Bound, TypeOK
  <1>4. TypeOK' BY <1>1, <1>3, Leaving DEF Bound, TypeOK
  <1>5. Whole' /\ Fresh' /\ ProofsBind' BY <1>1, <1>2 DEF Bound, Whole, Fresh, ProofsBind
  <1>. QED BY <1>1, <1>4, <1>5, Proving, Leaves, BoundKept

-----------------------------------------------------------------------------
LEMMA DeclineKeeps == ASSUME Bound, NEW p \in Procs, Decline(p) PROVE Bound'
  <1>1. Leave(p) /\ UNCHANGED <<disk, kills, externals>> BY DEF Decline
  <1>2. TypeOK' BY <1>1, Leaving DEF Bound, TypeOK, disk
  <1>. QED BY <1>1, <1>2, Leaves, DiskKept, BoundKept DEF disk

LEMMA KillKeeps == ASSUME Bound, NEW p \in Procs, Kill(p) PROVE Bound'
  <1>1. Leave(p) /\ UNCHANGED <<disk, externals>> /\ kills < MaxKills /\ kills' = kills + 1
    BY DEF Kill
  <1>2. kills' \in 0 .. MaxKills BY <1>1, DesktopConstants DEF Bound, TypeOK
  <1>3. TypeOK' BY <1>1, <1>2, Leaving DEF Bound, TypeOK, disk
  <1>. QED BY <1>1, <1>3, Leaves, DiskKept, BoundKept DEF disk

LEMMA ExternalKeeps == ASSUME Bound, External PROVE Bound'
  <1>1. /\ desktop' \in Apps /\ externals < MaxExternals /\ externals' = externals + 1
        /\ UNCHANGED <<history, receipt, predecessor, displaced, proofs, lock, pc, locals, kills>>
    BY DEF External
  <1>2. TypeOK' BY <1>1, DesktopConstants DEF Bound, TypeOK, locals, Apps, Copies
  <1>. QED BY <1>1, <1>2 DEF Bound, LockFollows, Fresh, Whole, ProofsBind, RunKnows, PlanKnows,
                             Unfinished, locals

LEMMA InitBound == Init => Bound
  <1>. SUFFICES ASSUME Init PROVE Bound OBVIOUS
  <1>1. TypeOK BY DesktopConstants DEF Init, TypeOK, Apps, Copies, Control
  <1>2. \A p \in Procs : RunKnows(p) /\ PlanKnows(p)
    BY DEF Init, RunKnows, PlanKnows, Busy, Refreshing, Applying
  <1>. QED BY <1>1, <1>2, Distinct DEF Init, Bound, LockFollows, Fresh, Whole, ProofsBind, Apps

LEMMA StepBound == ASSUME Bound, [Next]_vars PROVE Bound'
  <1>1. CASE UNCHANGED vars
    BY <1>1 DEF vars, disk, locals, Bound, TypeOK, LockFollows, Fresh, Whole, ProofsBind, RunKnows,
                PlanKnows, Unfinished
  <1>2. CASE External BY <1>2, ExternalKeeps
  <1>3. ASSUME NEW p \in Procs, RefreshStep(p) PROVE Bound'
    BY <1>3, RefreshKeeps, AdmitKeeps, JournalKeeps, CopyCandidateKeeps, CompareKeeps,
       KeepPredecessorKeeps, CopiesVerifiedKeeps, DisplaceKeeps, NoteDisplacedKeeps,
       NothingToDisplaceKeeps, PublishKeeps, CompleteKeeps, FailKeeps, PutBackKeeps, ReportKeeps
    DEF RefreshStep
  <1>4. ASSUME NEW p \in Procs, RecoveryStep(p) PROVE Bound'
    BY <1>4, ReviewKeeps, ApplyKeeps, StageCopyKeeps, CompareStageKeeps, RestoreKeeps, ConfirmKeeps,
       WithdrawKeeps
    DEF RecoveryStep
  <1>. QED BY <1>1, <1>2, <1>3, <1>4, DeclineKeeps, KillKeeps DEF Next

LEMMA AlwaysBound == Spec => []Bound
  BY InitBound, StepBound, PTL DEF Spec

\* Every variable stays in its type.
THEOREM TypeCorrect == Spec => []TypeOK
  <1>1. Bound => TypeOK BY DEF Bound
  <1>. QED BY <1>1, AlwaysBound, PTL

\* No partial copy is ever installed, whatever other programs do.
THEOREM InstallsWhole == Spec => []OnlyWhole
  <1>1. Bound => OnlyWhole BY Distinct DEF Bound, Whole, OnlyWhole
  <1>. QED BY <1>1, AlwaysBound, PTL

\* A proof of a recovery stays bound to the journal it was given for.
THEOREM ProofsStayBound == Spec => []ProofsBind
  <1>1. Bound => ProofsBind BY DEF Bound
  <1>. QED BY <1>1, AlwaysBound, PTL

-----------------------------------------------------------------------------
(* What a step does to the journals and to the apps.                       *)

\* Until its journal is completed a running refresh's attempt holds.
LEMMA RunningHolds ==
  ASSUME Bound, NEW p \in Procs, pc[p] \in Busy
  PROVE  /\ ~ Recovered(mine[p])
         /\ Holding(mine[p]) \/ pc[p] \in {"completed", "failing", "report"}
  <1>1. RunKnows(p) BY DEF Bound
  <1>. QED BY <1>1, Owner DEF Holding, Recovered, Unfinished, RunKnows

\* A journal is only rewritten by the refresh that runs on it, and a proof is
\* only withdrawn by the recovery that left it.
LEMMA JournalsStep ==
  ASSUME Bound, [Next]_vars, NEW a \in Attempts
  PROVE  \/ receipt'[a] = receipt[a] /\ proofs[a] \subseteq proofs'[a]
         \/ \E p \in Procs : a = mine[p] /\ pc[p] \in {"journal", "check", "note", "readback", "report"}
         \/ \E p \in Procs : Withdraw(p) /\ a = plan[p].attempt
  <1>1. CASE UNCHANGED vars BY <1>1 DEF vars, disk
  <1>2. CASE External BY <1>2 DEF External
  <1>3. ASSUME NEW p \in Procs, RefreshStep(p)
        PROVE  \/ receipt'[a] = receipt[a] /\ proofs[a] \subseteq proofs'[a]
               \/ a = mine[p] /\ pc[p] \in {"journal", "check", "note", "readback", "report"}
    <2>1. CASE Journal(p) \/ CopiesVerified(p) \/ NoteDisplaced(p) \/ Complete(p)
      <3>1. pc[p] \in {"journal", "check", "note", "readback"}
        BY <2>1 DEF Journal, CopiesVerified, NoteDisplaced, Complete, At
      <3>2. receipt' = [receipt EXCEPT ![mine[p]] = record'[p]] /\ proofs' = proofs
        BY <2>1 DEF Journal, CopiesVerified, NoteDisplaced, Complete, Write
      <3>. QED BY <3>1, <3>2 DEF Bound, TypeOK
    <2>2. CASE Report(p)
      <3>1. pc[p] = "report" BY <2>2 DEF Report, At
      <3>2. proofs' = proofs /\ \A b \in Attempts \ {mine[p]} : receipt'[b] = receipt[b]
        BY <2>2 DEF Report, Bound, TypeOK
      <3>. QED BY <3>1, <3>2
    <2>3. CASE Refresh(p) \/ CopyCandidate(p) \/ Compare(p) \/ NothingToDisplace(p) \/ Fail(p)
      BY <2>3 DEF Refresh, CopyCandidate, Compare, NothingToDisplace, Fail, disk
    <2>4. CASE Admit(p) \/ KeepPredecessor(p) \/ Displace(p) \/ Publish(p) \/ PutBack(p)
      BY <2>4 DEF Admit, KeepPredecessor, Displace, Publish, PutBack
    <2>. QED BY <1>3, <2>1, <2>2, <2>3, <2>4 DEF RefreshStep
  <1>4. ASSUME NEW p \in Procs, RecoveryStep(p)
        PROVE  \/ receipt'[a] = receipt[a] /\ proofs[a] \subseteq proofs'[a]
               \/ Withdraw(p) /\ a = plan[p].attempt
    <2>1. CASE Confirm(p)
      BY <2>1 DEF Confirm, Bound, TypeOK
    <2>2. CASE Restore(p) BY <2>2 DEF Restore
    <2>3. CASE Withdraw(p)
      <3>1. receipt' = receipt /\ (a # plan[p].attempt => proofs'[a] = proofs[a])
        BY <2>3 DEF Withdraw, Bound, TypeOK
      <3>. QED BY <2>3, <3>1
    <2>. QED BY <1>4, <2>1, <2>2, <2>3 DEF RecoveryStep, Review, Apply, StageCopy, CompareStage, disk
  <1>5. ASSUME NEW p \in Procs, Decline(p) \/ Kill(p) PROVE receipt' = receipt /\ proofs' = proofs
    BY <1>5 DEF Decline, Kill, disk
  <1>. QED BY <1>1, <1>2, <1>3, <1>4, <1>5 DEF Next

\* What a call has under way that would hold if its last write failed now.
Claims(p, a) ==
  \/ pc[p] \in Busy /\ mine[p] = a
  \/ /\ pc[p] = "confirmed" /\ plan[p].attempt = a /\ proofs[a] = {ProofOf(p)}
     /\ receipt[a].state # "completed" /\ ~ receipt[a].settled

LEMMA Reopens ==
  ASSUME Bound, [Next]_vars, NEW a \in history, ~ Holding(a), Holding(a)'
  PROVE  \E p \in Procs : AtWork(p, a) /\ Claims(p, a)
  <1>1. a \in Attempts BY DEF Bound, TypeOK
  <1>2. ~ (receipt'[a] = receipt[a] /\ proofs[a] \subseteq proofs'[a])
    BY DEF Holding, Recovered
  <1>3. CASE \E p \in Procs : a = mine[p] /\ pc[p] \in {"journal", "check", "note", "readback", "report"}
    <2>1. PICK p \in Procs : a = mine[p] /\ pc[p] \in {"journal", "check", "note", "readback", "report"}
      BY <1>3
    <2>2. pc[p] \in Busy BY <2>1 DEF Busy, Refreshing
    <2>3. pc[p] = "report" BY <2>1, <2>2, RunningHolds
    <2>4. lock = p BY <2>2, Owner
    <2>. QED BY <2>1, <2>2, <2>3, <2>4 DEF AtWork, Claims
  <1>4. CASE \E p \in Procs : Withdraw(p) /\ a = plan[p].attempt
    <2>1. PICK p \in Procs : Withdraw(p) /\ a = plan[p].attempt BY <1>4
    <2>2. /\ pc[p] = "confirmed" /\ receipt' = receipt /\ proofs'[a] = proofs[a] \ {ProofOf(p)}
      BY <1>1, <2>1 DEF Withdraw, At, Bound, TypeOK
    <2>3. /\ receipt[a] # NoReceipt /\ Recovered(a)
          /\ receipt[a].state # "completed" /\ ~ receipt[a].settled /\ ~ Recovered(a)'
      BY <2>2 DEF Holding
    <2>4. \A proof \in proofs[a] : proof.receipt = receipt[a]
      BY <1>1 DEF Bound, ProofsBind
    <2>5. proofs'[a] = {} /\ proofs[a] # {} BY <2>2, <2>3, <2>4 DEF Recovered
    <2>6. proofs[a] = {ProofOf(p)} BY <2>2, <2>5
    <2>. QED BY <2>1, <2>2, <2>3, <2>6, Proving DEF AtWork, Claims
  <1>. QED BY <1>1, <1>2, <1>3, <1>4, JournalsStep

\* An attempt that stopped holding refreshes holds them again only through the
\* call that completed it, before that call is over.
THEOREM NothingReopens == Spec => NeverReopened
  <1>1. Bound /\ [Next]_vars => [\A a \in history : ~ Holding(a) /\ Holding(a)' =>
          \E p \in Procs : AtWork(p, a)]_vars
    BY Reopens
  <1>. QED BY <1>1, AlwaysBound, PTL DEF Spec, NeverReopened

Moves ==
  /\ desktop' # desktop /\ desktop # Absent =>
       /\ desktop' = Absent
       /\ \E a \in history : displaced[a] = Absent /\ displaced'[a] = desktop
  /\ \A a \in history : displaced'[a] # displaced[a] /\ displaced[a] # Absent =>
       desktop = Absent /\ desktop' = displaced[a] /\ displaced'[a] = Absent

LEMMA AppsStep == ASSUME Bound, [Next]_vars, externals' = externals PROVE Moves
  <1>1. CASE UNCHANGED vars BY <1>1 DEF vars, disk, Moves
  <1>2. CASE External
    <2>1. externals \in Nat BY DesktopConstants DEF Bound, TypeOK
    <2>. QED BY <1>2, <2>1 DEF External
  <1>3. ASSUME NEW p \in Procs, RefreshStep(p) PROVE Moves
    <2>1. CASE Displace(p)
      <3>1. pc[p] \in Busy BY <2>1 DEF Displace, At, Busy, Refreshing
      <3>2. mine[p] \in history /\ mine[p] \in Attempts BY <3>1, Owner
      <3>. QED BY <2>1, <3>2 DEF Displace, Moves, Bound, TypeOK
    <2>2. CASE PutBack(p)
      <3>1. pc[p] \in Busy BY <2>2 DEF PutBack, At, Busy, Refreshing
      <3>2. mine[p] \in history /\ mine[p] \in Attempts BY <3>1, Owner
      <3>. QED BY <2>2, <3>2 DEF PutBack, Moves, Bound, TypeOK
    <2>3. CASE Publish(p) BY <2>3 DEF Publish, Moves
    <2>4. CASE Refresh(p) \/ CopyCandidate(p) \/ Compare(p) \/ NothingToDisplace(p) \/ Fail(p)
      BY <2>4 DEF Refresh, CopyCandidate, Compare, NothingToDisplace, Fail, disk, Moves
    <2>5. CASE Admit(p) \/ KeepPredecessor(p) \/ Journal(p) \/ CopiesVerified(p) \/ NoteDisplaced(p)
      BY <2>5 DEF Admit, KeepPredecessor, Journal, CopiesVerified, NoteDisplaced, Moves
    <2>6. CASE Complete(p) \/ Report(p) BY <2>6 DEF Complete, Report, Moves
    <2>. QED BY <1>3, <2>1, <2>2, <2>3, <2>4, <2>5, <2>6 DEF RefreshStep
  <1>4. ASSUME NEW p \in Procs, RecoveryStep(p) PROVE Moves
    <2>1. CASE Restore(p) BY <2>1 DEF Restore, Moves
    <2>2. CASE Confirm(p) \/ Withdraw(p) BY <2>2 DEF Confirm, Withdraw, Moves
    <2>. QED BY <1>4, <2>1, <2>2 DEF RecoveryStep, Review, Apply, StageCopy, CompareStage, disk, Moves
  <1>5. ASSUME NEW p \in Procs, Decline(p) \/ Kill(p) PROVE Moves
    BY <1>5 DEF Decline, Kill, disk, Moves
  <1>. QED BY <1>1, <1>2, <1>3, <1>4, <1>5 DEF Next

\* An app found under the name or moved aside is moved, never dropped.
THEOREM NothingIsDropped == Spec => NothingDropped
  <1>1. Bound /\ [Next]_vars => [externals' = externals => Moves]_vars BY AppsStep
  <1>. QED BY <1>1, AlwaysBound, PTL DEF Spec, NothingDropped, Moves

-----------------------------------------------------------------------------
(* While no other program touches the app.                                 *)

\* The app is what the running refresh found,
Undisturbed(p) ==
  /\ pc[p] \in {"journal", "copy", "compare", "keep", "check", "displace"} => desktop = record[p].old
  /\ pc[p] \in {"failing", "report"} /\ receipt[mine[p]] = NoReceipt => desktop = record[p].old
  /\ pc[p] = "report" /\ record[p].settled => desktop = record[p].old
  /\ pc[p] \in Busy /\ receipt[mine[p]].state = "completed" => desktop = record[p].new

\* the copies an attempt retains are of the predecessor it journaled,
CopiesOf(a) ==
  /\ receipt[a] = NoReceipt => predecessor[a] = Absent /\ displaced[a] = Absent
  /\ receipt[a] # NoReceipt =>
       /\ displaced[a] \in {Absent, receipt[a].old}
       /\ predecessor[a] \in {Absent, Torn, receipt[a].old}
       /\ predecessor[a] = Torn => receipt[a].old # Absent

\* one attempt at most holds refreshes, none but the one a call has under way,
OneHolder == \A a, b \in history : Holding(a) /\ Holding(b) => a = b
SoleClaim == \A p \in Procs : \A a, b \in history : Claims(p, a) /\ Holding(b) => b = a

\* and an absent app was either never there or is kept twice by the holder.
Gap(a) ==
  /\ receipt[a] # NoReceipt /\ Holding(a)
  /\ receipt[a].old # Absent
  /\ predecessor[a] = receipt[a].old /\ displaced[a] = receipt[a].old

GapKept == desktop = Absent =>
  \/ \A a \in history : receipt[a] # NoReceipt => receipt[a].old = Absent
  \/ \E a \in history : Gap(a)

Kept == externals = 0 =>
  /\ \A p \in Procs : Undisturbed(p)
  /\ \A a \in Attempts : CopiesOf(a)
  /\ GapKept

LEMMA Others ==
  ASSUME Bound, NEW p \in Procs,
         RefreshStep(p) \/ RecoveryStep(p) \/ Decline(p) \/ Kill(p)
  PROVE  Elsewhere(p) /\ UNCHANGED externals /\ (lock = p \/ UNCHANGED disk)
  <1>1. CASE \/ Journal(p) \/ CopiesVerified(p) \/ NoteDisplaced(p) \/ Complete(p)
    <2>1. pc[p] \in Busy /\ pc[p] \notin {"idle", "reviewed"}
      BY <1>1 DEF Journal, CopiesVerified, NoteDisplaced, Complete, At, Busy, Refreshing
    <2>. QED BY <1>1, <2>1 DEF Journal, CopiesVerified, NoteDisplaced, Complete, Write, Go, Bound,
                          TypeOK, LockFollows, Elsewhere
  <1>2. CASE Displace(p) \/ Publish(p) \/ Restore(p) \/ KeepPredecessor(p) \/ Confirm(p)
    BY <1>2 DEF Displace, Publish, Restore, KeepPredecessor, Confirm, At, Go, locals, Bound, TypeOK,
                LockFollows, Elsewhere
  <1>3. CASE Admit(p) \/ PutBack(p)
    BY <1>3 DEF Admit, PutBack, At, Go, Bound, TypeOK, LockFollows, Elsewhere
  <1>4. CASE Refresh(p) \/ CopyCandidate(p) \/ Compare(p) \/ NothingToDisplace(p) \/ Fail(p)
    BY <1>4 DEF Refresh, CopyCandidate, Compare, NothingToDisplace, Fail, Go, locals, Bound, TypeOK,
                Elsewhere
  <1>5. CASE \E a \in Attempts : Review(p, a)
    BY <1>5 DEF Review, Go, Bound, TypeOK, Elsewhere
  <1>6. CASE Apply(p) \/ StageCopy(p) \/ CompareStage(p)
    BY <1>6 DEF Apply, StageCopy, CompareStage, Go, locals, Bound, TypeOK, Elsewhere
  <1>7. CASE Report(p) \/ Withdraw(p)
    <2>1. pc[p] \notin {"idle", "reviewed"} /\ Leave(p) /\ UNCHANGED externals
      BY <1>7 DEF Report, Withdraw, At
    <2>. QED BY <2>1, Leaves DEF Bound, LockFollows
  <1>8. CASE Decline(p) \/ Kill(p)
    BY <1>8, Leaves DEF Decline, Kill
  <1>. QED BY <1>1, <1>2, <1>3, <1>4, <1>5, <1>6, <1>7, <1>8 DEF RefreshStep, RecoveryStep

\* One call at most has an attempt under way, and that is one attempt.
LEMMA OneClaim ==
  ASSUME Bound, NEW p \in Procs, NEW a, Claims(p, a)
  PROVE  lock = p /\ \A q \in Procs : \A b : Claims(q, b) => q = p /\ b = a
  <1>1. "confirmed" \notin Busy BY DEF Busy, Refreshing
  <1>2. \A q \in Procs : \A b : Claims(q, b) => lock = q
    BY Owner DEF Bound, LockFollows, Claims
  <1>. QED BY <1>1, <1>2 DEF Claims

LEMMA HeldBefore ==
  ASSUME Bound, [Next]_vars, NEW a \in history, Holding(a)'
  PROVE  Holding(a) \/ \E p \in Procs : Claims(p, a)
  BY Reopens

\* How a call comes to have an attempt under way.
LEMMA ClaimStep ==
  ASSUME Bound, NEW p \in Procs, RefreshStep(p) \/ RecoveryStep(p) \/ Decline(p) \/ Kill(p),
         pc'[p] \in Busy \cup {"confirmed"}
  PROVE  \/ Admit(p) \/ Confirm(p)
         \/ pc[p] \in Busy /\ pc'[p] \in Busy /\ mine'[p] = mine[p] /\ history' = history
  <1>0. pc \in [Procs -> Control] /\ TypeOK BY DEF Bound, TypeOK
  <1>1. CASE Journal(p) \/ CopiesVerified(p) \/ NoteDisplaced(p) \/ Complete(p)
    BY <1>0, <1>1 DEF Journal, CopiesVerified, NoteDisplaced, Complete, At, Go, Busy, Refreshing
  <1>2. CASE Displace(p) \/ Publish(p) \/ KeepPredecessor(p) \/ PutBack(p)
    BY <1>0, <1>2 DEF Displace, Publish, KeepPredecessor, PutBack, At, Go, Busy, Refreshing, locals
  <1>3. CASE CopyCandidate(p) \/ Compare(p) \/ NothingToDisplace(p) \/ Fail(p)
    BY <1>0, <1>3 DEF CopyCandidate, Compare, Retention, NothingToDisplace, Fail, At, Go, Busy,
                      Refreshing, disk, locals
  <1>4. CASE Refresh(p) \/ (\E a \in Attempts : Review(p, a)) \/ Apply(p) \/ StageCopy(p)
             \/ CompareStage(p) \/ Restore(p)
    <2>1. pc'[p] \in {"scan", "reviewed", "stage", "confirm", "compare stage", "restore"}
      BY <1>0, <1>4 DEF Refresh, Review, Apply, StageCopy, CompareStage, Restore, Go
    <2>. QED BY <2>1 DEF Busy, Refreshing
  <1>5. CASE Report(p) \/ Withdraw(p) \/ Decline(p) \/ Kill(p)
    <2>1. pc'[p] = "idle" BY <1>0, <1>5, Leaving DEF Report, Withdraw, Decline, Kill
    <2>. QED BY <2>1 DEF Busy, Refreshing
  <1>. QED BY <1>1, <1>2, <1>3, <1>4, <1>5 DEF RefreshStep, RecoveryStep

\* A refresh is admitted when nothing holds, so only its own attempt does then.
LEMMA AdmittedHolds ==
  ASSUME Bound, [Next]_vars, NEW p \in Procs, Admit(p)
  PROVE  /\ \A b \in history : ~ Holding(b)'
         /\ \E a \in Attempts \ history : history' = history \cup {a} /\ mine'[p] = a
         /\ pc'[p] = "journal"
  <1>1. pc[p] = "scan" /\ lock = p BY DEF Admit, At, Bound, LockFollows
  <1>2. \A q \in Procs : \A b : ~ Claims(q, b)
    BY <1>1, OneClaim DEF Claims, Busy, Refreshing
  <1>3. \A b \in history : ~ Holding(b)' BY <1>2, HeldBefore DEF Admit, Held
  <1>. QED BY <1>3 DEF Admit, Go, Bound, TypeOK

LEMMA HistoryStep ==
  ASSUME [Next]_vars PROVE history' = history \/ \E p \in Procs : Admit(p)
  BY DEF Next, RefreshStep, RecoveryStep, External, Refresh, Journal, CopyCandidate, Compare,
     KeepPredecessor, CopiesVerified, Displace, NoteDisplaced, NothingToDisplace, Publish,
     Complete, Fail, PutBack, Report, Review, Apply, StageCopy, CompareStage, Restore, Confirm,
     Withdraw, Decline, Kill, vars, disk

LEMMA HoldersStep == ASSUME Bound, OneHolder, SoleClaim, [Next]_vars PROVE OneHolder'
  <1>1. CASE history' = history
    <2>. SUFFICES ASSUME NEW a \in history, NEW b \in history, Holding(a)', Holding(b)' PROVE a = b
      BY <1>1 DEF OneHolder
    <2>1. CASE Holding(a) /\ Holding(b) BY <2>1 DEF OneHolder
    <2>2. ASSUME NEW p \in Procs, Claims(p, a) PROVE a = b
      BY <2>2, HeldBefore, OneClaim DEF SoleClaim
    <2>3. ASSUME NEW p \in Procs, Claims(p, b) PROVE a = b
      BY <2>3, HeldBefore, OneClaim DEF SoleClaim
    <2>. QED BY <2>1, <2>2, <2>3, HeldBefore
  <1>2. ASSUME NEW p \in Procs, Admit(p) PROVE OneHolder'
    BY <1>2, AdmittedHolds DEF OneHolder
  <1>. QED BY <1>1, <1>2, HistoryStep

LEMMA ClaimsStep == ASSUME Bound, OneHolder, SoleClaim, [Next]_vars PROVE SoleClaim'
  <1>. SUFFICES ASSUME NEW p \in Procs, NEW a \in history', NEW b \in history',
                       Claims(p, a)', Holding(b)'
                PROVE  b = a
    BY DEF SoleClaim
  <1>1. CASE UNCHANGED <<history, receipt, proofs, pc, mine, plan>>
    <2>1. Claims(p, a) /\ Holding(b) BY <1>1 DEF Claims, ProofOf, Holding, Recovered
    <2>. QED BY <1>1, <2>1 DEF SoleClaim
  <1>2. CASE UNCHANGED vars BY <1>1, <1>2 DEF vars, disk, locals
  <1>3. CASE External BY <1>1, <1>3 DEF External, locals
  <1>4. ASSUME NEW q \in Procs \ {p}, RefreshStep(q) \/ RecoveryStep(q) \/ Decline(q) \/ Kill(q)
        PROVE  b = a
    <2>1. Elsewhere(q) /\ (lock = q \/ UNCHANGED disk) BY <1>4, Others
    <2>2. pc'[p] = pc[p] /\ mine'[p] = mine[p] /\ plan'[p] = plan[p] BY <2>1 DEF Elsewhere
    <2>3. pc[p] \in Busy \cup {"confirmed"} BY <2>2 DEF Claims
    <2>4. lock = p BY <2>3 DEF Bound, LockFollows, Busy, Refreshing
    <2>5. UNCHANGED disk BY <2>1, <2>4
    <2>6. Claims(p, a) /\ Holding(b) BY <2>2, <2>5 DEF Claims, ProofOf, Holding, Recovered, disk
    <2>. QED BY <2>5, <2>6 DEF SoleClaim, disk
  <1>5. CASE RefreshStep(p) \/ RecoveryStep(p) \/ Decline(p) \/ Kill(p)
    <2>1. pc'[p] \in Busy \cup {"confirmed"} BY DEF Claims
    <2>2. CASE Admit(p)
      <3>1. PICK x \in Attempts \ history : history' = history \cup {x} /\ mine'[p] = x
        BY <2>2, AdmittedHolds
      <3>2. pc'[p] = "journal" /\ \A c \in history : ~ Holding(c)' BY <2>2, AdmittedHolds
      <3>3. a = x BY <3>1, <3>2 DEF Claims
      <3>. QED BY <3>1, <3>2, <3>3
    <2>3. CASE Confirm(p)
      <3>1. /\ pc[p] = "confirm" /\ pc'[p] = "confirmed" /\ ProofOf(p) \notin proofs[plan[p].attempt]
            /\ proofs' = [proofs EXCEPT ![plan[p].attempt] = @ \cup {ProofOf(p)}]
            /\ UNCHANGED <<history, receipt, plan>>
        BY <2>3 DEF Confirm, At, Go, locals, Bound, TypeOK
      <3>2. a = plan[p].attempt /\ proofs'[a] = {ProofOf(p)} /\ receipt[a].state # "completed"
            /\ ~ receipt[a].settled
        BY <3>1 DEF Claims, ProofOf, Busy, Refreshing
      <3>3. a \in Attempts /\ a \in history /\ b \in history /\ b \in Attempts
        BY <3>1 DEF Bound, TypeOK
      <3>4. proofs[a] = {} /\ (b # a => proofs'[b] = proofs[b])
        BY <3>1, <3>2, <3>3 DEF Bound, TypeOK
      <3>5. Holding(a) BY <3>2, <3>4 DEF Holding, Recovered
      <3>6. b # a => Holding(b) BY <3>1, <3>4 DEF Holding, Recovered
      <3>. QED BY <3>3, <3>5, <3>6 DEF OneHolder
    <2>4. CASE pc[p] \in Busy /\ pc'[p] \in Busy /\ mine'[p] = mine[p] /\ history' = history
      <3>1. Claims(p, a) BY <2>4 DEF Claims, Busy, Refreshing
      <3>. QED BY <2>4, <3>1, HeldBefore, OneClaim DEF SoleClaim
    <2>. QED BY <1>5, <2>1, <2>2, <2>3, <2>4, ClaimStep
  <1>. QED BY <1>2, <1>3, <1>4, <1>5 DEF Next

LEMMA UndisturbedOthers ==
  ASSUME Bound, NEW p \in Procs, NEW q \in Procs \ {p}, Undisturbed(q),
         RefreshStep(p) \/ RecoveryStep(p) \/ Decline(p) \/ Kill(p)
  PROVE  Undisturbed(q)'
  <1>1. Elsewhere(p) /\ (lock = p \/ UNCHANGED disk) BY Others
  <1>2. CASE UNCHANGED disk BY <1>1, <1>2 DEF Undisturbed, Elsewhere, disk
  <1>3. CASE lock = p
    <2>1. pc'[q] \in {"idle", "reviewed"} BY <1>1, <1>3 DEF Bound, LockFollows, Elsewhere
    <2>. QED BY <2>1 DEF Undisturbed, Busy, Refreshing
  <1>. QED BY <1>1, <1>2, <1>3

LEMMA UndisturbedOwn ==
  ASSUME Bound, NEW p \in Procs, Undisturbed(p), \A a \in Attempts : CopiesOf(a),
         RefreshStep(p) \/ RecoveryStep(p) \/ Decline(p) \/ Kill(p)
  PROVE  Undisturbed(p)'
  <1>0. /\ pc \in [Procs -> Control] /\ mine \in [Procs -> Attempts \cup {None}]
        /\ record \in [Procs -> Receipts \cup {NoReceipt}]
    BY DEF Bound, TypeOK
  <1>i. RunKnows(p)' BY StepBound DEF Next, Bound
  <1>1. CASE Refresh(p) \/ Displace(p) \/ NoteDisplaced(p) \/ NothingToDisplace(p) \/ Publish(p)
    <2>1. pc'[p] \in {"scan", "note", "publish", "readback"}
      BY <1>0, <1>1 DEF Refresh, Displace, NoteDisplaced, NothingToDisplace, Publish, Go
    <2>. QED BY <1>i, <2>1 DEF Undisturbed, RunKnows
  <1>8. CASE Complete(p)
    <2>1. pc[p] = "readback" /\ pc'[p] = "completed" /\ desktop' = record[p].new
          /\ Write(p, "completed")
      BY <1>0, <1>8 DEF Complete, At, Go
    <2>2. pc[p] \in Busy BY <2>1 DEF Busy, Refreshing
    <2>3. record'[p].new = record[p].new BY <2>1, <2>2, Owner, Writing DEF Bound, States
    <2>. QED BY <2>1, <2>3 DEF Undisturbed
  <1>2. CASE Admit(p)
    <2>1. pc[p] = "scan" /\ record[p] \in Receipts BY <1>2 DEF Admit, At, Bound, RunKnows
    <2>2. pc'[p] = "journal" /\ record'[p] = [record[p] EXCEPT !.old = desktop] /\ desktop' = desktop
      BY <1>0, <1>2 DEF Admit, Go
    <2>3. record'[p].old = desktop BY <2>1, <2>2 DEF Receipts
    <2>. QED BY <1>i, <2>2, <2>3 DEF Undisturbed, RunKnows
  <1>3. CASE Journal(p) \/ CopiesVerified(p)
    <2>1. pc[p] \in {"journal", "check"} /\ pc'[p] \in {"copy", "displace"} /\ desktop' = desktop
      BY <1>0, <1>3 DEF Journal, CopiesVerified, At, Go
    <2>2. pc[p] \in Busy BY <2>1 DEF Busy, Refreshing
    <2>3. \E state \in States : Write(p, state) BY <1>3 DEF Journal, CopiesVerified, States
    <2>4. record'[p].old = record[p].old BY <2>2, <2>3, Owner, Writing DEF Bound
    <2>. QED BY <1>i, <2>1, <2>4 DEF Undisturbed, RunKnows
  <1>4. CASE CopyCandidate(p) \/ Compare(p) \/ KeepPredecessor(p)
    <2>1. /\ pc[p] \in {"copy", "compare", "keep"} /\ pc'[p] \in {"compare", "keep", "check"}
          /\ desktop' = desktop /\ record' = record
      BY <1>0, <1>4 DEF CopyCandidate, Compare, KeepPredecessor, At, Go, Retention, disk, locals
    <2>. QED BY <1>i, <2>1 DEF Undisturbed, RunKnows
  <1>5. CASE Fail(p)
    <2>1. pc[p] \in Refreshing /\ pc'[p] = "failing" /\ UNCHANGED <<disk, locals>>
      BY <1>0, <1>5 DEF Fail, Go
    <2>2. pc[p] # "journal" => receipt[mine[p]] # NoReceipt
      BY <2>1 DEF Bound, RunKnows, Busy
    <2>3. pc[p] \in Busy BY <2>1 DEF Busy
    <2>. QED BY <2>1, <2>2, <2>3 DEF Undisturbed, disk, locals
  <1>6. CASE PutBack(p)
    <2>1. /\ pc[p] = "failing" /\ pc'[p] = "report" /\ mine' = mine /\ receipt' = receipt
          /\ \/ desktop' = desktop
             \/ /\ desktop' = displaced[mine[p]] /\ displaced[mine[p]] = record[p].old
                /\ desktop = Absent
      BY <1>0, <1>6 DEF PutBack, At, Go
    <2>2. PICK sure \in BOOLEAN : record'[p] = [record[p] EXCEPT !.state = "failed_retained",
            !.settled = sure /\ desktop' = record[p].old]
      BY <1>0, <1>6 DEF PutBack
    <2>3. record[p] \in Receipts BY <2>1, Owner DEF Busy
    <2>4. /\ record'[p].old = record[p].old /\ record'[p].new = record[p].new
          /\ record'[p].settled <=> sure /\ desktop' = record[p].old
      BY <2>2, <2>3 DEF Receipts
    <2>5. pc[p] \in Busy /\ record[p].new # Absent BY <2>1, Owner, Distinct DEF Busy
    <2>. QED BY <2>1, <2>4, <2>5 DEF Undisturbed
  <1>7. CASE RecoveryStep(p) \/ Decline(p) \/ Kill(p) \/ Report(p)
    <2>1. pc'[p] \in {"idle", "reviewed"} \cup Applying
      BY <1>0, <1>7 DEF RecoveryStep, Decline, Kill, Report, Leave, Review, Apply, StageCopy,
         CompareStage, Restore, Confirm, Withdraw, Go, Applying
    <2>. QED BY <2>1 DEF Undisturbed, Applying, Busy, Refreshing
  <1>. QED BY <1>1, <1>2, <1>3, <1>4, <1>5, <1>6, <1>7, <1>8 DEF RefreshStep

\* A new journal names the same predecessor, or is the first.
LEMMA CopiesWritten ==
  ASSUME Bound, NEW p \in Procs, pc[p] \in Busy, NEW a \in Attempts, CopiesOf(a),
         UNCHANGED <<predecessor, displaced>>,
         \A b \in Attempts \ {mine[p]} : receipt'[b] = receipt[b],
         \/ receipt'[mine[p]] = receipt[mine[p]]
         \/ receipt'[mine[p]].old = record[p].old /\ receipt'[mine[p]] \in Receipts,
         receipt[mine[p]] = NoReceipt \/ receipt[mine[p]].old = record[p].old
  PROVE  CopiesOf(a)'
  <1>1. CASE receipt'[a] = receipt[a] BY <1>1 DEF CopiesOf
  <1>2. CASE receipt'[a] # receipt[a]
    <2>1. a = mine[p] /\ receipt'[a].old = record[p].old /\ receipt'[a] # NoReceipt
      BY <1>2, Distinct
    <2>2. CASE receipt[a] = NoReceipt BY <2>1, <2>2, Distinct DEF CopiesOf, Apps
    <2>3. CASE receipt[a] # NoReceipt BY <2>1, <2>3 DEF CopiesOf
    <2>. QED BY <2>2, <2>3
  <1>. QED BY <1>1, <1>2

LEMMA CopiesStep ==
  ASSUME Bound, NEW p \in Procs, Undisturbed(p), NEW a \in Attempts, CopiesOf(a),
         RefreshStep(p) \/ RecoveryStep(p) \/ Decline(p) \/ Kill(p)
  PROVE  CopiesOf(a)'
  <1>1. CASE Journal(p) \/ CopiesVerified(p) \/ NoteDisplaced(p) \/ Complete(p)
    <2>1. pc[p] \in Busy
      BY <1>1 DEF Journal, CopiesVerified, NoteDisplaced, Complete, At, Busy, Refreshing
    <2>2. PICK state \in States : Write(p, state)
      BY <1>1 DEF Journal, CopiesVerified, NoteDisplaced, Complete, States
    <2>3. /\ receipt'[mine[p]].old = record[p].old /\ receipt'[mine[p]] \in Receipts
          /\ \A b \in Attempts \ {mine[p]} : receipt'[b] = receipt[b]
      BY <2>1, <2>2, Owner, Writing DEF Bound
    <2>4. UNCHANGED <<predecessor, displaced>> BY <1>1 DEF Journal, CopiesVerified, NoteDisplaced, Complete
    <2>5. receipt[mine[p]] = NoReceipt \/ receipt[mine[p]].old = record[p].old
      BY <2>1, Owner DEF Unfinished
    <2>. QED BY <2>1, <2>3, <2>4, <2>5, CopiesWritten
  <1>2. CASE Report(p)
    <2>1. pc[p] \in Busy BY <1>2 DEF Report, At, Busy
    <2>2. /\ \A b \in Attempts \ {mine[p]} : receipt'[b] = receipt[b]
          /\ \/ receipt'[mine[p]] = receipt[mine[p]]
             \/ receipt'[mine[p]].old = record[p].old /\ receipt'[mine[p]] \in Receipts
      BY <1>2, <2>1, Owner DEF Report, Bound, TypeOK
    <2>3. UNCHANGED <<predecessor, displaced>> BY <1>2 DEF Report
    <2>4. receipt[mine[p]] = NoReceipt \/ receipt[mine[p]].old = record[p].old
      BY <2>1, Owner DEF Unfinished
    <2>. QED BY <2>1, <2>2, <2>3, <2>4, CopiesWritten
  <1>3. CASE KeepPredecessor(p)
    <2>1. pc[p] = "keep" /\ pc[p] \in Busy BY <1>3 DEF KeepPredecessor, At, Busy, Refreshing
    <2>2. /\ receipt[mine[p]] # NoReceipt /\ record[p].old # Absent /\ desktop = record[p].old
          /\ receipt[mine[p]].old = record[p].old
      BY <2>1, Owner DEF Bound, RunKnows, Refreshing, Unfinished, Undisturbed
    <2>3. PICK copy \in {Torn, desktop} : predecessor' = [predecessor EXCEPT ![mine[p]] = copy]
      BY <1>3 DEF KeepPredecessor
    <2>4. UNCHANGED <<receipt, displaced>> BY <1>3 DEF KeepPredecessor
    <2>5. predecessor'[a] = IF a = mine[p] THEN copy ELSE predecessor[a]
      BY <2>3 DEF Bound, TypeOK
    <2>. QED BY <2>2, <2>4, <2>5 DEF CopiesOf
  <1>4. CASE Displace(p)
    <2>1. pc[p] = "displace" /\ pc[p] \in Busy BY <1>4 DEF Displace, At, Busy, Refreshing
    <2>2. receipt[mine[p]] # NoReceipt /\ desktop = record[p].old /\ receipt[mine[p]].old = record[p].old
      BY <2>1, Owner DEF Bound, RunKnows, Refreshing, Unfinished, Undisturbed
    <2>3. UNCHANGED <<receipt, predecessor>> /\ displaced'[a] = IF a = mine[p] THEN desktop ELSE displaced[a]
      BY <1>4 DEF Displace, Bound, TypeOK
    <2>. QED BY <2>2, <2>3 DEF CopiesOf
  <1>5. CASE PutBack(p)
    <2>1. UNCHANGED <<receipt, predecessor>> /\ displaced'[a] \in {displaced[a], Absent}
      BY <1>5 DEF PutBack, Bound, TypeOK
    <2>. QED BY <2>1 DEF CopiesOf
  <1>6. ASSUME UNCHANGED <<receipt, predecessor, displaced>> PROVE CopiesOf(a)'
    BY <1>6 DEF CopiesOf
  <1>. QED BY <1>1, <1>2, <1>3, <1>4, <1>5, <1>6
    DEF RefreshStep, RecoveryStep, Refresh, Admit, CopyCandidate, Compare, NothingToDisplace, Publish,
        Fail, Review, Apply, StageCopy, CompareStage, Restore, Confirm, Withdraw, Decline, Kill, disk

LEMMA GapWritten ==
  ASSUME Bound, GapKept, NEW p \in Procs, pc[p] \in Busy,
         UNCHANGED <<desktop, history, predecessor, displaced, proofs>>,
         \A a \in Attempts \ {mine[p]} : receipt'[a] = receipt[a],
         receipt[mine[p]] = NoReceipt => desktop = record[p].old,
         \/ receipt'[mine[p]] = receipt[mine[p]]
         \/ /\ receipt'[mine[p]] \in Receipts /\ receipt'[mine[p]].old = record[p].old
            /\ desktop = Absent /\ record[p].old # Absent =>
                 receipt'[mine[p]].state # "completed" /\ ~ receipt'[mine[p]].settled
  PROVE  GapKept'
  <1>. SUFFICES ASSUME desktop = Absent
                PROVE  \/ \A a \in history : receipt'[a] # NoReceipt => receipt'[a].old = Absent
                       \/ \E a \in history : Gap(a)'
    BY DEF GapKept
  <1>1. history \subseteq Attempts BY DEF Bound, TypeOK
  <1>2. /\ mine[p] \in Attempts /\ proofs[mine[p]] = {}
        /\ receipt[mine[p]] = NoReceipt \/ receipt[mine[p]].old = record[p].old
    BY Owner DEF Unfinished
  <1>3. CASE \A a \in history : receipt[a] # NoReceipt => receipt[a].old = Absent
    <2>1. ASSUME NEW a \in history, receipt'[a] # NoReceipt PROVE receipt'[a].old = Absent
      <3>1. CASE receipt'[a] = receipt[a] BY <1>3, <2>1, <3>1
      <3>2. CASE receipt'[a] # receipt[a]
        <4>1. a = mine[p] /\ receipt'[a].old = record[p].old BY <1>1, <3>2
        <4>. QED BY <1>2, <1>3, <4>1
      <3>. QED BY <3>1, <3>2
    <2>. QED BY <2>1
  <1>4. ASSUME NEW h \in history, Gap(h) PROVE Gap(h)'
    <2>1. CASE receipt'[h] = receipt[h] BY <1>4, <2>1 DEF Gap, Holding, Recovered
    <2>2. CASE receipt'[h] # receipt[h]
      <3>1. h = mine[p] BY <1>1, <2>2
      <3>2. receipt'[h] # NoReceipt /\ receipt'[h].old = receipt[h].old
        BY <1>2, <1>4, <2>2, <3>1, Distinct DEF Gap
      <3>3. receipt'[h].state # "completed" /\ ~ receipt'[h].settled /\ proofs'[h] = {}
        BY <1>2, <1>4, <2>2, <3>1 DEF Gap
      <3>4. Holding(h)' BY <3>3 DEF Holding, Recovered
      <3>. QED BY <1>4, <3>2, <3>4 DEF Gap
    <2>. QED BY <2>1, <2>2
  <1>. QED BY <1>3, <1>4 DEF GapKept

LEMMA GapSame ==
  ASSUME GapKept, UNCHANGED <<history, receipt, predecessor, displaced, proofs>>,
         desktop = Absent \/ desktop' # Absent
  PROVE  GapKept'
  BY DEF GapKept, Gap, Holding, Recovered

LEMMA GapStep ==
  ASSUME Bound, GapKept, NEW p \in Procs, Undisturbed(p),
         RefreshStep(p) \/ RecoveryStep(p) \/ Decline(p) \/ Kill(p)
  PROVE  GapKept'
  <1>1. CASE Journal(p) \/ CopiesVerified(p) \/ NoteDisplaced(p)
    <2>1. pc[p] \in Busy /\ pc[p] \in {"journal", "check", "note"}
      BY <1>1 DEF Journal, CopiesVerified, NoteDisplaced, At, Busy, Refreshing
    <2>2. PICK state \in States : Write(p, state) /\ state # "completed"
      BY <1>1 DEF Journal, CopiesVerified, NoteDisplaced, States
    <2>3. /\ receipt'[mine[p]] = record'[p] /\ record'[p] \in Receipts
          /\ record'[p].state = state /\ record'[p].old = record[p].old
          /\ record'[p].settled = record[p].settled
          /\ \A b \in Attempts \ {mine[p]} : receipt'[b] = receipt[b]
      BY <2>1, <2>2, Owner, Writing DEF Bound
    <2>4. ~ record[p].settled BY <2>1 DEF Bound, RunKnows
    <2>5. receipt[mine[p]] = NoReceipt => desktop = record[p].old
      BY <2>1 DEF Undisturbed, Bound, RunKnows, Refreshing
    <2>6. UNCHANGED <<desktop, history, predecessor, displaced, proofs>>
      BY <1>1 DEF Journal, CopiesVerified, NoteDisplaced
    <2>. QED BY <2>1, <2>2, <2>3, <2>4, <2>5, <2>6, GapWritten
  <1>2. CASE Report(p)
    <2>1. pc[p] = "report" /\ pc[p] \in Busy BY <1>2 DEF Report, At, Busy
    <2>2. /\ receipt' \in {receipt, [receipt EXCEPT ![mine[p]] = record[p]]}
          /\ UNCHANGED <<desktop, history, predecessor, displaced, proofs>>
      BY <1>2 DEF Report
    <2>3. /\ \A b \in Attempts \ {mine[p]} : receipt'[b] = receipt[b]
          /\ receipt'[mine[p]] = receipt[mine[p]] \/ receipt'[mine[p]] = record[p]
      BY <2>1, <2>2, Owner DEF Bound, TypeOK
    <2>4. receipt[mine[p]] = NoReceipt \/ record[p].settled => desktop = record[p].old
      BY <2>1 DEF Undisturbed
    <2>5. record[p] \in Receipts /\ record[p].state # "completed" BY <2>1, Owner
    <2>. QED BY <2>1, <2>2, <2>3, <2>4, <2>5, GapWritten
  <1>3. CASE Complete(p)
    <2>1. pc[p] \in Busy BY <1>3 DEF Complete, At, Busy, Refreshing
    <2>2. desktop' = record[p].new BY <1>3 DEF Complete
    <2>. QED BY <2>1, <2>2, Owner, Distinct DEF GapKept
  <1>4. CASE Admit(p)
    <2>1. PICK a \in Attempts \ history : history' = history \cup {a} BY <1>4 DEF Admit
    <2>2. UNCHANGED <<desktop, receipt>> /\ ~ Held BY <1>4 DEF Admit
    <2>3. receipt[a] = NoReceipt BY <2>1 DEF Bound, Fresh
    <2>4. ~ \E b \in history : Gap(b) BY <2>2 DEF Held, Gap
    <2>. QED BY <2>1, <2>2, <2>3, <2>4 DEF GapKept
  <1>5. CASE KeepPredecessor(p) BY <1>5 DEF KeepPredecessor, GapKept
  <1>6. CASE Displace(p)
    <2>1. pc[p] = "displace" /\ pc[p] \in Busy BY <1>6 DEF Displace, At, Busy, Refreshing
    <2>2. /\ receipt[mine[p]] # NoReceipt /\ receipt[mine[p]].old = record[p].old
          /\ predecessor[mine[p]] = record[p].old /\ mine[p] \in history /\ mine[p] \in Attempts
      BY <2>1, Owner DEF Bound, RunKnows, Refreshing, Unfinished
    <2>3. desktop = record[p].old /\ Holding(mine[p])
      BY <2>1, RunningHolds DEF Undisturbed
    <2>4. /\ UNCHANGED <<history, receipt, predecessor, proofs, mine>> /\ record[p].old # Absent
          /\ displaced'[mine[p]] = desktop
      BY <1>6, <2>2 DEF Displace, locals, Bound, TypeOK
    <2>5. Holding(mine[p])' BY <2>3, <2>4 DEF Holding, Recovered
    <2>6. receipt'[mine[p]] = receipt[mine[p]] /\ predecessor'[mine[p]] = predecessor[mine[p]]
      BY <2>4
    <2>7. \E a \in history' : Gap(a)' BY <2>2, <2>3, <2>4, <2>5, <2>6 DEF Gap
    <2>. QED BY <2>7 DEF GapKept
  <1>7. CASE Publish(p)
    <2>1. pc[p] = "publish" /\ pc[p] \in Busy BY <1>7 DEF Publish, At, Busy, Refreshing
    <2>2. desktop' = stage[p] /\ stage[p] = record[p].new
      BY <1>7, <2>1 DEF Publish, Bound, RunKnows
    <2>. QED BY <2>1, <2>2, Owner, Distinct DEF GapKept
  <1>8. CASE PutBack(p)
    <2>1. \/ UNCHANGED <<desktop, displaced>>
          \/ desktop' # Absent
      BY <1>8 DEF PutBack
    <2>2. UNCHANGED <<history, receipt, predecessor, proofs>> BY <1>8 DEF PutBack
    <2>. QED BY <2>1, <2>2, GapSame DEF GapKept
  <1>9. CASE Restore(p) BY <1>9, GapSame DEF Restore
  <1>10. CASE Confirm(p)
    <2>1. /\ pc[p] = "confirm" /\ desktop = plan[p].inventory
          /\ proofs' = [proofs EXCEPT ![plan[p].attempt] = @ \cup {ProofOf(p)}]
          /\ UNCHANGED <<desktop, history, receipt, predecessor, displaced>>
      BY <1>10 DEF Confirm, At
    <2>2. /\ plan[p].attempt \in history /\ plan[p].receipt = receipt[plan[p].attempt]
          /\ plan[p].inventory \in {plan[p].receipt.old, plan[p].receipt.new}
          /\ plan[p] \in Plans
      BY <2>1, Proving
    <2>3. plan[p].receipt.new \in Builds BY <2>2 DEF Plans, Receipts
    <2>4. ASSUME desktop = Absent, NEW h \in history, Gap(h) PROVE Gap(h)'
      <3>1. h # plan[p].attempt BY <2>1, <2>2, <2>3, <2>4, Distinct DEF Gap
      <3>2. proofs'[h] = proofs[h] BY <2>1, <3>1 DEF Bound, TypeOK
      <3>. QED BY <2>1, <2>4, <3>2 DEF Gap, Holding, Recovered
    <2>. QED BY <2>1, <2>4 DEF GapKept
  <1>12. CASE Withdraw(p)
    <2>1. /\ \A a \in history : proofs'[a] \subseteq proofs[a]
          /\ UNCHANGED <<desktop, history, receipt, predecessor, displaced>>
      BY <1>12 DEF Withdraw, Bound, TypeOK
    <2>2. \A h \in history : Gap(h) => Gap(h)' BY <2>1 DEF Gap, Holding, Recovered
    <2>. QED BY <2>1, <2>2 DEF GapKept
  <1>11. ASSUME UNCHANGED disk PROVE GapKept' BY <1>11, GapSame DEF disk
  <1>. QED BY <1>1, <1>2, <1>3, <1>4, <1>5, <1>6, <1>7, <1>8, <1>9, <1>10, <1>11, <1>12
    DEF RefreshStep, RecoveryStep, Refresh, CopyCandidate, Compare, NothingToDisplace, Fail,
        Review, Apply, StageCopy, CompareStage, Decline, Kill

LEMMA InitKept == Init => Kept /\ OneHolder /\ SoleClaim
  <1>. SUFFICES ASSUME Init PROVE Kept /\ OneHolder /\ SoleClaim OBVIOUS
  <1>1. \A p \in Procs : pc[p] = "idle" BY DEF Init
  <1>. QED BY <1>1 DEF Init, Kept, OneHolder, SoleClaim, Undisturbed, CopiesOf, GapKept, Busy, Refreshing

LEMMA KeptStep == ASSUME Bound, Kept, [Next]_vars PROVE Kept'
  <1>1. CASE UNCHANGED vars
    BY <1>1 DEF vars, disk, locals, Kept, Undisturbed, CopiesOf, GapKept, Gap, Holding, Recovered
  <1>2. CASE External
    <2>1. externals \in Nat BY DesktopConstants DEF Bound, TypeOK
    <2>2. externals' # 0 BY <1>2, <2>1 DEF External
    <2>. QED BY <2>2 DEF Kept
  <1>3. ASSUME NEW p \in Procs, RefreshStep(p) \/ RecoveryStep(p) \/ Decline(p) \/ Kill(p)
        PROVE  Kept'
    <2>1. externals' = externals BY <1>3, Others
    <2>2. CASE externals # 0 BY <2>1, <2>2 DEF Kept
    <2>3. CASE externals = 0
      <3>1. (\A q \in Procs : Undisturbed(q)) /\ (\A a \in Attempts : CopiesOf(a)) /\ GapKept
        BY <2>3 DEF Kept
      <3>2. \A q \in Procs : Undisturbed(q)'
        BY <1>3, <3>1, UndisturbedOthers, UndisturbedOwn
      <3>3. \A a \in Attempts : CopiesOf(a)' BY <1>3, <3>1, CopiesStep
      <3>4. GapKept' BY <1>3, <3>1, GapStep
      <3>. QED BY <3>2, <3>3, <3>4 DEF Kept
    <2>. QED BY <2>2, <2>3
  <1>. QED BY <1>1, <1>2, <1>3 DEF Next

LEMMA AlwaysKept == Spec => [](Bound /\ Kept /\ OneHolder /\ SoleClaim)
  <1>1. Init => Bound /\ Kept /\ OneHolder /\ SoleClaim BY InitBound, InitKept
  <1>2. Bound /\ Kept /\ OneHolder /\ SoleClaim /\ [Next]_vars
          => (Bound /\ Kept /\ OneHolder /\ SoleClaim)'
    BY StepBound, KeptStep, HoldersStep, ClaimsStep
  <1>. QED BY <1>1, <1>2, PTL DEF Spec

\* The holder's copies allow its plan.
LEMMA GapPlanned ==
  ASSUME Bound, NEW a \in history, Gap(a), desktop = Absent
  PROVE  PlanOf(a).action = "restore"
  <1>1. receipt[a] \in Receipts BY DEF Gap, Bound, TypeOK
  <1>2. receipt[a].new # Absent BY <1>1, Distinct DEF Receipts
  <1>3. Outcome(a) = "restore"
    <2>1. {predecessor[a], displaced[a]} # {Absent} BY DEF Gap
    <2>2. desktop \notin {receipt[a].old, receipt[a].new} BY <1>2 DEF Gap
    <2>. QED BY <2>1, <2>2 DEF Outcome
  <1>4. {predecessor[a], displaced[a]} \subseteq {Absent, receipt[a].old} BY DEF Gap
  <1>. QED BY <1>3, <1>4 DEF PlanOf, Gap

\* The interval between the renames is recoverable, wherever it was cut short.
THEOREM GapIsRecoverable == Spec => []GapRecoverable
  <1>1. ASSUME Bound, Kept PROVE GapRecoverable
    <2>. SUFFICES ASSUME externals = 0, desktop = Absent,
                         NEW b \in history, receipt[b] # NoReceipt, receipt[b].old # Absent
                  PROVE  \E a \in history : Holding(a) /\ PlanOf(a).action = "restore"
      BY DEF GapRecoverable
    <2>1. PICK a \in history : Gap(a) BY <1>1 DEF Kept, GapKept
    <2>. QED BY <1>1, <2>1, GapPlanned DEF Gap
  <1>. QED BY <1>1, AlwaysKept, PTL

\* An attempt that holds refreshes can be recovered, outside the named cases.
THEOREM HoldsAreRecoverable == Spec => []HoldRecoverable
  <1>1. ASSUME Bound, Kept, OneHolder PROVE HoldRecoverable
    <2>. SUFFICES ASSUME externals = 0, NEW a \in history, Holding(a),
                         receipt[a] # NoReceipt, predecessor[a] # Torn,
                         desktop \in {Absent, receipt[a].old, receipt[a].new}
                  PROVE  PlanOf(a) # NoPlan
      BY DEF HoldRecoverable
    <2>1. a \in Attempts BY <1>1 DEF Bound, TypeOK
    <2>2. CopiesOf(a) /\ GapKept BY <1>1, <2>1 DEF Kept
    <2>3. {predecessor[a], displaced[a]} \subseteq {Absent, receipt[a].old}
      BY <2>2 DEF CopiesOf
    <2>4. CASE desktop \in {receipt[a].old, receipt[a].new}
      <3>1. Outcome(a) = "reconcile" BY <2>4 DEF Outcome
      <3>2. PlanOf(a).action = "reconcile" BY <2>3, <3>1 DEF PlanOf
      <3>. QED BY <3>2 DEF NoPlan
    <2>5. CASE desktop \notin {receipt[a].old, receipt[a].new}
      <3>1. desktop = Absent /\ receipt[a].old # Absent BY <2>5
      <3>2. PICK h \in history : Gap(h) BY <2>2, <3>1 DEF GapKept
      <3>3. h = a BY <1>1, <3>2 DEF OneHolder, Gap
      <3>4. PlanOf(a).action = "restore" BY <1>1, <3>1, <3>2, <3>3, GapPlanned
      <3>. QED BY <3>4 DEF NoPlan
    <2>. QED BY <2>4, <2>5
  <1>. QED BY <1>1, AlwaysKept, PTL
=============================================================================
