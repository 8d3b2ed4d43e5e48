---------------------------- MODULE JobPairProofs ----------------------------
(***************************************************************************)
(* Proofs about JobPair, for any number of processes, attempts, faults and *)
(* retained stages.                                                        *)
(***************************************************************************)
EXTENDS JobPair, TLAPS

\* The evidence a reviewer is shown is of the type plans have.
LEMMA EvidenceType == ASSUME TypeOK, Inspectable PROVE Evidence \in Evidences
  BY DEF TypeOK, Inspectable, Evidence, Evidences

\* A retained generation is a pair, and so is each of its slots a file's bytes.
LEMMA RestoredType ==
  ASSUME TypeOK, NEW d, NEW a \in Attempts
  PROVE  /\ Restored(d, a) \in Pair
         /\ \A s \in Slots : Restored(d, a)[s] \in Bytes
  BY DEF TypeOK, Restored, Pair

\* Every intent and every receipt is a mark.
LEMMA MarkNames ==
  ASSUME NEW d \in Ways PROVE Intent(d) \in Marks /\ Receipt(d) \in Marks
  BY DEF Ways, Intent, Receipt, Marks

\* The initial values have their types.
LEMMA TypeInit == Init => TypeOK
  BY BoundsAreNat, FoundBefore DEF Init, TypeOK, Pair, Bytes, Nothing, Control, Ways, Slots, Before

\* Commands and publications keep the types.
LEMMA TypeCommand ==
  ASSUME TypeOK, NEW p \in Procs, Command(p) PROVE TypeOK'
  <1>1. ASSUME GuardBegin(p) PROVE TypeOK'
    BY <1>1 DEF GuardBegin, Goto, TypeOK, disk, locals, Control, Reading
  <1>2. ASSUME GuardEnd(p) PROVE TypeOK'
    BY <1>2 DEF GuardEnd, TypeOK, disk, Control, Nothing, Pair, Bytes
  <1>3. ASSUME LoadStatus(p) PROVE TypeOK'
    <2>1. seen' \in [Procs -> Pair]
      BY <1>3 DEF LoadStatus, TypeOK, Pair, Slots
    <2>. QED BY <1>3, <2>1 DEF LoadStatus, Goto, TypeOK, disk, Control, Reading
  <1>4. ASSUME LoadReport(p) PROVE TypeOK'
    <2>1. seen' \in [Procs -> Pair]
      BY <1>4 DEF LoadReport, TypeOK, Pair, Slots
    <2>. QED BY <1>4, <2>1 DEF LoadReport, Goto, TypeOK, disk, Control, Reading
  <1>5. ASSUME Prepare(p) PROVE TypeOK'
    <2>1. PICK a \in Attempts, fresh \in SUBSET Slots :
            /\ attempt' = [attempt EXCEPT ![p] = a]
            /\ old' = [old EXCEPT ![a] = target]
            /\ new' = [new EXCEPT ![a] =
                    [s \in Slots |-> IF s \in fresh THEN a ELSE target[s]]]
      BY <1>5 DEF Prepare
    <2>2. [s \in Slots |-> IF s \in fresh THEN a ELSE target[s]] \in Pair
      BY DEF TypeOK, Pair, Bytes
    <2>3. /\ attempt' \in [Procs -> Attempts \cup {None}]
          /\ old' \in [Attempts -> Pair] /\ new' \in [Attempts -> Pair]
      BY <2>1, <2>2 DEF TypeOK
    <2>4. seen' \in [Procs -> Pair]
      BY <1>5 DEF Prepare, TypeOK, Nothing, Pair, Bytes
    <2>. QED BY <1>5, <2>3, <2>4 DEF Prepare, TypeOK, Control, Publishing
  <1>. QED BY <1>1, <1>2, <1>3, <1>4, <1>5 DEF Command

\* Each step of a publication keeps the types.
LEMMA TypePublication ==
  ASSUME TypeOK, PublicationKnows, NEW p \in Procs,
         Publication(p) \/ PublishFails(p)
  PROVE  TypeOK'
  <1>0. pc[p] \in Publishing => attempt[p] \in Attempts
    BY DEF PublicationKnows
  <1>1. ASSUME MakeCapsule(p) PROVE TypeOK'
    BY <1>1 DEF MakeCapsule, Goto, TypeOK, disk, locals, Control, Publishing
  <1>2. ASSUME RetainCopies(p) PROVE TypeOK'
    BY <1>0, <1>2 DEF RetainCopies, Goto, Mark, TypeOK, locals, Control, Publishing, Marks
  <1>3. ASSUME WritePlan(p) PROVE TypeOK'
    BY <1>0, <1>3 DEF WritePlan, Goto, Mark, TypeOK, locals, Control, Publishing, Marks
  <1>4. ASSUME OpenHold(p) PROVE TypeOK'
    BY <1>4 DEF OpenHold, Goto, TypeOK, locals, Control, Publishing
  <1>5. ASSUME FillHold(p) PROVE TypeOK'
    BY <1>0, <1>5 DEF FillHold, Goto, TypeOK, locals, Control, Publishing
  <1>6. ASSUME PublishStatus(p) PROVE TypeOK'
    <2>1. target' \in Pair
      BY <1>0, <1>6 DEF PublishStatus, Goto, TypeOK, Publishing, Pair, Slots
    <2>. QED BY <1>6, <2>1 DEF PublishStatus, Goto, TypeOK, locals, Control, Publishing
  <1>7. ASSUME PublishReport(p) PROVE TypeOK'
    <2>1. target' \in Pair
      BY <1>0, <1>7 DEF PublishReport, Goto, TypeOK, Publishing, Pair, Slots
    <2>. QED BY <1>7, <2>1 DEF PublishReport, Goto, TypeOK, locals, Control, Publishing
  <1>8. ASSUME OpenCompleted(p) PROVE TypeOK'
    BY <1>0, <1>8 DEF OpenCompleted, Goto, Mark, TypeOK, locals, Control, Publishing, Marks
  <1>9. ASSUME WriteCompleted(p) PROVE TypeOK'
    BY <1>0, <1>9 DEF WriteCompleted, Goto, TypeOK, locals, Control, Publishing, Marks
  <1>10. ASSUME ReleaseHold(p) PROVE TypeOK'
    BY <1>10 DEF ReleaseHold, Goto, TypeOK, Control, Reading
  <1>11. ASSUME PublishFails(p) PROVE TypeOK'
    BY <1>11 DEF PublishFails, TypeOK, disk, locals, Control
  <1>. QED BY <1>1, <1>2, <1>3, <1>4, <1>5, <1>6, <1>7, <1>8, <1>9, <1>10, <1>11
           DEF Publication

\* Every step of a recovery, and every end that completes nothing.
LEMMA TypeStageRecord ==
  ASSUME TypeOK, NEW q \in Procs, NEW m, NEW from,
         NEW install \in Control, NEW skip \in Control,
         StageRecord(q, m, from, install, skip)
  PROVE  TypeOK'
  <1>1. hold \in Attempts BY DEF StageRecord, Inspectable
  <1>2. staged' \in [Attempts -> Nat] BY <1>1 DEF StageRecord, TypeOK
  <1>3. pc' \in [Procs -> Control] BY DEF StageRecord, Goto, TypeOK
  <1>. QED BY <1>2, <1>3 DEF StageRecord, TypeOK, locals

\* A stage renamed to a record was counted, so the count stays a natural.
LEMMA TypeInstallRecord ==
  ASSUME TypeOK, NEW q \in Procs, NEW m \in Marks, NEW from, NEW to \in Control,
         InstallRecord(q, m, from, to), staged[hold] > 0
  PROVE  TypeOK'
  <1>1. hold \in Attempts BY DEF InstallRecord, Inspectable
  <1>2. staged' \in [Attempts -> Nat] BY <1>1 DEF InstallRecord, TypeOK
  <1>3. marks' \in [Attempts -> SUBSET Marks] BY <1>1 DEF InstallRecord, Mark, TypeOK
  <1>4. pc' \in [Procs -> Control] BY DEF InstallRecord, Goto, TypeOK
  <1>. QED BY <1>2, <1>3, <1>4 DEF InstallRecord, TypeOK, locals

\* Going on to the other slot keeps control points and slots what they are.
LEMMA TypeNextSlot ==
  ASSUME TypeOK, NEW q \in Procs, NEW from, NextSlot(q, from)
  PROVE  pc' \in [Procs -> Control] /\ slot' \in [Procs -> Slots]
  BY DEF NextSlot, TypeOK, Control, Recovering, Slots

\* Each step of a recovery keeps the types.
LEMMA TypeRecovery ==
  ASSUME TypeOK, StagesCounted, NEW q \in Procs, Recovery(q)
  PROVE  TypeOK'
  <1>0. /\ way[q] \in Ways /\ slot[q] \in Slots
        /\ hold \in Attempts => Wanted(q) \in Bytes
    BY RestoredType DEF TypeOK, Wanted
  <1>a. /\ Intent(way[q]) \in Marks /\ Receipt(way[q]) \in Marks
        /\ {"intent-stage", "intent", "stage", "retain", "restore",
            "receipt-stage", "receipt", "clear", "idle"} \subseteq Control
    BY <1>0, MarkNames DEF Control, Recovering
  <1>1. ASSUME StageIntent(q) PROVE TypeOK'
    BY <1>1, <1>a, TypeStageRecord DEF StageIntent
  <1>2. ASSUME InstallIntent(q) PROVE TypeOK'
    <2>1. staged[hold] > 0
      BY <1>2 DEF InstallIntent, InstallRecord, Goto, StagesCounted
    <2>. QED BY <1>2, <1>a, <2>1, TypeInstallRecord DEF InstallIntent
  <1>3. ASSUME StageSlot(q) PROVE TypeOK'
    <2>1. hold \in Attempts BY <1>3 DEF StageSlot, Inspectable
    <2>2. staged' \in [Attempts -> Nat] BY <1>3, <2>1 DEF StageSlot, TypeOK
    <2>3. pc' \in [Procs -> Control] /\ slot' \in [Procs -> Slots]
      <3>1. CASE NextSlot(q, "stage") BY <3>1, TypeNextSlot
      <3>2. CASE ~ NextSlot(q, "stage")
        BY <1>3, <1>a, <3>2 DEF StageSlot, Goto, TypeOK
      <3>. QED BY <3>1, <3>2
    <2>. QED BY <1>3, <2>2, <2>3 DEF StageSlot, TypeOK
  <1>4. ASSUME RetainSlot(q) PROVE TypeOK'
    <2>1. hold \in Attempts BY <1>4 DEF RetainSlot, Inspectable
    <2>2. target' \in Pair BY <1>4 DEF RetainSlot, TypeOK, Pair, Bytes
    <2>3. displaced' \in [Attempts -> Pair]
      BY <1>0, <1>4, <2>1 DEF RetainSlot, TypeOK, Pair
    <2>4. pc' \in [Procs -> Control] /\ slot' \in [Procs -> Slots]
      <3>1. CASE NextSlot(q, "retain") BY <3>1, TypeNextSlot
      <3>2. CASE ~ NextSlot(q, "retain")
        BY <1>4, <1>a, <3>2 DEF RetainSlot, Goto, TypeOK
      <3>. QED BY <3>1, <3>2
    <2>. QED BY <1>4, <2>2, <2>3, <2>4 DEF RetainSlot, TypeOK
  <1>5. ASSUME RestoreSlot(q) PROVE TypeOK'
    <2>1. hold \in Attempts BY <1>5 DEF RestoreSlot, Inspectable
    <2>2. target' \in Pair BY <1>0, <1>5, <2>1 DEF RestoreSlot, TypeOK, Pair
    <2>3. staged[hold] > 0
      BY <1>5 DEF RestoreSlot, NextSlot, StagesCounted
    <2>4. staged' \in [Attempts -> Nat]
      BY <1>5, <2>1, <2>3 DEF RestoreSlot, TypeOK
    <2>5. pc' \in [Procs -> Control] /\ slot' \in [Procs -> Slots]
      BY <1>5, TypeNextSlot DEF RestoreSlot
    <2>. QED BY <1>5, <2>2, <2>4, <2>5 DEF RestoreSlot, TypeOK
  <1>6. ASSUME StageReceipt(q) PROVE TypeOK'
    BY <1>6, <1>a, TypeStageRecord DEF StageReceipt
  <1>7. ASSUME InstallReceipt(q) PROVE TypeOK'
    <2>1. staged[hold] > 0
      BY <1>7 DEF InstallReceipt, InstallRecord, Goto, StagesCounted
    <2>. QED BY <1>7, <1>a, <2>1, TypeInstallRecord DEF InstallReceipt
  <1>8. ASSUME ClearHold(q) PROVE TypeOK'
    BY <1>8, <1>a DEF ClearHold, Goto, TypeOK, locals
  <1>9. ASSUME RecoverRefused(q) PROVE TypeOK'
    BY <1>9, <1>a DEF RecoverRefused, Leave, TypeOK, disk, Nothing, Pair, Bytes
  <1>. QED BY <1>1, <1>2, <1>3, <1>4, <1>5, <1>6, <1>7, <1>8, <1>9 DEF Recovery

\* Reviewing, starting a recovery, failing and dying keep the types.
LEMMA TypeOther ==
  ASSUME TypeOK, NEW q \in Procs,
         Review(q) \/ (\E d \in Ways : RecoverStart(q, d)) \/ Crash(q)
  PROVE  TypeOK'
  <1>1. ASSUME Review(q) PROVE TypeOK'
    <2>1. Evidence \in Evidences BY <1>1, EvidenceType DEF Review
    <2>. QED BY <1>1, <2>1 DEF Review, TypeOK, disk
  <1>2. ASSUME NEW d \in Ways, RecoverStart(q, d) PROVE TypeOK'
    BY <1>2 DEF RecoverStart, Goto, TypeOK, disk, Control, Recovering, Slots
  <1>3. ASSUME Crash(q) PROVE TypeOK'
    BY <1>3 DEF Crash, Leave, TypeOK, disk, Control, Nothing, Pair, Bytes
  <1>. QED BY <1>1, <1>2, <1>3

-----------------------------------------------------------------------------
(* The inductive invariant.                                                *)

\* Whoever is at work is alone: everybody else is idle.
LEMMA Alone ==
  ASSUME LockIsControl, NEW p \in Procs, pc[p] # "idle"
  PROVE  owner = p /\ \A q \in Procs : q # p => pc[q] = "idle"
  BY DEF LockIsControl

\* While the lock is free, everybody is idle.
LEMMA NobodyAtWork ==
  ASSUME LockIsControl, owner = None
  PROVE  \A q \in Procs : pc[q] = "idle"
  BY DistinctNames DEF LockIsControl

\* The inductive invariant holds of every job root that is taken over.
LEMMA IndInit == Init => IndInv
  <1>. SUFFICES ASSUME Init PROVE IndInv OBVIOUS
  <1>1. TypeOK BY TypeInit
  <1>2. LockIsControl BY DistinctNames DEF Init, LockIsControl
  <1>3. GenerationsKept
    BY DistinctNames DEF Init, GenerationsKept, Generations, Nothing, Slots, Before
  <1>4. MixedOnlyUnderHold
    BY FoundBefore DEF Init, MixedOnlyUnderHold, Generations
  <1>5. OneDirection BY DEF Init, OneDirection, Forwarding, RollingBack
  <1>6. PublicationKnows /\ HoldFollowsControl /\ RecoveryKnows /\ StagesCounted /\ ReaderKnows
    BY DEF Init, PublicationKnows, HoldFollowsControl, RecoveryKnows, StagesCounted,
           ReaderKnows, Publishing, Reading, Recovering
  <1>. QED BY <1>1, <1>2, <1>3, <1>4, <1>5, <1>6 DEF IndInv

\* What every process knows depends on its own control point only, so an
\* actor that is alone has to re-establish it for itself.
Knows(p) ==
  /\ pc[p] \in Publishing => /\ attempt[p] \in Attempts
                             /\ new[attempt[p]] # Nothing
                             /\ ~ RollingBack(attempt[p])
                             /\ ~ Forwarding(attempt[p])
  /\ pc[p] \in {"prepared", "capsule", "retained", "planned", "hold-open"} =>
       target = old[attempt[p]]
  /\ pc[p] = "complete" => "completed" \in marks[attempt[p]]
  /\ pc[p] \in Reading \cup {"prepared", "capsule", "retained", "planned"} =>
       hold = None
  /\ pc[p] = "hold-open" => hold = Torn
  /\ pc[p] \in {"held", "status-live", "report-live", "completing", "complete"} =>
       hold = attempt[p]
  /\ pc[p] \in Recovering => hold \in Attempts
  /\ pc[p] \in {"intent-stage", "intent"} =>
       /\ way[p] = "forward" => ~ RollingBack(hold)
       /\ way[p] = "rollback" => ~ Forwarding(hold)
  /\ pc[p] \in Recovering \ {"intent-stage", "intent"} => Intent(way[p]) \in marks[hold]
  /\ pc[p] \in {"receipt", "clear"} => target = Restored(way[p], hold)
  /\ pc[p] \in {"intent", "receipt"} => staged[hold] > 0
  /\ pc[p] \in {"retain", "restore"} => (Wanted(p) # Absent => staged[hold] > 0)
  /\ pc[p] = "restore" => Wanted(p) # Absent
  /\ pc[p] = "status-read" => seen[p]["status"] = target["status"]
  /\ pc[p] = "read" => seen[p] = target

\* What every process knows is the conjuncts of the invariant about control points.
LEMMA KnowsAll ==
  (\A p \in Procs : Knows(p)) <=>
    PublicationKnows /\ HoldFollowsControl /\ RecoveryKnows /\ StagesCounted /\ ReaderKnows
  BY DEF Knows, PublicationKnows, HoldFollowsControl, RecoveryKnows, StagesCounted, ReaderKnows

\* The same after a step.
LEMMA KnowsPrimed ==
  ASSUME NEW p \in Procs, Knows(p)',
         \A q \in Procs : q # p => pc'[q] = "idle"
  PROVE  (PublicationKnows /\ HoldFollowsControl /\ RecoveryKnows /\ StagesCounted /\ ReaderKnows)'
  BY DEF Knows, PublicationKnows, HoldFollowsControl, RecoveryKnows, StagesCounted, ReaderKnows,
         Publishing, Reading, Recovering

\* What the disk satisfies whoever is at work.
DiskOK == GenerationsKept /\ MixedOnlyUnderHold /\ OneDirection

\* The lock follows the control point of the one process that moves.
LEMMA LockStep ==
  ASSUME TypeOK, NEW p \in Procs, NEW to,
         \A q \in Procs : q # p => pc[q] = "idle",
         pc' = [pc EXCEPT ![p] = to],
         owner' = IF to = "idle" THEN None ELSE p
  PROVE  /\ LockIsControl'
         /\ \A q \in Procs : q # p => pc'[q] = "idle"
  BY DistinctNames DEF TypeOK, LockIsControl

\* A generation stays one: attempts are prepared once and never again.
LEMMA GenerationsGrow ==
  ASSUME TypeOK, NEW a \in Attempts, new[a] = Nothing, NEW g,
         new' = [new EXCEPT ![a] = g]
  PROVE  \A x \in Generations : x \in Generations'
  BY DEF TypeOK, Generations

\* What a command does, and what it then knows.
LEMMA CommandStep ==
  ASSUME IndInv, NEW p \in Procs, Command(p)
  PROVE  Knows(p)' /\ DiskOK'
  <1>0. Knows(p) /\ DiskOK /\ TypeOK /\ LockIsControl
    BY KnowsAll DEF IndInv, DiskOK
  <1>1. ASSUME GuardBegin(p) PROVE Knows(p)' /\ DiskOK'
    <2>1. pc'[p] = "guarded" /\ UNCHANGED disk
      BY <1>0, <1>1 DEF GuardBegin, Goto, TypeOK
    <2>2. Knows(p)'
      BY <1>1, <2>1 DEF Knows, GuardBegin, disk, Publishing, Reading, Recovering
    <2>. QED BY <1>0, <2>1, <2>2 DEF DiskOK, disk, GenerationsKept, Generations,
                MixedOnlyUnderHold, OneDirection, Forwarding, RollingBack
  <1>2. ASSUME GuardEnd(p) PROVE Knows(p)' /\ DiskOK'
    <2>1. pc'[p] = "idle" /\ UNCHANGED disk
      BY <1>0, <1>2 DEF GuardEnd, TypeOK
    <2>2. Knows(p)'
      BY <2>1 DEF Knows, Publishing, Reading, Recovering
    <2>. QED BY <1>0, <2>1, <2>2 DEF DiskOK, disk, GenerationsKept, Generations,
                MixedOnlyUnderHold, OneDirection, Forwarding, RollingBack
  <1>3. ASSUME LoadStatus(p) PROVE Knows(p)' /\ DiskOK'
    <2>1. pc[p] = "guarded" /\ pc'[p] = "status-read" /\ UNCHANGED disk
      BY <1>0, <1>3 DEF LoadStatus, Goto, TypeOK
    <2>2. seen'[p]["status"] = target["status"]
      BY <1>0, <1>3 DEF LoadStatus, TypeOK, Pair, Slots
    <2>3. Knows(p)'
      BY <1>0, <2>1, <2>2 DEF Knows, disk, Publishing, Reading, Recovering
    <2>. QED BY <1>0, <2>1, <2>3 DEF DiskOK, disk, GenerationsKept, Generations,
                MixedOnlyUnderHold, OneDirection, Forwarding, RollingBack
  <1>4. ASSUME LoadReport(p) PROVE Knows(p)' /\ DiskOK'
    <2>1. pc[p] = "status-read" /\ pc'[p] = "read" /\ UNCHANGED disk
      BY <1>0, <1>4 DEF LoadReport, Goto, TypeOK
    <2>2. seen'[p] = [seen[p] EXCEPT !["report"] = target["report"]]
      BY <1>0, <1>4 DEF LoadReport, TypeOK
    <2>3. seen[p]["status"] = target["status"]
      BY <1>0, <2>1 DEF Knows
    <2>4. seen'[p] = target
      BY <1>0, <2>2, <2>3 DEF TypeOK, Pair, Slots
    <2>5. Knows(p)'
      BY <1>0, <2>1, <2>4 DEF Knows, disk, Publishing, Reading, Recovering
    <2>. QED BY <1>0, <2>1, <2>5 DEF DiskOK, disk, GenerationsKept, Generations,
                MixedOnlyUnderHold, OneDirection, Forwarding, RollingBack
  <1>5. ASSUME Prepare(p) PROVE Knows(p)' /\ DiskOK'
    <2>1. PICK a \in Attempts, fresh \in SUBSET Slots :
            /\ old[a] = Nothing /\ new[a] = Nothing
            /\ \A s \in Slots : target[s] = Absent => s \in fresh
            /\ attempt' = [attempt EXCEPT ![p] = a]
            /\ old' = [old EXCEPT ![a] = target]
            /\ new' = [new EXCEPT ![a] =
                    [s \in Slots |-> IF s \in fresh THEN a ELSE target[s]]]
      BY <1>5 DEF Prepare
    <2>2. pc'[p] = "prepared" /\ hold = None /\ target \in Generations
      BY <1>0, <1>5 DEF Prepare, TypeOK, Knows, Reading, DiskOK, MixedOnlyUnderHold
    <2>3. new'[a] # Nothing
      <3>1. new'[a]["status"] # Absent
        BY <1>0, <2>1, DistinctNames DEF TypeOK, Slots
      <3>. QED BY <3>1 DEF Nothing, Slots
    <2>4. marks[a] = {}
      BY <1>0, <2>1 DEF DiskOK, GenerationsKept
    <2>5. attempt'[p] = a /\ old'[a] = target
      BY <1>0, <2>1 DEF TypeOK
    <2>6. UNCHANGED <<target, hold, marks>>
      BY <1>5 DEF Prepare
    <2>7. Knows(p)'
      BY <2>2, <2>3, <2>4, <2>5, <2>6
      DEF Knows, Publishing, Reading, Recovering, Forwarding, RollingBack
    <2>8. \A x \in Generations : x \in Generations'
      BY <1>0, <2>1, GenerationsGrow
    <2>9. GenerationsKept'
      BY <1>0, <2>1, <2>2, <2>3, <2>4, <2>6, <2>8, DistinctNames
      DEF DiskOK, GenerationsKept, TypeOK
    <2>. QED BY <1>0, <2>2, <2>6, <2>7, <2>8, <2>9 DEF DiskOK, MixedOnlyUnderHold, OneDirection,
                Forwarding, RollingBack
  <1>. QED BY <1>1, <1>2, <1>3, <1>4, <1>5 DEF Command

\* What a step of a publication does, and what it then knows.
LEMMA PublicationStep ==
  ASSUME IndInv, NEW p \in Procs, Publication(p) \/ PublishFails(p)
  PROVE  Knows(p)' /\ DiskOK'
  <1>0. Knows(p) /\ DiskOK /\ TypeOK
    BY KnowsAll DEF IndInv, DiskOK
  <1>1. ASSUME MakeCapsule(p) PROVE Knows(p)' /\ DiskOK'
    <2>1. pc[p] = "prepared" /\ pc'[p] = "capsule" /\ UNCHANGED <<disk, attempt>>
      BY <1>0, <1>1 DEF MakeCapsule, Goto, TypeOK, locals
    <2>2. Knows(p)'
      BY <1>0, <2>1 DEF Knows, disk, Publishing, Reading, Recovering, RollingBack, Forwarding
    <2>. QED BY <1>0, <2>1, <2>2 DEF DiskOK, disk, GenerationsKept, Generations,
                MixedOnlyUnderHold, OneDirection, RollingBack, Forwarding
  <1>2. ASSUME RetainCopies(p) PROVE Knows(p)' /\ DiskOK'
    <2>1. pc[p] = "capsule" /\ pc'[p] = "retained" /\ UNCHANGED <<target, hold, old, new, attempt>>
      BY <1>0, <1>2 DEF RetainCopies, Goto, TypeOK, locals
    <2>2. attempt[p] \in Attempts /\ new[attempt[p]] # Nothing
      BY <1>0, <2>1 DEF Knows, Publishing
    <2>3. /\ RollingBack(attempt[p])' <=> RollingBack(attempt[p])
          /\ Forwarding(attempt[p])' <=> Forwarding(attempt[p])
          /\ \A b \in Attempts : b # attempt[p] => marks'[b] = marks[b]
      BY <1>0, <1>2, <2>1, <2>2 DEF RetainCopies, Mark, TypeOK, RollingBack, Forwarding
    <2>4. Knows(p)'
      BY <1>0, <2>1, <2>3 DEF Knows, Publishing, Reading, Recovering
    <2>. QED BY <1>0, <2>1, <2>2, <2>3, <2>4
         DEF DiskOK, GenerationsKept, Generations, MixedOnlyUnderHold, OneDirection,
             RollingBack, Forwarding
  <1>3. ASSUME WritePlan(p) PROVE Knows(p)' /\ DiskOK'
    <2>1. pc[p] = "retained" /\ pc'[p] = "planned" /\ UNCHANGED <<target, hold, old, new, attempt>>
      BY <1>0, <1>3 DEF WritePlan, Goto, TypeOK, locals
    <2>2. attempt[p] \in Attempts /\ new[attempt[p]] # Nothing
      BY <1>0, <2>1 DEF Knows, Publishing
    <2>3. /\ RollingBack(attempt[p])' <=> RollingBack(attempt[p])
          /\ Forwarding(attempt[p])' <=> Forwarding(attempt[p])
          /\ \A b \in Attempts : b # attempt[p] => marks'[b] = marks[b]
      BY <1>0, <1>3, <2>1, <2>2 DEF WritePlan, Mark, TypeOK, RollingBack, Forwarding
    <2>4. Knows(p)'
      BY <1>0, <2>1, <2>3 DEF Knows, Publishing, Reading, Recovering
    <2>. QED BY <1>0, <2>1, <2>2, <2>3, <2>4
         DEF DiskOK, GenerationsKept, Generations, MixedOnlyUnderHold, OneDirection,
             RollingBack, Forwarding
  <1>4. ASSUME OpenHold(p) PROVE Knows(p)' /\ DiskOK'
    <2>1. /\ pc[p] = "planned" /\ pc'[p] = "hold-open" /\ hold' = Torn
          /\ UNCHANGED <<target, old, new, marks, attempt>>
      BY <1>0, <1>4 DEF OpenHold, Goto, TypeOK, locals
    <2>2. Knows(p)'
      BY <1>0, <2>1 DEF Knows, Publishing, Reading, Recovering, RollingBack, Forwarding
    <2>. QED BY <1>0, <2>1, <2>2, DistinctNames DEF DiskOK, GenerationsKept, Generations,
                MixedOnlyUnderHold, OneDirection, RollingBack, Forwarding
  <1>5. ASSUME FillHold(p) PROVE Knows(p)' /\ DiskOK'
    <2>1. /\ pc[p] = "hold-open" /\ pc'[p] = "held" /\ hold' = attempt[p]
          /\ UNCHANGED <<target, old, new, marks, attempt>>
      BY <1>0, <1>5 DEF FillHold, Goto, TypeOK, locals
    <2>2. attempt[p] \in Attempts /\ new[attempt[p]] # Nothing
      BY <1>0, <2>1 DEF Knows, Publishing
    <2>3. Knows(p)'
      BY <1>0, <2>1 DEF Knows, Publishing, Reading, Recovering, RollingBack, Forwarding
    <2>. QED BY <1>0, <2>1, <2>2, <2>3, DistinctNames DEF DiskOK, GenerationsKept, Generations,
                MixedOnlyUnderHold, OneDirection, RollingBack, Forwarding
  <1>6. ASSUME PublishStatus(p) PROVE Knows(p)' /\ DiskOK'
    <2>1. /\ pc[p] = "held" /\ pc'[p] = "status-live" /\ hold = attempt[p]
          /\ UNCHANGED <<hold, old, new, marks, attempt>>
      BY <1>0, <1>6 DEF PublishStatus, Goto, TypeOK, locals, Knows
    <2>2. Knows(p)'
      BY <1>0, <2>1 DEF Knows, Publishing, Reading, Recovering, RollingBack, Forwarding
    <2>3. hold # None
      BY <1>0, <2>1, DistinctNames DEF Knows, Publishing
    <2>. QED BY <1>0, <2>1, <2>2, <2>3 DEF DiskOK, GenerationsKept, Generations,
                MixedOnlyUnderHold, OneDirection, RollingBack, Forwarding
  <1>7. ASSUME PublishReport(p) PROVE Knows(p)' /\ DiskOK'
    <2>1. /\ pc[p] = "status-live" /\ pc'[p] = "report-live" /\ hold = attempt[p]
          /\ UNCHANGED <<hold, old, new, marks, attempt>>
      BY <1>0, <1>7 DEF PublishReport, Goto, TypeOK, locals, Knows
    <2>2. Knows(p)'
      BY <1>0, <2>1 DEF Knows, Publishing, Reading, Recovering, RollingBack, Forwarding
    <2>3. hold # None
      BY <1>0, <2>1, DistinctNames DEF Knows, Publishing
    <2>. QED BY <1>0, <2>1, <2>2, <2>3 DEF DiskOK, GenerationsKept, Generations,
                MixedOnlyUnderHold, OneDirection, RollingBack, Forwarding
  <1>8. ASSUME OpenCompleted(p) PROVE Knows(p)' /\ DiskOK'
    <2>1. pc[p] = "report-live" /\ pc'[p] = "completing" /\ UNCHANGED <<target, hold, old, new, attempt>>
      BY <1>0, <1>8 DEF OpenCompleted, Goto, TypeOK, locals
    <2>2. attempt[p] \in Attempts /\ new[attempt[p]] # Nothing
      BY <1>0, <2>1 DEF Knows, Publishing
    <2>3. /\ RollingBack(attempt[p])' <=> RollingBack(attempt[p])
          /\ Forwarding(attempt[p])' <=> Forwarding(attempt[p])
          /\ \A b \in Attempts : b # attempt[p] => marks'[b] = marks[b]
      BY <1>0, <1>8, <2>1, <2>2 DEF OpenCompleted, Mark, TypeOK, RollingBack, Forwarding
    <2>4. Knows(p)'
      BY <1>0, <2>1, <2>3 DEF Knows, Publishing, Reading, Recovering
    <2>. QED BY <1>0, <2>1, <2>2, <2>3, <2>4
         DEF DiskOK, GenerationsKept, Generations, MixedOnlyUnderHold, OneDirection,
             RollingBack, Forwarding
  <1>9. ASSUME WriteCompleted(p) PROVE Knows(p)' /\ DiskOK'
    <2>1. pc[p] = "completing" /\ pc'[p] = "complete" /\ UNCHANGED <<target, hold, old, new, attempt>>
      BY <1>0, <1>9 DEF WriteCompleted, Goto, TypeOK, locals
    <2>2. attempt[p] \in Attempts /\ new[attempt[p]] # Nothing
      BY <1>0, <2>1 DEF Knows, Publishing
    <2>3. /\ RollingBack(attempt[p])' <=> RollingBack(attempt[p])
          /\ Forwarding(attempt[p])' <=> Forwarding(attempt[p])
          /\ \A b \in Attempts : b # attempt[p] => marks'[b] = marks[b]
          /\ "completed" \in marks'[attempt[p]]
      BY <1>0, <1>9, <2>1, <2>2 DEF WriteCompleted, Mark, TypeOK, RollingBack, Forwarding
    <2>4. Knows(p)'
      BY <1>0, <2>1, <2>3 DEF Knows, Publishing, Reading, Recovering
    <2>. QED BY <1>0, <2>1, <2>2, <2>3, <2>4
         DEF DiskOK, GenerationsKept, Generations, MixedOnlyUnderHold, OneDirection,
             RollingBack, Forwarding
  <1>10. ASSUME ReleaseHold(p) PROVE Knows(p)' /\ DiskOK'
    <2>1. /\ pc[p] = "complete" /\ pc'[p] = "guarded" /\ hold' = None
          /\ target = new[attempt[p]]
          /\ UNCHANGED <<target, old, new, marks>>
      BY <1>0, <1>10 DEF ReleaseHold, Goto, TypeOK
    <2>2. target \in Generations
      BY <1>0, <2>1 DEF Knows, Publishing, Generations
    <2>3. Knows(p)'
      BY <2>1 DEF Knows, Publishing, Reading, Recovering
    <2>. QED BY <1>0, <2>1, <2>2, <2>3, DistinctNames DEF DiskOK, GenerationsKept, Generations,
                MixedOnlyUnderHold, OneDirection, RollingBack, Forwarding
  <1>11. ASSUME PublishFails(p) PROVE Knows(p)' /\ DiskOK'
    <2>1. pc'[p] = "returned" /\ UNCHANGED disk
      BY <1>0, <1>11 DEF PublishFails, TypeOK
    <2>2. Knows(p)'
      BY <2>1 DEF Knows, Publishing, Reading, Recovering
    <2>. QED BY <1>0, <2>1, <2>2 DEF DiskOK, disk, GenerationsKept, Generations,
                MixedOnlyUnderHold, OneDirection, RollingBack, Forwarding
  <1>. QED BY <1>1, <1>2, <1>3, <1>4, <1>5, <1>6, <1>7, <1>8, <1>9, <1>10, <1>11
           DEF Publication

\* Recording a mark of one's own direction leaves the other one unchosen.
LEMMA MarkKeepsDirection ==
  ASSUME TypeOK, OneDirection, hold \in Attempts, NEW d \in Ways,
         d = "forward" => ~ RollingBack(hold),
         d = "rollback" => ~ Forwarding(hold),
         NEW m \in {Intent(d), Receipt(d)}, Mark(hold, m)
  PROVE  OneDirection' \/ hold' # hold
  BY DEF TypeOK, OneDirection, Mark, Ways, Intent, Receipt, RollingBack, Forwarding

\* The direction whose intent is recorded excludes the other.
LEMMA IntentExcludes ==
  ASSUME OneDirection, hold \in Attempts, NEW d \in Ways, Intent(d) \in marks[hold]
  PROVE  /\ d = "forward" => ~ RollingBack(hold)
         /\ d = "rollback" => ~ Forwarding(hold)
  BY DEF OneDirection, Ways, Intent, RollingBack, Forwarding

\* Under a hold the retained pair that a direction restores is a generation.
LEMMA HeldDisk ==
  ASSUME DiskOK, hold \in Attempts, hold' \in Attempts,
         UNCHANGED <<hold, old, new, marks>>
  PROVE  DiskOK'
  BY DistinctNames DEF DiskOK, GenerationsKept, Generations, MixedOnlyUnderHold,
     OneDirection, RollingBack, Forwarding

\* What a step of a recovery does, and what it then knows.
LEMMA RecoveryStep ==
  ASSUME IndInv, NEW q \in Procs, Recovery(q)
  PROVE  Knows(q)' /\ DiskOK'
  <1>0. Knows(q) /\ DiskOK /\ TypeOK /\ OneDirection /\ way[q] \in Ways
    BY KnowsAll DEF IndInv, DiskOK, TypeOK
  <1>1. ASSUME StageIntent(q) PROVE Knows(q)' /\ DiskOK'
    <2>1. /\ pc[q] = "intent-stage" /\ hold \in Attempts
          /\ UNCHANGED <<target, hold, old, new, marks, way, slot>>
      BY <1>1 DEF StageIntent, StageRecord, Goto, locals, Inspectable
    <2>2. DiskOK' BY <1>0, <2>1, HeldDisk
    <2>3. CASE Intent(way[q]) \in marks[hold]
      <3>1. pc'[q] = "stage"
        BY <1>0, <1>1, <2>3 DEF StageIntent, StageRecord, Goto, TypeOK
      <3>. QED BY <2>1, <2>2, <2>3, <3>1 DEF Knows, Publishing, Reading, Recovering, Intent
    <2>4. CASE Intent(way[q]) \notin marks[hold]
      <3>1. pc'[q] = "intent" /\ staged'[hold] > 0
        BY <1>0, <1>1, <2>1, <2>4 DEF StageIntent, StageRecord, Goto, TypeOK
      <3>. QED BY <1>0, <2>1, <2>2, <3>1
           DEF Knows, Publishing, Reading, Recovering, RollingBack, Forwarding
    <2>. QED BY <2>3, <2>4
  <1>2. ASSUME InstallIntent(q) PROVE Knows(q)' /\ DiskOK'
    <2>1. /\ pc[q] = "intent" /\ pc'[q] = "stage" /\ hold \in Attempts
          /\ UNCHANGED <<target, hold, old, new, way, slot>>
      BY <1>0, <1>2 DEF InstallIntent, InstallRecord, Goto, locals, Inspectable, TypeOK
    <2>2. Mark(hold, Intent(way[q]))
      BY <1>2 DEF InstallIntent, InstallRecord
    <2>3. OneDirection'
      BY <1>0, <2>1, <2>2, MarkKeepsDirection DEF Knows
    <2>4. GenerationsKept' /\ MixedOnlyUnderHold'
      BY <1>0, <2>1, <2>2, DistinctNames
      DEF Mark, DiskOK, GenerationsKept, Generations, MixedOnlyUnderHold, TypeOK
    <2>5. Intent(way[q]) \in marks'[hold]
      BY <1>0, <2>1, <2>2 DEF Mark, TypeOK
    <2>6. Knows(q)'
      BY <2>1, <2>5 DEF Knows, Publishing, Reading, Recovering, Intent
    <2>. QED BY <2>3, <2>4, <2>6 DEF DiskOK
  <1>3. ASSUME StageSlot(q) PROVE Knows(q)' /\ DiskOK'
    <2>1. /\ pc[q] = "stage" /\ hold \in Attempts
          /\ UNCHANGED <<target, hold, old, new, marks, way>>
      BY <1>3 DEF StageSlot, Inspectable
    <2>2. DiskOK' BY <1>0, <2>1, HeldDisk
    <2>3. Intent(way[q]) \in marks[hold] BY <1>0, <2>1 DEF Knows, Recovering
    <2>4. CASE target[slot[q]] = Wanted(q)
      <3>1. pc'[q] \in {"stage", "receipt-stage"}
        BY <1>0, <1>3, <2>4 DEF StageSlot, NextSlot, TypeOK
      <3>. QED BY <2>1, <2>2, <2>3, <3>1 DEF Knows, Publishing, Reading, Recovering, Intent
    <2>5. CASE target[slot[q]] # Wanted(q)
      <3>1. /\ pc'[q] = IF target[slot[q]] = Absent THEN "restore" ELSE "retain"
            /\ Wanted(q) # Absent => staged'[hold] > 0
            /\ UNCHANGED slot
        BY <1>0, <1>3, <2>1, <2>5 DEF StageSlot, Goto, TypeOK
      <3>2. Wanted(q)' = Wanted(q)
        BY <2>1, <3>1 DEF Wanted, Restored
      <3>. QED BY <2>1, <2>2, <2>3, <2>5, <3>1, <3>2
           DEF Knows, Publishing, Reading, Recovering, Intent
    <2>. QED BY <2>4, <2>5
  <1>4. ASSUME RetainSlot(q) PROVE Knows(q)' /\ DiskOK'
    <2>1. /\ pc[q] = "retain" /\ hold \in Attempts
          /\ UNCHANGED <<hold, old, new, marks, staged, way>>
      BY <1>4 DEF RetainSlot, Inspectable
    <2>2. DiskOK' BY <1>0, <2>1, HeldDisk
    <2>3. Intent(way[q]) \in marks[hold] BY <1>0, <2>1 DEF Knows, Recovering
    <2>4. CASE Wanted(q) = Absent
      <3>1. pc'[q] \in {"stage", "receipt-stage"}
        BY <1>0, <1>4, <2>4 DEF RetainSlot, NextSlot, TypeOK
      <3>. QED BY <2>1, <2>2, <2>3, <3>1 DEF Knows, Publishing, Reading, Recovering, Intent
    <2>5. CASE Wanted(q) # Absent
      <3>1. pc'[q] = "restore" /\ UNCHANGED slot
        BY <1>0, <1>4, <2>5 DEF RetainSlot, Goto, TypeOK
      <3>2. Wanted(q)' = Wanted(q)
        BY <2>1, <3>1 DEF Wanted, Restored
      <3>3. staged[hold] > 0 BY <1>0, <2>1, <2>5 DEF Knows
      <3>. QED BY <2>1, <2>2, <2>3, <2>5, <3>1, <3>2, <3>3
           DEF Knows, Publishing, Reading, Recovering, Intent
    <2>. QED BY <2>4, <2>5
  <1>5. ASSUME RestoreSlot(q) PROVE Knows(q)' /\ DiskOK'
    <2>1. /\ pc[q] = "restore" /\ hold \in Attempts
          /\ pc'[q] \in {"stage", "receipt-stage"}
          /\ UNCHANGED <<hold, old, new, marks, way>>
      BY <1>0, <1>5 DEF RestoreSlot, NextSlot, Inspectable, TypeOK
    <2>2. DiskOK' BY <1>0, <2>1, HeldDisk
    <2>3. Intent(way[q]) \in marks[hold] BY <1>0, <2>1 DEF Knows, Recovering
    <2>. QED BY <2>1, <2>2, <2>3 DEF Knows, Publishing, Reading, Recovering, Intent
  <1>6. ASSUME StageReceipt(q) PROVE Knows(q)' /\ DiskOK'
    <2>1. /\ pc[q] = "receipt-stage" /\ hold \in Attempts
          /\ target = Restored(way[q], hold)
          /\ UNCHANGED <<target, hold, old, new, marks, way, slot>>
      BY <1>6 DEF StageReceipt, StageRecord, locals
    <2>2. DiskOK' BY <1>0, <2>1, HeldDisk
    <2>3. Intent(way[q]) \in marks[hold] BY <1>0, <2>1 DEF Knows, Recovering
    <2>4. target' = Restored(way[q], hold)' BY <2>1 DEF Restored
    <2>5. pc'[q] = "clear" \/ (pc'[q] = "receipt" /\ staged'[hold] > 0)
      BY <1>0, <1>6, <2>1 DEF StageReceipt, StageRecord, Goto, TypeOK
    <2>. QED BY <2>1, <2>2, <2>3, <2>4, <2>5
         DEF Knows, Publishing, Reading, Recovering, Intent, Restored
  <1>7. ASSUME InstallReceipt(q) PROVE Knows(q)' /\ DiskOK'
    <2>1. /\ pc[q] = "receipt" /\ pc'[q] = "clear" /\ hold \in Attempts
          /\ UNCHANGED <<target, hold, old, new, way, slot>>
      BY <1>0, <1>7 DEF InstallReceipt, InstallRecord, Goto, locals, Inspectable, TypeOK
    <2>2. Mark(hold, Receipt(way[q]))
      BY <1>7 DEF InstallReceipt, InstallRecord
    <2>3. Intent(way[q]) \in marks[hold] /\ target = Restored(way[q], hold)
      BY <1>0, <2>1 DEF Knows, Recovering
    <2>4. OneDirection'
      BY <1>0, <2>1, <2>2, <2>3, IntentExcludes, MarkKeepsDirection
    <2>5. GenerationsKept' /\ MixedOnlyUnderHold'
      BY <1>0, <2>1, <2>2, DistinctNames
      DEF Mark, DiskOK, GenerationsKept, Generations, MixedOnlyUnderHold, TypeOK
    <2>6. Intent(way[q]) \in marks'[hold]
      BY <1>0, <2>1, <2>2, <2>3 DEF Mark, TypeOK
    <2>7. target' = Restored(way[q], hold)' BY <2>1, <2>3 DEF Restored
    <2>8. Knows(q)'
      BY <2>1, <2>6, <2>7 DEF Knows, Publishing, Reading, Recovering, Intent, Restored
    <2>. QED BY <2>4, <2>5, <2>8 DEF DiskOK
  <1>8. ASSUME ClearHold(q) PROVE Knows(q)' /\ DiskOK'
    <2>1. /\ pc[q] = "clear" /\ pc'[q] = "idle" /\ hold \in Attempts
          /\ UNCHANGED <<target, old, new, marks>> /\ hold' = None
      BY <1>0, <1>8 DEF ClearHold, Goto, Inspectable, TypeOK
    <2>2. target = Restored(way[q], hold) BY <1>0, <2>1 DEF Knows
    <2>3. target \in Generations
      BY <1>0, <2>1, <2>2 DEF Restored, DiskOK, GenerationsKept, Generations
    <2>4. Knows(q)' BY <2>1 DEF Knows, Publishing, Reading, Recovering
    <2>. QED BY <1>0, <2>1, <2>3, <2>4, DistinctNames DEF DiskOK, GenerationsKept, Generations,
                MixedOnlyUnderHold, OneDirection, RollingBack, Forwarding
  <1>9. ASSUME RecoverRefused(q) PROVE Knows(q)' /\ DiskOK'
    <2>1. pc'[q] = "idle" /\ UNCHANGED disk
      BY <1>0, <1>9 DEF RecoverRefused, Leave, TypeOK
    <2>2. Knows(q)' BY <2>1 DEF Knows, Publishing, Reading, Recovering
    <2>. QED BY <1>0, <2>1, <2>2 DEF DiskOK, disk, GenerationsKept, Generations,
                MixedOnlyUnderHold, OneDirection, RollingBack, Forwarding
  <1>. QED BY <1>1, <1>2, <1>3, <1>4, <1>5, <1>6, <1>7, <1>8, <1>9 DEF Recovery

\* What reviewing, starting a recovery, failing and dying do and leave known.
LEMMA OtherStep ==
  ASSUME IndInv, NEW q \in Procs,
         Review(q) \/ (\E d \in Ways : RecoverStart(q, d)) \/ Crash(q)
  PROVE  Knows(q)' /\ DiskOK'
  <1>0. Knows(q) /\ DiskOK /\ TypeOK
    BY KnowsAll DEF IndInv, DiskOK
  <1>1. UNCHANGED disk => DiskOK'
    BY <1>0 DEF DiskOK, disk, GenerationsKept, Generations,
                MixedOnlyUnderHold, OneDirection, RollingBack, Forwarding
  <1>2. ASSUME Review(q) PROVE Knows(q)' /\ DiskOK'
    <2>1. pc'[q] = "idle" /\ UNCHANGED disk
      BY <1>2 DEF Review
    <2>. QED BY <1>1, <2>1 DEF Knows, Publishing, Reading, Recovering
  <1>3. ASSUME NEW d \in Ways, RecoverStart(q, d) PROVE Knows(q)' /\ DiskOK'
    <2>1. /\ pc'[q] = "intent-stage" /\ way'[q] = d /\ hold \in Attempts
          /\ UNCHANGED disk
      BY <1>0, <1>3 DEF RecoverStart, Goto, Inspectable, TypeOK
    <2>2. Knows(q)'
      BY <1>3, <2>1 DEF RecoverStart, Knows, disk, Publishing, Reading, Recovering,
                        RollingBack, Forwarding
    <2>. QED BY <1>1, <2>1, <2>2
  <1>4. ASSUME Crash(q) PROVE Knows(q)' /\ DiskOK'
    <2>1. pc'[q] = "idle" /\ UNCHANGED disk
      BY <1>0, <1>4 DEF Crash, Leave, TypeOK
    <2>. QED BY <1>1, <2>1 DEF Knows, Publishing, Reading, Recovering
  <1>. QED BY <1>2, <1>3, <1>4

\* Every step is one process's, taken while all the others are idle, and the
\* process holds the lock afterwards exactly when it is still at work.
LEMMA StepIsAlone ==
  ASSUME IndInv, NEW p \in Procs,
         \/ Command(p) \/ Publication(p) \/ PublishFails(p)
         \/ Review(p) \/ (\E d \in Ways : RecoverStart(p, d)) \/ Recovery(p)
         \/ Crash(p)
  PROVE  /\ LockIsControl'
         /\ \A q \in Procs : q # p => pc'[q] = "idle" \/ Review(p)
  <1>0. TypeOK /\ LockIsControl BY DEF IndInv
  <1>1. CASE Review(p)
    BY <1>0, <1>1 DEF Review, LockIsControl
  <1>2. ASSUME ~ Review(p) PROVE \A q \in Procs : q # p => pc[q] = "idle"
    <2>1. CASE pc[p] # "idle" BY <1>0, <2>1, Alone
    <2>2. CASE pc[p] = "idle"
      <3>1. GuardBegin(p) \/ (\E d \in Ways : RecoverStart(p, d))
        BY <1>2, <2>2 DEF Command, GuardEnd, LoadStatus, LoadReport, Prepare, Goto,
             Publication, MakeCapsule, RetainCopies, WritePlan, OpenHold, FillHold,
             PublishStatus, PublishReport, OpenCompleted, WriteCompleted, ReleaseHold,
             PublishFails, Recovery, StageIntent, InstallIntent, StageSlot, RetainSlot,
             RestoreSlot, StageReceipt, InstallReceipt, ClearHold, RecoverRefused, Crash,
             StageRecord, InstallRecord, NextSlot, Publishing, Reading, Recovering
      <3>2. owner = None BY <3>1 DEF GuardBegin, RecoverStart
      <3>. QED BY <1>0, <3>2, NobodyAtWork
    <2>. QED BY <2>1, <2>2
  <1>3. ASSUME ~ Review(p), pc[p] # "idle" PROVE owner = p
    BY <1>0, <1>3, Alone
  <1>4. ASSUME ~ Review(p)
        PROVE \E to \in Control : /\ pc' = [pc EXCEPT ![p] = to]
                                  /\ owner' = IF to = "idle" THEN None ELSE p
    <2>1. CASE Command(p)
      BY <1>3, <1>4, <2>1 DEF Command, GuardBegin, GuardEnd, LoadStatus, LoadReport, Prepare,
         Goto, Control, Reading, Publishing
    <2>2. CASE Publication(p) \/ PublishFails(p)
      BY <1>3, <1>4, <2>2 DEF Publication, MakeCapsule, RetainCopies, WritePlan, OpenHold,
         FillHold, PublishStatus, PublishReport, OpenCompleted, WriteCompleted, ReleaseHold,
         PublishFails, Goto, disk, locals, Control, Reading, Publishing
    <2>3. CASE Recovery(p)
      <3>1. CASE StageIntent(p) \/ InstallIntent(p) \/ StageReceipt(p) \/ InstallReceipt(p)
        BY <1>3, <1>4, <3>1 DEF StageIntent, InstallIntent, StageReceipt, InstallReceipt,
           StageRecord, InstallRecord, Goto, Control, Recovering
      <3>2. CASE StageSlot(p) \/ RetainSlot(p) \/ RestoreSlot(p)
        BY <1>3, <1>4, <3>2 DEF StageSlot, RetainSlot, RestoreSlot, NextSlot, Goto,
           Control, Recovering
      <3>3. CASE ClearHold(p) \/ RecoverRefused(p)
        BY <3>3 DEF ClearHold, RecoverRefused, Leave, Goto, Control
      <3>. QED BY <2>3, <3>1, <3>2, <3>3 DEF Recovery
    <2>4. CASE (\E d \in Ways : RecoverStart(p, d)) \/ Crash(p)
      BY <2>4 DEF RecoverStart, Crash, Leave, Goto, Control, Recovering
    <2>. QED BY <1>4, <2>1, <2>2, <2>3, <2>4
  <1>5. CASE ~ Review(p)
    <2>1. PICK to \in Control : /\ pc' = [pc EXCEPT ![p] = to]
                                /\ owner' = IF to = "idle" THEN None ELSE p
      BY <1>4, <1>5
    <2>. QED BY <1>0, <1>2, <1>5, <2>1, LockStep
  <1>. QED BY <1>1, <1>5

\* Every step, and every stutter, keeps the inductive invariant.
LEMMA IndStep == IndInv /\ [Next]_vars => IndInv'
  <1>. SUFFICES ASSUME IndInv, [Next]_vars PROVE IndInv'
    OBVIOUS
  <1>1. ASSUME NEW p \in Procs,
               \/ Command(p) \/ Publication(p) \/ PublishFails(p)
               \/ Review(p) \/ (\E d \in Ways : RecoverStart(p, d)) \/ Recovery(p)
               \/ Crash(p)
        PROVE  IndInv'
    <2>1. TypeOK'
      BY <1>1, TypeCommand, TypePublication, TypeRecovery, TypeOther DEF IndInv
    <2>2. Knows(p)' /\ DiskOK'
      BY <1>1, CommandStep, PublicationStep, RecoveryStep, OtherStep
    <2>3. LockIsControl' /\ \A q \in Procs : q # p => pc'[q] = "idle" \/ Review(p)
      BY <1>1, StepIsAlone
    <2>4. (PublicationKnows /\ HoldFollowsControl /\ RecoveryKnows /\ StagesCounted /\ ReaderKnows)'
      <3>1. CASE Review(p)
        BY <3>1 DEF IndInv, Review, disk, PublicationKnows, HoldFollowsControl, RecoveryKnows,
           StagesCounted, ReaderKnows, Wanted, Restored, RollingBack, Forwarding
      <3>2. CASE ~ Review(p)
        BY <2>2, <2>3, <3>2, KnowsPrimed
      <3>. QED BY <3>1, <3>2
    <2>. QED BY <2>1, <2>2, <2>3, <2>4 DEF IndInv, DiskOK
  <1>2. CASE UNCHANGED vars
    BY <1>2 DEF IndInv, vars, TypeOK, LockIsControl, PublicationKnows, HoldFollowsControl,
       RecoveryKnows, StagesCounted, GenerationsKept, ReaderKnows, MixedOnlyUnderHold,
       OneDirection, Generations, Wanted, Restored, RollingBack, Forwarding
  <1>. QED BY <1>1, <1>2 DEF Next

\* The inductive invariant holds throughout every behaviour.
LEMMA Inductive == Spec => []IndInv
  BY IndInit, IndStep, PTL DEF Spec

-----------------------------------------------------------------------------
(* The results.                                                            *)

\* Every variable keeps its type; in particular a recovery never renames a
\* stage it did not write.
THEOREM TypeCorrect == Spec => []TypeOK
  <1>1. IndInv => TypeOK BY DEF IndInv
  <1>. QED BY <1>1, Inductive, PTL

\* A root without a hold carries two files of one generation, whatever
\* publications, crashes and recoveries came before.
THEOREM PairIsWhole == Spec => []MixedOnlyUnderHold
  <1>1. IndInv => MixedOnlyUnderHold BY DEF IndInv
  <1>. QED BY <1>1, Inductive, PTL

\* A command that has read both files has read one published pair.
THEOREM ReadersSeeWhole == Spec => []ReadsWhole
  <1>1. IndInv => ReadsWhole
    BY DEF IndInv, ReadsWhole, ReaderKnows, HoldFollowsControl, Reading, MixedOnlyUnderHold
  <1>. QED BY <1>1, Inductive, PTL

\* The direction of a recovery, once recorded, is never contradicted.
THEOREM DirectionIsChosenOnce == Spec => []OneDirection
  <1>1. IndInv => OneDirection BY DEF IndInv
  <1>. QED BY <1>1, Inductive, PTL

\* The actions that touch the hold, the live files or the retained pairs.
LEMMA WhatMoves ==
  ASSUME [Next]_vars
  PROVE  \/ UNCHANGED <<target, hold, old, new, marks>>
         \/ \E p \in Procs :
              \/ Prepare(p) \/ RetainCopies(p) \/ WritePlan(p) \/ OpenHold(p) \/ FillHold(p)
              \/ PublishStatus(p) \/ PublishReport(p) \/ OpenCompleted(p)
              \/ WriteCompleted(p) \/ ReleaseHold(p) \/ InstallIntent(p)
              \/ RetainSlot(p) \/ RestoreSlot(p) \/ InstallReceipt(p) \/ ClearHold(p)
  BY DEF Next, vars, disk, locals, Command, GuardBegin, GuardEnd, LoadStatus, LoadReport,
     Publication, MakeCapsule, PublishFails, Review, RecoverStart, Recovery, StageIntent,
     StageSlot, StageReceipt, StageRecord, RecoverRefused, Crash, Leave

\* A hold goes only with the generation that was decided on in place.
THEOREM HoldsEndAsIntended == Spec => IntentHonoured
  <1>. DEFINE Ends(a) ==
         hold = a /\ hold' # a =>
           /\ hold' = None
           /\ target' = Restored(IF RollingBack(a) THEN "rollback" ELSE "forward", a)
           /\ RollingBack(a) \/ Forwarding(a) \/ "completed" \in marks[a]
  <1>1. ASSUME IndInv, [Next]_vars, NEW a \in Attempts PROVE Ends(a)
    <2>1. SUFFICES ASSUME hold = a, hold' # a
                   PROVE  /\ hold' = None
                          /\ target' = Restored(IF RollingBack(a) THEN "rollback" ELSE "forward", a)
                          /\ RollingBack(a) \/ Forwarding(a) \/ "completed" \in marks[a]
      OBVIOUS
    <2>2. PICK p \in Procs : ReleaseHold(p) \/ ClearHold(p)
      <3>1. PICK p \in Procs : OpenHold(p) \/ FillHold(p) \/ ReleaseHold(p) \/ ClearHold(p)
        BY <1>1, <2>1, WhatMoves DEF Prepare, RetainCopies, WritePlan, PublishStatus,
           PublishReport, OpenCompleted, WriteCompleted, InstallIntent, RetainSlot,
           RestoreSlot, InstallReceipt, InstallRecord
      <3>2. ~ OpenHold(p) BY <2>1, DistinctNames DEF OpenHold
      <3>3. ~ FillHold(p)
        BY <1>1, <2>1, DistinctNames DEF FillHold, Goto, IndInv, HoldFollowsControl
      <3>. QED BY <3>1, <3>2, <3>3
    <2>3. CASE ReleaseHold(p)
      <3>1. pc[p] = "complete" /\ attempt[p] = a /\ target' = new[a] /\ hold' = None
        BY <2>1, <2>3 DEF ReleaseHold, Goto
      <3>2. ~ RollingBack(a) /\ "completed" \in marks[a]
        BY <1>1, <3>1 DEF IndInv, PublicationKnows, Publishing
      <3>. QED BY <3>1, <3>2 DEF Restored
    <2>4. CASE ClearHold(p)
      <3>1. pc[p] = "clear" /\ hold' = None /\ target' = target
        BY <2>4 DEF ClearHold, Goto
      <3>2. /\ Intent(way[p]) \in marks[a] /\ target = Restored(way[p], a)
            /\ way[p] \in Ways /\ OneDirection
        BY <1>1, <2>1, <3>1 DEF IndInv, TypeOK, RecoveryKnows, Recovering
      <3>. QED BY <3>1, <3>2 DEF OneDirection, Ways, Intent, Restored, RollingBack, Forwarding
    <2>. QED BY <2>2, <2>3, <2>4
  <1>2. IndInv /\ [Next]_vars => [\A a \in Attempts : Ends(a)]_vars
    BY <1>1
  <1>. QED BY <1>2, Inductive, PTL DEF Spec, IntentHonoured

-----------------------------------------------------------------------------
(* The two files implement one register.                                   *)

Shown   == IF hold \in Attempts THEN old[hold] ELSE target
Offered == {new[a] : a \in {b \in Attempts : new[b] # Nothing}}

\* The initial states are initial states of the register.
LEMMA RegisterInit == Init => Register!Init
  <1>. SUFFICES ASSUME Init PROVE Register!Init OBVIOUS
  <1>1. target \in Pair BY TypeInit DEF TypeOK
  <1>2. Shown = target BY DistinctNames DEF Init, Shown
  <1>3. Offered = {} BY DEF Init, Offered
  <1>. QED BY <1>1, <1>2, <1>3 DEF Register!Init, Shown, Offered

\* A step offers a pair to the register, commits one, or leaves it alone.
LEMMA RegisterStep ==
  IndInv /\ [Next]_vars => [Register!Next]_(<<Shown, Offered>>)
  <1>. SUFFICES ASSUME IndInv, [Next]_vars
                PROVE  \/ UNCHANGED <<Shown, Offered>>
                       \/ \E x \in Pair :
                            \/ Offered' = Offered \cup {x} /\ Shown' = Shown
                            \/ x \in Offered /\ Shown' = x /\ Offered' = Offered
    BY DEF Register!Next, Register!Offer, Register!Commit, Shown, Offered
  <1>0. TypeOK /\ \A q \in Procs : Knows(q) BY KnowsAll DEF IndInv
  <1>1. CASE UNCHANGED <<target, hold, old, new>>
    BY <1>1 DEF Shown, Offered
  <1>2. ASSUME NEW p \in Procs, Prepare(p)
        PROVE  \E x \in Pair : Offered' = Offered \cup {x} /\ Shown' = Shown
    <2>1. PICK a \in Attempts, fresh \in SUBSET Slots :
            /\ old[a] = Nothing /\ new[a] = Nothing
            /\ \A s \in Slots : target[s] = Absent => s \in fresh
            /\ new' = [new EXCEPT ![a] =
                    [s \in Slots |-> IF s \in fresh THEN a ELSE target[s]]]
      BY <1>2 DEF Prepare
    <2>2. hold = None /\ UNCHANGED <<target, hold>>
      BY <1>0, <1>2 DEF Prepare, Knows, Reading
    <2>3. Shown' = Shown BY <2>2, DistinctNames DEF Shown
    <2>4. new'[a] \in Pair /\ new'[a] # Nothing
      <3>1. new'[a] = [s \in Slots |-> IF s \in fresh THEN a ELSE target[s]]
        BY <1>0, <2>1 DEF TypeOK
      <3>2. new'[a]["status"] # Absent BY <2>1, <3>1, DistinctNames DEF Slots
      <3>3. new'[a] \in Pair BY <1>0, <3>1 DEF TypeOK, Pair, Bytes
      <3>. QED BY <3>2, <3>3 DEF Nothing, Slots
    <2>5. Offered' = Offered \cup {new'[a]}
      BY <1>0, <2>1, <2>4 DEF TypeOK, Offered
    <2>. QED BY <2>3, <2>4, <2>5
  <1>3. ASSUME NEW p \in Procs,
               \/ RetainCopies(p) \/ WritePlan(p) \/ OpenCompleted(p) \/ WriteCompleted(p)
               \/ InstallIntent(p) \/ InstallReceipt(p)
        PROVE  UNCHANGED <<target, hold, old, new>>
    BY <1>3 DEF RetainCopies, WritePlan, OpenCompleted, WriteCompleted, InstallIntent,
       InstallReceipt, InstallRecord
  <1>4. ASSUME NEW p \in Procs, OpenHold(p) \/ FillHold(p)
        PROVE  UNCHANGED <<Shown, Offered>>
    <2>1. CASE OpenHold(p)
      BY <2>1, DistinctNames DEF OpenHold, Shown, Offered
    <2>2. CASE FillHold(p)
      <3>1. /\ hold = Torn /\ hold' = attempt[p] /\ attempt[p] \in Attempts
            /\ target = old[attempt[p]] /\ UNCHANGED <<target, old, new>>
        BY <1>0, <2>2 DEF FillHold, Goto, Knows, Publishing
      <3>. QED BY <3>1, DistinctNames DEF Shown, Offered
    <2>. QED BY <1>4, <2>1, <2>2
  <1>5. ASSUME NEW p \in Procs,
               PublishStatus(p) \/ PublishReport(p) \/ RetainSlot(p) \/ RestoreSlot(p)
        PROVE  UNCHANGED <<Shown, Offered>>
    <2>1. hold \in Attempts
      BY <1>0, <1>5 DEF PublishStatus, PublishReport, RetainSlot, RestoreSlot, Goto, Knows,
         Publishing, Inspectable
    <2>2. UNCHANGED <<hold, old, new>>
      BY <1>5 DEF PublishStatus, PublishReport, RetainSlot, RestoreSlot
    <2>. QED BY <2>1, <2>2 DEF Shown, Offered
  <1>6. ASSUME NEW p \in Procs, ReleaseHold(p)
        PROVE  \E x \in Pair : x \in Offered /\ Shown' = x /\ Offered' = Offered
    <2>1. /\ attempt[p] \in Attempts /\ new[attempt[p]] # Nothing
          /\ target = new[attempt[p]] /\ hold' = None /\ UNCHANGED <<target, new>>
      BY <1>0, <1>6 DEF ReleaseHold, Goto, Knows, Publishing
    <2>2. target \in Offered /\ target \in Pair
      BY <1>0, <2>1 DEF Offered, TypeOK
    <2>3. Shown' = target /\ Offered' = Offered
      BY <2>1, DistinctNames DEF Shown, Offered
    <2>. QED BY <2>2, <2>3
  <1>7. ASSUME NEW p \in Procs, ClearHold(p)
        PROVE  \/ UNCHANGED <<Shown, Offered>>
               \/ \E x \in Pair : x \in Offered /\ Shown' = x /\ Offered' = Offered
    <2>1. /\ hold \in Attempts /\ hold' = None /\ UNCHANGED <<target, new, old>>
          /\ target = Restored(way[p], hold) /\ new[hold] # Nothing
      BY <1>0, <1>7 DEF ClearHold, Goto, Knows, Inspectable, IndInv, GenerationsKept
    <2>2. Shown' = target /\ Offered' = Offered
      BY <2>1, DistinctNames DEF Shown, Offered
    <2>3. CASE way[p] = "forward"
      <3>1. target \in Offered /\ target \in Pair
        BY <1>0, <2>1, <2>3 DEF Restored, Offered, TypeOK
      <3>. QED BY <2>2, <3>1
    <2>4. CASE way[p] # "forward"
      BY <2>1, <2>2, <2>4 DEF Restored, Shown
    <2>. QED BY <2>3, <2>4
  <1>. QED BY <1>1, <1>2, <1>3, <1>4, <1>5, <1>6, <1>7, WhatMoves

\* Publication, crash and recovery of the pair implement one atomic register.
THEOREM PairIsARegister == Spec => ActsAsRegister
  <1>1. IndInv /\ [Next]_vars => [Register!Next]_(<<Shown, Offered>>)
    BY RegisterStep
  <1>. QED BY <1>1, RegisterInit, Inductive, PTL
       DEF Spec, ActsAsRegister, Register!Spec, Shown, Offered

-----------------------------------------------------------------------------
(* What is held can be recovered.                                          *)

\* What inspection asks of a held attempt, but for a torn completion record,
\* the number of stages and the direction.
Admitted ==
  /\ {"copies", "plan"} \subseteq marks[hold]
  /\ \A d \in Ways : Receipt(d) \in marks[hold] => /\ Intent(d) \in marks[hold]
                                                   /\ target = Restored(d, hold)
  /\ displaced[hold] # Nothing => marks[hold] \cap {Intent(d) : d \in Ways} # {}
  /\ \A s \in Slots :
       /\ target[s] \in {old[hold][s], new[hold][s], Absent}
       /\ displaced[hold][s] \in {old[hold][s], new[hold][s], Absent}
       /\ old[hold][s] # Absent /\ target[s] = Absent => displaced[hold][s] # Absent
       /\ displaced[hold][s] # Absent /\ target[s] # Absent =>
            target[s] = Restored(IF Forwarding(hold) THEN "forward" ELSE "rollback", hold)[s]

\* What the disk keeps of an attempt whoever dies when.
Retained ==
  /\ \A a \in Attempts : new[a] = Nothing => displaced[a] = Nothing
  /\ \A a \in Attempts : new[a] # Nothing => \A s \in Slots : new[a][s] # Absent
  /\ hold \in Attempts => Admitted

\* What a control point adds: records written so far, nothing displaced by a
\* publication, and a slot that is still to be restored.
Prepared(p) ==
  /\ pc[p] \in {"retained", "planned", "hold-open"} => "copies" \in marks[attempt[p]]
  /\ pc[p] \in {"planned", "hold-open"} => "plan" \in marks[attempt[p]]
  /\ pc[p] \in Publishing => displaced[attempt[p]] = Nothing
  /\ pc[p] \in {"retain", "restore"} => target[slot[p]] # Wanted(p)
  /\ pc[p] = "retain" => target[slot[p]] # Absent

Recoverable == Retained /\ \A p \in Procs : Prepared(p)
\* A control point at which nothing is known of the attempt.
LEMMA PreparedAtRest ==
  ASSUME NEW p, pc[p] \notin Publishing \cup {"retain", "restore"}
  PROVE  Prepared(p)
  BY DEF Prepared, Publishing

\* The same after a step.
LEMMA PreparedAtRestThen ==
  ASSUME NEW p, pc'[p] \notin Publishing \cup {"retain", "restore"}
  PROVE  Prepared(p)'
  BY DEF Prepared, Publishing

\* A root that is taken over carries no hold.
LEMMA RecoverableInit == Init => Recoverable
  <1>. SUFFICES ASSUME Init PROVE Recoverable OBVIOUS
  <1>1. Retained BY DistinctNames DEF Init, Retained
  <1>2. ASSUME NEW p \in Procs PROVE Prepared(p)
    BY PreparedAtRest DEF Init, Publishing
  <1>. QED BY <1>1, <1>2 DEF Recoverable

\* Steps that leave the files of the attempt alone.
LEMMA RetainedStays ==
  ASSUME Retained, UNCHANGED <<target, hold, old, new, marks, displaced>>
  PROVE  Retained'
  BY DEF Retained, Admitted, Restored, Forwarding

\* Commands leave a root without a hold; preparing makes a whole new pair.
LEMMA RecoverableCommand ==
  ASSUME IndInv, Recoverable, NEW p \in Procs, Command(p)
  PROVE  Retained' /\ Prepared(p)'
  <1>0. TypeOK /\ Retained /\ Knows(p)
    BY KnowsAll DEF IndInv, Recoverable
  <1>1. CASE ~ Prepare(p)
    <2>1. UNCHANGED <<target, hold, old, new, marks, displaced>>
      BY <1>1 DEF Command, GuardBegin, GuardEnd, LoadStatus, LoadReport, disk
    <2>2. pc'[p] \notin Publishing \cup {"retain", "restore"}
      BY <1>0, <1>1 DEF Command, GuardBegin, GuardEnd, LoadStatus, LoadReport, Goto, TypeOK,
         Publishing
    <2>. QED BY <1>0, <2>1, <2>2, RetainedStays, PreparedAtRestThen
  <1>2. CASE Prepare(p)
    <2>1. PICK a \in Attempts, fresh \in SUBSET Slots :
            /\ new[a] = Nothing
            /\ \A s \in Slots : target[s] = Absent => s \in fresh
            /\ attempt' = [attempt EXCEPT ![p] = a]
            /\ new' = [new EXCEPT ![a] =
                    [s \in Slots |-> IF s \in fresh THEN a ELSE target[s]]]
      BY <1>2 DEF Prepare
    <2>2. /\ hold' = None /\ displaced' = displaced /\ pc'[p] = "prepared"
          /\ attempt'[p] = a
      BY <1>0, <1>2, <2>1 DEF Prepare, Knows, Reading, TypeOK
    <2>3. displaced[a] = Nothing BY <1>0, <2>1 DEF Retained
    <2>4. new'[a] = [s \in Slots |-> IF s \in fresh THEN a ELSE target[s]]
      BY <1>0, <2>1 DEF TypeOK
    <2>5. \A s \in Slots : new'[a][s] # Absent
      BY <2>1, <2>4, DistinctNames
    <2>6. \A b \in Attempts : b # a => new'[b] = new[b]
      BY <1>0, <2>1 DEF TypeOK
    <2>7. Retained'
      BY <1>0, <2>2, <2>3, <2>5, <2>6, DistinctNames DEF Retained
    <2>8. Prepared(p)'
      BY <2>2, <2>3 DEF Prepared
    <2>. QED BY <2>7, <2>8
  <1>. QED BY <1>1, <1>2

\* Records are written before the hold names the attempt; under it the files
\* go from the predecessor to the new pair, neither of which is lost.
LEMMA RecoverablePublication ==
  ASSUME IndInv, Recoverable, NEW p \in Procs, Publication(p) \/ PublishFails(p)
  PROVE  Retained' /\ Prepared(p)'
  <1>0. TypeOK /\ Retained /\ Knows(p) /\ Prepared(p) /\ GenerationsKept
    BY KnowsAll DEF IndInv, Recoverable
  <1>a. pc[p] \in Publishing =>
          /\ attempt[p] \in Attempts /\ new[attempt[p]] # Nothing
          /\ displaced[attempt[p]] = Nothing
          /\ ~ Forwarding(attempt[p]) /\ ~ RollingBack(attempt[p])
          /\ \A s \in Slots : new[attempt[p]][s] # Absent
    BY <1>0 DEF Knows, Prepared, Retained
  <1>1. CASE MakeCapsule(p) \/ PublishFails(p)
    <2>1. UNCHANGED <<target, hold, old, new, marks, displaced>>
      BY <1>1 DEF MakeCapsule, PublishFails, disk
    <2>2. Prepared(p)'
      <3>1. CASE PublishFails(p)
        BY <1>0, <3>1, PreparedAtRestThen DEF PublishFails, TypeOK, Publishing
      <3>2. CASE MakeCapsule(p)
        BY <1>0, <1>a, <2>1, <3>2 DEF MakeCapsule, Goto, TypeOK, locals, Prepared, Publishing
      <3>. QED BY <1>1, <3>1, <3>2
    <2>. QED BY <1>0, <2>1, <2>2, RetainedStays
  <1>2. CASE RetainCopies(p) \/ WritePlan(p)
    <2>1. /\ pc[p] \in {"capsule", "retained"} /\ hold' = None
          /\ UNCHANGED <<new, displaced, attempt>>
      BY <1>0, <1>2 DEF RetainCopies, WritePlan, Goto, Knows, locals
    <2>2. Retained' BY <1>0, <2>1, DistinctNames DEF Retained
    <2>a. attempt' = attempt /\ displaced'[attempt'[p]] = Nothing
      BY <1>a, <2>1 DEF Publishing
    <2>3. CASE RetainCopies(p)
      <3>1. "copies" \in marks'[attempt[p]] /\ pc'[p] = "retained"
        BY <1>0, <1>a, <2>1, <2>3 DEF RetainCopies, Goto, Mark, TypeOK, Publishing
      <3>. QED BY <2>2, <2>a, <3>1 DEF Prepared, Publishing
    <2>4. CASE WritePlan(p)
      <3>1. /\ {"copies", "plan"} \subseteq marks'[attempt[p]] /\ pc'[p] = "planned"
            /\ pc[p] = "retained"
        <4>1. pc[p] = "retained" /\ "copies" \in marks[attempt[p]]
          BY <1>0, <2>4 DEF WritePlan, Goto, Prepared
        <4>. QED BY <1>0, <1>a, <2>4, <4>1 DEF WritePlan, Goto, Mark, TypeOK, Publishing
      <3>. QED BY <2>2, <2>a, <3>1 DEF Prepared, Publishing
    <2>. QED BY <1>2, <2>2, <2>3, <2>4
  <1>3. CASE OpenHold(p)
    <2>1. Retained' BY <1>0, <1>3, DistinctNames DEF OpenHold, Retained
    <2>2. Prepared(p)'
      BY <1>0, <1>a, <1>3 DEF OpenHold, Goto, TypeOK, locals, Prepared, Publishing
    <2>. QED BY <2>1, <2>2
  <1>4. CASE FillHold(p)
    <2>1. /\ hold' = attempt[p] /\ UNCHANGED <<target, old, new, marks, displaced, attempt>>
          /\ pc[p] = "hold-open" /\ pc'[p] = "held" /\ target = old[attempt[p]]
          /\ {"copies", "plan"} \subseteq marks[attempt[p]]
      BY <1>0, <1>4 DEF FillHold, Goto, TypeOK, locals, Knows, Prepared
    <2>2. Admitted'
      <3>1. \A d \in Ways : Receipt(d) \notin marks[attempt[p]]
        BY <1>a, <2>1 DEF Publishing, Ways, Receipt, Forwarding, RollingBack
      <3>2. \A s \in Slots : displaced[attempt[p]][s] = Absent
        BY <1>a, <2>1 DEF Publishing, Nothing
      <3>3. \A s \in Slots : old[attempt[p]][s] # Absent => target[s] # Absent
        BY <2>1
      <3>. QED BY <1>a, <2>1, <3>1, <3>2, <3>3 DEF Admitted, Publishing
    <2>3. Retained' BY <1>0, <2>1, <2>2 DEF Retained
    <2>4. Prepared(p)' BY <1>a, <2>1 DEF Prepared, Publishing
    <2>. QED BY <2>3, <2>4
  <1>5. CASE PublishStatus(p) \/ PublishReport(p)
    <2>1. /\ pc[p] \in Publishing /\ hold = attempt[p]
          /\ UNCHANGED <<hold, old, new, marks, displaced, attempt>>
          /\ pc'[p] \in {"status-live", "report-live"}
          /\ \A s \in Slots : target'[s] \in {target[s], new[hold][s]}
      BY <1>0, <1>5 DEF PublishStatus, PublishReport, Goto, TypeOK, Knows, locals,
         Publishing, Pair, Slots
    <2>2. Admitted'
      <3>1. Admitted BY <1>0, <1>a, <2>1 DEF Retained
      <3>2. \A d \in Ways : Receipt(d) \notin marks[hold]
        BY <1>a, <2>1 DEF Ways, Receipt, Forwarding, RollingBack
      <3>3. \A s \in Slots : displaced[hold][s] = Absent
        BY <1>a, <2>1 DEF Nothing
      <3>. QED BY <1>a, <2>1, <3>1, <3>2, <3>3 DEF Admitted
    <2>3. Retained' BY <1>0, <2>1, <2>2 DEF Retained
    <2>4. Prepared(p)' BY <1>a, <2>1 DEF Prepared, Publishing
    <2>. QED BY <2>3, <2>4
  <1>6. CASE OpenCompleted(p) \/ WriteCompleted(p)
    <2>1. /\ pc[p] \in Publishing /\ hold = attempt[p]
          /\ UNCHANGED <<target, hold, old, new, displaced, attempt>>
          /\ pc'[p] \in {"completing", "complete"}
          /\ \A m \in Marks \ {"completed-torn", "completed"} :
               m \in marks'[hold] <=> m \in marks[hold]
      BY <1>0, <1>a, <1>6 DEF OpenCompleted, WriteCompleted, Goto, Mark, TypeOK, Knows, locals,
         Publishing
    <2>2. /\ Admitted /\ \A d \in Ways : Intent(d) \in Marks /\ Receipt(d) \in Marks
          /\ \A d \in Ways : {Intent(d), Receipt(d)} \cap {"completed-torn", "completed"} = {}
      BY <1>0, <1>a, <2>1, MarkNames DEF Retained, Ways, Intent, Receipt
    <2>3. Admitted'
      <3>1. /\ \A d \in Ways : /\ Intent(d) \in marks'[hold] <=> Intent(d) \in marks[hold]
                               /\ Receipt(d) \in marks'[hold] <=> Receipt(d) \in marks[hold]
            /\ "copies" \in marks'[hold] /\ "plan" \in marks'[hold]
        BY <2>1, <2>2 DEF Admitted, Marks
      <3>2. \A s \in Slots : displaced[hold][s] = Absent
        BY <1>a, <2>1 DEF Nothing
      <3>3. displaced[hold] = Nothing BY <1>a, <2>1
      <3>4. \A d \in Ways : Restored(d, hold)' = Restored(d, hold)
        BY <2>1 DEF Restored
      <3>. QED BY <2>1, <2>2, <3>1, <3>2, <3>3, <3>4 DEF Admitted
    <2>4. Retained' BY <1>0, <2>1, <2>3 DEF Retained
    <2>5. Prepared(p)' BY <1>a, <2>1 DEF Prepared, Publishing
    <2>. QED BY <2>4, <2>5
  <1>7. CASE ReleaseHold(p)
    <2>1. Retained' BY <1>0, <1>7, DistinctNames DEF ReleaseHold, Retained
    <2>2. Prepared(p)'
      BY <1>0, <1>7, PreparedAtRestThen DEF ReleaseHold, Goto, TypeOK, Publishing
    <2>. QED BY <2>1, <2>2
  <1>. QED BY <1>1, <1>2, <1>3, <1>4, <1>5, <1>6, <1>7 DEF Publication

\* Where a slot is still to be restored there is no receipt yet.
LEMMA NoReceiptYet ==
  ASSUME IndInv, Recoverable, NEW q \in Procs, pc[q] \in {"retain", "restore"}
  PROVE  /\ hold \in Attempts /\ Admitted /\ target[slot[q]] # Wanted(q)
         /\ \A d \in Ways : Receipt(d) \notin marks[hold]
         /\ Intent(way[q]) \in marks[hold] /\ way[q] \in Ways /\ slot[q] \in Slots
         /\ Restored(IF Forwarding(hold) THEN "forward" ELSE "rollback", hold)
              = Restored(way[q], hold)
  <1>1. /\ Knows(q) /\ Prepared(q) /\ Retained /\ OneDirection
        /\ way[q] \in Ways /\ slot[q] \in Slots
    BY KnowsAll DEF IndInv, Recoverable, TypeOK
  <1>2. /\ hold \in Attempts /\ Admitted /\ target[slot[q]] # Wanted(q)
        /\ Intent(way[q]) \in marks[hold]
    BY <1>1 DEF Knows, Prepared, Retained, Recovering
  <1>3. ASSUME NEW d \in Ways, Intent(d) \in marks[hold] PROVE d = way[q]
    BY <1>1, <1>2, <1>3 DEF OneDirection, Ways, Intent, Forwarding, RollingBack
  <1>4. \A d \in Ways : Receipt(d) \notin marks[hold]
    BY <1>2, <1>3 DEF Admitted, Wanted
  <1>5. Forwarding(hold) <=> way[q] = "forward"
    BY <1>1, <1>2 DEF OneDirection, Ways, Intent, Forwarding, RollingBack
  <1>. QED BY <1>1, <1>2, <1>4, <1>5 DEF Ways, Restored

\* After the other slot, or the receipt, nothing is known of a slot.
LEMMA AfterSlot ==
  ASSUME TypeOK, NEW q \in Procs, NEW from, NextSlot(q, from)
  PROVE  Prepared(q)'
  BY PreparedAtRestThen DEF NextSlot, TypeOK, Publishing

\* A recovery moves bytes aside and brings retained ones back, slot by slot.
LEMMA RecoverableRecovery ==
  ASSUME IndInv, Recoverable, NEW q \in Procs, Recovery(q)
  PROVE  Retained' /\ Prepared(q)'
  <1>0. TypeOK /\ Retained /\ Knows(q) /\ GenerationsKept /\ OneDirection
    BY KnowsAll DEF IndInv, Recoverable
  <1>1. CASE StageIntent(q) \/ StageReceipt(q) \/ RecoverRefused(q)
    <2>1. UNCHANGED <<target, hold, old, new, marks, displaced>>
      BY <1>1 DEF StageIntent, StageReceipt, StageRecord, RecoverRefused, Leave, disk
    <2>2. pc'[q] \in {"intent", "stage", "receipt", "clear", "idle"}
      BY <1>0, <1>1 DEF StageIntent, StageReceipt, StageRecord, RecoverRefused, Leave, Goto, TypeOK
    <2>. QED BY <1>0, <2>1, <2>2, RetainedStays, PreparedAtRestThen DEF Publishing
  <1>2. CASE InstallIntent(q) \/ InstallReceipt(q)
    <2>1. /\ hold \in Attempts /\ Admitted
          /\ UNCHANGED <<target, hold, old, new, displaced>>
          /\ pc'[q] \in {"stage", "clear"} /\ way[q] \in Ways
      BY <1>0, <1>2 DEF InstallIntent, InstallReceipt, InstallRecord, Goto, TypeOK, Inspectable,
         Retained
    <2>2. Admitted'
      <3>1. CASE InstallIntent(q)
        <4>1. /\ marks'[hold] = marks[hold] \cup {Intent(way[q])}
              /\ way[q] = "forward" => ~ RollingBack(hold)
              /\ way[q] = "rollback" => ~ Forwarding(hold)
          BY <1>0, <2>1, <3>1 DEF InstallIntent, InstallRecord, Goto, Mark, TypeOK, Knows
        <4>2. \A d \in Ways : Receipt(d) \in marks'[hold] <=> Receipt(d) \in marks[hold]
          BY <4>1 DEF Ways, Intent, Receipt
        <4>3. \A d \in Ways : Restored(d, hold)' = Restored(d, hold)
          BY <2>1 DEF Restored
        <4>4. CASE displaced[hold] = Nothing
          <5>1. \A s \in Slots : displaced[hold][s] = Absent BY <4>4 DEF Nothing
          <5>. QED BY <2>1, <4>1, <4>2, <4>3, <4>4, <5>1 DEF Admitted
        <4>5. CASE displaced[hold] # Nothing
          <5>1. marks'[hold] = marks[hold]
            BY <2>1, <4>1, <4>5 DEF Admitted, Ways, Intent, Forwarding, RollingBack
          <5>. QED BY <2>1, <4>3, <5>1 DEF Admitted, Forwarding, Restored
        <4>. QED BY <4>4, <4>5
      <3>2. CASE InstallReceipt(q)
        <4>1. /\ marks'[hold] = marks[hold] \cup {Receipt(way[q])}
              /\ Intent(way[q]) \in marks[hold] /\ target = Restored(way[q], hold)
          BY <1>0, <2>1, <3>2 DEF InstallReceipt, InstallRecord, Goto, Mark, TypeOK, Knows,
             Recovering
        <4>2. Forwarding(hold)' = Forwarding(hold)
          BY <2>1, <4>1 DEF Ways, Intent, Receipt, Forwarding
        <4>3. \A d \in Ways : Restored(d, hold)' = Restored(d, hold)
          BY <2>1 DEF Restored
        <4>4. \A d \in Ways : Receipt(d) = Receipt(way[q]) => d = way[q]
          BY <2>1 DEF Ways, Receipt
        <4>. QED BY <2>1, <4>1, <4>2, <4>3, <4>4 DEF Admitted, Ways, Restored
      <3>. QED BY <1>2, <3>1, <3>2
    <2>3. Retained' BY <1>0, <2>1, <2>2 DEF Retained
    <2>4. Prepared(q)' BY <2>1, PreparedAtRestThen DEF Publishing
    <2>. QED BY <2>3, <2>4
  <1>3. CASE StageSlot(q)
    <2>1. UNCHANGED <<target, hold, old, new, marks, displaced, way>>
      BY <1>3 DEF StageSlot
    <2>2. Prepared(q)'
      <3>1. CASE target[slot[q]] = Wanted(q) BY <1>0, <1>3, <3>1, AfterSlot DEF StageSlot
      <3>2. CASE target[slot[q]] # Wanted(q)
        <4>1. /\ pc'[q] = IF target[slot[q]] = Absent THEN "restore" ELSE "retain"
              /\ slot' = slot
          BY <1>0, <1>3, <3>2 DEF StageSlot, Goto, TypeOK
        <4>2. Wanted(q)' = Wanted(q) BY <2>1, <4>1 DEF Wanted, Restored
        <4>. QED BY <2>1, <3>2, <4>1, <4>2 DEF Prepared, Publishing
      <3>. QED BY <3>1, <3>2
    <2>. QED BY <1>0, <2>1, <2>2, RetainedStays
  <1>4. CASE RetainSlot(q)
    <2>1. /\ pc[q] = "retain" /\ displaced[hold][slot[q]] = Absent
          /\ UNCHANGED <<hold, old, new, marks, way>>
          /\ target[slot[q]] # Absent
      BY <1>4 DEF RetainSlot, Recoverable, Prepared
    <2>2. /\ hold \in Attempts /\ Admitted
          /\ \A d \in Ways : Receipt(d) \notin marks[hold]
          /\ Intent(way[q]) \in marks[hold] /\ way[q] \in Ways /\ slot[q] \in Slots
      BY <2>1, NoReceiptYet
    <2>3. /\ target'[slot[q]] = Absent /\ displaced'[hold][slot[q]] = target[slot[q]]
          /\ \A s \in Slots \ {slot[q]} : /\ target'[s] = target[s]
                                          /\ displaced'[hold][s] = displaced[hold][s]
          /\ \A a \in Attempts \ {hold} : displaced'[a] = displaced[a]
      BY <1>0, <1>4, <2>2 DEF RetainSlot, TypeOK, Pair
    <2>4. Admitted'
      <3>1. \A d \in Ways : Receipt(d) \notin marks'[hold] BY <2>1, <2>2
      <3>2. marks'[hold] \cap {Intent(d) : d \in Ways} # {} BY <2>1, <2>2
      <3>3. Forwarding(hold)' = Forwarding(hold) BY <2>1 DEF Forwarding
      <3>4. ASSUME NEW s \in Slots
            PROVE  /\ target'[s] \in {old[hold][s], new[hold][s], Absent}
                   /\ displaced'[hold][s] \in {old[hold][s], new[hold][s], Absent}
                   /\ old[hold][s] # Absent /\ target'[s] = Absent =>
                        displaced'[hold][s] # Absent
                   /\ displaced'[hold][s] # Absent /\ target'[s] # Absent =>
                        target'[s] = Restored(IF Forwarding(hold) THEN "forward"
                                              ELSE "rollback", hold)[s]
        <4>1. CASE s = slot[q] BY <2>1, <2>2, <2>3, <4>1 DEF Admitted
        <4>2. CASE s # slot[q] BY <2>2, <2>3, <4>2 DEF Admitted
        <4>. QED BY <4>1, <4>2
      <3>5. \A d : Restored(d, hold)' = Restored(d, hold) BY <2>1 DEF Restored
      <3>6. {"copies", "plan"} \subseteq marks'[hold] BY <2>1, <2>2 DEF Admitted
      <3>. QED BY <2>1, <3>1, <3>2, <3>3, <3>4, <3>5, <3>6 DEF Admitted
    <2>5. Retained'
      <3>1. new[hold] # Nothing BY <1>0, <2>2 DEF GenerationsKept
      <3>. QED BY <1>0, <2>1, <2>2, <2>3, <2>4, <3>1 DEF Retained
    <2>6. Prepared(q)'
      <3>1. CASE NextSlot(q, "retain") BY <1>0, <3>1, AfterSlot
      <3>2. CASE ~ NextSlot(q, "retain")
        <4>1. pc'[q] = "restore" /\ slot' = slot /\ Wanted(q) # Absent
          BY <1>0, <1>4, <3>2 DEF RetainSlot, Goto, TypeOK
        <4>2. Wanted(q)' = Wanted(q) BY <2>1, <4>1 DEF Wanted, Restored
        <4>. QED BY <2>3, <4>1, <4>2 DEF Prepared, Publishing
      <3>. QED BY <3>1, <3>2
    <2>. QED BY <2>5, <2>6
  <1>5. CASE RestoreSlot(q)
    <2>1. /\ pc[q] = "restore" /\ target[slot[q]] = Absent /\ Wanted(q) # Absent
          /\ UNCHANGED <<hold, old, new, marks, displaced, way>>
      BY <1>0, <1>5 DEF RestoreSlot, NextSlot, Knows
    <2>2. /\ hold \in Attempts /\ Admitted
          /\ \A d \in Ways : Receipt(d) \notin marks[hold]
          /\ way[q] \in Ways /\ slot[q] \in Slots
          /\ Restored(IF Forwarding(hold) THEN "forward" ELSE "rollback", hold)
               = Restored(way[q], hold)
      BY <2>1, NoReceiptYet
    <2>3. /\ target'[slot[q]] = Wanted(q)
          /\ \A s \in Slots \ {slot[q]} : target'[s] = target[s]
          /\ Wanted(q) \in {old[hold][slot[q]], new[hold][slot[q]]}
      BY <1>0, <1>5, <2>2 DEF RestoreSlot, TypeOK, Pair, Wanted, Restored
    <2>4. Admitted'
      <3>1. \A d \in Ways : Receipt(d) \notin marks'[hold] BY <2>1, <2>2
      <3>2. Forwarding(hold)' = Forwarding(hold) BY <2>1 DEF Forwarding
      <3>3. ASSUME NEW s \in Slots
            PROVE  /\ target'[s] \in {old[hold][s], new[hold][s], Absent}
                   /\ displaced[hold][s] \in {old[hold][s], new[hold][s], Absent}
                   /\ old[hold][s] # Absent /\ target'[s] = Absent =>
                        displaced[hold][s] # Absent
                   /\ displaced[hold][s] # Absent /\ target'[s] # Absent =>
                        target'[s] = Restored(IF Forwarding(hold) THEN "forward"
                                              ELSE "rollback", hold)[s]
        <4>1. CASE s = slot[q] BY <2>1, <2>2, <2>3, <4>1 DEF Admitted, Wanted
        <4>2. CASE s # slot[q] BY <2>2, <2>3, <4>2 DEF Admitted
        <4>. QED BY <4>1, <4>2
      <3>4. \A d : Restored(d, hold)' = Restored(d, hold) BY <2>1 DEF Restored
      <3>5. /\ {"copies", "plan"} \subseteq marks'[hold]
            /\ displaced'[hold] # Nothing => marks'[hold] \cap {Intent(d) : d \in Ways} # {}
        BY <2>1, <2>2 DEF Admitted
      <3>. QED BY <2>1, <3>1, <3>2, <3>3, <3>4, <3>5 DEF Admitted
    <2>5. Retained' BY <1>0, <2>1, <2>4 DEF Retained
    <2>6. Prepared(q)' BY <1>0, <1>5, AfterSlot DEF RestoreSlot
    <2>. QED BY <2>5, <2>6
  <1>6. CASE ClearHold(q)
    <2>1. Retained' BY <1>0, <1>6, DistinctNames DEF ClearHold, Retained
    <2>2. Prepared(q)'
      BY <1>0, <1>6, PreparedAtRestThen DEF ClearHold, Goto, TypeOK, Publishing
    <2>. QED BY <2>1, <2>2
  <1>. QED BY <1>1, <1>2, <1>3, <1>4, <1>5, <1>6 DEF Recovery

\* Every step keeps what makes a hold recoverable.
LEMMA RecoverableStep == IndInv /\ Recoverable /\ [Next]_vars => Recoverable'
  <1>. SUFFICES ASSUME IndInv, Recoverable, [Next]_vars PROVE Recoverable'
    OBVIOUS
  <1>1. ASSUME UNCHANGED <<target, hold, old, new, marks, displaced, pc, attempt, way, slot>>
        PROVE  Recoverable'
    <2>1. Retained' BY <1>1, RetainedStays DEF Recoverable
    <2>2. ASSUME NEW p \in Procs PROVE Prepared(p)'
      BY <1>1 DEF Recoverable, Prepared, Wanted, Restored
    <2>. QED BY <2>1, <2>2 DEF Recoverable
  <1>2. ASSUME NEW p \in Procs, Review(p) PROVE Recoverable'
    BY <1>1, <1>2 DEF Review, disk
  <1>3. ASSUME NEW p \in Procs, ~ Review(p),
               \/ Command(p) \/ Publication(p) \/ PublishFails(p)
               \/ (\E d \in Ways : RecoverStart(p, d)) \/ Recovery(p) \/ Crash(p)
        PROVE  Recoverable'
    <2>1. \A q \in Procs : q # p => pc'[q] = "idle"
      BY <1>3, StepIsAlone
    <2>2. \A q \in Procs : q # p => Prepared(q)'
      BY <2>1, PreparedAtRestThen DEF Publishing
    <2>3. Retained' /\ Prepared(p)'
      <3>1. CASE Command(p) BY <3>1, RecoverableCommand
      <3>2. CASE Publication(p) \/ PublishFails(p) BY <3>2, RecoverablePublication
      <3>3. CASE Recovery(p) BY <3>3, RecoverableRecovery
      <3>4. CASE (\E d \in Ways : RecoverStart(p, d)) \/ Crash(p)
        <4>1. UNCHANGED <<target, hold, old, new, marks, displaced>>
          BY <3>4 DEF RecoverStart, Crash, Leave, disk
        <4>2. pc'[p] \in {"intent-stage", "idle"}
          BY <3>4 DEF RecoverStart, Crash, Leave, Goto, IndInv, TypeOK
        <4>. QED BY <4>1, <4>2, RetainedStays, PreparedAtRestThen DEF Recoverable, Publishing
      <3>. QED BY <1>3, <3>1, <3>2, <3>3, <3>4
    <2>. QED BY <2>2, <2>3 DEF Recoverable
  <1>4. CASE UNCHANGED vars BY <1>1, <1>4 DEF vars
  <1>. QED BY <1>2, <1>3, <1>4 DEF Next

\* Whatever a publication or a recovery was doing when it died, and however
\* often, inspection admits what it left, but for a torn completion record or
\* too many stages.
THEOREM HoldsAreRecoverable == Spec => []HoldRecoverable
  <1>1. IndInv /\ Recoverable => HoldRecoverable
    <2>. SUFFICES ASSUME OneDirection, Retained, hold \in Attempts,
                         "completed-torn" \notin marks[hold], staged[hold] <= MaxStaged
                  PROVE  Inspectable
      BY DEF HoldRecoverable, IndInv, Recoverable
    <2>1. Admitted BY DEF Retained
    <2>. QED BY <2>1 DEF Admitted, Inspectable, OneDirection
  <1>2. Spec => []Recoverable
    <2>1. Init => Recoverable BY RecoverableInit
    <2>2. IndInv /\ Recoverable /\ [Next]_vars => Recoverable' BY RecoverableStep
    <2>. QED BY <2>1, <2>2, Inductive, PTL DEF Spec
  <1>. QED BY <1>1, <1>2, Inductive, PTL
=============================================================================
