----------------------- MODULE CachePublicationProofs -----------------------
(***************************************************************************)
(* For any number of slots, publishers and versions: the cache implements  *)
(* one register, its readers see one version, and a held attempt can be    *)
(* rolled back and has lost nothing.                                       *)
(*                                                                         *)
(* The invariant says of every slot of a held attempt where its predeces-  *)
(* sor and its successor are (Kept), and of whoever has the lock how far   *)
(* its walk over the slots has come (Walked, Backed).  Kept is what        *)
(* survives the owner's death; the rest only says what the owner may still *)
(* do.                                                                     *)
(***************************************************************************)
EXTENDS CachePublication, TLAPS

\* The active slot that stands for all of them.
shown == target[CHOOSE s \in Active : TRUE]

\* The attempt's plan says of which slots there is a predecessor.
Known(s) == attempt.existed[s] <=> former[s] # None

\* Not reached by the installation.
Fresh(s) ==
  /\ attempt.prior[s] = None /\ attempt.displaced[s] = None
  /\ target[s] = former[s] /\ attempt.staged[s] = copied[s]
  /\ Known(s)

\* Reached: the predecessor, if there is one, is in the attempt.
Lifted(s) ==
  /\ attempt.displaced[s] = None
  /\ attempt.prior[s] # None <=> attempt.existed[s]
  /\ attempt.existed[s] => attempt.prior[s] = former[s]
  /\ Known(s)

Placed(s, v) == Lifted(s) /\ target[s] = v /\ attempt.staged[s] = None

\* Rolled back: the predecessor is in its place again, or there was none.
Backed(s) == attempt.prior[s] = None /\ (attempt.existed[s] \/ target[s] = None)

\* What every slot of a held attempt satisfies, whoever died where.
Kept(s) ==
  /\ SlotAdmitted(s) /\ Known(s)
  /\ attempt.prior[s] # None => attempt.prior[s] = former[s]
  /\ attempt.existed[s] /\ attempt.prior[s] = None => target[s] = former[s]

Walked(p) == owner = p =>
  LET k == publisher[p].slot  v == publisher[p].version
  IN /\ At(p, "hold") => pending = "none" /\ \A s \in Slot : Fresh(s)
     /\ At(p, "fill") => pending = "empty" /\ \A s \in Slot : Fresh(s)
     /\ At(p, "stage") => pending = "attempt" /\ \A s \in Slot : Fresh(s)
     /\ At(p, "verify") => pending = "attempt" /\ k = 1 /\ \A s \in Slot : Fresh(s)
     /\ At(p, "displace") \/ At(p, "install") =>
          /\ pending = "attempt" /\ v \in offered
          /\ \A s \in Slot : s < k => Placed(s, v)
          /\ \A s \in Slot : s > k => Fresh(s) /\ attempt.staged[s] = v
          /\ attempt.staged[k] = v
     /\ At(p, "displace") => Fresh(k)
     /\ At(p, "install") => Lifted(k) /\ target[k] = None
     /\ At(p, "complete") \/ At(p, "release") =>
          pending = "attempt" /\ v \in offered /\ \A s \in Slot : Placed(s, v)
     /\ At(p, "close") => pending = "none"

RolledBack == owner = "operator" =>
  LET k == operator.slot
  IN /\ operator.at \in {"displace", "restore"} =>
          pending = "attempt" /\ \A s \in Slot : s < k => Backed(s)
     /\ operator.at = "restore" =>
          (attempt.prior[k] # None \/ ~ attempt.existed[k] => target[k] = None)
     /\ operator.at \in {"mark", "release"} => pending = "attempt" /\ \A s \in Slot : Backed(s)
     /\ operator.at = "close" => pending = "none"

HeldKept == pending = "attempt" => \A s \in Slot : Kept(s)
OneVersion == pending = "none" => \A s \in Active : target[s] = shown
FormerIsOne == \A s \in Active : former[s] = base

\* What a reader has, while no publisher can have been at work: the slots.
Seen ==
  /\ reader.at = "check" => reader.seen = {}
  /\ reader.at \in {"read", "told"} /\ (reader.locked \/ ~ lockfile) =>
       pending = "none" /\ \A v \in reader.seen : v = shown

Inv == TypeOK /\ HeldKept /\ OneVersion /\ FormerIsOne /\ RolledBack /\ (\A p \in Publishers : Walked(p))
              /\ Seen /\ ReaderSeesOne

-----------------------------------------------------------------------------
(* Facts about the state.                                                  *)

first == CHOOSE s \in Active : TRUE

LEMMA FirstIsActive == first \in Active /\ first \in Slot /\ shown = target[first] /\ shown' = target'[first]
                       /\ base = former[first] /\ base' = former'[first]
<1>1. Active # {}
  BY CacheConstants DEF Active, Slot
<1>2. first \in Active
  BY <1>1 DEF first
<1> QED BY <1>2 DEF first, shown, base, Active

LEMMA SlotBounds == Slots \in Nat /\ 1 \in Slot /\ (\A s \in Slot : s # Slots => s + 1 \in Slot)
                    /\ (\A s \in Slot : s \in Nat /\ s >= 1 /\ s <= Slots)
BY CacheConstants DEF Slot

LEMMA NoneIsNoVersion == None \notin Versions
BY CacheConstants DEF Versions

\* Not reached, lifted and placed slots are all as a held attempt may have them.
LEMMA FreshIsKept == ASSUME TypeOK, NEW s \in Slot, Fresh(s) PROVE Kept(s)
BY DEF Fresh, Kept, Known, SlotAdmitted

LEMMA PlacedIsKept ==
  ASSUME TypeOK, NEW s \in Slot, NEW v \in Versions, Placed(s, v) PROVE Kept(s)
BY NoneIsNoVersion DEF Placed, Lifted, Kept, Known, SlotAdmitted

LEMMA LiftedIsKept ==
  ASSUME TypeOK, NEW s \in Slot, Lifted(s), target[s] = None, attempt.staged[s] # None PROVE Kept(s)
BY DEF Lifted, Kept, Known, SlotAdmitted

\* A step of the publisher that has the lock keeps the invariant if it keeps
\* the types, the slots and its own walk: no one else relies on anything.
LEMMA OwnersStep ==
  ASSUME Inv, NEW p \in Publishers, owner = p, owner' \in {p, None}, lockfile' = lockfile,
         reader' = reader, former' = former, TypeOK', HeldKept', OneVersion', Walked(p)'
  PROVE  Inv'
<1>1. lockfile /\ ~ reader.locked
  BY CacheConstants DEF Inv, TypeOK
<1>2. Seen' /\ ReaderSeesOne'
  BY <1>1 DEF Inv, Seen, ReaderSeesOne
<1>3. RolledBack'
  BY CacheConstants DEF RolledBack
<1>4. \A q \in Publishers : Walked(q)'
  <2> SUFFICES ASSUME NEW q \in Publishers, q # p PROVE Walked(q)'
    OBVIOUS
  <2>1. owner' # q
    BY CacheConstants
  <2> QED BY <2>1 DEF Walked
<1> QED BY <1>2, <1>3, <1>4 DEF Inv, FormerIsOne, base

\* The same for the operator.
LEMMA OperatorsStep ==
  ASSUME Inv, owner = "operator", owner' \in {"operator", None}, lockfile' = lockfile,
         reader' = reader, former' = former, TypeOK', HeldKept', OneVersion', RolledBack'
  PROVE  Inv'
<1>1. lockfile /\ ~ reader.locked
  BY CacheConstants DEF Inv, TypeOK
<1>2. Seen' /\ ReaderSeesOne'
  BY <1>1 DEF Inv, Seen, ReaderSeesOne
<1>3. \A q \in Publishers : Walked(q)'
  <2> SUFFICES ASSUME NEW q \in Publishers PROVE Walked(q)'
    OBVIOUS
  <2>1. owner' # q
    BY CacheConstants
  <2> QED BY <2>1 DEF Walked
<1> QED BY <1>2, <1>3 DEF Inv, FormerIsOne, base

\* A step that moves only p's own record, to another phase under the lock.
LEMMA Moves ==
  ASSUME TypeOK, NEW p \in Publishers, owner = p, owner' = p,
         NEW r \in [at : Holding, slot : Slot, version : Versions],
         publisher' = [publisher EXCEPT ![p] = r]
  PROVE  /\ publisher'[p] = r
         /\ publisher' \in [Publishers -> [at : Holding \cup {"idle", "lock"}, slot : Slot, version : Versions]]
         /\ \A q \in Publishers : publisher'[q].at \in Holding <=> owner' = q
<1>1. r \in [at : Holding \cup {"idle", "lock"}, slot : Slot, version : Versions] /\ r.at \in Holding
  OBVIOUS
<1>2. publisher'[p] = r /\ \A q \in Publishers : q # p => publisher'[q] = publisher[q]
  BY DEF TypeOK
<1> QED BY <1>1, <1>2 DEF TypeOK

LEMMA GoOn ==
  ASSUME TypeOK, NEW p \in Publishers, owner = p, owner' = p, NEW a \in Holding, Go(p, a)
  PROVE  /\ publisher[p].slot \in Slot /\ publisher[p].version \in Versions
         /\ publisher'[p].at = a /\ publisher'[p].slot = publisher[p].slot
         /\ publisher'[p].version = publisher[p].version
         /\ publisher' \in [Publishers -> [at : Holding \cup {"idle", "lock"}, slot : Slot, version : Versions]]
         /\ \A q \in Publishers : publisher'[q].at \in Holding <=> owner' = q
<1> DEFINE r == [publisher[p] EXCEPT !.at = a]
<1>1. publisher[p] \in [at : Holding \cup {"idle", "lock"}, slot : Slot, version : Versions]
  BY DEF TypeOK
<1>2. /\ r \in [at : Holding, slot : Slot, version : Versions]
      /\ r.at = a /\ r.slot = publisher[p].slot /\ r.version = publisher[p].version
  BY <1>1
<1>3. publisher' = [publisher EXCEPT ![p] = r]
  BY DEF Go
<1>4. publisher'[p] = r
  BY <1>2, <1>3, Moves
<1> HIDE DEF r
<1> QED BY <1>1, <1>2, <1>3, <1>4, Moves

GoTo(p, a, n) == publisher' = [publisher EXCEPT ![p].at = a, ![p].slot = n]

LEMMA GoOnTo ==
  ASSUME TypeOK, NEW p \in Publishers, owner = p, owner' = p, NEW a \in Holding, NEW n \in Slot,
         GoTo(p, a, n)
  PROVE  /\ publisher[p].slot \in Slot /\ publisher[p].version \in Versions
         /\ publisher'[p].at = a /\ publisher'[p].slot = n
         /\ publisher'[p].version = publisher[p].version
         /\ publisher' \in [Publishers -> [at : Holding \cup {"idle", "lock"}, slot : Slot, version : Versions]]
         /\ \A q \in Publishers : publisher'[q].at \in Holding <=> owner' = q
<1> DEFINE r == [publisher[p] EXCEPT !.at = a, !.slot = n]
<1>1. publisher[p] \in [at : Holding \cup {"idle", "lock"}, slot : Slot, version : Versions]
  BY DEF TypeOK
<1>2. /\ r \in [at : Holding, slot : Slot, version : Versions]
      /\ r.at = a /\ r.slot = n /\ r.version = publisher[p].version
  BY <1>1
<1>3. publisher' = [publisher EXCEPT ![p] = r]
  BY <1>1 DEF TypeOK, GoTo
<1>4. publisher'[p] = r
  BY <1>2, <1>3, Moves
<1> HIDE DEF r
<1> QED BY <1>1, <1>2, <1>3, <1>4, Moves

LEMMA AtHolding ==
  ASSUME TypeOK, NEW p \in Publishers, NEW a \in Holding, At(p, a)
  PROVE  owner = p /\ lockfile /\ ~ reader.locked /\ p # None /\ p # "operator"
BY CacheConstants DEF TypeOK, At

-----------------------------------------------------------------------------
(* The publisher's steps.                                                  *)

LEMMA OpenHoldKeeps == ASSUME Inv, NEW p \in Publishers, OpenHold(p) PROVE Inv'
<1> USE DEF OpenHold, Outside
<1>1. owner = p /\ "fill" \in Holding
  BY AtHolding DEF Inv, Holding
<1>2. TypeOK' /\ publisher'[p].at = "fill"
  BY <1>1, GoOn DEF Inv, TypeOK
<1>3. \A s \in Slot : Fresh(s)'
  BY <1>1 DEF Inv, Walked, Fresh, Known
<1>4. Walked(p)'
  BY <1>2, <1>3 DEF Walked, At
<1> QED BY <1>1, <1>2, <1>4, OwnersStep DEF HeldKept, OneVersion

LEMMA FillHoldKeeps == ASSUME Inv, NEW p \in Publishers, FillHold(p) PROVE Inv'
<1> USE DEF FillHold, Outside
<1>1. owner = p /\ "stage" \in Holding
  BY AtHolding DEF Inv, Holding
<1>2. TypeOK' /\ publisher'[p].at = "stage"
  BY <1>1, GoOn DEF Inv, TypeOK
<1>3. \A s \in Slot : Fresh(s) /\ Fresh(s)'
  BY <1>1 DEF Inv, Walked, Fresh, Known
<1>4. Walked(p)'
  BY <1>2, <1>3 DEF Walked, At
<1>5. HeldKept'
  BY <1>3, FreshIsKept DEF Inv, HeldKept, Kept, Known, SlotAdmitted
<1> QED BY <1>1, <1>2, <1>4, <1>5, OwnersStep DEF OneVersion

LEMMA StageKeeps == ASSUME Inv, NEW p \in Publishers, Stage(p) PROVE Inv'
<1> USE DEF Stage, Outside
<1> PICK k \in Slot : k = publisher[p].slot
  BY DEF Inv, TypeOK
<1> PICK a \in Holding, n \in Slot : a = (IF k = Slots THEN "verify" ELSE "stage")
                                    /\ n = (IF k = Slots THEN 1 ELSE k + 1)
  BY SlotBounds DEF Holding
<1>1. owner = p /\ owner' = p /\ GoTo(p, a, n)
  BY AtHolding DEF Inv, Holding, GoTo
<1>2. /\ attempt' \in Attempts /\ attempt'.prior = attempt.prior
      /\ attempt'.displaced = attempt.displaced /\ attempt'.existed = attempt.existed
      /\ attempt'.staged = [attempt.staged EXCEPT ![k] = source]
      /\ copied' = [copied EXCEPT ![k] = source] /\ copied' \in Contents
      /\ copied \in Contents /\ attempt.staged \in Contents
  BY <1>1 DEF Inv, TypeOK, Attempts, Contents
<1>3. /\ publisher'[p].at = a /\ publisher'[p].slot = n
      /\ publisher' \in [Publishers -> [at : Holding \cup {"idle", "lock"}, slot : Slot, version : Versions]]
      /\ \A q \in Publishers : publisher'[q].at \in Holding <=> owner' = q
  BY <1>1, GoOnTo DEF Inv
<1>4. TypeOK'
  BY <1>2, <1>3 DEF Inv, TypeOK
<1>5. pending = "attempt" /\ \A s \in Slot : Fresh(s)'
  <2>1. pending = "attempt" /\ \A s \in Slot : Fresh(s)
    BY <1>1 DEF Inv, Walked
  <2>2. \A s \in Slot : attempt.staged[s] = copied[s] => attempt'.staged[s] = copied'[s]
    BY <1>2 DEF Contents
  <2> QED BY <1>2, <2>1, <2>2 DEF Fresh, Known
<1>6. Walked(p)'
  BY <1>3, <1>5 DEF Walked, At
<1>7. HeldKept'
  BY <1>2, <1>4, <1>5 DEF HeldKept, Fresh, Kept, Known, SlotAdmitted
<1> QED BY <1>1, <1>4, <1>5, <1>6, <1>7, OwnersStep DEF OneVersion

LEMMA VerifyKeeps == ASSUME Inv, NEW p \in Publishers, Verify(p) PROVE Inv'
<1> USE DEF Verify, Outside
<1>1. owner = p /\ "displace" \in Holding
  BY AtHolding DEF Inv, Holding
<1>2. /\ TypeOK' /\ publisher'[p].at = "displace" /\ publisher[p].slot \in Slot
      /\ publisher'[p].slot = publisher[p].slot /\ publisher'[p].version = publisher[p].version
  BY <1>1, GoOn DEF Inv, TypeOK
<1>3. pending = "attempt" /\ publisher[p].slot = 1 /\ \A s \in Slot : Fresh(s)'
  BY <1>1 DEF Inv, Walked, Fresh, Known
<1>4. Walked(p)'
  BY <1>2, <1>3, SlotBounds DEF Walked, At
<1>5. HeldKept'
  BY DEF Inv, HeldKept, Kept, Known, SlotAdmitted
<1> QED BY <1>1, <1>2, <1>3, <1>4, <1>5, OwnersStep DEF OneVersion

LEMMA DisplaceKeeps == ASSUME Inv, NEW p \in Publishers, Displace(p) PROVE Inv'
<1> USE DEF Displace, Outside
<1> PICK k \in Slot, v \in Versions : k = publisher[p].slot /\ v = publisher[p].version
  BY DEF Inv, TypeOK
<1>1. owner = p /\ "install" \in Holding
  BY AtHolding DEF Inv, Holding
<1>2. /\ attempt' \in Attempts /\ attempt'.prior = [attempt.prior EXCEPT ![k] = target[k]]
      /\ attempt'.staged = attempt.staged
      /\ attempt'.displaced = attempt.displaced /\ attempt'.existed = attempt.existed
      /\ target' \in Contents /\ attempt.prior \in Contents /\ target \in Contents
  BY <1>1 DEF Inv, TypeOK, Attempts, Contents
<1>3. /\ TypeOK' /\ publisher'[p].at = "install"
      /\ publisher'[p].slot = k /\ publisher'[p].version = v
  BY <1>1, <1>2, GoOn DEF Inv, TypeOK
<1>4. /\ target'[k] = None /\ attempt'.prior[k] = target[k]
      /\ \A s \in Slot : s # k => target'[s] = target[s] /\ attempt'.prior[s] = attempt.prior[s]
  BY <1>1, <1>2 DEF Contents
<1>5. /\ pending = "attempt" /\ v \in offered /\ attempt.staged[k] = v /\ Fresh(k)
      /\ \A s \in Slot : s < k => Placed(s, v)
      /\ \A s \in Slot : s > k => Fresh(s) /\ attempt.staged[s] = v
  BY <1>1 DEF Inv, Walked
<1>6. Lifted(k)'
  BY <1>1, <1>2, <1>4, <1>5 DEF Fresh, Lifted, Known
<1>7. \A s \in Slot : s < k => Placed(s, v)'
  BY <1>1, <1>2, <1>4, <1>5, SlotBounds DEF Placed, Lifted, Known
<1>8. \A s \in Slot : s > k => Fresh(s)'
  BY <1>1, <1>2, <1>4, <1>5, SlotBounds DEF Fresh, Known
<1>9. Walked(p)'
  BY <1>2, <1>3, <1>4, <1>5, <1>6, <1>7, <1>8 DEF Walked, At, Placed, Lifted, Known
<1>10. HeldKept'
  <2> SUFFICES ASSUME NEW s \in Slot PROVE Kept(s)'
    BY DEF HeldKept
  <2>1. CASE s = k
    BY <1>2, <1>4, <1>5, <1>6, <2>1, NoneIsNoVersion, <1>1 DEF Lifted, Kept, Known, SlotAdmitted
  <2>2. CASE s # k
    BY <1>2, <1>4, <2>2, <1>5 DEF Inv, HeldKept, Kept, Known, SlotAdmitted
  <2> QED BY <2>1, <2>2
<1> QED BY <1>1, <1>3, <1>5, <1>9, <1>10, OwnersStep DEF OneVersion

LEMMA InstallKeeps == ASSUME Inv, NEW p \in Publishers, Install(p) PROVE Inv'
<1> USE DEF Install, Outside, Moved
<1> PICK k \in Slot, v \in Versions : k = publisher[p].slot /\ v = publisher[p].version
  BY DEF Inv, TypeOK
<1> PICK a \in Holding, n \in Slot : a = (IF k = Slots THEN "complete" ELSE "displace")
                                    /\ n = (IF k = Slots THEN 1 ELSE k + 1)
  BY SlotBounds DEF Holding
<1>1. owner = p /\ owner' = p /\ GoTo(p, a, n)
  BY AtHolding DEF Inv, Holding, GoTo
<1>2. /\ attempt' \in Attempts /\ attempt'.staged = [attempt.staged EXCEPT ![k] = None]
      /\ attempt'.prior = attempt.prior
      /\ attempt'.displaced = attempt.displaced /\ attempt'.existed = attempt.existed
      /\ target' \in Contents /\ attempt.staged \in Contents /\ target \in Contents
  BY <1>1 DEF Inv, TypeOK, Attempts, Contents
<1>3. /\ publisher'[p].at = a /\ publisher'[p].slot = n /\ publisher'[p].version = v
      /\ publisher' \in [Publishers -> [at : Holding \cup {"idle", "lock"}, slot : Slot, version : Versions]]
      /\ \A q \in Publishers : publisher'[q].at \in Holding <=> owner' = q
  BY <1>1, GoOnTo DEF Inv
<1>4. TypeOK'
  BY <1>2, <1>3 DEF Inv, TypeOK
<1>5. /\ target'[k] = attempt.staged[k] /\ attempt'.staged[k] = None
      /\ \A s \in Slot : s # k => target'[s] = target[s] /\ attempt'.staged[s] = attempt.staged[s]
  BY <1>2 DEF Contents
<1>6. /\ pending = "attempt" /\ v \in offered /\ attempt.staged[k] = v
      /\ Lifted(k) /\ target[k] = None
      /\ \A s \in Slot : s < k => Placed(s, v)
      /\ \A s \in Slot : s > k => Fresh(s) /\ attempt.staged[s] = v
  BY <1>1 DEF Inv, Walked
<1>7. \A s \in Slot : s <= k => Placed(s, v)'
  <2> SUFFICES ASSUME NEW s \in Slot, s <= k PROVE Placed(s, v)'
    OBVIOUS
  <2>1. CASE s = k
    BY <1>2, <1>5, <1>6, <2>1 DEF Placed, Lifted, Known
  <2>2. CASE s # k
    <3>1. s < k
      BY <2>2, SlotBounds
    <3> QED BY <1>2, <1>5, <1>6, <2>2, <3>1 DEF Placed, Lifted, Known
  <2> QED BY <2>1, <2>2
<1>8. \A s \in Slot : s > k => Fresh(s)' /\ attempt'.staged[s] = v
  BY <1>2, <1>5, <1>6, SlotBounds DEF Fresh, Known
<1>9. Walked(p)'
  <2>0. pending' = "attempt" /\ v \in offered'
    BY <1>6
  <2>1. CASE a = "complete"
    <3>1. k = Slots
      BY <2>1
    <3>2. \A s \in Slot : Placed(s, v)'
      BY <1>7, <3>1, SlotBounds
    <3> QED BY <1>3, <2>0, <2>1, <3>2 DEF Walked, At
  <2>2. CASE a = "displace"
    <3>1. n = k + 1
      BY <2>2
    <3>2. \A s \in Slot : s < n => Placed(s, v)'
      BY <1>7, <3>1, SlotBounds
    <3>3. \A s \in Slot : s >= n => Fresh(s)' /\ attempt'.staged[s] = v
      BY <1>8, <3>1, SlotBounds
    <3>4. n \in Slot /\ Fresh(n)' /\ attempt'.staged[n] = v
      BY <3>1, <3>3, SlotBounds
    <3>5. \A s \in Slot : s > n => Fresh(s)' /\ attempt'.staged[s] = v
      BY <3>3, SlotBounds
    <3> QED BY <1>3, <2>0, <2>2, <3>2, <3>4, <3>5 DEF Walked, At
  <2> QED BY <2>1, <2>2
<1>10. HeldKept'
  <2> SUFFICES ASSUME NEW s \in Slot PROVE Kept(s)'
    BY DEF HeldKept
  <2>1. CASE s <= k
    BY <1>4, <1>7, <2>1, NoneIsNoVersion DEF Placed, Lifted, Kept, Known, SlotAdmitted
  <2>2. CASE s > k
    BY <1>4, <1>8, <2>2 DEF Fresh, Kept, Known, SlotAdmitted
  <2> QED BY <2>1, <2>2, SlotBounds
<1> QED BY <1>1, <1>4, <1>6, <1>9, <1>10, OwnersStep DEF OneVersion

LEMMA CompleteKeeps == ASSUME Inv, NEW p \in Publishers, Complete(p) PROVE Inv'
<1> USE DEF Complete, Outside
<1> PICK v \in Versions : v = publisher[p].version
  BY DEF Inv, TypeOK
<1>1. owner = p /\ owner' = p /\ "release" \in Holding
  BY AtHolding DEF Inv, Holding
<1>2. /\ attempt' \in Attempts /\ attempt'.prior = attempt.prior /\ attempt'.staged = attempt.staged
      /\ attempt'.displaced = attempt.displaced /\ attempt'.existed = attempt.existed
  BY <1>1 DEF Inv, TypeOK, Attempts
<1>3. /\ publisher'[p].at = "release" /\ publisher'[p].version = v
      /\ publisher' \in [Publishers -> [at : Holding \cup {"idle", "lock"}, slot : Slot, version : Versions]]
      /\ \A q \in Publishers : publisher'[q].at \in Holding <=> owner' = q
  BY <1>1, GoOn DEF Inv
<1>4. TypeOK'
  BY <1>2, <1>3 DEF Inv, TypeOK
<1>5. pending = "attempt" /\ v \in offered /\ \A s \in Slot : Placed(s, v)'
  BY <1>1, <1>2 DEF Inv, Walked, Placed, Lifted, Known
<1>6. Walked(p)'
  BY <1>3, <1>5 DEF Walked, At, Placed, Lifted, Known
<1>7. HeldKept'
  BY <1>2 DEF Inv, HeldKept, Kept, Known, SlotAdmitted
<1> QED BY <1>1, <1>4, <1>5, <1>6, <1>7, OwnersStep DEF OneVersion

LEMMA ReleaseKeeps ==
  ASSUME Inv, NEW p \in Publishers, Release(p)
  PROVE  Inv' /\ pending = "attempt" /\ pending' = "none" /\ target' = target
              /\ publisher[p].version \in offered /\ shown = publisher[p].version
<1> USE DEF Release, Outside
<1>1. owner = p /\ owner' = p /\ "close" \in Holding
  BY AtHolding DEF Inv, Holding
<1>2. /\ publisher'[p].at = "close"
      /\ publisher' \in [Publishers -> [at : Holding \cup {"idle", "lock"}, slot : Slot, version : Versions]]
      /\ \A q \in Publishers : publisher'[q].at \in Holding <=> owner' = q
  BY <1>1, GoOn DEF Inv
<1>3. TypeOK'
  BY <1>2 DEF Inv, TypeOK
<1>4. /\ pending = "attempt" /\ publisher[p].version \in offered
      /\ \A s \in Slot : target[s] = publisher[p].version
  BY <1>1 DEF Inv, Walked, Placed
<1>5. Walked(p)'
  BY <1>2 DEF Walked, At
<1>6. OneVersion'
  BY <1>4, FirstIsActive DEF OneVersion, Active
<1> QED BY <1>1, <1>3, <1>4, <1>5, <1>6, FirstIsActive, OwnersStep DEF HeldKept

LEMMA CaptureKeeps == ASSUME Inv, NEW p \in Publishers, Capture(p) PROVE Inv'
<1> USE DEF Capture, Outside
<1> DEFINE r == [publisher[p] EXCEPT !.at = "lock", !.version = source, !.slot = 1]
<1>1. publisher[p] \in [at : Holding \cup {"idle", "lock"}, slot : Slot, version : Versions] /\ owner # p
  BY DEF Inv, TypeOK, At, Holding
<1>2. r \in [at : Holding \cup {"idle", "lock"}, slot : Slot, version : Versions] /\ r.at = "lock"
  BY <1>1, SlotBounds DEF Inv, TypeOK
<1>3. publisher' = [publisher EXCEPT ![p] = r]
  BY <1>1 DEF Inv, TypeOK
<1> HIDE DEF r, Capture
<1>4. /\ publisher'[p].at = "lock" /\ \A q \in Publishers : q # p => publisher'[q] = publisher[q]
      /\ publisher' \in [Publishers -> [at : Holding \cup {"idle", "lock"}, slot : Slot, version : Versions]]
  BY <1>2, <1>3 DEF Inv, TypeOK
<1>5. TypeOK'
  BY <1>1, <1>4 DEF Capture, Inv, TypeOK, Holding
<1>6. ASSUME NEW q \in Publishers PROVE Walked(q)'
  <2>0. UNCHANGED <<target, attempt, pending, owner, offered>>
    BY DEF Capture
  <2>1. CASE q = p
    BY <1>1, <2>0, <2>1 DEF Walked
  <2>2. CASE q # p
    <3>1. Walked(q) /\ publisher'[q] = publisher[q] /\ UNCHANGED <<former, copied>>
      BY <1>4, <2>2 DEF Inv, Capture
    <3>2. \A s \in Slot, v \in Versions : /\ Fresh(s)' = Fresh(s) /\ Lifted(s)' = Lifted(s)
                                         /\ Placed(s, v)' = Placed(s, v)
      BY <2>0, <3>1 DEF Fresh, Placed, Lifted, Known
    <3>3. publisher[q].slot \in Slot /\ publisher[q].version \in Versions
      BY DEF Inv, TypeOK
    <3> QED BY <2>0, <3>1, <3>2, <3>3 DEF Walked, At
  <2> QED BY <2>1, <2>2
<1> QED BY <1>5, <1>6 DEF Capture, Inv, FormerIsOne, base, HeldKept, Kept, Known, SlotAdmitted, OneVersion, RolledBack, Backed, Seen,
                        ReaderSeesOne, shown

LEMMA LockKeeps ==
  ASSUME Inv, NEW p \in Publishers, Lock(p) PROVE Inv' /\ shown' = shown /\ pending' = "none"
<1> USE DEF Lock
<1>1. /\ At(p, "lock") /\ owner = None /\ ~ reader.locked /\ pending = "none" /\ pending' = "none"
      /\ owner' = p /\ lockfile' = TRUE /\ "hold" \in Holding
      /\ UNCHANGED <<source, operator, reader, offered>>
  BY DEF Unlocked, Holding
<1>2. PICK known \in BOOLEAN :
        target' = [s \in Slot |-> IF s \in RunSlots /\ ~ known THEN None ELSE target[s]]
  OBVIOUS
<1>3. target' \in Contents /\ \A s \in Active : target'[s] = target[s]
  BY <1>2 DEF Inv, TypeOK, Contents, Active
<1>4. former' = target' /\ copied' = Empty /\ base' = shown /\ shown' = shown
  BY <1>3, FirstIsActive
<1>5. /\ attempt' \in Attempts /\ attempt'.prior = Empty /\ attempt'.displaced = Empty
      /\ attempt'.staged = Empty /\ copied' \in Contents
      /\ attempt'.existed = [s \in Slot |-> target'[s] # None]
  BY DEF Attempts, Contents, Empty
<1>6. \A s \in Slot : Fresh(s)'
  BY <1>4, <1>5 DEF Fresh, Known, Empty
<1>7. /\ publisher[p] \in [at : Holding \cup {"idle", "lock"}, slot : Slot, version : Versions]
      /\ \A q \in Publishers : publisher[q].at \notin Holding
  BY <1>1, CacheConstants DEF Inv, TypeOK
<1> DEFINE r == [publisher[p] EXCEPT !.at = "hold"]
<1>8. r \in [at : Holding \cup {"idle", "lock"}, slot : Slot, version : Versions] /\ r.at = "hold"
  BY <1>1, <1>7
<1>9. publisher' = [publisher EXCEPT ![p] = r]
  BY DEF Go
<1> HIDE DEF r
<1>10. /\ publisher'[p].at = "hold" /\ \A q \in Publishers : q # p => publisher'[q] = publisher[q]
       /\ publisher' \in [Publishers -> [at : Holding \cup {"idle", "lock"}, slot : Slot, version : Versions]]
  BY <1>8, <1>9 DEF Inv, TypeOK
<1>11. operator.at \notin Rolling
  BY <1>1, CacheConstants DEF Inv, TypeOK
<1>12. TypeOK'
  BY <1>1, <1>3, <1>4, <1>5, <1>7, <1>10, <1>11, CacheConstants DEF Inv, TypeOK
<1>13. \A q \in Publishers : Walked(q)'
  BY <1>1, <1>6, <1>10 DEF Walked, At
<1>14. OneVersion' /\ HeldKept' /\ FormerIsOne'
  BY <1>1, <1>3, <1>4 DEF Inv, OneVersion, HeldKept, FormerIsOne
<1>15. RolledBack'
  BY <1>1, CacheConstants DEF RolledBack
<1>16. Seen' /\ ReaderSeesOne'
  BY <1>1 DEF Inv, Seen, ReaderSeesOne
<1> QED BY <1>1, <1>4, <1>12, <1>13, <1>14, <1>15, <1>16 DEF Inv

\* Where a publisher stops, the slots are as a held attempt may have them.
LEMMA StopKeeps == ASSUME Inv, NEW p \in Publishers, Stop(p) PROVE Inv'
<1> USE DEF Stop, Outside
<1>1. /\ owner' = (IF owner = p THEN None ELSE owner)
      /\ UNCHANGED <<source, target, lockfile, pending, attempt, operator, reader, former, copied, offered>>
      /\ publisher' = [publisher EXCEPT ![p] = Waiting]
  OBVIOUS
<1>2. Waiting \in [at : Holding \cup {"idle", "lock"}, slot : Slot, version : Versions] /\ Waiting.at = "idle"
  BY SlotBounds, CacheConstants DEF Waiting, Versions
<1>3. /\ publisher'[p] = Waiting /\ \A q \in Publishers : q # p => publisher'[q] = publisher[q]
      /\ publisher' \in [Publishers -> [at : Holding \cup {"idle", "lock"}, slot : Slot, version : Versions]]
  BY <1>1, <1>2 DEF Inv, TypeOK
<1>4. \A q \in Publishers : publisher'[q].at \in Holding <=> owner' = q
  BY <1>1, <1>2, <1>3, CacheConstants DEF Inv, TypeOK, Holding
<1>5. /\ owner' \in Publishers \cup {"operator", None} /\ owner' # p
      /\ (owner' # None => owner' = owner) /\ (owner = "operator" <=> owner' = "operator")
      /\ (owner = None => owner' = None)
  BY <1>1, <1>3, <1>4, CacheConstants, <1>2 DEF Inv, TypeOK, Holding
<1>6. TypeOK'
  BY <1>1, <1>3, <1>4, <1>5 DEF Inv, TypeOK
<1>7. \A q \in Publishers : Walked(q)'
  BY <1>1, <1>3, <1>5, CacheConstants DEF Inv, Walked, At, Fresh, Placed, Lifted, Known
<1>8. RolledBack'
  BY <1>1, <1>5 DEF Inv, RolledBack, Backed
<1> QED BY <1>1, <1>6, <1>7, <1>8 DEF Inv, FormerIsOne, base, HeldKept, Kept, Known, SlotAdmitted, OneVersion, Seen,
                                      ReaderSeesOne, shown

-----------------------------------------------------------------------------
(* The operator's steps.                                                   *)

Plans == {None} \cup (Contents \X Attempts)
Operators == [at : Rolling \cup {"idle"}, slot : Slot, plan : Plans]

\* Nothing changes but the operator's own record, which stays outside the lock.
LEMMA PlanKeeps == ASSUME Inv, Plan PROVE Inv'
<1> USE DEF Plan, Aside, Evidence
<1> DEFINE r == [operator EXCEPT !.plan = <<target, attempt>>]
<1>1. operator \in Operators /\ owner # "operator"
  BY CacheConstants DEF Inv, TypeOK, Operators, Plans, Rolling
<1>2. <<target, attempt>> \in Plans
  BY DEF Inv, TypeOK, Plans
<1>3. operator' \in Operators /\ operator'.at = operator.at
  BY <1>1, <1>2 DEF Operators
<1>4. TypeOK'
  BY <1>3 DEF Inv, TypeOK, Operators, Plans
<1> QED BY <1>1, <1>4 DEF Inv, FormerIsOne, base, HeldKept, Kept, Known, SlotAdmitted, OneVersion, RolledBack, Walked, At,
                        Fresh, Placed, Lifted, Seen, ReaderSeesOne, shown

LEMMA RollbackKeeps == ASSUME Inv, Rollback PROVE Inv'
<1> USE DEF Rollback, Aside, Unlocked
<1>1. /\ owner = None /\ ~ reader.locked /\ owner' = "operator" /\ pending = "attempt" /\ lockfile
      /\ operator' = [operator EXCEPT !.at = "displace", !.slot = 1, !.plan = None]
      /\ UNCHANGED <<source, target, lockfile, pending, attempt, publisher, reader, former, copied, offered>>
  BY DEF Inspectable
<1> HIDE DEF Rollback, Aside, Unlocked
<1>2. operator' \in Operators /\ operator'.at = "displace" /\ operator'.slot = 1
  BY <1>1, SlotBounds DEF Inv, TypeOK, Operators, Plans, Rolling
<1>3. \A q \in Publishers : publisher[q].at \notin Holding /\ q # "operator"
  BY <1>1, CacheConstants DEF Inv, TypeOK
<1>4. TypeOK'
  BY <1>1, <1>2, <1>3, CacheConstants DEF Inv, TypeOK, Operators, Plans, Rolling
<1>5. RolledBack'
  BY <1>1, <1>2, SlotBounds DEF RolledBack
<1>6. \A q \in Publishers : Walked(q)'
  BY <1>1, <1>3 DEF Walked
<1>7. Seen' /\ ReaderSeesOne' /\ HeldKept' /\ OneVersion' /\ FormerIsOne'
  BY <1>1 DEF Inv, Seen, ReaderSeesOne, FormerIsOne, base, HeldKept, Kept, Known, SlotAdmitted, OneVersion, shown
<1> QED BY <1>4, <1>5, <1>6, <1>7 DEF Inv

LEMMA Working ==
  ASSUME TypeOK, operator.at \in Rolling
  PROVE  /\ owner = "operator" /\ lockfile /\ operator \in Operators /\ operator.slot \in Slot
         /\ \A q \in Publishers : publisher[q].at \notin Holding
BY CacheConstants DEF TypeOK, Operators, Plans

LEMMA WorkGoesOn ==
  ASSUME TypeOK, NEW a \in Rolling, Work(a)
  PROVE  operator' \in Operators /\ operator'.at = a /\ operator'.slot = operator.slot
BY DEF TypeOK, Work, Operators, Plans

LEMMA SetAsideKeeps == ASSUME Inv, SetAside PROVE Inv'
<1> USE DEF SetAside, Aside
<1> PICK k \in Slot : k = operator.slot
  BY DEF Inv, TypeOK
<1>1. /\ operator.at = "displace" /\ Work("restore") /\ owner' = owner
      /\ UNCHANGED <<source, lockfile, pending, publisher, reader, former, copied, offered>>
      /\ IF (attempt.prior[k] # None \/ ~ attempt.existed[k]) /\ target[k] # None
         THEN /\ attempt' = [attempt EXCEPT !.displaced[k] = target[k]]
              /\ target' = [target EXCEPT ![k] = None]
         ELSE UNCHANGED <<target, attempt>>
  OBVIOUS
<1> HIDE DEF SetAside, Aside
<1>2. owner = "operator" /\ lockfile /\ \A q \in Publishers : publisher[q].at \notin Holding
  BY <1>1, Working DEF Inv, Rolling
<1>3. operator' \in Operators /\ operator'.at = "restore" /\ operator'.slot = k
  BY <1>1, WorkGoesOn DEF Inv, Rolling
<1>4. /\ attempt' \in Attempts /\ target' \in Contents
      /\ attempt'.prior = attempt.prior /\ attempt'.staged = attempt.staged
      /\ attempt'.existed = attempt.existed
      /\ \A s \in Slot : s # k => target'[s] = target[s] /\ attempt'.displaced[s] = attempt.displaced[s]
  <2>1. attempt \in Attempts /\ target \in Contents
    BY DEF Inv, TypeOK
  <2>2. CASE attempt' = [attempt EXCEPT !.displaced[k] = target[k]] /\ target' = [target EXCEPT ![k] = None]
    <3>1. attempt.displaced \in Contents /\ target[k] \in Versions \cup {None}
      BY <2>1 DEF Attempts, Contents
    <3>2. [attempt.displaced EXCEPT ![k] = target[k]] \in Contents /\ target' \in Contents
      BY <2>1, <2>2, <3>1 DEF Contents
    <3>3. attempt'.displaced = [attempt.displaced EXCEPT ![k] = target[k]] /\ attempt' \in Attempts
      BY <2>1, <2>2, <3>2 DEF Attempts
    <3> QED BY <2>1, <2>2, <3>1, <3>3 DEF Attempts, Contents
  <2>3. CASE UNCHANGED <<target, attempt>>
    BY <2>1, <2>3
  <2> QED BY <1>1, <2>2, <2>3
<1>5. \/ /\ attempt.prior[k] # None \/ ~ attempt.existed[k]
         /\ target[k] # None /\ target'[k] = None /\ attempt'.displaced[k] = target[k]
      \/ /\ (attempt.prior[k] = None /\ attempt.existed[k]) \/ target[k] = None
         /\ target'[k] = target[k] /\ attempt'.displaced[k] = attempt.displaced[k]
  <2>1. CASE (attempt.prior[k] # None \/ ~ attempt.existed[k]) /\ target[k] # None
    <3>1. attempt' = [attempt EXCEPT !.displaced[k] = target[k]] /\ target' = [target EXCEPT ![k] = None]
      BY <1>1, <2>1
    <3>2. target'[k] = None /\ attempt'.displaced[k] = target[k]
      BY <3>1 DEF Inv, TypeOK, Attempts, Contents
    <3> QED BY <2>1, <3>2
  <2>2. CASE ~ ((attempt.prior[k] # None \/ ~ attempt.existed[k]) /\ target[k] # None)
    <3>1. UNCHANGED <<target, attempt>>
      BY <1>1, <2>2
    <3> QED BY <2>2, <3>1
  <2> QED BY <2>1, <2>2
<1>6. TypeOK'
  BY <1>1, <1>2, <1>3, <1>4 DEF Inv, TypeOK, Operators, Plans, Rolling
<1>7. pending = "attempt" /\ \A s \in Slot : Kept(s)
  BY <1>1, <1>2 DEF Inv, RolledBack, HeldKept
<1>8. HeldKept'
  <2> SUFFICES ASSUME NEW s \in Slot PROVE Kept(s)'
    BY DEF HeldKept
  <2>1. CASE s = k
    BY <1>1, <1>4, <1>5, <1>7, <2>1 DEF Kept, Known, SlotAdmitted
  <2>2. CASE s # k
    BY <1>1, <1>4, <1>7, <2>2 DEF Kept, Known, SlotAdmitted
  <2> QED BY <2>1, <2>2
<1>9. RolledBack'
  <2>1. \A s \in Slot : s < k => Backed(s)'
    BY <1>1, <1>2, <1>4, SlotBounds DEF Inv, RolledBack, Backed
  <2>2. attempt'.prior[k] # None \/ ~ attempt'.existed[k] => target'[k] = None
    BY <1>4, <1>5
  <2> QED BY <1>1, <1>3, <1>7, <2>1, <2>2 DEF RolledBack, Backed
<1> QED BY <1>1, <1>2, <1>6, <1>7, <1>8, <1>9, OperatorsStep DEF OneVersion

LEMMA RestoreKeeps == ASSUME Inv, Restore PROVE Inv'
<1> USE DEF Restore, Aside
<1> PICK k \in Slot : k = operator.slot
  BY DEF Inv, TypeOK
<1> PICK a \in Rolling, n \in Slot : a = (IF k = Slots THEN "mark" ELSE "displace")
                                    /\ n = (IF k = Slots THEN 1 ELSE k + 1)
  BY SlotBounds DEF Rolling
<1>1. /\ operator.at = "restore" /\ operator' = [operator EXCEPT !.at = a, !.slot = n] /\ owner' = owner
      /\ UNCHANGED <<source, lockfile, pending, publisher, reader, former, copied, offered>>
      /\ IF attempt.prior[k] # None
         THEN /\ target' = [target EXCEPT ![k] = attempt.prior[k]]
              /\ attempt' = [attempt EXCEPT !.prior[k] = None]
         ELSE UNCHANGED <<target, attempt>>
  OBVIOUS
<1> HIDE DEF Restore, Aside
<1>2. owner = "operator" /\ lockfile /\ \A q \in Publishers : publisher[q].at \notin Holding
  BY <1>1, Working DEF Inv, Rolling
<1>3. operator' \in Operators /\ operator'.at = a /\ operator'.slot = n
  BY <1>1 DEF Inv, TypeOK, Operators, Plans
<1>4. /\ attempt' \in Attempts /\ target' \in Contents
      /\ attempt'.displaced = attempt.displaced /\ attempt'.staged = attempt.staged
      /\ attempt'.existed = attempt.existed
      /\ \A s \in Slot : s # k => target'[s] = target[s] /\ attempt'.prior[s] = attempt.prior[s]
  BY <1>1 DEF Inv, TypeOK, Attempts, Contents
<1>5. /\ attempt'.prior[k] = None
      /\ target'[k] = IF attempt.prior[k] # None THEN attempt.prior[k] ELSE target[k]
  BY <1>1 DEF Inv, TypeOK, Attempts, Contents
<1>6. TypeOK'
  BY <1>1, <1>2, <1>3, <1>4 DEF Inv, TypeOK, Operators, Plans, Rolling
<1>7. /\ pending = "attempt" /\ \A s \in Slot : Kept(s)
      /\ attempt.prior[k] # None \/ ~ attempt.existed[k] => target[k] = None
  BY <1>1, <1>2 DEF Inv, RolledBack, HeldKept
<1>8. HeldKept'
  <2> SUFFICES ASSUME NEW s \in Slot PROVE Kept(s)'
    BY DEF HeldKept
  <2>1. CASE s = k
    BY <1>1, <1>4, <1>5, <1>7, <2>1 DEF Kept, Known, SlotAdmitted
  <2>2. CASE s # k
    BY <1>1, <1>4, <1>7, <2>2 DEF Kept, Known, SlotAdmitted
  <2> QED BY <2>1, <2>2
<1>9. \A s \in Slot : s <= k => Backed(s)'
  <2>1. Backed(k)'
    BY <1>4, <1>5, <1>7 DEF Backed, Kept, SlotAdmitted
  <2>2. \A s \in Slot : s < k => Backed(s)'
    BY <1>1, <1>2, <1>4, SlotBounds DEF Inv, RolledBack, Backed
  <2> QED BY <2>1, <2>2, SlotBounds
<1>10. RolledBack'
  <2>1. CASE k = Slots
    BY <1>1, <1>3, <1>7, <1>9, <2>1, SlotBounds DEF RolledBack, Backed
  <2>2. CASE k # Slots
    <3>1. n = k + 1 /\ a = "displace"
      BY <2>2
    <3>2. \A s \in Slot : s < n => Backed(s)'
      BY <1>9, <3>1, SlotBounds
    <3> QED BY <1>1, <1>3, <1>7, <3>1, <3>2 DEF RolledBack, Backed
  <2> QED BY <2>1, <2>2
<1> QED BY <1>1, <1>2, <1>6, <1>7, <1>8, <1>10, OperatorsStep DEF OneVersion

LEMMA MarkKeeps == ASSUME Inv, Mark PROVE Inv'
<1> USE DEF Mark, Aside
<1>1. operator.at = "mark" /\ Work("release")
  OBVIOUS
<1>2. owner = "operator" /\ lockfile /\ \A q \in Publishers : publisher[q].at \notin Holding
  BY <1>1, Working DEF Inv, Rolling
<1>3. operator' \in Operators /\ operator'.at = "release"
  BY <1>1, WorkGoesOn DEF Inv, Rolling
<1>4. /\ attempt' \in Attempts /\ attempt'.prior = attempt.prior /\ attempt'.staged = attempt.staged
      /\ attempt'.displaced = attempt.displaced /\ attempt'.existed = attempt.existed
  BY DEF Inv, TypeOK, Attempts
<1>5. TypeOK'
  BY <1>2, <1>3, <1>4 DEF Inv, TypeOK, Operators, Plans, Rolling
<1>6. HeldKept'
  BY <1>4 DEF Inv, HeldKept, Kept, Known, SlotAdmitted
<1>7. RolledBack'
  BY <1>1, <1>2, <1>3, <1>4 DEF Inv, RolledBack, Backed
<1>8. pending = "attempt"
  BY <1>1, <1>2 DEF Inv, RolledBack
<1> QED BY <1>2, <1>5, <1>6, <1>7, <1>8, OperatorsStep DEF OneVersion

LEMMA ReleaseHoldKeeps ==
  ASSUME Inv, ReleaseHold
  PROVE  Inv' /\ pending = "attempt" /\ pending' = "none" /\ target' = target /\ shown = base
<1> USE DEF ReleaseHold
<1>1. operator.at = "release" /\ Work("close")
  OBVIOUS
<1>2. owner = "operator" /\ lockfile /\ \A q \in Publishers : publisher[q].at \notin Holding
  BY <1>1, Working DEF Inv, Rolling
<1>3. operator' \in Operators /\ operator'.at = "close"
  BY <1>1, WorkGoesOn DEF Inv, Rolling
<1>4. TypeOK'
  BY <1>2, <1>3 DEF Inv, TypeOK, Operators, Plans, Rolling
<1>5. pending = "attempt" /\ \A s \in Slot : Backed(s) /\ Kept(s)
  BY <1>1, <1>2 DEF Inv, RolledBack, HeldKept
<1>6. \A s \in Active : target[s] = base
  BY <1>5 DEF Inv, FormerIsOne, Backed, Kept, Known, Active
<1>7. OneVersion' /\ shown = base
  BY <1>6, FirstIsActive DEF OneVersion
<1>8. RolledBack'
  BY <1>3 DEF RolledBack
<1> QED BY <1>2, <1>4, <1>5, <1>7, <1>8, OperatorsStep DEF HeldKept

LEMMA OperatorStopsKeeps == ASSUME Inv, OperatorStops PROVE Inv'
<1> USE DEF OperatorStops, Aside
<1>1. operator.at \in Rolling
  BY DEF Inv, TypeOK
<1>2. owner = "operator" /\ lockfile /\ \A q \in Publishers : publisher[q].at \notin Holding
  BY <1>1, Working DEF Inv
<1>3. operator' \in Operators /\ operator'.at = "idle"
  BY SlotBounds DEF Inv, TypeOK, Operators, Plans, Rolling
<1>4. reader.locked = FALSE
  BY <1>2, CacheConstants DEF Inv, TypeOK
<1>5. TypeOK'
  BY <1>2, <1>3, <1>4, CacheConstants DEF Inv, TypeOK, Operators, Plans, Rolling
<1>6. HeldKept' /\ OneVersion'
  BY DEF Inv, HeldKept, Kept, Known, SlotAdmitted, OneVersion, shown
<1>7. RolledBack'
  BY CacheConstants DEF RolledBack
<1> QED BY <1>2, <1>5, <1>6, <1>7, OperatorsStep

-----------------------------------------------------------------------------
(* The reader's steps, and the source's.                                   *)

\* Only reader and source change.
LEMMA ReadersStep ==
  ASSUME Inv, UNCHANGED <<target, lockfile, owner, pending, attempt, publisher, operator, former, copied, offered>>,
         TypeOK', Seen', ReaderSeesOne'
  PROVE  Inv'
<1>1. HeldKept' /\ OneVersion' /\ FormerIsOne'
  BY DEF Inv, HeldKept, Kept, Known, SlotAdmitted, OneVersion, FormerIsOne, base, shown
<1>2. RolledBack'
  BY DEF Inv, RolledBack, Backed
<1>3. \A q \in Publishers : Walked(q)'
  BY DEF Inv, Walked, At, Fresh, Placed, Lifted, Known
<1> QED BY <1>1, <1>2, <1>3 DEF Inv

Readers == [at : {"idle", "check", "read", "told"}, locked : BOOLEAN, todo : SUBSET Active,
            seen : SUBSET (Versions \cup {None})]

LEMMA RefuseKeeps == ASSUME Inv, Refuse, Reading PROVE Inv'
<1> USE DEF Refuse, Reading
<1>1. reader' \in Readers /\ reader'.locked = FALSE /\ reader'.at = "idle"
  BY DEF Readers
<1>2. TypeOK'
  BY <1>1 DEF Inv, TypeOK, Readers
<1> QED BY <1>1, <1>2, ReadersStep DEF Seen, ReaderSeesOne

LEMMA OpenKeeps == ASSUME Inv, Open PROVE Inv'
<1> USE DEF Open, Reading
<1>1. /\ reader' \in Readers /\ reader'.at = "check" /\ reader'.locked = lockfile /\ reader'.seen = {}
  BY DEF Inv, TypeOK, Readers
<1>2. TypeOK'
  BY <1>1 DEF Inv, TypeOK, Readers
<1> QED BY <1>1, <1>2, ReadersStep DEF Seen, ReaderSeesOne

LEMMA CheckKeeps == ASSUME Inv, Check PROVE Inv'
<1>1. CASE pending = "none"
  <2> USE DEF Check, Reading, Reader
  <2>1. /\ reader' \in Readers /\ reader'.at = "read" /\ reader'.locked = reader.locked
        /\ reader'.seen = reader.seen /\ reader.at = "check"
    BY <1>1 DEF Inv, TypeOK, Readers
  <2>2. TypeOK'
    BY <2>1 DEF Inv, TypeOK, Readers
  <2>3. Seen' /\ ReaderSeesOne'
    BY <1>1, <2>1 DEF Inv, Seen, ReaderSeesOne
  <2> QED BY <2>2, <2>3, ReadersStep
<1>2. CASE pending # "none"
  BY <1>2, RefuseKeeps DEF Check
<1> QED BY <1>1, <1>2

LEMMA ReadSlotKeeps == ASSUME Inv, ReadSlot PROVE Inv'
<1> USE DEF ReadSlot, Reading
<1>1. PICK s \in reader.todo : reader' = [reader EXCEPT !.todo = @ \ {s}, !.seen = @ \cup {target[s]}]
  OBVIOUS
<1>2. s \in Active /\ target[s] \in Versions \cup {None} /\ reader.at = "read"
  BY DEF Inv, TypeOK, Readers, Active, Contents
<1>3. /\ reader' \in Readers /\ reader'.at = "read" /\ reader'.locked = reader.locked
      /\ reader'.seen = reader.seen \cup {target[s]}
  BY <1>1, <1>2 DEF Inv, TypeOK, Readers
<1>4. TypeOK'
  BY <1>3 DEF Inv, TypeOK, Readers
<1>5. Seen'
  BY <1>2, <1>3 DEF Inv, Seen, OneVersion, shown
<1>6. ReaderSeesOne'
  BY <1>3 DEF ReaderSeesOne
<1> QED BY <1>4, <1>5, <1>6, ReadersStep

LEMMA TellKeeps == ASSUME Inv, Tell PROVE Inv'
<1>1. CASE ~ reader.locked /\ lockfile
  BY <1>1, RefuseKeeps DEF Tell
<1>2. CASE reader.locked \/ ~ lockfile
  <2> USE DEF Tell, Reading, Reader
  <2>1. /\ reader' \in Readers /\ reader'.at = "told" /\ reader'.locked = reader.locked
        /\ reader'.seen = reader.seen /\ reader.at = "read"
    BY <1>2 DEF Inv, TypeOK, Readers
  <2>2. TypeOK'
    BY <2>1 DEF Inv, TypeOK, Readers
  <2>3. Seen' /\ ReaderSeesOne'
    BY <1>2, <2>1 DEF Inv, Seen, ReaderSeesOne, shown
  <2> QED BY <2>2, <2>3, ReadersStep
<1> QED BY <1>1, <1>2

LEMMA SourceKeeps == ASSUME Inv, SourceChanges PROVE Inv'
<1> USE DEF SourceChanges
<1>1. TypeOK'
  BY CacheConstants DEF Inv, TypeOK, Versions
<1> QED BY <1>1, ReadersStep DEF Inv, Seen, ReaderSeesOne, shown

LEMMA InitKeeps == ASSUME Init PROVE Inv
<1>1. /\ source = 0 /\ lockfile = FALSE /\ owner = None /\ pending = "none" /\ offered = {}
      /\ former = Empty /\ copied = Empty
      /\ target \in {Empty, [s \in Slot |-> 0]}
      /\ publisher = [p \in Publishers |-> Waiting]
      /\ operator = [at |-> "idle", slot |-> 1, plan |-> None]
      /\ reader = [at |-> "idle", locked |-> FALSE, todo |-> {}, seen |-> {}]
  BY DEF Init
<1>2. 0 \in Versions /\ Waiting \in [at : Holding \cup {"idle", "lock"}, slot : Slot, version : Versions]
      /\ Waiting.at = "idle"
  BY SlotBounds, CacheConstants DEF Versions, Waiting
<1>3. target \in Contents
  BY <1>1, <1>2 DEF Contents, Empty
<1>4. attempt \in Attempts
  BY DEF Init, Attempts, Contents, Empty
<1>5. TypeOK
  BY <1>1, <1>2, <1>3, <1>4, SlotBounds, CacheConstants DEF TypeOK, Holding, Rolling, Contents, Empty
<1>6. OneVersion
  BY <1>1, FirstIsActive DEF OneVersion, Empty, Active
<1>7. Seen /\ ReaderSeesOne /\ HeldKept /\ FormerIsOne
  BY <1>1, FirstIsActive DEF Seen, ReaderSeesOne, HeldKept, FormerIsOne, Empty, Active
<1>8. RolledBack /\ \A p \in Publishers : Walked(p)
  BY <1>1, CacheConstants DEF RolledBack, Walked
<1> QED BY <1>5, <1>6, <1>7, <1>8 DEF Inv

LEMMA StutterKeeps == ASSUME Inv, UNCHANGED vars PROVE Inv'
<1>1. TypeOK'
  BY DEF vars, Inv, TypeOK, At
<1>2. Seen' /\ ReaderSeesOne'
  BY DEF vars, Inv, Seen, ReaderSeesOne, shown
<1> QED BY <1>1, <1>2, ReadersStep DEF vars

LEMMA StepKeeps == ASSUME Inv, [Next]_vars PROVE Inv'
<1>1. CASE UNCHANGED vars
  BY <1>1, StutterKeeps
<1>2. CASE SourceChanges
  BY <1>2, SourceKeeps
<1>3. ASSUME NEW p \in Publishers, Publish(p) PROVE Inv'
  BY <1>3, CaptureKeeps, LockKeeps, OpenHoldKeeps, FillHoldKeeps, StageKeeps, VerifyKeeps, DisplaceKeeps,
     InstallKeeps, CompleteKeeps, ReleaseKeeps, StopKeeps DEF Publish
<1>4. CASE Recover
  BY <1>4, PlanKeeps, RollbackKeeps, SetAsideKeeps, RestoreKeeps, MarkKeeps, ReleaseHoldKeeps,
     OperatorStopsKeeps DEF Recover
<1>5. CASE Status
  BY <1>5, OpenKeeps, CheckKeeps, ReadSlotKeeps, TellKeeps, RefuseKeeps DEF Status, Close
<1> QED BY <1>1, <1>2, <1>3, <1>4, <1>5 DEF Next

LEMMA Invariance == Spec => []Inv
<1>1. Init => Inv
  BY InitKeeps
<1>2. Inv /\ [Next]_vars => Inv'
  BY StepKeeps
<1> QED BY <1>1, <1>2, PTL DEF Spec

-----------------------------------------------------------------------------
(* What follows.                                                           *)

\* Every variable keeps its type, and the lock excludes: publisher, operator
\* and a reader that found the lock file never have it at the same time.
THEOREM TypeCorrect == Spec => []TypeOK
<1>1. Inv => TypeOK
  BY DEF Inv
<1> QED BY <1>1, Invariance, PTL

\* A reader of cache status is never shown slots of two versions.
THEOREM ReadersSeeOne == Spec => []ReaderSeesOne
<1>1. Inv => ReaderSeesOne
  BY DEF Inv
<1> QED BY <1>1, Invariance, PTL

\* cache_publication_recovery.py admits whatever an interrupted publication or
\* rollback leaves behind, for any number of slots and interruptions.
THEOREM HoldsAreRecoverable == Spec => []HoldRecoverable
<1>1. Inv => HoldRecoverable
  BY DEF Inv, HeldKept, Kept, HoldRecoverable, Inspectable
<1> QED BY <1>1, Invariance, PTL

\* What SetAside and Restore do to their slot, if anything.
LEMMA SetAsideDoes ==
  ASSUME Inv, SetAside
  PROVE  \/ UNCHANGED <<target, attempt>>
         \/ \E k \in Slot :
              /\ Kept(k) /\ (attempt.prior[k] # None \/ ~ attempt.existed[k]) /\ target[k] # None
              /\ attempt' = [attempt EXCEPT !.displaced[k] = target[k]]
              /\ target' = [target EXCEPT ![k] = None]
<1>1. operator.slot \in Slot /\ operator.at = "displace" /\ owner = "operator"
  BY Working DEF Inv, SetAside, Rolling
<1>2. Kept(operator.slot)
  BY <1>1 DEF Inv, RolledBack, HeldKept
<1> QED BY <1>1, <1>2 DEF SetAside

LEMMA RestoreDoes ==
  ASSUME Inv, Restore
  PROVE  \/ UNCHANGED <<target, attempt>>
         \/ \E k \in Slot :
              /\ Kept(k) /\ attempt.prior[k] # None /\ target[k] = None
              /\ target' = [target EXCEPT ![k] = attempt.prior[k]]
              /\ attempt' = [attempt EXCEPT !.prior[k] = None]
<1>1. operator.slot \in Slot /\ operator.at = "restore" /\ owner = "operator"
  BY Working DEF Inv, Restore, Rolling
<1>2. Kept(operator.slot) /\ (attempt.prior[operator.slot] # None => target[operator.slot] = None)
  BY <1>1 DEF Inv, RolledBack, HeldKept
<1> QED BY <1>1, <1>2 DEF Restore

\* A version is where it was, or is moved: every step that empties a place
\* has put, or puts, what was there into another one.
LEMMA NothingLostStep == ASSUME Inv, NothingLost, [Next]_vars PROVE NothingLost'
<1> DEFINE Still == UNCHANGED <<target, attempt, former, copied>>
<1> USE DEF NothingLost
<1>0. /\ target \in Contents /\ former \in Contents /\ copied \in Contents /\ attempt \in Attempts
      /\ attempt.staged \in Contents /\ attempt.prior \in Contents /\ attempt.displaced \in Contents
  BY DEF Inv, TypeOK, Attempts
<1>1. CASE Still
  BY <1>1
<1>2. ASSUME NEW p \in Publishers, Lock(p) PROVE NothingLost'
  BY <1>2 DEF Lock, Empty
<1>3. ASSUME NEW p \in Publishers, Stage(p) PROVE NothingLost'
  <2> PICK k \in Slot : k = publisher[p].slot
    BY DEF Inv, TypeOK
  <2>1. /\ UNCHANGED <<target, former>> /\ attempt'.prior = attempt.prior
        /\ attempt'.displaced = attempt.displaced
        /\ attempt'.staged = [attempt.staged EXCEPT ![k] = source]
        /\ copied' = [copied EXCEPT ![k] = source]
    BY <1>0, <1>3 DEF Stage, Attempts
  <2> QED BY <1>0, <2>1 DEF Contents
<1>4. ASSUME NEW p \in Publishers, Displace(p) PROVE NothingLost'
  <2> PICK k \in Slot : k = publisher[p].slot
    BY DEF Inv, TypeOK
  <2>1. Fresh(k)
    BY <1>4, AtHolding DEF Inv, Walked, Displace, Holding
  <2>2. /\ UNCHANGED <<former, copied>> /\ attempt'.staged = attempt.staged
        /\ attempt'.displaced = attempt.displaced
        /\ attempt'.prior = [attempt.prior EXCEPT ![k] = target[k]]
        /\ target' = [target EXCEPT ![k] = None]
    BY <1>0, <1>4 DEF Displace, Outside, Attempts
  <2> QED BY <1>0, <2>1, <2>2 DEF Fresh, Contents
<1>5. ASSUME NEW p \in Publishers, Install(p) PROVE NothingLost'
  <2> PICK k \in Slot : k = publisher[p].slot
    BY DEF Inv, TypeOK
  <2>1. Lifted(k) /\ target[k] = None
    BY <1>5, AtHolding DEF Inv, Walked, Install, Holding
  <2>2. /\ UNCHANGED <<former, copied>> /\ attempt'.prior = attempt.prior
        /\ attempt'.displaced = attempt.displaced
        /\ attempt'.staged = [attempt.staged EXCEPT ![k] = None]
        /\ target' = [target EXCEPT ![k] = attempt.staged[k]]
    BY <1>0, <1>5 DEF Install, Outside, Moved, Attempts
  <2> QED BY <1>0, <2>1, <2>2 DEF Lifted, Known, Contents
<1>6. CASE SetAside
  <2> SUFFICES ASSUME NEW k \in Slot, Kept(k), attempt.prior[k] # None \/ ~ attempt.existed[k],
                      target[k] # None, attempt' = [attempt EXCEPT !.displaced[k] = target[k]],
                      target' = [target EXCEPT ![k] = None]
               PROVE  NothingLost'
    BY <1>1, <1>6, SetAsideDoes DEF SetAside, Aside
  <2>1. /\ UNCHANGED <<former, copied>> /\ attempt'.prior = attempt.prior
        /\ attempt'.staged = attempt.staged
        /\ attempt'.displaced = [attempt.displaced EXCEPT ![k] = target[k]]
    BY <1>0, <1>6 DEF SetAside, Aside, Attempts
  <2>2. attempt.displaced[k] = None /\ (former[k] # None => attempt.prior[k] = former[k])
    BY DEF Kept, Known, SlotAdmitted
  <2> QED BY <1>0, <2>1, <2>2 DEF Contents
<1>7. CASE Restore
  <2> SUFFICES ASSUME NEW k \in Slot, Kept(k), attempt.prior[k] # None, target[k] = None,
                      target' = [target EXCEPT ![k] = attempt.prior[k]],
                      attempt' = [attempt EXCEPT !.prior[k] = None]
               PROVE  NothingLost'
    BY <1>1, <1>7, RestoreDoes DEF Restore, Aside
  <2>1. /\ UNCHANGED <<former, copied>> /\ attempt'.staged = attempt.staged
        /\ attempt'.displaced = attempt.displaced
        /\ attempt'.prior = [attempt.prior EXCEPT ![k] = None]
    BY <1>0, <1>7 DEF Restore, Aside, Attempts
  <2> QED BY <1>0, <2>1 DEF Contents
<1>8. ASSUME NEW p \in Publishers, Publish(p) PROVE NothingLost'
  <2>1. ASSUME Capture(p) \/ OpenHold(p) \/ FillHold(p) \/ Verify(p) \/ Release(p) \/ Stop(p) PROVE Still
    BY <2>1 DEF Capture, OpenHold, FillHold, Verify, Release, Stop, Outside
  <2>2. CASE Complete(p)
    BY <1>0, <2>2 DEF Complete, Outside, Attempts
  <2> QED BY <1>1, <1>2, <1>3, <1>4, <1>5, <1>8, <2>1, <2>2 DEF Publish
<1>9. CASE Recover
  <2>1. ASSUME Plan \/ Rollback \/ ReleaseHold \/ OperatorStops PROVE Still
    BY <2>1 DEF Plan, Rollback, ReleaseHold, OperatorStops, Aside
  <2>2. CASE Mark
    BY <1>0, <2>2 DEF Mark, Aside, Attempts
  <2> QED BY <1>1, <1>6, <1>7, <1>9, <2>1, <2>2 DEF Recover
<1>10. ASSUME SourceChanges \/ Status \/ UNCHANGED vars PROVE Still
  BY <1>10 DEF SourceChanges, Status, Open, Check, ReadSlot, Tell, Close, Reading, vars
<1> QED BY <1>1, <1>8, <1>9, <1>10 DEF Next

\* Until the next attempt begins no version is gone, wherever publisher and
\* operator were interrupted: every slot's former content, those under the
\* run id too, is in its slot or kept as the predecessor, and everything that
\* was copied is staged, installed or set aside.
THEOREM NothingIsLost == Spec => []NothingLost
<1>1. Init => NothingLost
  BY DEF Init, NothingLost, Empty
<1>2. Inv /\ NothingLost /\ [Next]_vars => NothingLost'
  BY NothingLostStep
<1> QED BY <1>1, <1>2, Invariance, PTL DEF Spec

-----------------------------------------------------------------------------
(* The refinement: the register changes when the hold goes, and then only. *)

register == IF pending = "none" THEN target[CHOOSE s \in Active : TRUE] ELSE base

LEMMA RegisterIs == register = (IF pending = "none" THEN shown ELSE base)
                    /\ register' = (IF pending' = "none" THEN shown' ELSE base')
BY DEF register, shown

LEMMA StepIsRegisters ==
  ASSUME Inv, [Next]_vars PROVE [Register!Next]_<<register, offered>>
<1> USE RegisterIs DEF base
<1>1. CASE UNCHANGED vars
  BY <1>1 DEF vars, shown
<1>2. CASE SourceChanges
  BY <1>2 DEF SourceChanges, shown
<1>3. ASSUME NEW p \in Publishers, Publish(p) PROVE [Register!Next]_<<register, offered>>
  <2>1. CASE Capture(p)
    BY <2>1 DEF Capture, Outside, shown
  <2>2. CASE Lock(p)
    <3>1. shown' = shown /\ pending' = "none" /\ pending = "none" /\ offered' = offered
      BY <2>2, LockKeeps DEF Lock
    <3> QED BY <3>1
  <2>3. CASE OpenHold(p)
    <3>1. owner = p
      BY <2>3, AtHolding DEF Inv, OpenHold, Holding
    <3>2. pending = "none" /\ shown = base
      BY <2>3, <3>1, FirstIsActive DEF Inv, Walked, OpenHold, Fresh
    <3> QED BY <2>3, <3>2 DEF OpenHold, Outside
  <2>4. CASE FillHold(p)
    <3>1. owner = p
      BY <2>4, AtHolding DEF Inv, FillHold, Holding
    <3>2. pending # "none"
      BY <2>4, <3>1 DEF Inv, Walked, FillHold
    <3> QED BY <2>4, <3>2 DEF FillHold, Outside
  <2>5. CASE Stage(p)
    BY <2>5 DEF Stage, Outside, shown
  <2>6. CASE Verify(p)
    <3>1. UNCHANGED <<target, pending, former>> /\ offered' = offered \cup {source} /\ source \in Versions
      BY <2>6 DEF Verify, Outside, Inv, TypeOK
    <3>2. register' = register
      BY <3>1 DEF shown
    <3> QED BY <3>1, <3>2 DEF Register!Next, Register!Offer, register
  <2>7. CASE Displace(p)
    <3>1. owner = p
      BY <2>7, AtHolding DEF Inv, Displace, Holding
    <3>2. pending # "none"
      BY <2>7, <3>1 DEF Inv, Walked, Displace
    <3> QED BY <2>7, <3>2 DEF Displace, Outside
  <2>8. CASE Install(p)
    <3>1. owner = p
      BY <2>8, AtHolding DEF Inv, Install, Holding
    <3>2. pending # "none"
      BY <2>8, <3>1 DEF Inv, Walked, Install
    <3> QED BY <2>8, <3>2 DEF Install, Outside
  <2>9. CASE Complete(p)
    BY <2>9 DEF Complete, Outside, shown
  <2>10. CASE Release(p)
    <3>1. /\ pending' = "none" /\ target' = target /\ offered' = offered
          /\ publisher[p].version \in offered /\ shown = publisher[p].version
      BY <2>10, ReleaseKeeps DEF Release, Outside
    <3>2. register' \in offered /\ offered' = offered /\ offered \subseteq Versions
      BY <3>1 DEF shown, Inv, TypeOK
    <3> QED BY <3>2 DEF Register!Next, Register!Commit, register
  <2>11. CASE Stop(p)
    BY <2>11 DEF Stop, Outside, shown
  <2> QED BY <1>3, <2>1, <2>2, <2>3, <2>4, <2>5, <2>6, <2>7, <2>8, <2>9, <2>10, <2>11 DEF Publish
<1>4. CASE Recover
  <2>1. CASE Plan \/ Rollback \/ Mark \/ OperatorStops
    BY <2>1 DEF Plan, Rollback, Mark, OperatorStops, Aside, shown
  <2>2. CASE SetAside \/ Restore
    <3>1. owner = "operator"
      BY <2>2, Working DEF Inv, SetAside, Restore, Rolling
    <3>2. pending = "attempt"
      BY <2>2, <3>1 DEF Inv, RolledBack, SetAside, Restore
    <3> QED BY <2>2, <3>2 DEF SetAside, Restore, Aside
  <2>3. CASE ReleaseHold
    <3>1. pending = "attempt" /\ pending' = "none" /\ target' = target /\ shown = base
      BY <2>3, ReleaseHoldKeeps
    <3> QED BY <2>3, <3>1 DEF ReleaseHold, shown
  <2> QED BY <1>4, <2>1, <2>2, <2>3 DEF Recover
<1>5. CASE Status
  <2>1. Reading
    BY <1>5 DEF Status, Open, Check, ReadSlot, Tell, Close
  <2> QED BY <2>1 DEF Reading, shown
<1> QED BY <1>1, <1>2, <1>3, <1>4, <1>5 DEF Next

\* The cache is one register to everyone who respects lock and hold: whatever
\* is interrupted, it shows the version before the attempt or a version that
\* was verified whole.
THEOREM CacheIsARegister == Spec => ImplementsRegister
<1>1. Init => Register!Init
  <2> SUFFICES ASSUME Init PROVE Register!Init
    OBVIOUS
  <2>1. Inv /\ pending = "none" /\ offered = {}
    BY InitKeeps DEF Init
  <2>2. shown \in Versions \cup {None}
    BY <2>1, FirstIsActive DEF Inv, TypeOK, Contents
  <2> QED BY <2>1, <2>2 DEF Register!Init, shown
<1>2. Inv /\ [Next]_vars => [Register!Next]_<<register, offered>>
  BY StepIsRegisters
<1> QED BY <1>1, <1>2, Invariance, PTL DEF Spec, ImplementsRegister, Register!Spec, register
=============================================================================
