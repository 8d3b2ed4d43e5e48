-------------------------- MODULE CachePublication --------------------------
(***************************************************************************)
(* Publication of a run's frames into the cache of a scene project: slots  *)
(* (directories and manifests) that are replaced one rename after the      *)
(* other, under a lock and behind a durable hold that outlives the         *)
(* publisher.  Publishers capture their source, stage every slot, and      *)
(* install; an operator rolls an attempt that was cut short back, by a     *)
(* reviewed plan; a reader is shown the slots only when nothing is held.   *)
(*                                                                         *)
(* The contents of a slot are told apart by the version of the source they *)
(* were copied from.  A publisher that fails at a step and one that dies   *)
(* there leave the same files: both are Stop.                              *)
(***************************************************************************)
EXTENDS Naturals

CONSTANTS
  Slots,        \* number of slots, in the order of their installation
  RunSlots,     \* the slots under the run id of the publication
  Publishers, None,
  MaxVersions   \* bound on the versions of the source

ASSUME CacheConstants ==
  /\ Slots \in Nat \ {0} /\ RunSlots \subseteq 1 .. Slots /\ RunSlots # 1 .. Slots
  /\ MaxVersions \in Nat /\ None \notin 0 .. MaxVersions
  /\ None \notin Publishers /\ None # "operator" /\ "operator" \notin Publishers

VARIABLES
  source,       \* version of the frames the simulation has written
  target,       \* slot -> the version installed there, or None
  lockfile,     \* the lock file has been created
  owner,        \* who has it exclusively, or None
  pending,      \* the hold: none, created and still empty, or naming the attempt
  attempt,      \* the attempt's directory
  publisher, operator, reader,
  former,       \* history: slot -> its content when the attempt began
  copied,       \* history: slot -> what was copied for it into the attempt
  offered       \* history: the versions staged and verified whole

vars == <<source, target, lockfile, owner, pending, attempt, publisher, operator,
          reader, former, copied, offered>>

Slot     == 1 .. Slots
Active   == Slot \ RunSlots
Versions == 0 .. MaxVersions
Contents == [Slot -> Versions \cup {None}]
Empty    == [s \in Slot |-> None]
Attempts == [staged : Contents, prior : Contents, displaced : Contents,
             existed : [Slot -> BOOLEAN], marks : SUBSET {"complete", "rolled-back"}]

Waiting == [at |-> "idle", slot |-> 1, version |-> 0]

Init ==
  /\ source = 0
  /\ target \in {Empty, [s \in Slot |-> 0]}
  /\ lockfile = FALSE /\ owner = None /\ pending = "none"
  /\ attempt = [staged |-> Empty, prior |-> Empty, displaced |-> Empty,
                existed |-> [s \in Slot |-> FALSE], marks |-> {}]
  /\ publisher = [p \in Publishers |-> Waiting]
  /\ operator = [at |-> "idle", slot |-> 1, plan |-> None]
  /\ reader = [at |-> "idle", locked |-> FALSE, todo |-> {}, seen |-> {}]
  /\ former = Empty /\ copied = Empty /\ offered = {}

\* The simulation writes on into the source.
SourceChanges ==
  /\ source < MaxVersions /\ source' = source + 1
  /\ UNCHANGED <<target, lockfile, owner, pending, attempt, publisher, operator, reader, former, copied, offered>>

-----------------------------------------------------------------------------
(* A publisher.                                                            *)

At(p, at) == publisher[p].at = at
Go(p, at) == publisher' = [publisher EXCEPT ![p].at = at]
Outside   == UNCHANGED <<source, lockfile, operator, reader, former, copied>>

Capture(p) ==
  /\ At(p, "idle")
  /\ publisher' = [publisher EXCEPT ![p].at = "lock", ![p].version = source, ![p].slot = 1]
  /\ Outside /\ UNCHANGED <<target, owner, pending, attempt, offered>>

Unlocked == owner = None /\ ~ reader.locked

\* Nothing may be held.  A run id that was published before finds its run
\* slots; a new one finds none.
Lock(p) ==
  /\ At(p, "lock") /\ Unlocked /\ pending = "none"
  /\ lockfile' = TRUE /\ owner' = p
  /\ \E known \in BOOLEAN :
       target' = [s \in Slot |-> IF s \in RunSlots /\ ~ known THEN None ELSE target[s]]
  /\ attempt' = [staged |-> Empty, prior |-> Empty, displaced |-> Empty,
                 existed |-> [s \in Slot |-> target'[s] # None], marks |-> {}]
  /\ former' = target' /\ copied' = Empty
  /\ Go(p, "hold")
  /\ UNCHANGED <<source, pending, operator, reader, offered>>

\* The plan is on disk before the hold, the hold before any other change.
OpenHold(p) ==
  /\ At(p, "hold") /\ Go(p, "fill") /\ pending' = "empty"
  /\ Outside /\ UNCHANGED <<target, owner, attempt, offered>>

FillHold(p) ==
  /\ At(p, "fill") /\ Go(p, "stage") /\ pending' = "attempt"
  /\ Outside /\ UNCHANGED <<target, owner, attempt, offered>>

Stage(p) ==
  LET s == publisher[p].slot
  IN /\ At(p, "stage")
     /\ attempt' = [attempt EXCEPT !.staged[s] = source]
     /\ copied' = [copied EXCEPT ![s] = source]
     /\ publisher' = [publisher EXCEPT ![p].at = IF s = Slots THEN "verify" ELSE "stage",
                                       ![p].slot = IF s = Slots THEN 1 ELSE s + 1]
     /\ UNCHANGED <<source, lockfile, operator, reader, former, target, owner, pending, offered>>

\* The copies are taken for good.
VerifyUnchecked(p) ==
  /\ At(p, "verify") /\ Go(p, "displace")
  /\ offered' = offered \cup {publisher[p].version}
  /\ Outside /\ UNCHANGED <<target, owner, pending, attempt>>

\* Every staged slot is compared with the source, and the source with what
\* was captured at first.
Verify(p) ==
  /\ At(p, "verify")
  /\ source = publisher[p].version /\ \A s \in Slot : attempt.staged[s] = source
  /\ Go(p, "displace") /\ offered' = offered \cup {source}
  /\ Outside /\ UNCHANGED <<target, owner, pending, attempt>>

\* The predecessor is dropped.
DisplaceDropping(p) ==
  LET s == publisher[p].slot
  IN /\ At(p, "displace") /\ Go(p, "install")
     /\ target' = [target EXCEPT ![s] = None]
     /\ Outside /\ UNCHANGED <<owner, pending, attempt, offered>>

\* The predecessor, if there is one, is renamed into the attempt.
Displace(p) ==
  LET s == publisher[p].slot
  IN /\ At(p, "displace") /\ Go(p, "install")
     /\ target' = [target EXCEPT ![s] = None]
     /\ attempt' = [attempt EXCEPT !.prior[s] = target[s]]
     /\ Outside /\ UNCHANGED <<owner, pending, offered>>

\* The staged slot is copied into its place.
Installed(s) == attempt

\* The staged slot is renamed into its place.
Moved(s) == [attempt EXCEPT !.staged[s] = None]

Install(p) ==
  LET s == publisher[p].slot
  IN /\ At(p, "install")
     /\ target' = [target EXCEPT ![s] = attempt.staged[s]]
     /\ attempt' = Moved(s)
     /\ publisher' = [publisher EXCEPT ![p].at = IF s = Slots THEN "complete" ELSE "displace",
                                       ![p].slot = IF s = Slots THEN 1 ELSE s + 1]
     /\ Outside /\ UNCHANGED <<owner, pending, offered>>

Complete(p) ==
  /\ At(p, "complete") /\ Go(p, "release")
  /\ attempt' = [attempt EXCEPT !.marks = @ \cup {"complete"}]
  /\ Outside /\ UNCHANGED <<target, owner, pending, offered>>

Release(p) ==
  /\ At(p, "release") /\ Go(p, "close") /\ pending' = "none"
  /\ Outside /\ UNCHANGED <<target, owner, attempt, offered>>

\* The end, a failed check or call, or the publisher's death: the lock is
\* free and everything else stays as it is.
Stop(p) ==
  /\ ~ At(p, "idle")
  /\ publisher' = [publisher EXCEPT ![p] = Waiting]
  /\ owner' = IF owner = p THEN None ELSE owner
  /\ Outside /\ UNCHANGED <<target, pending, attempt, offered>>

-----------------------------------------------------------------------------
(* The operator: a read-only plan, then a rollback of exactly that.        *)

Evidence == <<target, attempt>>

\* inspect: the files of a slot must be what an interruption can leave.
SlotAdmitted(s) ==
  LET now == target[s] # None  staged == attempt.staged[s] # None
      prior == attempt.prior[s] # None  old == attempt.existed[s]
  IN /\ old => prior \/ now
     /\ ~ old => ~ prior
     /\ ~ (staged /\ now /\ (prior \/ ~ old))
     /\ attempt.displaced[s] # None =>
          (old /\ ~ prior /\ now) \/ (old /\ prior /\ ~ now) \/ (~ old /\ ~ now)

Inspectable == pending = "attempt" /\ \A s \in Slot : SlotAdmitted(s)

Work(at) == operator' = [operator EXCEPT !.at = at]
Aside    == UNCHANGED <<source, lockfile, pending, publisher, reader, former, copied, offered>>

Plan ==
  /\ operator.at = "idle" /\ lockfile /\ owner = None /\ Inspectable
  /\ operator' = [operator EXCEPT !.plan = Evidence]
  /\ Aside /\ UNCHANGED <<target, owner, attempt>>

Rollback ==
  /\ operator.at = "idle" /\ lockfile /\ Unlocked /\ Inspectable /\ operator.plan = Evidence
  /\ owner' = "operator"
  /\ operator' = [operator EXCEPT !.at = "displace", !.slot = 1, !.plan = None]
  /\ Aside /\ UNCHANGED <<target, attempt>>

\* What the attempt installed is moved aside, unless the slot was never
\* reached; only then is the predecessor brought back.
SetAside ==
  LET s == operator.slot
      touched == attempt.prior[s] # None \/ ~ attempt.existed[s]
  IN /\ operator.at = "displace" /\ Work("restore")
     /\ IF touched /\ target[s] # None
        THEN /\ attempt' = [attempt EXCEPT !.displaced[s] = target[s]]
             /\ target' = [target EXCEPT ![s] = None]
        ELSE UNCHANGED <<target, attempt>>
     /\ Aside /\ UNCHANGED owner

Restore ==
  LET s == operator.slot
  IN /\ operator.at = "restore"
     /\ operator' = [operator EXCEPT !.at = IF s = Slots THEN "mark" ELSE "displace",
                                     !.slot = IF s = Slots THEN 1 ELSE s + 1]
     /\ IF attempt.prior[s] # None
        THEN /\ target' = [target EXCEPT ![s] = attempt.prior[s]]
             /\ attempt' = [attempt EXCEPT !.prior[s] = None]
        ELSE UNCHANGED <<target, attempt>>
     /\ Aside /\ UNCHANGED owner

Mark ==
  /\ operator.at = "mark" /\ Work("release")
  /\ attempt' = [attempt EXCEPT !.marks = @ \cup {"rolled-back"}]
  /\ Aside /\ UNCHANGED <<target, owner>>

ReleaseHold ==
  /\ operator.at = "release" /\ Work("close") /\ pending' = "none"
  /\ UNCHANGED <<source, target, lockfile, owner, attempt, publisher, reader, former, copied, offered>>

OperatorStops ==
  /\ operator.at # "idle" /\ owner' = None
  /\ operator' = [operator EXCEPT !.at = "idle", !.slot = 1]
  /\ Aside /\ UNCHANGED <<target, attempt>>

-----------------------------------------------------------------------------
(* The reader: cache status of the project.                                *)

Reader(at) == reader' = [reader EXCEPT !.at = at]
Reading    == UNCHANGED <<source, target, lockfile, owner, pending, attempt, publisher,
                          operator, former, copied, offered>>
Refuse     == reader' = [at |-> "idle", locked |-> FALSE, todo |-> {}, seen |-> {}]

\* Without a lock file there is nothing to lock; an owner refuses the reader.
Open ==
  /\ reader.at = "idle" /\ (lockfile => owner = None)
  /\ reader' = [at |-> "check", locked |-> lockfile, todo |-> Active, seen |-> {}]
  /\ Reading

Check ==
  /\ reader.at = "check"
  /\ IF pending = "none" THEN Reader("read") ELSE Refuse
  /\ Reading

ReadSlot ==
  /\ reader.at = "read"
  /\ \E s \in reader.todo :
       reader' = [reader EXCEPT !.todo = @ \ {s}, !.seen = @ \cup {target[s]}]
  /\ Reading

\* What was read is shown.
TellUnchecked ==
  /\ reader.at = "read" /\ reader.todo = {} /\ Reader("told") /\ Reading

\* A reader that found no lock file must find none at the end.
Tell ==
  /\ reader.at = "read" /\ reader.todo = {}
  /\ IF ~ reader.locked /\ lockfile THEN Refuse ELSE Reader("told")
  /\ Reading

Close == reader.at # "idle" /\ Refuse /\ Reading

-----------------------------------------------------------------------------
Publish(p) ==
  \/ Capture(p) \/ Lock(p) \/ OpenHold(p) \/ FillHold(p) \/ Stage(p) \/ Verify(p)
  \/ Displace(p) \/ Install(p) \/ Complete(p) \/ Release(p) \/ Stop(p)

Recover == Plan \/ Rollback \/ SetAside \/ Restore \/ Mark \/ ReleaseHold \/ OperatorStops

Status == Open \/ Check \/ ReadSlot \/ Tell \/ Close

Next == SourceChanges \/ (\E p \in Publishers : Publish(p)) \/ Recover \/ Status

Spec == Init /\ [][Next]_vars

-----------------------------------------------------------------------------
(* Properties.                                                             *)

Holding == {"hold", "fill", "stage", "verify", "displace", "install", "complete", "release", "close"}

Rolling == {"displace", "restore", "mark", "release", "close"}

TypeOK ==
  /\ source \in Versions /\ target \in Contents /\ attempt \in Attempts
  /\ publisher \in [Publishers -> [at : Holding \cup {"idle", "lock"}, slot : Slot, version : Versions]]
  /\ operator \in [at : Rolling \cup {"idle"}, slot : Slot, plan : {None} \cup (Contents \X Attempts)]
  /\ reader \in [at : {"idle", "check", "read", "told"}, locked : BOOLEAN, todo : SUBSET Active,
                 seen : SUBSET (Versions \cup {None})]
  /\ lockfile \in BOOLEAN /\ pending \in {"none", "empty", "attempt"}
  /\ owner \in Publishers \cup {"operator", None} /\ (owner # None => lockfile)
  /\ \A p \in Publishers : publisher[p].at \in Holding <=> owner = p
  /\ operator.at \in Rolling <=> owner = "operator"
  /\ reader.locked => owner = None
  /\ former \in Contents /\ copied \in Contents /\ offered \subseteq Versions

\* To everyone who respects the lock and the hold, all slots are one register:
\* it shows a whole verified version, changed in one step by the publisher's
\* release, or the version before the attempt, until and after a rollback.
base == former[CHOOSE s \in Active : TRUE]

Register == INSTANCE PairRegister WITH
  Pair <- Versions \cup {None},
  pair <- IF pending = "none" THEN target[CHOOSE s \in Active : TRUE] ELSE base,
  offered <- offered

ImplementsRegister == Register!Spec

\* A reader is never shown slots of two versions, also one that began before
\* the lock file was there.
ReaderSeesOne == reader.at = "told" => \A v, w \in reader.seen : v = w

\* Until the next attempt begins, no version is gone, whoever was interrupted
\* where: what a slot held before, also one under the run id, is in the slot or
\* kept as its predecessor; and what was copied for a slot, also for one that
\* held nothing before, is staged, in the slot, or was set aside.
NothingLost == \A s \in Slot :
  /\ former[s] # None => former[s] \in {target[s], attempt.prior[s]}
  /\ copied[s] # None => copied[s] \in {attempt.staged[s], target[s], attempt.displaced[s]}

\* Wherever publisher and operator were interrupted, again and again, the
\* operator's inspection admits what they left and a rollback can be planned.
HoldRecoverable == pending = "attempt" => Inspectable
=============================================================================
