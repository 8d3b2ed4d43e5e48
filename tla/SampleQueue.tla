---------------------------- MODULE SampleQueue ----------------------------
(***************************************************************************)
(* Diagnostic samples of a live run.  Clients of the session service put   *)
(* requests into a bounded directory under the service lock; the worker,   *)
(* which takes no lock, answers them; and an admission first moves the     *)
(* oldest answered requests into a verified history, copy by copy.         *)
(*                                                                         *)
(* A request id has up to four files: its identity, its pending request,   *)
(* its result, and a history directory of copies with a receipt.  A client *)
(* may die between any two of them, also in the middle of a copy.          *)
(***************************************************************************)
EXTENDS Naturals, Sequences, FiniteSets, SequencesExt

CONSTANTS
  Ids, Payloads,  \* request ids, and what they may ask for
  Views,          \* what a sample of the moving fields may show
  Clients,
  None,
  Torn,           \* a copy whose writer died
  QueueLimit,     \* pending requests (8 in the code)
  Window,         \* active identities (32)
  MaxRequests,    \* identities and histories of a run (4096)
  MaxDeaths       \* bound on deaths of clients and failed worker calls

Answers   == [payload : Payloads, view : Views]
Histories == [request : Payloads \cup {None, Torn}, result : Answers \cup {None, Torn},
              receipt : {None, Torn, "done"}]

ASSUME SampleConstants ==
  /\ QueueLimit \in Nat \ {0} /\ Window \in Nat \ {0}
  /\ MaxRequests \in Nat /\ MaxDeaths \in Nat
  /\ None \notin Ids \cup Clients \cup Payloads \cup Answers \cup Histories \cup {Torn, "done"}
  /\ Torn \notin Payloads \cup Answers \cup {"done"}

VARIABLES
  identity,   \* sample_ids: id -> payload, or None
  order,      \* the active identities by age
  pending,    \* sample_requests: id -> payload, or None
  result,     \* sample_results: id -> the answer, or None
  history,    \* sample_history: id -> copies and receipt, or None
  client, lock,
  serving,    \* the request whose answer the worker has just published
  ended,      \* a terminal state is published
  cut,        \* ids whose client died between identity and request
  deaths

files == <<identity, order, pending, result, history>>
vars  == <<files, client, lock, serving, ended, cut, deaths>>

NoCopies  == [request |-> None, result |-> None, receipt |-> None]
Idle  == [at |-> "idle", id |-> None, asks |-> None, todo |-> <<>>,
          path |-> "active", over |-> FALSE]

Init ==
  /\ identity = [i \in Ids |-> None] /\ order = <<>>
  /\ pending = [i \in Ids |-> None] /\ result = [i \in Ids |-> None]
  /\ history = [i \in Ids |-> None]
  /\ client = [c \in Clients |-> Idle] /\ lock = None
  /\ serving = None /\ ended = FALSE
  /\ cut = {} /\ deaths = 0

Fault == deaths < MaxDeaths /\ deaths' = deaths + 1

-----------------------------------------------------------------------------
(* The client: run_sample.                                                 *)

At(c, at) == client[c].at = at
Go(c, at) == client' = [client EXCEPT ![c].at = at]
Leave(c)  == client' = [client EXCEPT ![c] = Idle]
Has(f)    == {i \in Ids : f[i] # None}
Kept(i)   == history[i] # None /\ history[i].receipt = "done"
Quiet     == UNCHANGED <<serving, ended, cut, deaths>>

Ask(c, i, p) ==
  /\ At(c, "idle") /\ lock = None /\ lock' = c
  /\ client' = [client EXCEPT ![c].at = "admit", ![c].id = i, ![c].asks = p]
  /\ Quiet /\ UNCHANGED files

\* One request more than the limit is let in.
FullLate == Cardinality(Has(pending)) > QueueLimit

Full == Cardinality(Has(pending)) >= QueueLimit

\* An id that went into the history may be used again.
KnownActive(i) == identity[i] # None

\* An id is known by its history first, else by its active identity.
Known(i) == history[i] # None \/ identity[i] # None

\* The payload a known id stands for; None when its history does not verify.
Stands(i) ==
  IF history[i] = None THEN identity[i]
  ELSE IF Kept(i) THEN history[i].request ELSE None

\* A known id must ask for the same; a new one needs a live worker, room
\* among the requests of the run, and room in the queue.
Admit(c) ==
  LET i == client[c].id
  IN /\ At(c, "admit")
     /\ \/ /\ Known(i) /\ Stands(i) = client[c].asks
           /\ client' = [client EXCEPT ![c].at = "look",
                                       ![c].path = IF Kept(i) THEN "history" ELSE "active"]
           /\ lock' = None
        \/ /\ Known(i) /\ Stands(i) # client[c].asks
           /\ Leave(c) /\ lock' = None
        \/ /\ ~ Known(i)
           /\ IF \/ ended \/ Full
                 \/ Cardinality(Has(identity)) + Cardinality(Has(history)) >= MaxRequests
              THEN Leave(c) /\ lock' = None
              ELSE client' = [client EXCEPT ![c].at = "roll", ![c].todo = order] /\ UNCHANGED lock
     /\ Quiet /\ UNCHANGED files

Copies(i) == IF history[i] = None THEN NoCopies ELSE history[i]

\* Oldest first, until the window has room; a pending one stays, and one with
\* a receipt that does not verify holds the admission.
Roll(c) ==
  LET old == Head(client[c].todo)
  IN /\ At(c, "roll")
     /\ \/ /\ Len(order) < Window
           /\ Go(c, "claim") /\ UNCHANGED lock
        \/ /\ Len(order) >= Window
           /\ client[c].todo = <<>> \/ Copies(old).receipt = Torn
           /\ Leave(c) /\ lock' = None
        \/ /\ Len(order) >= Window /\ client[c].todo # <<>> /\ Copies(old).receipt # Torn
           /\ IF pending[old] # None
              THEN client' = [client EXCEPT ![c].todo = Tail(@)]
              ELSE Go(c, IF Kept(old) THEN "unlink request" ELSE "copy request")
           /\ UNCHANGED lock
     /\ Quiet /\ UNCHANGED files

\* retain: a copy is made exclusively; one that is there must be the same.
Retain(c, name, value, then) ==
  LET i == Head(client[c].todo)
  IN IF Copies(i)[name] \in {None, value}
     THEN /\ history' = [history EXCEPT ![i] = [Copies(i) EXCEPT ![name] = value]]
          /\ Go(c, then) /\ UNCHANGED lock
     ELSE Leave(c) /\ lock' = None /\ UNCHANGED history

CopyRequest(c) ==
  /\ At(c, "copy request")
  /\ Retain(c, "request", identity[Head(client[c].todo)], "copy result")
  /\ Quiet /\ UNCHANGED <<identity, order, pending, result>>

\* The request alone is kept.
CopyResultSkipped(c) ==
  /\ At(c, "copy result") /\ Go(c, "receipt")
  /\ Quiet /\ UNCHANGED <<files, lock>>

\* A request that never had an answer is kept without one.
CopyResult(c) ==
  /\ At(c, "copy result")
  /\ Retain(c, "result", result[Head(client[c].todo)], "receipt")
  /\ Quiet /\ UNCHANGED <<identity, order, pending, result>>

Receipt(c) ==
  LET i == Head(client[c].todo)
  IN /\ At(c, "receipt") /\ Go(c, "unlink request")
     /\ history' = [history EXCEPT ![i].receipt = "done"]
     /\ Quiet /\ UNCHANGED <<identity, order, pending, result, lock>>

UnlinkRequest(c) ==
  LET i == Head(client[c].todo)
  IN /\ At(c, "unlink request") /\ Go(c, "unlink result")
     /\ identity' = [identity EXCEPT ![i] = None]
     /\ \E n \in DOMAIN order : order[n] = i /\ order' = RemoveAt(order, n)
     /\ Quiet /\ UNCHANGED <<pending, result, history, lock>>

UnlinkResult(c) ==
  LET i == Head(client[c].todo)
  IN /\ At(c, "unlink result")
     /\ client' = [client EXCEPT ![c].at = "roll", ![c].todo = Tail(@)]
     /\ result' = [result EXCEPT ![i] = None]
     /\ Quiet /\ UNCHANGED <<identity, order, pending, history, lock>>

Claim(c) ==
  /\ At(c, "claim") /\ Go(c, "queue")
  /\ identity' = [identity EXCEPT ![client[c].id] = client[c].asks]
  /\ order' = Append(order, client[c].id)
  /\ Quiet /\ UNCHANGED <<pending, result, history, lock>>

Queue(c) ==
  /\ At(c, "queue") /\ Go(c, "look")
  /\ pending' = [pending EXCEPT ![client[c].id] = client[c].asks]
  /\ lock' = None
  /\ Quiet /\ UNCHANGED <<identity, order, result, history>>

\* Without the lock: the answer at the path chosen under it, then the state
\* of the run, then whether the request is still there.
Answer(c) ==
  LET i == client[c].id
  IN IF client[c].path = "active" THEN result[i] ELSE history[i].result

Look(c) ==
  /\ At(c, "look")
  /\ IF Answer(c) # None THEN Leave(c) ELSE Go(c, "inspect")
  /\ Quiet /\ UNCHANGED <<files, lock>>

Inspect(c) ==
  /\ At(c, "inspect")
  /\ client' = [client EXCEPT ![c].at = "tell", ![c].over = ended]
  /\ Quiet /\ UNCHANGED <<files, lock>>

Unavailable(c) == client[c].over \/ pending[client[c].id] = None

Tell(c) ==
  /\ At(c, "tell") /\ Leave(c)
  /\ Quiet /\ UNCHANGED <<files, lock>>

Writing == [request |-> "copy request", result |-> "copy result", receipt |-> "receipt"]

\* The kernel frees the lock; a copy may stay half-written.
ClientDies(c) ==
  /\ ~ At(c, "idle") /\ Fault /\ Leave(c)
  /\ lock' = IF lock = c THEN None ELSE lock
  /\ cut' = IF At(c, "queue") THEN cut \cup {client[c].id} ELSE cut
  /\ \/ UNCHANGED history
     \/ \E name \in {"request", "result", "receipt"} :
          LET i == Head(client[c].todo)
          IN /\ At(c, Writing[name])
             /\ name = "result" => result[i] # None
             /\ Copies(i)[name] = None
             /\ history' = [history EXCEPT ![i] = [Copies(i) EXCEPT ![name] = Torn]]
  /\ UNCHANGED <<identity, order, pending, result, serving, ended>>

-----------------------------------------------------------------------------
(* The worker: sample_requests, at each of its boundaries.                 *)

\* The request goes first.
ServeUnlinked(i) ==
  /\ ~ ended /\ serving = None /\ pending[i] # None
  /\ pending' = [pending EXCEPT ![i] = None]
  /\ \/ \E v \in Views : result' = [result EXCEPT ![i] = [payload |-> pending[i], view |-> v]]
        /\ UNCHANGED deaths
     \/ Fault /\ UNCHANGED result
  /\ UNCHANGED <<identity, order, history, client, lock, serving, ended, cut>>

\* The answer is renamed into its place, or could not be.
Serve(i) ==
  /\ ~ ended /\ serving = None /\ pending[i] # None
  /\ \/ \E v \in Views : /\ result' = [result EXCEPT ![i] = [payload |-> pending[i], view |-> v]]
                         /\ serving' = i /\ UNCHANGED deaths
     \/ Fault /\ UNCHANGED <<result, serving>>
  /\ UNCHANGED <<identity, order, pending, history, client, lock, ended, cut>>

\* The request is unlinked; a failure leaves it to be served again.
Unqueue ==
  /\ serving # None /\ serving' = None
  /\ \/ pending' = [pending EXCEPT ![serving] = None] /\ UNCHANGED deaths
     \/ Fault /\ UNCHANGED pending
  /\ UNCHANGED <<identity, order, result, history, client, lock, ended, cut>>

\* The worker finishes, or its death is found and published as failed.
WorkerEnds ==
  /\ ~ ended /\ ended' = TRUE /\ serving' = None
  /\ UNCHANGED <<files, client, lock, cut, deaths>>

-----------------------------------------------------------------------------
ClientNext(c) ==
  \/ \E i \in Ids, p \in Payloads : Ask(c, i, p)
  \/ Admit(c) \/ Roll(c) \/ CopyRequest(c) \/ CopyResult(c) \/ Receipt(c)
  \/ UnlinkRequest(c) \/ UnlinkResult(c) \/ Claim(c) \/ Queue(c)
  \/ Look(c) \/ Inspect(c) \/ Tell(c) \/ ClientDies(c)

WorkerNext == (\E i \in Ids : Serve(i)) \/ Unqueue \/ WorkerEnds

Next == (\E c \in Clients : ClientNext(c)) \/ WorkerNext

Spec == Init /\ [][Next]_vars

-----------------------------------------------------------------------------
(* Properties.                                                             *)

TypeOK ==
  /\ identity \in [Ids -> Payloads \cup {None}] /\ pending \in [Ids -> Payloads \cup {None}]
  /\ order \in Seq(Ids) /\ IsInjective(order) /\ ToSet(order) = Has(identity)
  /\ result \in [Ids -> Answers \cup {None}] /\ history \in [Ids -> Histories \cup {None}]
  /\ lock \in Clients \cup {None} /\ serving \in Ids \cup {None}
  /\ ended \in BOOLEAN /\ cut \subseteq Ids /\ deaths \in 0 .. MaxDeaths

\* However clients and worker interleave and die, the queue, the window and
\* the requests of the run stay within their limits (run_sample, admit_new).
Bounds ==
  /\ Cardinality(Has(pending)) <= QueueLimit
  /\ Cardinality(Has(identity)) <= Window
  /\ Cardinality(Has(identity)) + Cardinality(Has(history)) <= MaxRequests

\* Every file of a request id, active or copied, is about one payload: an id
\* is never answered for what another client asked under it, nor used again
\* for something else after it went into the history.  That is what the code
\* does and docs/session_sample_retention.md:17-18 says; docs/agent_session.md:313
\* still says "An evicted ID can be reused for a fresh observation".
OneRequest == \A i \in Ids :
  LET said == {identity[i], pending[i]}
                \cup (IF result[i] = None THEN {} ELSE {result[i].payload})
                \cup (IF history[i] = None THEN {}
                      ELSE {history[i].request}
                             \cup (IF history[i].result \in Answers
                                   THEN {history[i].result.payload} ELSE {}))
  IN Cardinality(said \ {None, Torn}) <= 1

\* A claimed id that is neither queued nor answered is one whose client is
\* about to queue it, or died before it could: no other step loses a request.
\* No request expires (service.py:814, docs/agent_session.md:451-452), although
\* docs/agent_session.md:312 still says that they do after 30 seconds.
LostOnlyByDeath == \A i \in Has(identity) \cup Has(history) :
  \/ pending[i] # None \/ result[i] # None
  \/ history[i] # None /\ history[i].result # None
  \/ i \in cut \/ \E c \in Clients : At(c, "queue") /\ client[c].id = i

Request(i) == IF Kept(i) THEN history[i].request ELSE identity[i]
Sample(i)  == IF Kept(i) THEN history[i].result ELSE result[i]

\* The request of a known id, and its sample once nothing is pending, never
\* change or go away again: not while they are moved into the history, nor
\* when a client dies on the way and another one takes it up.  So it is more
\* than the 32 latest pairs that are kept (docs/agent_session.md:311), and all of
\* them up to the limit of the run (docs/session_sample_retention.md:15, 22).
Preserved == [][\A i \in Ids :
  /\ Request(i) # None => Request(i)' = Request(i)
  /\ pending[i] = None /\ Sample(i) # None => Sample(i)' = Sample(i)]_vars

\* What asking again, for the same, finds.  Nothing, though the sample is
\* there, while an id is half retired: its copies are not verified.
Found(i) == IF Stands(i) = None THEN None ELSE Sample(i)
HalfRetired(i) == history[i] # None /\ ~ Kept(i)

\* A client of a live run is told "unavailable" only for a request that was
\* never queued, or that was answered after it had looked: asking again finds
\* the sample.  But if the sample is being retired just then, or its retirement
\* was cut short by a death, asking is refused; the sample is still there as the
\* active one, to be found if the retirement is taken up and done, which a copy
\* left torn prevents.
UnavailableIsStale == [][\A c \in Clients :
  LET i == client[c].id
  IN Tell(c) /\ Unavailable(c) /\ ~ client[c].over
       => i \in cut \/ Found(i) # None \/ (HalfRetired(i) /\ result[i] # None)]_vars
=============================================================================
