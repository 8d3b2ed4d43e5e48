------------------------- MODULE SampleQueueProofs -------------------------
(***************************************************************************)
(* Proofs about SampleQueue, for any number of request ids, payloads,      *)
(* views and clients and any limits: what is asked under an id stays one   *)
(* request, and neither it nor its sample is lost on the way into the      *)
(* history, whoever dies in between.                                       *)
(***************************************************************************)
EXTENDS SampleQueue, FiniteSetTheorems, FunctionTheorems, SequenceTheorems, TLAPS

-----------------------------------------------------------------------------
(* The inductive invariant.                                                *)

Copying   == {"copy request", "copy result", "receipt"}
Unlinking == {"unlink request", "unlink result"}
Admitting == {"roll", "claim"} \cup Copying \cup Unlinking
Locked    == {"admit", "queue"} \cup Admitting
Waiting   == {"look", "inspect", "tell"}

Sessions == [at : {"idle"} \cup Locked \cup Waiting, id : Ids \cup {None},
             asks : Payloads \cup {None}, todo : Seq(Ids),
             path : {"active", "history"}, over : BOOLEAN]

ClientTyped ==
  /\ client \in [Clients -> Sessions]
  /\ \A c \in Clients :
       /\ At(c, "idle") \/ (client[c].id \in Ids /\ client[c].asks \in Payloads)
       /\ lock = c <=> client[c].at \in Locked

\* Every file of an id is about p.
Says(i, p) ==
  /\ {identity[i], pending[i]} \subseteq {None, p}
  /\ result[i] # None => result[i].payload = p
  /\ history[i] # None => /\ history[i].request \in {None, Torn, p}
                          /\ history[i].result \in Answers => history[i].result.payload = p

\* What the files of an id say about each other.
FilesAgree(i) ==
  /\ \E p : Says(i, p)
  /\ pending[i] # None => identity[i] # None
  /\ result[i] # None => Known(i)
  /\ history[i] # None /\ ~ Kept(i) => /\ identity[i] # None /\ pending[i] = None
                                       /\ history[i].result # None => result[i] # None
  /\ Kept(i) => /\ pending[i] = None /\ history[i].request \in Payloads
                /\ result[i] \in {None, history[i].result}
                /\ identity[i] \in {None, history[i].request}
  /\ serving = i => pending[i] # None /\ result[i] # None

Queueing(i) == \E c \in Clients : At(c, "queue") /\ client[c].id = i

Accounted(i) ==
  Known(i) => \/ pending[i] # None \/ result[i] # None
              \/ history[i] # None /\ history[i].result # None
              \/ i \in cut \/ Queueing(i)

\* The ids that are still to be retired are active, each of them once.
Agenda(s) ==
  /\ \A n \in 1 .. Len(s) : identity[s[n]] # None
  /\ \A m, n \in 1 .. Len(s) : s[m] = s[n] => m = n

\* What a client knows of the request it retires.
Retiring(c) ==
  LET h == Head(client[c].todo)
  IN /\ client[c].at \in Copying \cup Unlinking => client[c].todo # <<>>
     /\ client[c].at \in Copying \cup {"unlink request"} => pending[h] = None
     /\ client[c].at \in Copying => ~ Kept(h)
     /\ client[c].at \in {"copy result", "receipt"} =>
          history[h] # None /\ history[h].request = identity[h]
     /\ At(c, "receipt") => history[h].result = result[h]
     /\ client[c].at \in Unlinking => Kept(h)
     /\ client[c].at \in {"roll"} \cup Copying \cup {"unlink request"} => Agenda(client[c].todo)
     /\ At(c, "unlink result") => Agenda(Tail(client[c].todo))

\* What a client knows of its own request.
Knows(c) ==
  LET i == client[c].id
  IN /\ client[c].at \in Admitting => ~ Known(i)
     /\ At(c, "queue") => identity[i] = client[c].asks /\ history[i] = None
     /\ client[c].at \in Waiting => Known(i) /\ ~ Queueing(i)

\* What a client knows of the room that is left.
Used == Cardinality(Has(identity)) + Cardinality(Has(history))
Room(c) ==
  /\ client[c].at \in Admitting \cup {"queue"} => Cardinality(Has(pending)) < QueueLimit
  /\ At(c, "claim") => Len(order) < Window
  /\ client[c].at \in {"roll", "claim", "copy request", "unlink result"} => Used < MaxRequests

Counted == Bounds /\ IsFiniteSet(Has(history)) /\ \A c \in Clients : Room(c)

IInv == /\ TypeOK /\ ClientTyped
        /\ \A i \in Ids : FilesAgree(i) /\ Accounted(i)
        /\ \A c \in Clients : Knows(c) /\ Retiring(c)
-----------------------------------------------------------------------------
(* Sequences without repetition.                                           *)

LEMMA RemoveAtKeeps ==
  ASSUME NEW S, NEW s \in Seq(S), NEW n \in DOMAIN s, IsInjective(s)
  PROVE  /\ RemoveAt(s, n) \in Seq(S) /\ IsInjective(RemoveAt(s, n))
         /\ ToSet(RemoveAt(s, n)) = ToSet(s) \ {s[n]}
         /\ Len(RemoveAt(s, n)) = Len(s) - 1
<1> DEFINE t == RemoveAt(s, n)
           a == SubSeq(s, 1, n - 1)
           b == SubSeq(s, n + 1, Len(s))
<1>1. n \in 1 .. Len(s) /\ Len(s) \in Nat
  OBVIOUS
<1>2. a \in Seq(S) /\ Len(a) = n - 1 /\ \A m \in 1 .. n - 1 : a[m] = s[m]
  BY <1>1, SubSeqProperties
<1>3. b \in Seq(S) /\ Len(b) = Len(s) - n /\ \A m \in 1 .. Len(s) - n : b[m] = s[n + m]
  BY <1>1, SubSeqProperties
<1>4. t = a \o b
  BY DEF RemoveAt
<1> HIDE DEF a, b, t
<1>5. /\ t \in Seq(S) /\ Len(t) = Len(s) - 1
      /\ \A m \in 1 .. Len(t) : t[m] = s[IF m < n THEN m ELSE m + 1]
  <2>1. t \in Seq(S) /\ Len(t) = Len(a) + Len(b)
    BY <1>2, <1>3, <1>4, ConcatProperties
  <2>2. \A m \in 1 .. Len(a) + Len(b) : t[m] = IF m <= Len(a) THEN a[m] ELSE b[m - Len(a)]
    BY <1>2, <1>3, <1>4, ConcatProperties
  <2>3. Len(t) = Len(s) - 1
    BY <1>1, <1>2, <1>3, <2>1
  <2>4. ASSUME NEW m \in 1 .. Len(t) PROVE t[m] = s[IF m < n THEN m ELSE m + 1]
    <3>1. CASE m < n
      <4>1. m \in 1 .. Len(a) + Len(b) /\ m <= Len(a) /\ m \in 1 .. n - 1
        BY <1>1, <1>2, <1>3, <2>3, <3>1
      <4>2. t[m] = a[m] /\ a[m] = s[m]
        BY <1>2, <2>2, <4>1
      <4> QED BY <3>1, <4>2
    <3>2. CASE m >= n
      <4>1. m \in 1 .. Len(a) + Len(b) /\ ~ (m <= Len(a)) /\ m - Len(a) \in 1 .. Len(s) - n
        BY <1>1, <1>2, <1>3, <2>3, <3>2
      <4>2. t[m] = b[m - Len(a)]
        BY <2>2, <4>1
      <4>3. n + (m - Len(a)) = m + 1 /\ ~ (m < n)
        BY <1>1, <1>2, <2>3, <3>2
      <4>4. b[m - Len(a)] = s[n + (m - Len(a))]
        BY <1>3, <4>1
      <4> QED BY <4>2, <4>3, <4>4
    <3> QED BY <1>1, <2>3, <3>1, <3>2
  <2> QED BY <2>1, <2>3, <2>4
<1>6. IsInjective(t)
  <2>1. DOMAIN t = 1 .. Len(t) /\ DOMAIN s = 1 .. Len(s)
    BY <1>5
  <2>2. ASSUME NEW k \in 1 .. Len(t), NEW m \in 1 .. Len(t), t[k] = t[m] PROVE k = m
    <3> DEFINE k1 == IF k < n THEN k ELSE k + 1
               m1 == IF m < n THEN m ELSE m + 1
    <3>1. k1 \in 1 .. Len(s) /\ m1 \in 1 .. Len(s) /\ s[k1] = s[m1]
      BY <1>1, <1>5, <2>2
    <3>2. k1 = m1
      BY <2>1, <3>1 DEF IsInjective
    <3> QED BY <1>1, <1>5, <3>2
  <2> QED BY <2>1, <2>2 DEF IsInjective
<1>7. \A m \in 1 .. Len(s) : m # n => \E k \in 1 .. Len(t) : t[k] = s[m]
  <2> SUFFICES ASSUME NEW m \in 1 .. Len(s), m # n PROVE \E k \in 1 .. Len(t) : t[k] = s[m]
    OBVIOUS
  <2>1. CASE m < n
    <3>1. m \in 1 .. Len(t) /\ t[m] = s[m]
      BY <1>1, <1>5, <2>1
    <3> QED BY <3>1
  <2>2. CASE m > n
    <3>1. m - 1 \in 1 .. Len(t) /\ t[m - 1] = s[m]
      BY <1>1, <1>5, <2>2
    <3> QED BY <3>1
  <2> QED BY <1>1, <2>1, <2>2
<1>8. ToSet(t) = ToSet(s) \ {s[n]}
  <2>1. DOMAIN t = 1 .. Len(t) /\ DOMAIN s = 1 .. Len(s)
    BY <1>5
  <2>2. ASSUME NEW k \in 1 .. Len(t) PROVE t[k] \in ToSet(s) \ {s[n]}
    <3> DEFINE k1 == IF k < n THEN k ELSE k + 1
    <3>1. k1 \in 1 .. Len(s) /\ k1 # n /\ t[k] = s[k1]
      BY <1>1, <1>5
    <3> HIDE DEF k1
    <3> QED BY <1>1, <2>1, <3>1 DEF ToSet, IsInjective
  <2>3. ASSUME NEW x \in ToSet(s), x # s[n] PROVE x \in ToSet(t)
    <3>1. PICK m \in 1 .. Len(s) : x = s[m]
      BY <2>1 DEF ToSet
    <3>2. PICK k \in 1 .. Len(t) : t[k] = s[m]
      BY <1>7, <2>3, <3>1
    <3> QED BY <2>1, <3>1, <3>2 DEF ToSet
  <2>4. ToSet(t) \subseteq ToSet(s) \ {s[n]}
    BY <2>1, <2>2 DEF ToSet
  <2> QED BY <2>3, <2>4
<1> QED BY <1>5, <1>6, <1>8 DEF t

LEMMA AppendKeeps ==
  ASSUME NEW S, NEW s \in Seq(S), NEW e \in S, IsInjective(s), e \notin ToSet(s)
  PROVE  /\ Append(s, e) \in Seq(S) /\ IsInjective(Append(s, e))
         /\ ToSet(Append(s, e)) = ToSet(s) \cup {e}
         /\ Len(Append(s, e)) = Len(s) + 1
<1>1. /\ Append(s, e) \in Seq(S) /\ Len(Append(s, e)) = Len(s) + 1
      /\ \A m \in 1 .. Len(s) : Append(s, e)[m] = s[m]
      /\ Append(s, e)[Len(s) + 1] = e /\ Len(s) \in Nat
  BY AppendProperties
<1>2. IsInjective(Append(s, e))
  BY <1>1 DEF IsInjective, ToSet
<1>3. ToSet(Append(s, e)) = ToSet(s) \cup {e}
  BY <1>1 DEF ToSet
<1> QED BY <1>1, <1>2, <1>3

\* What was to be retired besides the head is still active without it.
LEMMA TailAgenda ==
  ASSUME NEW S, NEW s \in Seq(S), s # <<>>
  PROVE  /\ Head(s) \in S /\ Tail(s) \in Seq(S) /\ Head(s) = s[1]
         /\ 1 \in 1 .. Len(s)
         /\ Len(Tail(s)) = Len(s) - 1
         /\ \A n \in 1 .. Len(Tail(s)) : n + 1 \in 1 .. Len(s) /\ Tail(s)[n] = s[n + 1]
<1>1. Len(s) \in Nat /\ Len(s) # 0
  BY EmptySeq
<1> QED BY <1>1, HeadTailProperties

-----------------------------------------------------------------------------
(* Frames.                                                                 *)

\* A client moves to session s.
LEMMA Moves ==
  ASSUME ClientTyped, NEW c \in Clients, NEW s \in Sessions, client' = [client EXCEPT ![c] = s],
         s.at = "idle" \/ (s.id \in Ids /\ s.asks \in Payloads),
         lock' = c <=> s.at \in Locked,
         \A d \in Clients \ {c} : lock' = d <=> lock = d
  PROVE  /\ ClientTyped' /\ client'[c] = s
         /\ \A d \in Clients \ {c} : client'[d] = client[d]
<1>1. /\ client' \in [Clients -> Sessions] /\ client'[c] = s
      /\ \A d \in Clients \ {c} : client'[d] = client[d]
  BY DEF ClientTyped
<1>2. ASSUME NEW d \in Clients
      PROVE  /\ At(d, "idle")' \/ (client'[d].id \in Ids /\ client'[d].asks \in Payloads)
             /\ lock' = d <=> client'[d].at \in Locked
  BY <1>1 DEF ClientTyped, At
<1> QED BY <1>1, <1>2 DEF ClientTyped

\* Whoever has the lock is alone at the files; the others only wait.
LEMMA OthersWait ==
  ASSUME ClientTyped, SampleConstants, NEW c \in Clients, client[c].at \in Locked,
         NEW d \in Clients, d # c
  PROVE  client[d].at \notin Locked
BY DEF ClientTyped

\* A step of client c: what the others know is not disturbed.
LEMMA ClientStepKeeps ==
  ASSUME IInv, SampleConstants, TypeOK', ClientTyped', NEW c \in Clients,
         \A d \in Clients \ {c} : client'[d] = client[d],
         client[c].at \in Locked \/ UNCHANGED files,
         \A i \in Ids : Known(i) => Known(i)',
         At(c, "queue")' => ~ Known(client'[c].id),
         \A i \in Ids : FilesAgree(i)' /\ Accounted(i)',
         Knows(c)', Retiring(c)'
  PROVE  IInv'
<1>1. ASSUME NEW d \in Clients, d # c PROVE Knows(d)' /\ Retiring(d)'
  <2>1. client'[d] = client[d] /\ Knows(d) /\ Retiring(d)
    BY <1>1 DEF IInv
  <2>2. client[d].at \in Waiting => client[d].id \in Ids
    BY DEF IInv, ClientTyped, Waiting, At
  <2>3. ASSUME client[d].at \in Waiting
        PROVE  \A i \in Ids : i = client[d].id => Known(i)' /\ ~ Queueing(i)'
    <3> SUFFICES ASSUME NEW i \in Ids, i = client[d].id PROVE Known(i)' /\ ~ Queueing(i)'
      OBVIOUS
    <3>1. Known(i) /\ ~ Queueing(i)
      BY <2>1, <2>3 DEF Knows
    <3>2. \A e \in Clients : ~ (At(e, "queue")' /\ client'[e].id = i)
      BY <3>1 DEF Queueing, At
    <3> QED BY <3>1, <3>2 DEF Queueing
  <2>4. client'[d].at \in Waiting => Known(client[d].id)' /\ ~ Queueing(client[d].id)'
    <3>1. \A i \in Ids : i = client'[d].id => Known(client[d].id)' = Known(i)'
      BY DEF Known
    <3>2. \A i \in Ids : i = client'[d].id => Queueing(client[d].id)' = Queueing(i)'
      BY DEF Queueing
    <3> QED BY <2>1, <2>2, <2>3, <3>1, <3>2
  <2>5. CASE client[c].at \in Locked
    <3>1. client[d].at \notin Locked
      BY <1>1, <2>5, OthersWait DEF IInv
    <3>2. Retiring(d)'
      BY <2>1, <3>1 DEF Retiring, At, Locked, Admitting, Copying, Unlinking
    <3>3. Knows(d)'
      BY <2>1, <2>3, <2>4, <3>1 DEF Knows, At, Locked, Admitting
    <3> QED BY <3>2, <3>3
  <2>6. CASE UNCHANGED files
    <3>1. UNCHANGED <<identity, order, pending, result, history>>
      BY <2>6 DEF files
    <3>2. \A s : Agenda(s)' = Agenda(s)
      BY <3>1 DEF Agenda
    <3>3. \A i : Kept(i)' = Kept(i) /\ Known(i)' = Known(i)
      BY <3>1 DEF Kept, Known
    <3>4. Retiring(d)'
      BY <2>1, <3>1, <3>2, <3>3 DEF Retiring, At
    <3>5. Knows(d)'
      BY <2>1, <2>4, <3>1, <3>3 DEF Knows, At
    <3> QED BY <3>4, <3>5
  <2> QED BY <2>5, <2>6
<1> QED BY <1>1 DEF IInv

\* The files of i are as they were, and whoever was about to queue it still is.
LEMMA FilesSame ==
  ASSUME NEW i \in Ids, FilesAgree(i), Accounted(i),
         identity'[i] = identity[i], pending'[i] = pending[i], result'[i] = result[i],
         history'[i] = history[i], serving' = serving, cut \subseteq cut',
         Queueing(i) => Queueing(i)'
  PROVE  FilesAgree(i)' /\ Accounted(i)'
<1>1. FilesAgree(i)'
  BY DEF FilesAgree, Says, Kept, Known
<1>2. Accounted(i)'
  BY DEF Accounted, Known
<1> QED BY <1>1, <1>2

\* A step of client c that leaves the files alone, before or after queueing.
LEMMA PrivateStepKeeps ==
  ASSUME IInv, SampleConstants, NEW c \in Clients, UNCHANGED <<files, serving, ended, cut, deaths>>,
         NEW s \in Sessions, client' = [client EXCEPT ![c] = s],
         s.at = "idle" \/ (s.id \in Ids /\ s.asks \in Payloads),
         lock' = c <=> s.at \in Locked, lock' \in Clients \cup {None},
         \A d \in Clients \ {c} : lock' = d <=> lock = d,
         ~ At(c, "queue"), s.at # "queue", Knows(c)', Retiring(c)'
  PROVE  IInv'
<1>1. /\ ClientTyped' /\ client'[c] = s
      /\ \A d \in Clients \ {c} : client'[d] = client[d]
  BY Moves DEF IInv
<1>2. UNCHANGED <<identity, order, pending, result, history>>
  BY DEF files
<1>3. TypeOK'
  BY <1>2 DEF IInv, TypeOK, Has
<1>4. ASSUME NEW i \in Ids PROVE FilesAgree(i)' /\ Accounted(i)'
  <2>1. Queueing(i) => Queueing(i)'
    BY <1>1 DEF Queueing, At
  <2> QED BY <1>2, <2>1, FilesSame DEF IInv
<1>5. \A i \in Ids : Known(i) => Known(i)'
  BY <1>2 DEF Known
<1>6. At(c, "queue")' => ~ Known(client'[c].id)
  BY <1>1 DEF At
<1> QED BY <1>1, <1>3, <1>4, <1>5, <1>6, ClientStepKeeps

\* A client that leaves, or waits, retires nothing.
LEMMA Outside ==
  ASSUME NEW c \in Clients, client'[c].at \in {"idle", "admit"} \cup Waiting
  PROVE  /\ Retiring(c)'
         /\ client'[c].at \notin Waiting => Knows(c)'
         /\ Known(client[c].id)' /\ ~ Queueing(client[c].id)' => Knows(c)'
<1>1. client'[c].at \notin Admitting \cup {"queue"}
  BY DEF Admitting, Copying, Unlinking, Waiting
<1>2. Retiring(c)'
  BY <1>1 DEF Retiring, At, Admitting, Copying, Unlinking
<1> QED BY <1>1, <1>2 DEF Knows, At

LEMMA IdleSession == Idle \in Sessions /\ Idle.at = "idle"
<1>1. <<>> \in Seq(Ids)
  OBVIOUS
<1> QED BY <1>1 DEF Idle, Sessions

\* A client leaves without the lock, or gives it back.
LEMMA LeaveKeeps ==
  ASSUME IInv, SampleConstants, NEW c \in Clients, Leave(c), ~ At(c, "queue"),
         UNCHANGED <<files, serving, ended, cut, deaths>>,
         lock' = IF client[c].at \in Locked THEN None ELSE lock
  PROVE  IInv'
<1>1. PICK s \in Sessions : s = Idle
  BY IdleSession
<1>2. client' = [client EXCEPT ![c] = s] /\ s.at = "idle"
  BY <1>1, IdleSession DEF Leave
<1>3. client'[c] = s
  BY <1>2 DEF IInv, ClientTyped
<1>4. /\ lock' \in Clients \cup {None} /\ lock' # c
      /\ \A d \in Clients \ {c} : lock' = d <=> lock = d
  BY DEF SampleConstants, IInv, TypeOK, ClientTyped
<1>5. s.at \notin Locked
  BY <1>2 DEF Locked, Admitting, Copying, Unlinking
<1>6. Retiring(c)' /\ Knows(c)'
  BY <1>2, <1>3, Outside DEF Waiting
<1> QED BY <1>2, <1>4, <1>5, <1>6, PrivateStepKeeps

-----------------------------------------------------------------------------
(* The client, where it touches no file.                                   *)

LEMMA SessionMoved ==
  ASSUME ClientTyped, NEW c \in Clients, NEW s, client' = [client EXCEPT ![c] = s]
  PROVE  client'[c] = s
BY DEF ClientTyped

LEMMA AskKeeps ==
  ASSUME IInv, SampleConstants, NEW c \in Clients, NEW i \in Ids, NEW p \in Payloads, Ask(c, i, p)
  PROVE  IInv'
<1>1. client[c] \in Sessions
  BY DEF IInv, ClientTyped
<1>2. PICK s \in Sessions : s = [client[c] EXCEPT !.at = "admit", !.id = i, !.asks = p]
  BY <1>1 DEF Sessions, Locked
<1>3. client' = [client EXCEPT ![c] = s] /\ s.at = "admit" /\ s.id = i /\ s.asks = p
  <2>1. client \in [Clients -> Sessions]
    BY DEF IInv, ClientTyped
  <2>2. client' = [client EXCEPT ![c] = [client[c] EXCEPT !.at = "admit", !.id = i, !.asks = p]]
    BY <2>1 DEF Ask
  <2> QED BY <1>1, <1>2, <2>2 DEF Sessions
<1>4. client'[c].at = "admit"
  BY <1>3, SessionMoved DEF IInv
<1>5. Retiring(c)' /\ Knows(c)'
  BY <1>4, Outside DEF Waiting
<1>6. /\ lock' = c /\ \A d \in Clients : lock # d
      /\ UNCHANGED <<files, serving, ended, cut, deaths>> /\ ~ At(c, "queue")
  BY DEF Ask, Quiet, At, SampleConstants
<1> QED BY <1>3, <1>5, <1>6, PrivateStepKeeps DEF Locked

\* A client goes on waiting for its own request.
LEMMA WaitKeeps ==
  ASSUME IInv, SampleConstants, NEW c \in Clients, client[c].at \in Waiting,
         NEW s \in Sessions, client' = [client EXCEPT ![c] = s], s.at \in Waiting,
         s.id = client[c].id, s.asks = client[c].asks,
         UNCHANGED <<files, lock, serving, ended, cut, deaths>>
  PROVE  IInv'
<1>1. client'[c] = s /\ \A d \in Clients \ {c} : client'[d] = client[d]
  BY DEF IInv, ClientTyped
<1>2. Known(client[c].id) /\ ~ Queueing(client[c].id)
  BY DEF IInv, Knows
<1>3. client[c].at \notin Locked /\ s.at \notin Locked \cup {"queue", "idle"} /\ ~ At(c, "queue")
  BY DEF Locked, Admitting, Copying, Unlinking, Waiting, At
<1>4. client[c].id \in Ids /\ client[c].asks \in Payloads /\ lock # c /\ lock \in Clients \cup {None}
  BY <1>3 DEF IInv, TypeOK, ClientTyped, At, Waiting
<1>5. Known(client[c].id)' /\ ~ Queueing(client[c].id)'
  <2>1. client'[c].id = client[c].id
    BY <1>1
  <2>2. Known(client[c].id)'
    BY <1>2, <2>1 DEF Known, files
  <2>3. ~ Queueing(client[c].id)'
    BY <1>1, <1>2, <1>3, <2>1 DEF Queueing, At
  <2> QED BY <2>2, <2>3
<1>6. Knows(c)' /\ Retiring(c)'
  BY <1>1, <1>5, Outside
<1> QED BY <1>3, <1>4, <1>6, PrivateStepKeeps

LEMMA LookKeeps == ASSUME IInv, SampleConstants, NEW c \in Clients, Look(c) PROVE IInv'
<1>1. client \in [Clients -> Sessions] /\ client[c] \in Sessions /\ client[c].at = "look"
  BY DEF IInv, ClientTyped, Look, At
<1>2. client[c].at \notin Locked
  BY <1>1 DEF Locked, Admitting, Copying, Unlinking
<1>3. CASE Leave(c)
  BY <1>1, <1>2, <1>3, LeaveKeeps DEF Look, Quiet, At
<1>4. CASE Go(c, "inspect")
  <2>1. PICK s \in Sessions : s = [client[c] EXCEPT !.at = "inspect"]
    BY <1>1 DEF Sessions, Waiting
  <2>2. client' = [client EXCEPT ![c] = s]
    BY <1>1, <1>4, <2>1 DEF Go
  <2>3. s.at = "inspect" /\ s.id = client[c].id /\ s.asks = client[c].asks
    BY <1>1, <2>1 DEF Sessions
  <2> QED BY <1>1, <2>2, <2>3, WaitKeeps DEF Look, Quiet, Waiting
<1> QED BY <1>3, <1>4 DEF Look

LEMMA InspectKeeps == ASSUME IInv, SampleConstants, NEW c \in Clients, Inspect(c) PROVE IInv'
<1>1. client \in [Clients -> Sessions] /\ client[c] \in Sessions /\ client[c].at = "inspect"
  BY DEF IInv, ClientTyped, Inspect, At
<1>2. ended \in BOOLEAN
  BY DEF IInv, TypeOK
<1>3. PICK s \in Sessions : s = [client[c] EXCEPT !.at = "tell", !.over = ended]
  BY <1>1, <1>2 DEF Sessions, Waiting
<1>4. client' = [client EXCEPT ![c] = s]
  BY <1>1, <1>3 DEF Inspect
<1>5. s.at = "tell" /\ s.id = client[c].id /\ s.asks = client[c].asks
  BY <1>1, <1>3 DEF Sessions
<1> QED BY <1>1, <1>4, <1>5, WaitKeeps DEF Inspect, Quiet, Waiting

LEMMA TellKeeps == ASSUME IInv, SampleConstants, NEW c \in Clients, Tell(c) PROVE IInv'
<1>1. client[c].at \notin Locked /\ ~ At(c, "queue")
  BY DEF Tell, At, Locked, Admitting, Copying, Unlinking
<1> QED BY <1>1, LeaveKeeps DEF Tell, Quiet

\* All that are active, oldest first.
LEMMA WholeAgenda == TypeOK => Agenda(order)
<1> SUFFICES ASSUME TypeOK PROVE Agenda(order)
  OBVIOUS
<1>1. DOMAIN order = 1 .. Len(order) /\ IsInjective(order) /\ ToSet(order) = Has(identity)
  BY DEF TypeOK
<1>2. \A n \in 1 .. Len(order) : order[n] \in Has(identity)
  BY <1>1 DEF ToSet
<1>3. \A n \in 1 .. Len(order) : identity[order[n]] # None
  BY <1>2 DEF Has
<1> QED BY <1>1, <1>3 DEF Agenda, IsInjective

LEMMA AdmitKeeps == ASSUME IInv, SampleConstants, NEW c \in Clients, Admit(c) PROVE IInv'
<1> DEFINE i == client[c].id
<1>1. client \in [Clients -> Sessions] /\ client[c] \in Sessions /\ client[c].at = "admit"
  BY DEF IInv, ClientTyped, Admit, At
<1>2. /\ i \in Ids /\ client[c].asks \in Payloads /\ client[c].at \in Locked /\ ~ At(c, "queue")
      /\ lock = c /\ c # None /\ \A d \in Clients \ {c} : lock # d
  BY <1>1 DEF IInv, ClientTyped, At, Locked, SampleConstants
<1>3. UNCHANGED <<files, serving, ended, cut, deaths>>
  BY DEF Admit, Quiet
<1>4. CASE Leave(c) /\ lock' = None
  BY <1>2, <1>3, <1>4, LeaveKeeps
<1>5. ASSUME Known(i), NEW q \in {"active", "history"}, lock' = None,
             client' = [client EXCEPT ![c].at = "look", ![c].path = q]
      PROVE  IInv'
  <2>1. PICK s \in Sessions : s = [client[c] EXCEPT !.at = "look", !.path = q]
    BY <1>1 DEF Sessions, Waiting
  <2>2. client' = [client EXCEPT ![c] = s]
    BY <1>1, <1>5, <2>1
  <2>3. s.at = "look" /\ s.id = client[c].id /\ s.asks = client[c].asks
    BY <1>1, <2>1 DEF Sessions
  <2>4. client'[c] = s /\ \A d \in Clients \ {c} : client'[d] = client[d]
    BY <1>1, <2>2
  <2>5. \A d \in Clients \ {c} : client[d].at # "queue"
    BY <1>2, OthersWait DEF IInv, Locked
  <2>6. Known(client[c].id)' /\ ~ Queueing(client[c].id)'
    BY <1>3, <1>5, <2>3, <2>4, <2>5 DEF Known, Queueing, At, files
  <2>7. Knows(c)' /\ Retiring(c)'
    BY <2>3, <2>4, <2>6, Outside DEF Waiting
  <2>8. s.at \notin Locked
    BY <2>3 DEF Locked, Admitting, Copying, Unlinking
  <2> QED BY <1>2, <1>3, <1>5, <2>2, <2>3, <2>7, <2>8, PrivateStepKeeps
<1>6. ASSUME ~ Known(i), UNCHANGED lock,
             client' = [client EXCEPT ![c].at = "roll", ![c].todo = order]
      PROVE  IInv'
  <2>1. order \in Seq(Ids) /\ Agenda(order)
    BY WholeAgenda DEF IInv, TypeOK
  <2>2. PICK s \in Sessions : s = [client[c] EXCEPT !.at = "roll", !.todo = order]
    BY <1>1, <2>1 DEF Sessions, Locked, Admitting
  <2>3. client' = [client EXCEPT ![c] = s]
    BY <1>1, <1>6, <2>2
  <2>4. s.at = "roll" /\ s.id = i /\ s.asks = client[c].asks /\ s.todo = order
    BY <1>1, <2>2 DEF Sessions
  <2>5. client'[c] = s
    BY <1>1, <2>3
  <2>6. Agenda(client[c].todo)'
    BY <1>3, <2>1, <2>4, <2>5 DEF Agenda, files
  <2>7. Knows(c)' /\ Retiring(c)'
    BY <1>3, <1>6, <2>4, <2>5, <2>6 DEF Knows, Retiring, Known, At, Copying, Unlinking, Waiting, files
  <2> QED BY <1>2, <1>3, <1>6, <2>3, <2>4, <2>7, PrivateStepKeeps DEF Locked, Admitting
<1>7. \/ Leave(c) /\ lock' = None
      \/ /\ Known(i) /\ lock' = None
         /\ \E q \in {"active", "history"} :
              client' = [client EXCEPT ![c].at = "look", ![c].path = q]
      \/ ~ Known(i) /\ UNCHANGED lock /\ client' = [client EXCEPT ![c].at = "roll", ![c].todo = order]
  BY DEF Admit
<1> QED BY <1>4, <1>5, <1>6, <1>7

LEMMA RollKeeps == ASSUME IInv, SampleConstants, NEW c \in Clients, Roll(c) PROVE IInv'
<1> DEFINE old == Head(client[c].todo)
<1>1. client \in [Clients -> Sessions] /\ client[c] \in Sessions /\ client[c].at = "roll"
  BY DEF IInv, ClientTyped, Roll, At
<1>2. /\ client[c].id \in Ids /\ client[c].asks \in Payloads /\ client[c].at \in Locked
      /\ ~ At(c, "queue") /\ lock = c /\ c # None /\ \A d \in Clients \ {c} : lock # d
      /\ lock \in Clients \cup {None}
  BY <1>1 DEF IInv, ClientTyped, At, Locked, Admitting, SampleConstants
<1>3. UNCHANGED <<files, serving, ended, cut, deaths>>
  BY DEF Roll, Quiet
<1>4. ~ Known(client[c].id) /\ Agenda(client[c].todo) /\ client[c].todo \in Seq(Ids)
  BY <1>1 DEF IInv, Knows, Retiring, Admitting, Sessions
<1>5. CASE Leave(c) /\ lock' = None
  BY <1>2, <1>3, <1>5, LeaveKeeps
<1>6. ASSUME NEW at \in {"claim", "copy request", "unlink request"}, Go(c, at), UNCHANGED lock,
             at # "claim" => client[c].todo # <<>> /\ pending[old] = None,
             at = "copy request" => ~ Kept(old), at = "unlink request" => Kept(old)
      PROVE  IInv'
  <2>1. PICK s \in Sessions : s = [client[c] EXCEPT !.at = at]
    BY <1>1 DEF Sessions, Locked, Admitting, Copying, Unlinking
  <2>2. client' = [client EXCEPT ![c] = s]
    BY <1>1, <1>6, <2>1 DEF Go
  <2>3. s.at = at /\ s.id = client[c].id /\ s.asks = client[c].asks /\ s.todo = client[c].todo
    BY <1>1, <2>1 DEF Sessions
  <2>4. client'[c] = s
    BY <1>1, <2>2
  <2>5. UNCHANGED <<identity, order, pending, result, history>>
    BY <1>3 DEF files
  <2>6. Knows(c)'
    BY <1>4, <1>6, <2>3, <2>4, <2>5 DEF Knows, Known, At, Waiting
  <2>7. Agenda(client[c].todo)'
    BY <1>4, <2>3, <2>4, <2>5 DEF Agenda
  <2>8. Head(client'[c].todo) = old
    BY <2>3, <2>4
  <2>9. Retiring(c)'
    BY <1>6, <2>3, <2>4, <2>5, <2>7, <2>8 DEF Retiring, Kept, At, Copying, Unlinking
  <2>10. s.at \in Locked /\ s.at # "queue"
    BY <1>6, <2>3 DEF Locked, Admitting, Copying, Unlinking
  <2> QED BY <1>2, <1>3, <1>6, <2>2, <2>3, <2>6, <2>9, <2>10, PrivateStepKeeps
<1>7. ASSUME client' = [client EXCEPT ![c].todo = Tail(@)], UNCHANGED lock, client[c].todo # <<>>
      PROVE  IInv'
  <2>1. /\ Tail(client[c].todo) \in Seq(Ids)
        /\ \A n \in 1 .. Len(Tail(client[c].todo)) :
             n + 1 \in 1 .. Len(client[c].todo) /\ Tail(client[c].todo)[n] = client[c].todo[n + 1]
    BY <1>4, <1>7, TailAgenda
  <2>2. PICK s \in Sessions : s = [client[c] EXCEPT !.todo = Tail(@)]
    BY <1>1, <2>1 DEF Sessions
  <2>3. client' = [client EXCEPT ![c] = s]
    BY <1>1, <1>7, <2>2
  <2>4. /\ s.at = "roll" /\ s.id = client[c].id /\ s.asks = client[c].asks
        /\ s.todo = Tail(client[c].todo)
    BY <1>1, <2>2 DEF Sessions
  <2>5. client'[c] = s
    BY <1>1, <2>3
  <2>6. UNCHANGED <<identity, order, pending, result, history>>
    BY <1>3 DEF files
  <2>7. Agenda(Tail(client[c].todo))
    BY <1>4, <2>1 DEF Agenda
  <2>8. Agenda(client[c].todo)'
    BY <2>4, <2>5, <2>6, <2>7 DEF Agenda
  <2>9. Knows(c)' /\ Retiring(c)'
    BY <1>4, <2>4, <2>5, <2>6, <2>8 DEF Knows, Known, Retiring, At, Copying, Unlinking, Waiting
  <2> QED BY <1>2, <1>3, <1>7, <2>3, <2>4, <2>9, PrivateStepKeeps DEF Locked, Admitting
<1>8. \/ Leave(c) /\ lock' = None
      \/ client' = [client EXCEPT ![c].todo = Tail(@)] /\ UNCHANGED lock /\ client[c].todo # <<>>
      \/ \E at \in {"claim", "copy request", "unlink request"} :
           /\ Go(c, at) /\ UNCHANGED lock
           /\ at # "claim" => client[c].todo # <<>> /\ pending[old] = None
           /\ at = "copy request" => ~ Kept(old)
           /\ at = "unlink request" => Kept(old)
  BY DEF Roll
<1> QED BY <1>5, <1>6, <1>7, <1>8

-----------------------------------------------------------------------------
(* The retirement of one request into the history.                         *)

\* The request that is being retired, and who retires it.
LEMMA Retired ==
  ASSUME IInv, SampleConstants, NEW c \in Clients, client[c].at \in Copying \cup Unlinking
  PROVE  /\ client \in [Clients -> Sessions] /\ client[c] \in Sessions
         /\ client[c].todo \in Seq(Ids) /\ client[c].todo # <<>>
         /\ Head(client[c].todo) \in Ids /\ Known(Head(client[c].todo))
         /\ client[c].at # "unlink result" =>
              identity[Head(client[c].todo)] # None /\ pending[Head(client[c].todo)] = None
         /\ client[c].id \in Ids /\ client[c].asks \in Payloads /\ ~ Known(client[c].id)
         /\ client[c].at \in Locked /\ ~ At(c, "queue") /\ lock = c
<1>1. client[c] \in Sessions /\ client[c].todo \in Seq(Ids) /\ client[c].todo # <<>>
  BY DEF IInv, ClientTyped, Sessions, Retiring
<1>2. /\ Head(client[c].todo) \in Ids /\ Head(client[c].todo) = client[c].todo[1]
      /\ 1 \in 1 .. Len(client[c].todo)
  BY <1>1, TailAgenda
<1>3. client[c].at # "unlink result" =>
        identity[Head(client[c].todo)] # None /\ pending[Head(client[c].todo)] = None
  <2> SUFFICES ASSUME client[c].at # "unlink result"
      PROVE  identity[Head(client[c].todo)] # None /\ pending[Head(client[c].todo)] = None
    OBVIOUS
  <2>1. Retiring(c)
    BY DEF IInv
  <2>2. client[c].at \in Copying \cup {"unlink request"}
    BY DEF Unlinking
  <2>3. Agenda(client[c].todo) /\ pending[Head(client[c].todo)] = None
    BY <2>1, <2>2 DEF Retiring
  <2> QED BY <1>2, <2>3 DEF Agenda
<1>4. client[c].at \in Unlinking => Kept(Head(client[c].todo))
  BY DEF IInv, Retiring
<1>5. Known(Head(client[c].todo))
  BY <1>3, <1>4 DEF Known, Kept, Unlinking
<1>6. client[c].at \in Locked /\ client[c].at \in Admitting /\ ~ At(c, "queue") /\ ~ At(c, "idle")
  BY DEF Locked, Admitting, Copying, Unlinking, At
<1> QED BY <1>1, <1>2, <1>3, <1>5, <1>6 DEF IInv, ClientTyped, Knows

\* Only the files of the request that is being retired change.
LEMMA RetireStepKeeps ==
  ASSUME IInv, SampleConstants, NEW c \in Clients, client[c].at \in Copying \cup Unlinking,
         NEW s \in Sessions, client' = [client EXCEPT ![c] = s], s.at \in Admitting,
         s.id = client[c].id, s.asks = client[c].asks,
         UNCHANGED <<lock, serving, cut, pending>>,
         NEW h \in Ids, h = Head(client[c].todo),
         \A i \in Ids \ {h} : /\ identity'[i] = identity[i] /\ result'[i] = result[i]
                              /\ history'[i] = history[i],
         TypeOK', Known(h)', FilesAgree(h)', Accounted(h)', Retiring(c)'
  PROVE  IInv'
<1>1. /\ client[c].id \in Ids /\ client[c].asks \in Payloads /\ ~ Known(client[c].id) /\ Known(h)
      /\ client[c].at \in Locked /\ ~ At(c, "queue") /\ lock = c
  BY Retired
<1>2. s.at \in Locked /\ s.at # "queue" /\ s.at \notin Waiting
  BY DEF Locked, Admitting, Copying, Unlinking, Waiting
<1>3. /\ ClientTyped' /\ client'[c] = s
      /\ \A d \in Clients \ {c} : client'[d] = client[d]
  BY <1>1, <1>2, Moves DEF IInv
<1>4. ASSUME NEW i \in Ids PROVE Queueing(i) <=> Queueing(i)'
  BY <1>1, <1>2, <1>3 DEF Queueing, At
<1>5. ASSUME NEW i \in Ids PROVE FilesAgree(i)' /\ Accounted(i)'
  <2>1. CASE i = h
    BY <2>1 DEF Accounted
  <2>2. CASE i # h
    BY <1>4, <2>2, FilesSame DEF IInv
  <2> QED BY <2>1, <2>2
<1>6. \A i \in Ids : i # h => Known(i)' = Known(i)
  BY DEF Known
<1>7. ~ Known(client[c].id)'
  <2>1. client'[c].id = client[c].id /\ client[c].id # h
    BY <1>1, <1>3
  <2> QED BY <1>1, <2>1 DEF Known
<1>8. Knows(c)'
  BY <1>2, <1>3, <1>7 DEF Knows, At
<1>9. ~ At(c, "queue")'
  BY <1>2, <1>3 DEF At
<1> QED BY <1>1, <1>3, <1>5, <1>6, <1>8, <1>9, ClientStepKeeps

\* While somebody retires, nobody is about to queue; a request that is not
\* pending is answered or was cut short.
LEMMA Answered ==
  ASSUME IInv, SampleConstants, NEW c \in Clients, client[c].at \in Copying \cup Unlinking,
         NEW h, h = Head(client[c].todo), pending[h] = None
  PROVE  /\ ~ Queueing(h)
         /\ \/ result[h] # None
            \/ history[h] # None /\ history[h].result # None
            \/ h \in cut
<1>1. /\ h \in Ids /\ Known(h) /\ client[c].at \in Locked /\ ~ At(c, "queue")
  BY Retired
<1>2. \A d \in Clients \ {c} : client[d].at # "queue"
  BY <1>1, OthersWait DEF IInv, Locked
<1>3. ~ Queueing(h)
  BY <1>1, <1>2 DEF Queueing, At
<1>4. Accounted(h)
  BY <1>1 DEF IInv
<1> QED BY <1>1, <1>3, <1>4 DEF Accounted

\* The session of a client that retires, at its next step.
LEMMA NextSession ==
  ASSUME IInv, SampleConstants, NEW c \in Clients, client[c].at \in Copying \cup Unlinking,
         NEW at \in {"copy result", "receipt", "unlink request", "unlink result"}, Go(c, at)
  PROVE  \E s \in Sessions :
           /\ client' = [client EXCEPT ![c] = s] /\ client'[c] = s
           /\ s.at = at /\ s.id = client[c].id /\ s.asks = client[c].asks
           /\ s.todo = client[c].todo /\ s.at \in Admitting
<1>1. client \in [Clients -> Sessions] /\ client[c] \in Sessions
  BY Retired
<1>2. PICK s \in Sessions : s = [client[c] EXCEPT !.at = at]
  BY <1>1 DEF Sessions, Locked, Admitting, Copying, Unlinking
<1>3. client' = [client EXCEPT ![c] = s]
  BY <1>1, <1>2 DEF Go
<1>4. client'[c] = s
  BY <1>1, <1>3
<1>5. /\ s.at = at /\ s.id = client[c].id /\ s.asks = client[c].asks
      /\ s.todo = client[c].todo
  BY <1>1, <1>2 DEF Sessions
<1> QED BY <1>3, <1>4, <1>5 DEF Admitting, Copying, Unlinking

\* While copies are made the agenda stays as it is.
LEMMA AgendaSame ==
  ASSUME IInv, NEW c \in Clients, client[c].at \in Copying \cup Unlinking,
         client[c].at # "unlink result", UNCHANGED identity, client'[c].todo = client[c].todo
  PROVE  Agenda(client[c].todo)'
<1>1. Retiring(c)
  BY DEF IInv
<1>2. Agenda(client[c].todo)
  BY <1>1 DEF Retiring, Unlinking
<1> QED BY <1>2 DEF Agenda

\* A history entry with one more copy.
LEMMA CopyTyped ==
  ASSUME TypeOK, NEW i \in Ids
  PROVE  /\ Copies(i) \in Histories
         /\ \A x \in Payloads \cup {Torn} : [Copies(i) EXCEPT !.request = x] \in Histories
         /\ \A x \in Answers \cup {None, Torn} : [Copies(i) EXCEPT !.result = x] \in Histories
         /\ \A x \in {Torn, "done"} : [Copies(i) EXCEPT !.receipt = x] \in Histories
<1>1. Copies(i) \in Histories
  BY DEF TypeOK, Copies, NoCopies, Histories
<1> QED BY <1>1 DEF Histories

LEMMA CopyRequestKeeps ==
  ASSUME IInv, SampleConstants, NEW c \in Clients, CopyRequest(c)
  PROVE  IInv'
<1>0. PICK h : h = Head(client[c].todo)
  OBVIOUS
<1>1. client[c].at \in Copying \cup Unlinking /\ client[c].at = "copy request"
  BY DEF CopyRequest, At, Copying
<1>2. /\ h \in Ids /\ identity[h] # None /\ pending[h] = None /\ client[c].at \in Locked
      /\ ~ At(c, "queue")
  BY <1>0, <1>1, Retired
<1>3. UNCHANGED <<identity, order, pending, result, serving, ended, cut, deaths>>
  BY DEF CopyRequest, Quiet
<1>4. CASE Leave(c) /\ lock' = None /\ UNCHANGED history
  BY <1>2, <1>3, <1>4, LeaveKeeps DEF files
<1>5. CASE /\ Copies(h).request \in {None, identity[h]}
           /\ history' = [history EXCEPT ![h] = [Copies(h) EXCEPT !.request = identity[h]]]
           /\ Go(c, "copy result") /\ UNCHANGED lock
  <2>1. PICK s \in Sessions :
           /\ client' = [client EXCEPT ![c] = s] /\ client'[c] = s
           /\ s.at = "copy result" /\ s.id = client[c].id /\ s.asks = client[c].asks
           /\ s.todo = client[c].todo /\ s.at \in Admitting
    BY <1>1, <1>5, NextSession
  <2>2. identity[h] \in Payloads /\ history \in [Ids -> Histories \cup {None}]
    BY <1>2 DEF IInv, TypeOK
  <2>3. PICK r \in Histories : r = [Copies(h) EXCEPT !.request = identity[h]]
    BY <1>2, <2>2, CopyTyped DEF IInv
  <2>4. /\ history' = [history EXCEPT ![h] = r] /\ history'[h] = r
        /\ \A i \in Ids \ {h} : history'[i] = history[i]
    BY <1>2, <1>5, <2>2, <2>3
  <2>5. /\ Copies(h) \in Histories /\ r.request = identity[h] /\ r.result = Copies(h).result
        /\ r.receipt = Copies(h).receipt
    BY <1>2, <2>3, CopyTyped DEF IInv, Histories
  <2>6. TypeOK'
    BY <1>3, <1>5, <2>2, <2>4 DEF IInv, TypeOK, Has
  <2>7. /\ FilesAgree(h) /\ ~ Kept(h) /\ history'[h] # None
        /\ history[h] # None => Copies(h) = history[h]
        /\ history[h] = None => Copies(h).result = None /\ Copies(h).receipt # "done"
    BY <1>0, <1>1, <1>2, <2>4 DEF IInv, Retiring, Copies, NoCopies, Copying, SampleConstants
  <2>8. ~ Kept(h)' /\ Known(h)'
    BY <2>4, <2>5, <2>7 DEF Kept, Known
  <2>9. FilesAgree(h)'
    <3>1. PICK p : Says(h, p)
      BY <2>7 DEF FilesAgree
    <3>2. Says(h, p)'
      BY <1>2, <1>3, <2>4, <2>5, <2>7, <3>1 DEF Says, SampleConstants
    <3>3. history'[h].result # None => result'[h] # None
      BY <1>3, <2>4, <2>5, <2>7 DEF FilesAgree
    <3> QED BY <1>2, <1>3, <2>7, <2>8, <3>2, <3>3 DEF FilesAgree
  <2>10. Accounted(h)'
    BY <1>0, <1>1, <1>2, <1>3, <2>4, <2>5, <2>7, Answered DEF Accounted
  <2>11. Retiring(c)'
    <3>1. Head(client'[c].todo) = h /\ client'[c].at = "copy result" /\ client'[c].todo # <<>>
      BY <1>0, <1>1, <2>1, Retired
    <3>2. Agenda(client[c].todo)'
      BY <1>1, <1>3, <2>1, AgendaSame
    <3> QED BY <1>2, <1>3, <2>4, <2>5, <2>7, <2>8, <3>1, <3>2 DEF Retiring, Kept, At, Copying, Unlinking
  <2> QED BY <1>0, <1>1, <1>2, <1>3, <1>5, <2>1, <2>4, <2>6, <2>8, <2>9, <2>10, <2>11, RetireStepKeeps
<1> QED BY <1>0, <1>4, <1>5 DEF CopyRequest, Retain

LEMMA CopyResultKeeps ==
  ASSUME IInv, SampleConstants, NEW c \in Clients, CopyResult(c)
  PROVE  IInv'
<1>0. PICK h : h = Head(client[c].todo)
  OBVIOUS
<1>1. client[c].at \in Copying \cup Unlinking /\ client[c].at = "copy result"
  BY DEF CopyResult, At, Copying
<1>2. /\ h \in Ids /\ identity[h] # None /\ pending[h] = None /\ client[c].at \in Locked
      /\ ~ At(c, "queue")
  BY <1>0, <1>1, Retired
<1>3. UNCHANGED <<identity, order, pending, result, serving, ended, cut, deaths>>
  BY DEF CopyResult, Quiet
<1>4. CASE Leave(c) /\ lock' = None /\ UNCHANGED history
  BY <1>2, <1>3, <1>4, LeaveKeeps DEF files
<1>5. CASE /\ Copies(h).result \in {None, result[h]}
           /\ history' = [history EXCEPT ![h] = [Copies(h) EXCEPT !.result = result[h]]]
           /\ Go(c, "receipt") /\ UNCHANGED lock
  <2>1. PICK s \in Sessions :
           /\ client' = [client EXCEPT ![c] = s] /\ client'[c] = s
           /\ s.at = "receipt" /\ s.id = client[c].id /\ s.asks = client[c].asks
           /\ s.todo = client[c].todo /\ s.at \in Admitting
    BY <1>1, <1>5, NextSession
  <2>2. result[h] \in Answers \cup {None} /\ history \in [Ids -> Histories \cup {None}]
    BY <1>2 DEF IInv, TypeOK
  <2>3. PICK r \in Histories : r = [Copies(h) EXCEPT !.result = result[h]]
    BY <1>2, <2>2, CopyTyped DEF IInv
  <2>4. /\ history' = [history EXCEPT ![h] = r] /\ history'[h] = r
        /\ \A i \in Ids \ {h} : history'[i] = history[i]
    BY <1>2, <1>5, <2>2, <2>3
  <2>5. /\ Copies(h) \in Histories /\ r.result = result[h] /\ r.request = Copies(h).request
        /\ r.receipt = Copies(h).receipt
    BY <1>2, <2>3, CopyTyped DEF IInv, Histories
  <2>6. TypeOK'
    <3>1. history' \in [Ids -> Histories \cup {None}] /\ UNCHANGED lock
      BY <1>5, <2>2, <2>4
    <3> QED BY <1>3, <3>1 DEF IInv, TypeOK, Has
  <2>7. /\ FilesAgree(h) /\ ~ Kept(h) /\ history[h] # None /\ history'[h] # None
        /\ Copies(h) = history[h] /\ history[h].request = identity[h]
    BY <1>0, <1>1, <1>2, <2>4 DEF IInv, Retiring, Copies, Copying, SampleConstants
  <2>8. ~ Kept(h)' /\ Known(h)'
    BY <2>4, <2>5, <2>7 DEF Kept, Known
  <2>9. FilesAgree(h)'
    <3>1. PICK p : Says(h, p)
      BY <2>7 DEF FilesAgree
    <3>2. Says(h, p)'
      BY <1>2, <1>3, <2>2, <2>4, <2>5, <2>7, <3>1 DEF Says, SampleConstants
    <3> QED BY <1>2, <1>3, <2>4, <2>5, <2>7, <2>8, <3>2 DEF FilesAgree
  <2>10. Accounted(h)'
    BY <1>0, <1>1, <1>2, <1>3, <1>5, <2>4, <2>5, <2>7, Answered DEF Accounted
  <2>11. Retiring(c)'
    <3>1. Head(client'[c].todo) = h /\ client'[c].at = "receipt" /\ client'[c].todo # <<>>
      BY <1>0, <1>1, <2>1, Retired
    <3>2. Agenda(client[c].todo)'
      BY <1>1, <1>3, <2>1, AgendaSame
    <3> QED BY <1>2, <1>3, <2>4, <2>5, <2>7, <2>8, <3>1, <3>2 DEF Retiring, Kept, At, Copying, Unlinking
  <2> QED BY <1>0, <1>1, <1>2, <1>3, <1>5, <2>1, <2>4, <2>6, <2>8, <2>9, <2>10, <2>11, RetireStepKeeps
<1> QED BY <1>0, <1>4, <1>5 DEF CopyResult, Retain

\* With the receipt, both copies are the active files.
LEMMA ReceiptKeeps ==
  ASSUME IInv, SampleConstants, NEW c \in Clients, Receipt(c)
  PROVE  IInv'
<1>0. PICK h : h = Head(client[c].todo)
  OBVIOUS
<1>1. client[c].at \in Copying \cup Unlinking /\ client[c].at = "receipt"
  BY DEF Receipt, At, Copying
<1>2. /\ h \in Ids /\ identity[h] # None /\ pending[h] = None /\ client[c].at \in Locked
      /\ ~ At(c, "queue")
  BY <1>0, <1>1, Retired
<1>3. /\ UNCHANGED <<identity, order, pending, result, serving, ended, cut, deaths, lock>>
      /\ Go(c, "unlink request") /\ history' = [history EXCEPT ![h].receipt = "done"]
  BY <1>0 DEF Receipt, Quiet
<1>4. PICK s \in Sessions :
         /\ client' = [client EXCEPT ![c] = s] /\ client'[c] = s
         /\ s.at = "unlink request" /\ s.id = client[c].id /\ s.asks = client[c].asks
         /\ s.todo = client[c].todo /\ s.at \in Admitting
  BY <1>1, <1>3, NextSession
<1>5. /\ FilesAgree(h) /\ ~ Kept(h) /\ history[h] # None /\ Copies(h) = history[h]
      /\ history[h].request = identity[h] /\ history[h].result = result[h]
  BY <1>0, <1>1, <1>2 DEF IInv, Retiring, Copies, Copying, At
<1>6. identity[h] \in Payloads /\ history \in [Ids -> Histories \cup {None}]
  BY <1>2 DEF IInv, TypeOK
<1>7. PICK r \in Histories : r = [Copies(h) EXCEPT !.receipt = "done"]
  BY <1>2, CopyTyped DEF IInv
<1>8. /\ history' = [history EXCEPT ![h] = r] /\ history'[h] = r
      /\ \A i \in Ids \ {h} : history'[i] = history[i]
  BY <1>2, <1>3, <1>5, <1>6, <1>7
<1>9. /\ Copies(h) \in Histories /\ r.result = history[h].result /\ r.request = identity[h]
      /\ r.receipt = "done" /\ r # None
  BY <1>2, <1>5, <1>7, CopyTyped DEF IInv, Histories, SampleConstants
<1>10. TypeOK'
  BY <1>3, <1>6, <1>8 DEF IInv, TypeOK, Has
<1>11. Kept(h)' /\ Known(h)'
  BY <1>8, <1>9 DEF Kept, Known
<1>12. FilesAgree(h)'
  <2>1. PICK p : Says(h, p)
    BY <1>5 DEF FilesAgree
  <2>2. Says(h, p)'
    BY <1>3, <1>5, <1>8, <1>9, <2>1 DEF Says
  <2> QED BY <1>2, <1>3, <1>5, <1>6, <1>8, <1>9, <1>11, <2>2 DEF FilesAgree
<1>13. Accounted(h)'
  BY <1>0, <1>1, <1>2, <1>3, <1>5, <1>8, <1>9, Answered DEF Accounted
<1>14. Retiring(c)'
  <2>1. Head(client'[c].todo) = h /\ client'[c].at = "unlink request" /\ client'[c].todo # <<>>
    BY <1>0, <1>1, <1>4, Retired
  <2>2. Agenda(client[c].todo)'
    BY <1>1, <1>3, <1>4, AgendaSame
  <2> QED BY <1>2, <1>3, <1>11, <2>1, <2>2 DEF Retiring, At, Copying, Unlinking
<1> QED BY <1>0, <1>1, <1>2, <1>3, <1>4, <1>8, <1>10, <1>11, <1>12, <1>13, <1>14, RetireStepKeeps

LEMMA UnlinkRequestKeeps ==
  ASSUME IInv, SampleConstants, NEW c \in Clients, UnlinkRequest(c)
  PROVE  IInv'
<1>0. PICK h : h = Head(client[c].todo)
  OBVIOUS
<1>1. client[c].at \in Copying \cup Unlinking /\ client[c].at = "unlink request"
  BY DEF UnlinkRequest, At, Unlinking
<1>2. /\ h \in Ids /\ identity[h] # None /\ pending[h] = None /\ client[c].todo # <<>>
      /\ client[c].todo \in Seq(Ids)
  BY <1>0, <1>1, Retired
<1>3. /\ UNCHANGED <<pending, result, history, serving, ended, cut, deaths, lock>>
      /\ Go(c, "unlink result") /\ identity' = [identity EXCEPT ![h] = None]
  BY <1>0 DEF UnlinkRequest, Quiet
<1>4. PICK s \in Sessions :
         /\ client' = [client EXCEPT ![c] = s] /\ client'[c] = s
         /\ s.at = "unlink result" /\ s.id = client[c].id /\ s.asks = client[c].asks
         /\ s.todo = client[c].todo /\ s.at \in Admitting
  BY <1>1, <1>3, NextSession
<1>5. FilesAgree(h) /\ Kept(h) /\ Agenda(client[c].todo)
  BY <1>0, <1>1, <1>2 DEF IInv, Retiring, Unlinking
<1>6. /\ identity' \in [Ids -> Payloads \cup {None}] /\ identity'[h] = None
      /\ \A i \in Ids \ {h} : identity'[i] = identity[i]
  BY <1>2, <1>3 DEF IInv, TypeOK
<1>7. order' \in Seq(Ids) /\ IsInjective(order') /\ ToSet(order') = Has(identity')
  <2>1. order \in Seq(Ids) /\ IsInjective(order) /\ ToSet(order) = Has(identity)
    BY DEF IInv, TypeOK
  <2>2. PICK n \in DOMAIN order : order[n] = h /\ order' = RemoveAt(order, n)
    BY <1>0 DEF UnlinkRequest
  <2>3. order' \in Seq(Ids) /\ IsInjective(order') /\ ToSet(order') = ToSet(order) \ {h}
    BY <2>1, <2>2, RemoveAtKeeps
  <2>4. Has(identity') = Has(identity) \ {h}
    BY <1>6 DEF Has
  <2> QED BY <2>1, <2>3, <2>4
<1>8. TypeOK'
  BY <1>3, <1>6, <1>7 DEF IInv, TypeOK, Has
<1>9. Kept(h)' /\ Known(h)'
  BY <1>3, <1>5 DEF Kept, Known
<1>10. FilesAgree(h)'
  <2>1. PICK p : Says(h, p)
    BY <1>5 DEF FilesAgree
  <2>2. Says(h, p)'
    BY <1>3, <1>6, <2>1 DEF Says
  <2> QED BY <1>2, <1>3, <1>5, <1>6, <1>9, <2>2 DEF FilesAgree
<1>11. Accounted(h)'
  BY <1>0, <1>1, <1>2, <1>3, Answered DEF Accounted
<1>12. Retiring(c)'
  <2>1. Head(client'[c].todo) = h /\ client'[c].at = "unlink result" /\ client'[c].todo # <<>>
    BY <1>0, <1>2, <1>4
  <2>2. ASSUME NEW n \in 1 .. Len(Tail(client[c].todo))
        PROVE  identity'[Tail(client[c].todo)[n]] # None
    <3>1. /\ n + 1 \in 1 .. Len(client[c].todo) /\ n + 1 # 1 /\ 1 \in 1 .. Len(client[c].todo)
          /\ Tail(client[c].todo)[n] = client[c].todo[n + 1] /\ h = client[c].todo[1]
      BY <1>0, <1>2, TailAgenda
    <3>2. client[c].todo[n + 1] # h /\ identity[client[c].todo[n + 1]] # None
      BY <1>5, <3>1 DEF Agenda
    <3>3. client[c].todo[n + 1] \in Ids
      BY <1>2, <3>1
    <3> QED BY <1>6, <3>1, <3>2, <3>3
  <2>3. ASSUME NEW m \in 1 .. Len(Tail(client[c].todo)), NEW n \in 1 .. Len(Tail(client[c].todo)),
               Tail(client[c].todo)[m] = Tail(client[c].todo)[n]
        PROVE  m = n
    <3>1. /\ m + 1 \in 1 .. Len(client[c].todo) /\ n + 1 \in 1 .. Len(client[c].todo)
          /\ client[c].todo[m + 1] = client[c].todo[n + 1]
      BY <1>2, <2>3, TailAgenda
    <3>2. m + 1 = n + 1
      BY <1>5, <3>1 DEF Agenda
    <3> QED BY <3>2
  <2>4. Agenda(Tail(client[c].todo))'
    <3>1. PICK t : t = Tail(client[c].todo)
      OBVIOUS
    <3>2. Tail(client'[c].todo) = t
      BY <1>4, <3>1
    <3>3. Agenda(t)'
      BY <2>2, <2>3, <3>1 DEF Agenda
    <3> QED BY <3>2, <3>3 DEF Agenda
  <2> QED BY <1>9, <2>1, <2>4 DEF Retiring, At, Copying, Unlinking
<1> QED BY <1>0, <1>1, <1>2, <1>3, <1>4, <1>6, <1>8, <1>9, <1>10, <1>11, <1>12, RetireStepKeeps

LEMMA UnlinkResultKeeps ==
  ASSUME IInv, SampleConstants, NEW c \in Clients, UnlinkResult(c)
  PROVE  IInv'
<1>0. PICK h : h = Head(client[c].todo)
  OBVIOUS
<1>1. client[c].at \in Copying \cup Unlinking /\ client[c].at = "unlink result"
  BY DEF UnlinkResult, At, Unlinking
<1>2. /\ h \in Ids /\ Known(h) /\ client[c].todo # <<>> /\ client[c].todo \in Seq(Ids)
      /\ client \in [Clients -> Sessions] /\ client[c] \in Sessions
  BY <1>0, <1>1, Retired
<1>3. /\ UNCHANGED <<identity, order, pending, history, serving, ended, cut, deaths, lock>>
      /\ result' = [result EXCEPT ![h] = None]
      /\ client' = [client EXCEPT ![c].at = "roll", ![c].todo = Tail(@)]
  BY <1>0 DEF UnlinkResult, Quiet
<1>4. Tail(client[c].todo) \in Seq(Ids)
  BY <1>2, TailAgenda
<1>5. PICK s \in Sessions : s = [client[c] EXCEPT !.at = "roll", !.todo = Tail(@)]
  BY <1>2, <1>4 DEF Sessions, Locked, Admitting
<1>6. /\ s.at = "roll" /\ s.id = client[c].id /\ s.asks = client[c].asks
      /\ s.todo = Tail(client[c].todo)
  BY <1>2, <1>5 DEF Sessions
<1>7. client' = [client EXCEPT ![c] = s] /\ client'[c] = s
  BY <1>2, <1>3, <1>5
<1>8. /\ result' \in [Ids -> Answers \cup {None}] /\ result'[h] = None
      /\ \A i \in Ids \ {h} : result'[i] = result[i]
  BY <1>2, <1>3 DEF IInv, TypeOK
<1>9. TypeOK'
  BY <1>3, <1>8 DEF IInv, TypeOK, Has
<1>10. FilesAgree(h) /\ Kept(h) /\ Agenda(Tail(client[c].todo))
  BY <1>0, <1>1, <1>2 DEF IInv, Retiring, Unlinking, At
<1>11. Kept(h)' /\ Known(h)' /\ pending[h] = None
  BY <1>3, <1>10 DEF FilesAgree, Kept, Known
<1>12. FilesAgree(h)'
  <2>1. PICK p : Says(h, p)
    BY <1>10 DEF FilesAgree
  <2>2. Says(h, p)'
    BY <1>3, <1>8, <2>1 DEF Says
  <2> QED BY <1>3, <1>8, <1>10, <1>11, <2>2 DEF FilesAgree
<1>13. Accounted(h)'
  <2>1. result[h] # None => history[h] # None /\ history[h].result # None
    BY <1>10 DEF FilesAgree, Kept
  <2> QED BY <1>0, <1>1, <1>3, <1>11, <2>1, Answered DEF Accounted
<1>14. Retiring(c)'
  <2>1. Agenda(client[c].todo)'
    BY <1>3, <1>6, <1>7, <1>10 DEF Agenda
  <2> QED BY <1>6, <1>7, <2>1 DEF Retiring, At, Copying, Unlinking
<1> QED BY <1>0, <1>1, <1>2, <1>3, <1>6, <1>7, <1>8, <1>9, <1>11, <1>12, <1>13, <1>14,
           RetireStepKeeps DEF Admitting

-----------------------------------------------------------------------------
(* The admission itself, and deaths.                                       *)

LEMMA ClaimKeeps ==
  ASSUME IInv, SampleConstants, NEW c \in Clients, Claim(c)
  PROVE  IInv'
<1>0. PICK i : i = client[c].id
  OBVIOUS
<1>1. /\ client \in [Clients -> Sessions] /\ client[c] \in Sessions /\ client[c].at = "claim"
      /\ i \in Ids /\ client[c].asks \in Payloads /\ client[c].asks # None
      /\ client[c].at \in Locked /\ lock = c
  BY <1>0 DEF IInv, ClientTyped, Claim, At, Locked, Admitting, SampleConstants
<1>2. /\ UNCHANGED <<pending, result, history, serving, ended, cut, deaths, lock>>
      /\ Go(c, "queue") /\ identity' = [identity EXCEPT ![i] = client[c].asks]
      /\ order' = Append(order, i)
  BY <1>0 DEF Claim, Quiet
<1>3. PICK s \in Sessions : s = [client[c] EXCEPT !.at = "queue"]
  BY <1>1 DEF Sessions, Locked
<1>4. client' = [client EXCEPT ![c] = s]
  BY <1>1, <1>2, <1>3 DEF Go
<1>5. s.at = "queue" /\ s.id = i /\ s.asks = client[c].asks /\ s.todo = client[c].todo
  BY <1>0, <1>1, <1>3 DEF Sessions
<1>6. /\ ClientTyped' /\ client'[c] = s
      /\ \A d \in Clients \ {c} : client'[d] = client[d]
  BY <1>1, <1>2, <1>4, <1>5, Moves DEF IInv, Locked
<1>7. ~ Known(i) /\ FilesAgree(i)
  BY <1>0, <1>1 DEF IInv, Knows, Admitting
<1>8. /\ identity' \in [Ids -> Payloads \cup {None}] /\ identity'[i] = client[c].asks
      /\ \A j \in Ids \ {i} : identity'[j] = identity[j]
  BY <1>1, <1>2 DEF IInv, TypeOK
<1>9. TypeOK'
  <2>1. order \in Seq(Ids) /\ IsInjective(order) /\ ToSet(order) = Has(identity)
    BY DEF IInv, TypeOK
  <2>2. i \notin ToSet(order)
    BY <1>7, <2>1 DEF Has, Known
  <2>3. order' \in Seq(Ids) /\ IsInjective(order') /\ ToSet(order') = ToSet(order) \cup {i}
    BY <1>1, <1>2, <2>1, <2>2, AppendKeeps
  <2>4. Has(identity') = Has(identity) \cup {i}
    BY <1>1, <1>8 DEF Has
  <2> QED BY <1>2, <1>8, <2>1, <2>3, <2>4 DEF IInv, TypeOK, Has
<1>10. identity[i] = None /\ history[i] = None /\ pending[i] = None /\ result[i] = None /\ serving # i
  BY <1>7 DEF Known, FilesAgree
<1>11. FilesAgree(i)' /\ Accounted(i)' /\ Knows(c)' /\ Retiring(c)' /\ ~ Known(client'[c].id)
  <2>1. \E p : Says(i, p)'
    BY <1>2, <1>8, <1>10 DEF Says
  <2>2. ~ Kept(i)'
    BY <1>2, <1>10 DEF Kept
  <2>3. FilesAgree(i)'
    BY <1>2, <1>10, <2>1, <2>2 DEF FilesAgree
  <2>4. Queueing(i)'
    BY <1>5, <1>6 DEF Queueing, At
  <2>5. client'[c].at = "queue" /\ client'[c].id = i /\ client'[c].asks = client[c].asks
    BY <1>5, <1>6
  <2>6. Knows(c)'
    BY <1>2, <1>8, <1>10, <2>5 DEF Knows, At, Admitting, Copying, Unlinking, Waiting
  <2>7. Retiring(c)'
    BY <2>5 DEF Retiring, At, Copying, Unlinking
  <2> QED BY <1>7, <2>3, <2>4, <2>5, <2>6, <2>7 DEF Accounted
<1>12. ASSUME NEW j \in Ids, j # i PROVE FilesAgree(j)' /\ Accounted(j)'
  <2>1. Queueing(j) => Queueing(j)'
    BY <1>1, <1>6 DEF Queueing, At
  <2> QED BY <1>2, <1>8, <1>12, <2>1, FilesSame DEF IInv
<1>13. \A j \in Ids : Known(j) => Known(j)'
  BY <1>2, <1>7, <1>8 DEF Known
<1> QED BY <1>1, <1>6, <1>9, <1>11, <1>12, <1>13, ClientStepKeeps

LEMMA QueueKeeps ==
  ASSUME IInv, SampleConstants, NEW c \in Clients, Queue(c)
  PROVE  IInv'
<1>0. PICK i : i = client[c].id
  OBVIOUS
<1>1. /\ client \in [Clients -> Sessions] /\ client[c] \in Sessions /\ client[c].at = "queue"
      /\ i \in Ids /\ client[c].asks \in Payloads /\ client[c].asks # None
      /\ client[c].at \in Locked /\ lock = c /\ c # None
  BY <1>0 DEF IInv, ClientTyped, Queue, At, Locked, SampleConstants
<1>2. /\ UNCHANGED <<identity, order, result, history, serving, ended, cut, deaths>>
      /\ Go(c, "look") /\ pending' = [pending EXCEPT ![i] = client[c].asks] /\ lock' = None
  BY <1>0 DEF Queue, Quiet
<1>3. PICK s \in Sessions : s = [client[c] EXCEPT !.at = "look"]
  BY <1>1 DEF Sessions, Waiting
<1>4. client' = [client EXCEPT ![c] = s]
  BY <1>1, <1>2, <1>3 DEF Go
<1>5. /\ s.at = "look" /\ s.id = i /\ s.asks = client[c].asks /\ s.todo = client[c].todo
      /\ s.at \notin Locked
  BY <1>0, <1>1, <1>3 DEF Sessions, Locked, Admitting, Copying, Unlinking
<1>6. /\ ClientTyped' /\ client'[c] = s
      /\ \A d \in Clients \ {c} : client'[d] = client[d]
  <2>1. \A d \in Clients \ {c} : lock' = d <=> lock = d
    BY <1>1, <1>2 DEF SampleConstants
  <2>2. lock' = c <=> s.at \in Locked
    BY <1>1, <1>2, <1>5
  <2> QED BY <1>1, <1>4, <1>5, <2>1, <2>2, Moves DEF IInv
<1>7. identity[i] = client[c].asks /\ history[i] = None /\ FilesAgree(i)
  BY <1>0, <1>1 DEF IInv, Knows, At
<1>8. /\ pending' \in [Ids -> Payloads \cup {None}] /\ pending'[i] = client[c].asks
      /\ \A j \in Ids \ {i} : pending'[j] = pending[j]
  BY <1>1, <1>2 DEF IInv, TypeOK
<1>9. TypeOK'
  BY <1>2, <1>8 DEF IInv, TypeOK, Has
<1>10. FilesAgree(i)' /\ Accounted(i)'
  <2>1. PICK p : Says(i, p)
    BY <1>7 DEF FilesAgree
  <2>2. p = client[c].asks
    BY <1>1, <1>7, <2>1 DEF Says
  <2>3. Says(i, p)'
    BY <1>2, <1>7, <1>8, <2>1, <2>2 DEF Says
  <2>4. ~ Kept(i)' /\ Known(i)'
    BY <1>1, <1>2, <1>7 DEF Kept, Known
  <2> QED BY <1>1, <1>2, <1>7, <1>8, <2>3, <2>4 DEF FilesAgree, Accounted
<1>11. \A d \in Clients \ {c} : client[d].at # "queue"
  BY <1>1, OthersWait DEF IInv, Locked
<1>12. ASSUME NEW j \in Ids, j # i PROVE FilesAgree(j)' /\ Accounted(j)'
  <2>1. Queueing(j) => Queueing(j)'
    BY <1>0, <1>6, <1>11, <1>12 DEF Queueing, At
  <2> QED BY <1>2, <1>8, <1>12, <2>1, FilesSame DEF IInv
<1>13. Known(client[c].id)' /\ ~ Queueing(client[c].id)'
  <2>1. Known(i)' /\ client'[c].id = i
    BY <1>1, <1>2, <1>5, <1>6, <1>7 DEF Known
  <2>2. \A d \in Clients : client'[d].at # "queue"
    BY <1>5, <1>6, <1>11
  <2> QED BY <2>1, <2>2 DEF Known, Queueing, At
<1>14. Knows(c)' /\ Retiring(c)' /\ ~ At(c, "queue")'
  BY <1>5, <1>6, <1>13, Outside DEF Waiting, At
<1>15. \A j \in Ids : Known(j) => Known(j)'
  BY <1>2 DEF Known
<1> QED BY <1>1, <1>6, <1>9, <1>10, <1>12, <1>14, <1>15, ClientStepKeeps

\* The history of h with one copy torn.
Tears(copies, h, name) == copies = [Copies(h) EXCEPT ![name] = Torn]

\* A copy that is torn was not there, and is not taken for one later.
LEMMA TornKeeps ==
  ASSUME IInv, SampleConstants, NEW c \in Clients, client[c].at \in Copying,
         NEW h, h = Head(client[c].todo),
         NEW name, name \in {"request", "result", "receipt"}, Copies(h)[name] = None, name = "result" => result[h] # None,
         NEW copies, Tears(copies, h, name),
         history' = [history EXCEPT ![h] = copies],
         UNCHANGED <<identity, pending, result, serving>>, cut \subseteq cut'
  PROVE  FilesAgree(h)' /\ Accounted(h)' /\ Known(h)' /\ copies \in Histories
<1>1. /\ h \in Ids /\ identity[h] # None /\ pending[h] = None /\ Known(h)
  BY Retired DEF Copying, Unlinking
<1>2. history \in [Ids -> Histories \cup {None}] /\ Copies(h) \in Histories
  BY <1>1, CopyTyped DEF IInv, TypeOK
<1>3. FilesAgree(h) /\ ~ Kept(h)
  BY <1>1 DEF IInv, Retiring
<1>4. PICK r \in Histories : r = [Copies(h) EXCEPT ![name] = Torn] /\ r = copies
  <2>1. CASE name = "request"
    BY <1>1, <2>1, CopyTyped DEF IInv, Tears
  <2>2. CASE name = "result"
    BY <1>1, <2>2, CopyTyped DEF IInv, Tears
  <2>3. CASE name = "receipt"
    BY <1>1, <2>3, CopyTyped DEF IInv, Tears
  <2> QED BY <2>1, <2>2, <2>3
<1>5. /\ r.request = IF name = "request" THEN Torn ELSE Copies(h).request
      /\ r.result = IF name = "result" THEN Torn ELSE Copies(h).result
      /\ r.receipt = IF name = "receipt" THEN Torn ELSE Copies(h).receipt
      /\ r # None
  BY <1>2, <1>4 DEF Histories, SampleConstants
<1>6. /\ history' = [history EXCEPT ![h] = r] /\ history'[h] = r
  BY <1>1, <1>2, <1>4
<1>7. /\ history[h] # None => Copies(h) = history[h]
      /\ history[h] = None => /\ Copies(h).result = None /\ Copies(h).receipt # "done"
                              /\ Copies(h).request = None
  BY DEF Copies, NoCopies, SampleConstants
<1>8. ~ Kept(h)' /\ Known(h)'
  BY <1>1, <1>3, <1>5, <1>6, <1>7 DEF Kept, Known, SampleConstants
<1>9. FilesAgree(h)'
  <2>1. PICK p : Says(h, p)
    BY <1>3 DEF FilesAgree
  <2>2. Says(h, p)'
    BY <1>5, <1>6, <1>7, <2>1 DEF Says, SampleConstants
  <2>3. history'[h].result # None => result'[h] # None
    BY <1>3, <1>5, <1>6, <1>7 DEF FilesAgree
  <2> QED BY <1>1, <1>3, <1>5, <1>6, <1>8, <2>2, <2>3 DEF FilesAgree
<1>10. Accounted(h)'
  <2>1. \/ result[h] # None
        \/ history[h] # None /\ history[h].result # None
        \/ h \in cut
    BY <1>1, Answered DEF Copying, Unlinking
  <2> QED BY <1>5, <1>6, <1>7, <2>1 DEF Accounted, SampleConstants
<1> QED BY <1>4, <1>8, <1>9, <1>10

LEMMA WritingCopies ==
  ASSUME NEW c \in Clients, NEW name \in {"request", "result", "receipt"}, At(c, Writing[name])
  PROVE  client[c].at \in Copying
<1>1. CASE name = "request"
  BY <1>1 DEF At, Writing, Copying
<1>2. CASE name = "result"
  BY <1>2 DEF At, Writing, Copying
<1>3. CASE name = "receipt"
  BY <1>3 DEF At, Writing, Copying
<1> QED BY <1>1, <1>2, <1>3

\* A death: what the client was about to queue is counted as cut short.
LEMMA ClientDiesKeeps ==
  ASSUME IInv, SampleConstants, NEW c \in Clients, ClientDies(c)
  PROVE  IInv'
<1>1. PICK s \in Sessions : s = Idle
  BY IdleSession
<1>2. client' = [client EXCEPT ![c] = s] /\ s.at = "idle"
  BY <1>1, IdleSession DEF ClientDies, Leave
<1>3. s.at \notin Locked
  BY <1>2 DEF Locked, Admitting, Copying, Unlinking
<1>4. /\ lock' \in Clients \cup {None} /\ lock' # c
      /\ \A d \in Clients \ {c} : lock' = d <=> lock = d
  BY DEF ClientDies, SampleConstants, IInv, TypeOK
<1>5. /\ ClientTyped' /\ client'[c] = s
      /\ \A d \in Clients \ {c} : client'[d] = client[d]
  BY <1>2, <1>3, <1>4, Moves DEF IInv
<1>6. Knows(c)' /\ Retiring(c)' /\ ~ At(c, "queue")'
  BY <1>2, <1>5, Outside DEF Waiting, At
<1>7. /\ UNCHANGED <<identity, order, pending, result, serving, ended>>
      /\ cut' = IF At(c, "queue") THEN cut \cup {client[c].id} ELSE cut
      /\ Fault
  BY DEF ClientDies
<1>8. cut \subseteq cut' /\ cut' \subseteq Ids /\ deaths' \in 0 .. MaxDeaths
  BY <1>7 DEF IInv, TypeOK, ClientTyped, At, Fault, SampleConstants
<1>9. ASSUME NEW i \in Ids PROVE Queueing(i) => Queueing(i)' \/ i \in cut'
  BY <1>5, <1>7 DEF Queueing, At
<1>10. ASSUME NEW i \in Ids, history'[i] = history[i] PROVE FilesAgree(i)' /\ Accounted(i)'
  <2>1. FilesAgree(i) /\ Accounted(i)
    BY DEF IInv
  <2>2. FilesAgree(i)'
    BY <1>7, <1>10, <2>1 DEF FilesAgree, Says, Kept, Known
  <2>3. Accounted(i)'
    BY <1>7, <1>8, <1>9, <1>10, <2>1 DEF Accounted, Known
  <2> QED BY <2>2, <2>3
<1>11. CASE UNCHANGED history
  <2>1. TypeOK'
    BY <1>4, <1>7, <1>8, <1>11 DEF IInv, TypeOK, Has
  <2>2. \A i \in Ids : FilesAgree(i)' /\ Accounted(i)'
    BY <1>10, <1>11
  <2>3. UNCHANGED files /\ \A i \in Ids : Known(i) => Known(i)'
    BY <1>7, <1>11 DEF files, Known
  <2> QED BY <1>5, <1>6, <2>1, <2>2, <2>3, ClientStepKeeps
<1>12. ASSUME NEW h, h = Head(client[c].todo), NEW name \in {"request", "result", "receipt"},
              At(c, Writing[name]), name = "result" => result[h] # None, Copies(h)[name] = None,
              history' = [history EXCEPT ![h] = [Copies(h) EXCEPT ![name] = Torn]]
       PROVE  IInv'
  <2>1. client[c].at \in Copying /\ client[c].at \in Locked
    BY <1>12, WritingCopies DEF Locked, Admitting
  <2>2. /\ history' \in [Ids -> Histories \cup {None}]
        /\ \A i \in Ids \ {h} : history'[i] = history[i]
        /\ FilesAgree(h)' /\ Accounted(h)' /\ Known(h)' /\ h \in Ids
    <3>1. UNCHANGED <<identity, pending, result, serving>> /\ cut \subseteq cut'
      BY <1>7, <1>8
    <3>2. PICK copies : Tears(copies, h, name)
      BY DEF Tears
    <3>3. history' = [history EXCEPT ![h] = copies]
      BY <1>12, <3>2 DEF Tears
    <3>4. h = Head(client[c].todo) /\ Copies(h)[name] = None /\ (name = "result" => result[h] # None)
      BY <1>12
    <3> HIDE <1>12
    <3>5. FilesAgree(h)' /\ Accounted(h)' /\ Known(h)' /\ copies \in Histories
      BY <2>1, <3>1, <3>2, <3>3, <3>4, TornKeeps
    <3>6. h \in Ids /\ history \in [Ids -> Histories \cup {None}]
      BY <2>1, <3>4, Retired DEF IInv, TypeOK
    <3> QED BY <3>3, <3>5, <3>6
  <2>3. TypeOK'
    BY <1>4, <1>7, <1>8, <2>2 DEF IInv, TypeOK, Has
  <2>4. ASSUME NEW i \in Ids PROVE FilesAgree(i)' /\ Accounted(i)' /\ (Known(i) => Known(i)')
    <3>1. CASE i = h
      BY <2>2, <3>1
    <3>2. CASE i # h
      <4>1. history'[i] = history[i] /\ (Known(i) => Known(i)')
        BY <1>7, <2>2, <3>2 DEF Known
      <4> QED BY <1>10, <4>1
    <3> QED BY <3>1, <3>2
  <2> QED BY <1>5, <1>6, <2>1, <2>3, <2>4, ClientStepKeeps
<1>13. \/ UNCHANGED history
       \/ \E name \in {"request", "result", "receipt"} :
            LET h == Head(client[c].todo)
            IN /\ At(c, Writing[name]) /\ (name = "result" => result[h] # None)
               /\ Copies(h)[name] = None
               /\ history' = [history EXCEPT ![h] = [Copies(h) EXCEPT ![name] = Torn]]
  BY DEF ClientDies
<1> QED BY <1>11, <1>12, <1>13

-----------------------------------------------------------------------------
(* The worker.                                                             *)

\* A step of the worker: a request that is pending is answered or leaves.
LEMMA WorkerStepKeeps ==
  ASSUME IInv, SampleConstants, TypeOK', UNCHANGED <<identity, order, history, client, lock, cut>>,
         \A i \in Ids : pending[i] = None => pending'[i] = None /\ result'[i] = result[i],
         \A i \in Ids : FilesAgree(i)' /\ Accounted(i)'
  PROVE  IInv'
<1>1. ClientTyped'
  BY DEF IInv, ClientTyped, At
<1>2. \A i : Known(i)' = Known(i) /\ Kept(i)' = Kept(i) /\ Queueing(i)' = Queueing(i)
  BY DEF Known, Kept, Queueing, At
<1>3. \A s : Agenda(s)' = Agenda(s)
  BY DEF Agenda
<1>4. ASSUME NEW c \in Clients PROVE Knows(c)' /\ Retiring(c)'
  <2>1. Knows(c)'
    BY <1>2 DEF IInv, Knows, At
  <2>2. Retiring(c) /\ client'[c] = client[c]
    BY DEF IInv
  <2>3. PICK h : h = Head(client[c].todo)
    OBVIOUS
  <2>4. client[c].at \in Copying \cup {"unlink request"} => h \in Ids /\ pending[h] = None
    BY <2>3, Retired DEF Copying, Unlinking
  <2>5. client[c].at \in Copying \cup {"unlink request"} => pending'[h] = None /\ result'[h] = result[h]
    BY <2>4
  <2>6. Retiring(c)'
    BY <1>2, <1>3, <2>2, <2>3, <2>5 DEF Retiring, At, Copying
  <2> QED BY <2>1, <2>6
<1> QED BY <1>1, <1>4 DEF IInv

\* The files of an id the worker does not touch.
LEMMA Untouched ==
  ASSUME IInv, NEW i \in Ids, UNCHANGED <<identity, history, client, cut>>,
         pending'[i] = pending[i], result'[i] = result[i], serving' # i \/ serving = i
  PROVE  FilesAgree(i)' /\ Accounted(i)'
<1>1. FilesAgree(i) /\ Accounted(i)
  BY DEF IInv
<1>2. FilesAgree(i)'
  BY <1>1 DEF FilesAgree, Says, Kept, Known
<1>3. Accounted(i)'
  BY <1>1 DEF Accounted, Known, Queueing, At
<1> QED BY <1>2, <1>3

LEMMA ServeKeeps ==
  ASSUME IInv, SampleConstants, NEW i \in Ids, Serve(i)
  PROVE  IInv'
<1>1. /\ UNCHANGED <<identity, order, pending, history, client, lock, ended, cut>>
      /\ serving = None /\ pending[i] # None
  BY DEF Serve
<1>2. CASE Fault /\ UNCHANGED <<result, serving>>
  <2>1. TypeOK'
    BY <1>1, <1>2 DEF IInv, TypeOK, Has, Fault, SampleConstants
  <2>2. \A j \in Ids : FilesAgree(j)' /\ Accounted(j)'
    BY <1>1, <1>2, Untouched
  <2> QED BY <1>1, <1>2, <2>1, <2>2, WorkerStepKeeps
<1>3. ASSUME NEW v \in Views, serving' = i, UNCHANGED deaths,
             result' = [result EXCEPT ![i] = [payload |-> pending[i], view |-> v]]
      PROVE  IInv'
  <2>1. pending[i] \in Payloads
    BY <1>1 DEF IInv, TypeOK
  <2>2. PICK a \in Answers : a = [payload |-> pending[i], view |-> v]
    BY <2>1 DEF Answers
  <2>3. a.payload = pending[i] /\ a # None
    BY <2>2 DEF SampleConstants
  <2>4. /\ result' \in [Ids -> Answers \cup {None}] /\ result'[i] = a
        /\ \A j \in Ids \ {i} : result'[j] = result[j]
    BY <1>3, <2>2 DEF IInv, TypeOK
  <2>5. TypeOK'
    BY <1>1, <1>3, <2>4 DEF IInv, TypeOK, Has
  <2>6. FilesAgree(i) /\ ~ Kept(i) /\ history[i] = None /\ identity[i] # None
    BY <1>1 DEF IInv, FilesAgree
  <2>7. FilesAgree(i)' /\ Accounted(i)'
    <3>1. PICK p : Says(i, p)
      BY <2>6 DEF FilesAgree
    <3>2. Says(i, p)'
      BY <1>1, <2>3, <2>4, <2>6, <3>1 DEF Says
    <3>3. ~ Kept(i)' /\ Known(i)'
      BY <1>1, <2>6 DEF Kept, Known
    <3> QED BY <1>1, <2>3, <2>4, <2>6, <3>2, <3>3 DEF FilesAgree, Accounted
  <2>8. ASSUME NEW j \in Ids, j # i PROVE FilesAgree(j)' /\ Accounted(j)'
    BY <1>1, <1>3, <2>4, <2>8, Untouched
  <2>9. \A j \in Ids : pending[j] = None => pending'[j] = None /\ result'[j] = result[j]
    BY <1>1, <2>4
  <2> QED BY <1>1, <2>5, <2>7, <2>8, <2>9, WorkerStepKeeps
<1> QED BY <1>2, <1>3 DEF Serve

\* What has been answered may leave the queue.
LEMMA UnqueueKeeps == ASSUME IInv, SampleConstants, Unqueue PROVE IInv'
<1>1. /\ UNCHANGED <<identity, order, result, history, client, lock, ended, cut>>
      /\ serving # None /\ serving' = None
  BY DEF Unqueue
<1>2. PICK i \in Ids : i = serving
  BY <1>1 DEF IInv, TypeOK
<1>3. CASE Fault /\ UNCHANGED pending
  <2>1. TypeOK'
    BY <1>1, <1>3 DEF IInv, TypeOK, Has, Fault, SampleConstants
  <2>2. \A j \in Ids : FilesAgree(j)' /\ Accounted(j)'
    BY <1>1, <1>3, Untouched DEF SampleConstants
  <2> QED BY <1>1, <1>3, <2>1, <2>2, WorkerStepKeeps
<1>4. CASE pending' = [pending EXCEPT ![i] = None] /\ UNCHANGED deaths
  <2>1. /\ pending' \in [Ids -> Payloads \cup {None}] /\ pending'[i] = None
        /\ \A j \in Ids \ {i} : pending'[j] = pending[j]
    BY <1>4 DEF IInv, TypeOK
  <2>2. TypeOK'
    BY <1>1, <1>4, <2>1 DEF IInv, TypeOK, Has
  <2>3. FilesAgree(i) /\ result[i] # None /\ serving' # i
    BY <1>1, <1>2 DEF IInv, FilesAgree, SampleConstants
  <2>4. FilesAgree(i)' /\ Accounted(i)'
    <3>1. PICK p : Says(i, p)
      BY <2>3 DEF FilesAgree
    <3>2. Says(i, p)'
      BY <1>1, <2>1, <3>1 DEF Says
    <3> QED BY <1>1, <2>1, <2>3, <3>2 DEF FilesAgree, Accounted, Kept, Known
  <2>5. ASSUME NEW j \in Ids, j # i PROVE FilesAgree(j)' /\ Accounted(j)'
    BY <1>1, <2>1, <2>5, Untouched DEF SampleConstants
  <2>6. \A j \in Ids : pending[j] = None => pending'[j] = None /\ result'[j] = result[j]
    BY <1>1, <2>1
  <2> QED BY <1>1, <2>2, <2>4, <2>5, <2>6, WorkerStepKeeps
<1> QED BY <1>2, <1>3, <1>4 DEF Unqueue

LEMMA WorkerEndsKeeps == ASSUME IInv, SampleConstants, WorkerEnds PROVE IInv'
<1>1. /\ UNCHANGED <<identity, order, pending, result, history, client, lock, cut, deaths>>
      /\ serving' = None /\ ended' = TRUE
  BY DEF WorkerEnds, files
<1>2. TypeOK'
  BY <1>1 DEF IInv, TypeOK, Has
<1>3. \A i \in Ids : FilesAgree(i)' /\ Accounted(i)'
  BY <1>1, Untouched DEF SampleConstants
<1> QED BY <1>1, <1>2, <1>3, WorkerStepKeeps

-----------------------------------------------------------------------------
(* The theorems.                                                           *)

LEMMA InitKeeps == Init /\ SampleConstants => IInv
<1> SUFFICES ASSUME Init, SampleConstants PROVE IInv
  OBVIOUS
<1>1. client \in [Clients -> Sessions] /\ \A c \in Clients : client[c].at = "idle"
  BY IdleSession DEF Init
<1>2. TypeOK
  <2>1. order \in Seq(Ids) /\ IsInjective(order)
    BY DEF Init, IsInjective
  <2>2. ToSet(order) = {} /\ Has(identity) = {}
    BY DEF Init, ToSet, Has
  <2>3. deaths \in 0 .. MaxDeaths
    BY DEF Init, SampleConstants
  <2> QED BY <2>1, <2>2, <2>3 DEF Init, TypeOK
<1>3. ClientTyped
  BY <1>1 DEF Init, ClientTyped, At, SampleConstants, Locked, Admitting, Copying, Unlinking
<1>4. ASSUME NEW i \in Ids PROVE FilesAgree(i) /\ Accounted(i)
  BY DEF Init, FilesAgree, Accounted, Says, Known, Kept, SampleConstants
<1>5. ASSUME NEW c \in Clients PROVE Knows(c) /\ Retiring(c)
  BY <1>1 DEF Knows, Retiring, At, Admitting, Copying, Unlinking, Waiting
<1> QED BY <1>2, <1>3, <1>4, <1>5 DEF IInv

LEMMA StepKeeps == IInv /\ SampleConstants /\ [Next]_vars => IInv'
<1> SUFFICES ASSUME IInv, SampleConstants, [Next]_vars PROVE IInv'
  OBVIOUS
<1>1. ASSUME NEW c \in Clients, ClientNext(c) PROVE IInv'
  BY <1>1, AskKeeps, AdmitKeeps, RollKeeps, CopyRequestKeeps, CopyResultKeeps, ReceiptKeeps,
     UnlinkRequestKeeps, UnlinkResultKeeps, ClaimKeeps, QueueKeeps, LookKeeps, InspectKeeps,
     TellKeeps, ClientDiesKeeps DEF ClientNext
<1>2. CASE WorkerNext
  BY <1>2, ServeKeeps, UnqueueKeeps, WorkerEndsKeeps DEF WorkerNext
<1>3. CASE UNCHANGED vars
  <2>1. UNCHANGED <<identity, order, pending, result, history, client, lock, serving, ended, cut, deaths>>
    BY <1>3 DEF vars, files
  <2>2. TypeOK'
    BY <2>1 DEF IInv, TypeOK, Has
  <2>3. \A i \in Ids : FilesAgree(i)' /\ Accounted(i)'
    BY <2>1, Untouched
  <2> QED BY <2>1, <2>2, <2>3, WorkerStepKeeps
<1> QED BY <1>1, <1>2, <1>3 DEF Next

\* The invariant above holds in every behaviour of clients and worker.
THEOREM Invariance == Spec => []IInv
BY InitKeeps, StepKeeps, SampleConstants, PTL DEF Spec

\* Every variable keeps to its type; the order by age lists the active
\* identities, each of them once.
THEOREM TypeCorrect == Spec => []TypeOK
BY Invariance, PTL DEF IInv

\* All that is kept about a request id is about one payload.
THEOREM OneRequestPerId == Spec => []OneRequest
<1>1. ASSUME NEW S, NEW p, S \ {None, Torn} \subseteq {p} PROVE Cardinality(S \ {None, Torn}) <= 1
  <2>1. IsFiniteSet({p}) /\ Cardinality({p}) = 1
    BY FS_Singleton
  <2>2. Cardinality(S \ {None, Torn}) <= Cardinality({p})
    BY <1>1, <2>1, FS_Subset
  <2> QED BY <2>1, <2>2
<1>2. IInv => OneRequest
  <2> SUFFICES ASSUME IInv, NEW i \in Ids
      PROVE  LET said == {identity[i], pending[i]}
                           \cup (IF result[i] = None THEN {} ELSE {result[i].payload})
                           \cup (IF history[i] = None THEN {}
                                 ELSE {history[i].request}
                                        \cup (IF history[i].result \in Answers
                                              THEN {history[i].result.payload} ELSE {}))
             IN  Cardinality(said \ {None, Torn}) <= 1
    BY DEF OneRequest
  <2>1. PICK p : Says(i, p)
    BY DEF IInv, FilesAgree
  <2> DEFINE said == {identity[i], pending[i]}
                       \cup (IF result[i] = None THEN {} ELSE {result[i].payload})
                       \cup (IF history[i] = None THEN {}
                             ELSE {history[i].request}
                                    \cup (IF history[i].result \in Answers
                                          THEN {history[i].result.payload} ELSE {}))
  <2>2. said \ {None, Torn} \subseteq {p}
    BY <2>1 DEF Says
  <2> HIDE DEF said
  <2>3. Cardinality(said \ {None, Torn}) <= 1
    BY <1>1, <2>2
  <2> QED BY <2>3 DEF said
<1> QED BY <1>2, Invariance, PTL

\* A claimed id is queued, answered, or was cut short by a death.
THEOREM NothingLostAlive == Spec => []LostOnlyByDeath
<1>1. IInv => LostOnlyByDeath
  <2> SUFFICES ASSUME IInv, NEW i \in Has(identity) \cup Has(history)
      PROVE  \/ pending[i] # None \/ result[i] # None
             \/ history[i] # None /\ history[i].result # None
             \/ i \in cut \/ \E c \in Clients : At(c, "queue") /\ client[c].id = i
    BY DEF LostOnlyByDeath
  <2>1. i \in Ids /\ Known(i)
    BY DEF Has, Known
  <2> QED BY <2>1 DEF IInv, Accounted, Queueing
<1> QED BY <1>1, Invariance, PTL

\* Only a request with a receipt loses its active files, and no step changes
\* a history that has one.
LEMMA ActiveUntilKept ==
  ASSUME IInv, SampleConstants, [Next]_vars, NEW i \in Ids
  PROVE  /\ Kept(i) => history'[i] = history[i]
         /\ identity[i] # None /\ ~ Kept(i) => identity'[i] = identity[i]
         /\ result[i] # None /\ ~ Kept(i) /\ pending[i] = None => result'[i] = result[i]
<1> DEFINE Goal == /\ Kept(i) => history'[i] = history[i]
                   /\ identity[i] # None /\ ~ Kept(i) => identity'[i] = identity[i]
                   /\ result[i] # None /\ ~ Kept(i) /\ pending[i] = None => result'[i] = result[i]
<1>1. ASSUME NEW c \in Clients, ClientNext(c) PROVE Goal
  <2>1. CASE UNCHANGED files
    BY <2>1 DEF files
  <2>2. ASSUME client[c].at \in Copying, UNCHANGED <<identity, result>>,
               NEW r, NEW h, h = Head(client[c].todo), history' = [history EXCEPT ![h] = r]
        PROVE  Goal
    <3>1. ~ Kept(h)
      BY <2>2 DEF IInv, Retiring
    <3>2. i # h => history'[i] = history[i]
      BY <2>2 DEF IInv, TypeOK
    <3> QED BY <2>2, <3>1, <3>2
  <2>3. PICK h : h = Head(client[c].todo)
    OBVIOUS
  <2>4. CASE CopyRequest(c)
    <3>1. PICK r : r = [Copies(h) EXCEPT !.request = identity[h]]
      OBVIOUS
    <3>2. client[c].at \in Copying /\ UNCHANGED <<identity, result>>
      BY <2>4 DEF CopyRequest, At, Copying
    <3>3. history' = [history EXCEPT ![h] = r] \/ UNCHANGED history
      BY <2>3, <2>4, <3>1 DEF CopyRequest, Retain
    <3> QED BY <2>2, <2>3, <3>2, <3>3
  <2>5. CASE CopyResult(c)
    <3>1. PICK r : r = [Copies(h) EXCEPT !.result = result[h]]
      OBVIOUS
    <3>2. client[c].at \in Copying /\ UNCHANGED <<identity, result>>
      BY <2>5 DEF CopyResult, At, Copying
    <3>3. history' = [history EXCEPT ![h] = r] \/ UNCHANGED history
      BY <2>3, <2>5, <3>1 DEF CopyResult, Retain
    <3> QED BY <2>2, <2>3, <3>2, <3>3
  <2>6. CASE Receipt(c)
    <3>1. PICK r : r = [history[h] EXCEPT !.receipt = "done"]
      OBVIOUS
    <3>2. client[c].at \in Copying /\ UNCHANGED <<identity, result>>
      BY <2>6 DEF Receipt, At, Copying
    <3>3. history' = [history EXCEPT ![h] = r]
      BY <2>3, <2>6, <3>1 DEF Receipt
    <3> QED BY <2>2, <2>3, <3>2, <3>3
  <2>7. CASE UnlinkRequest(c)
    <3>1. Kept(h) /\ identity' = [identity EXCEPT ![h] = None] /\ UNCHANGED <<result, history>>
      BY <2>3, <2>7 DEF UnlinkRequest, At, IInv, Retiring, Unlinking
    <3> QED BY <3>1 DEF IInv, TypeOK
  <2>8. CASE UnlinkResult(c)
    <3>1. Kept(h) /\ result' = [result EXCEPT ![h] = None] /\ UNCHANGED <<identity, history>>
      BY <2>3, <2>8 DEF UnlinkResult, At, IInv, Retiring, Unlinking
    <3> QED BY <3>1 DEF IInv, TypeOK
  <2>9. CASE Claim(c)
    <3>1. ~ Known(client[c].id) /\ UNCHANGED <<result, history>>
      BY <2>9 DEF Claim, At, IInv, Knows, Admitting
    <3>2. identity[client[c].id] = None
      BY <3>1 DEF Known
    <3>3. identity' = [identity EXCEPT ![client[c].id] = client[c].asks]
      BY <2>9 DEF Claim
    <3> QED BY <3>1, <3>2, <3>3 DEF IInv, TypeOK
  <2>10. CASE ClientDies(c)
    <3>1. UNCHANGED <<identity, result>>
      BY <2>10 DEF ClientDies
    <3>2. ASSUME NEW name \in {"request", "result", "receipt"}, At(c, Writing[name]),
                 history' = [history EXCEPT ![h] = [Copies(h) EXCEPT ![name] = Torn]]
          PROVE  Goal
      <4>1. client[c].at \in Copying
        BY <3>2, WritingCopies
      <4>2. PICK r : r = [Copies(h) EXCEPT ![name] = Torn]
        OBVIOUS
      <4>3. history' = [history EXCEPT ![h] = r]
        BY <3>2, <4>2
      <4> QED BY <2>2, <2>3, <3>1, <4>1, <4>3
    <3>3. UNCHANGED history => Goal
      BY <3>1
    <3> QED BY <2>3, <2>10, <3>2, <3>3 DEF ClientDies
  <2>11. CASE Queue(c)
    BY <2>11 DEF Queue
  <2>12. CASE (\E j \in Ids, p \in Payloads : Ask(c, j, p)) \/ Admit(c) \/ Roll(c)
                \/ Look(c) \/ Inspect(c) \/ Tell(c)
    <3>1. UNCHANGED files
      BY <2>12 DEF Ask, Admit, Roll, Look, Inspect, Tell
    <3> QED BY <2>1, <3>1
  <2> QED BY <1>1, <2>4, <2>5, <2>6, <2>7, <2>8, <2>9, <2>10, <2>11, <2>12 DEF ClientNext
<1>2. ASSUME NEW j \in Ids, Serve(j) PROVE Goal
  <2>1. UNCHANGED <<identity, history>> /\ pending[j] # None
    BY <1>2 DEF Serve
  <2>2. i # j => result'[i] = result[i]
    BY <1>2 DEF Serve, IInv, TypeOK
  <2> QED BY <2>1, <2>2
<1>3. CASE Unqueue \/ WorkerEnds
  BY <1>3 DEF Unqueue, WorkerEnds, files
<1>4. CASE UNCHANGED vars
  BY <1>4 DEF vars, files
<1> QED BY <1>1, <1>2, <1>3, <1>4 DEF Next, WorkerNext

\* The request of a known id, once claimed, and its sample, once nothing is
\* pending, never change: not by a retirement, a death, or a second attempt.
THEOREM RetirementPreserves == Spec => Preserved
<1>1. ASSUME IInv, IInv', SampleConstants, [Next]_vars, NEW i \in Ids
      PROVE  /\ Request(i) # None => Request(i)' = Request(i)
             /\ pending[i] = None /\ Sample(i) # None => Sample(i)' = Sample(i)
  <2>1. /\ Kept(i) => history'[i] = history[i]
        /\ identity[i] # None /\ ~ Kept(i) => identity'[i] = identity[i]
        /\ result[i] # None /\ ~ Kept(i) /\ pending[i] = None => result'[i] = result[i]
    BY <1>1, ActiveUntilKept
  <2>2. FilesAgree(i) /\ FilesAgree(i)'
    BY <1>1 DEF IInv
  <2>3. Kept(i) => Kept(i)'
    BY <2>1 DEF Kept
  <2>4. CASE Kept(i)
    BY <2>1, <2>3, <2>4 DEF Request, Sample
  <2>5. CASE ~ Kept(i)
    BY <2>1, <2>2, <2>5 DEF Request, Sample, FilesAgree
  <2> QED BY <2>4, <2>5
<1>2. IInv /\ IInv' /\ SampleConstants /\ [Next]_vars =>
        [\A i \in Ids : /\ Request(i) # None => Request(i)' = Request(i)
                        /\ pending[i] = None /\ Sample(i) # None => Sample(i)' = Sample(i)]_vars
  BY <1>1
<1> QED BY <1>2, Invariance, SampleConstants, PTL DEF Spec, Preserved

\* A client of a live run that is told "unavailable" finds the sample by asking
\* again, unless the request was cut short; or the sample is still the active
\* one of an id that is half retired, whose history is not to be read yet.
THEOREM UnavailableMeansLater == Spec => UnavailableIsStale
<1>1. ASSUME IInv, SampleConstants, NEW c \in Clients, NEW i, i = client[c].id,
             Tell(c), Unavailable(c), ~ client[c].over
      PROVE  i \in cut \/ Found(i) # None \/ (HalfRetired(i) /\ result[i] # None)
  <2>1. client[c].at \in Waiting /\ client[c].at # "idle"
    BY <1>1 DEF Tell, At, Waiting
  <2>2. i \in Ids /\ Known(i) /\ ~ Queueing(i) /\ pending[i] = None
    BY <1>1, <2>1 DEF IInv, ClientTyped, Knows, At, Unavailable
  <2>3. FilesAgree(i) /\ Accounted(i)
    BY <1>1, <2>2 DEF IInv
  <2>4. CASE HalfRetired(i)
    BY <2>2, <2>3, <2>4 DEF FilesAgree, Accounted, HalfRetired
  <2>5. CASE ~ HalfRetired(i)
    <3>1. Stands(i) # None
      BY <1>1, <2>2, <2>3, <2>5 DEF FilesAgree, Stands, Known, HalfRetired, SampleConstants
    <3>2. i \in cut \/ Sample(i) # None
      BY <2>2, <2>3, <2>5 DEF FilesAgree, Accounted, Sample, Known, HalfRetired, Kept
    <3> QED BY <3>1, <3>2 DEF Found
  <2> QED BY <2>4, <2>5
<1>2. IInv /\ SampleConstants =>
        [\A c \in Clients :
           LET i == client[c].id
           IN Tell(c) /\ Unavailable(c) /\ ~ client[c].over
                => i \in cut \/ Found(i) # None \/ (HalfRetired(i) /\ result[i] # None)]_vars
  BY <1>1
<1> QED BY <1>2, Invariance, SampleConstants, PTL DEF UnavailableIsStale

-----------------------------------------------------------------------------
(* The limits.                                                             *)

\* The active identities are as many as the list by age is long; what is
\* pending is among them.
LEMMA FiniteFiles ==
  ASSUME IInv
  PROVE  /\ IsFiniteSet(Has(identity)) /\ Cardinality(Has(identity)) = Len(order)
         /\ IsFiniteSet(Has(pending)) /\ Cardinality(Has(pending)) \in Nat /\ Len(order) \in Nat
<1>1. /\ order \in Seq(Ids) /\ IsInjective(order) /\ ToSet(order) = Has(identity)
      /\ Len(order) \in Nat /\ DOMAIN order = 1 .. Len(order)
  BY DEF IInv, TypeOK
<1>2. IsFiniteSet(1 .. Len(order)) /\ Cardinality(1 .. Len(order)) = Len(order)
  BY <1>1, FS_Interval
<1>3. ExistsBijection(1 .. Len(order), Has(identity))
  <2>1. order \in [1 .. Len(order) -> Has(identity)]
    BY <1>1 DEF ToSet
  <2>2. \A m, n \in 1 .. Len(order) : order[m] = order[n] => m = n
    BY <1>1 DEF IsInjective
  <2>3. \A x \in Has(identity) : \E m \in 1 .. Len(order) : order[m] = x
    BY <1>1 DEF ToSet
  <2>4. order \in Bijection(1 .. Len(order), Has(identity))
    BY <2>1, <2>2, <2>3, Fun_IsBij
  <2> QED BY <2>4 DEF ExistsBijection
<1>4. IsFiniteSet(Has(identity)) /\ Cardinality(Has(identity)) = Len(order)
  BY <1>2, <1>3, FS_Bijection
<1>5. Has(pending) \subseteq Has(identity)
  BY DEF Has, IInv, FilesAgree
<1>6. IsFiniteSet(Has(pending)) /\ Cardinality(Has(pending)) \in Nat
  BY <1>4, <1>5, FS_Subset, FS_CardinalityType
<1> QED BY <1>1, <1>4, <1>6

\* One more file, or one that was there already.
LEMMA HasOneMore ==
  ASSUME NEW f, NEW g, NEW i \in Ids, IsFiniteSet(Has(f)), g[i] # None,
         \A j \in Ids \ {i} : g[j] = f[j]
  PROVE  /\ IsFiniteSet(Has(g))
         /\ f[i] # None => Cardinality(Has(g)) = Cardinality(Has(f))
         /\ f[i] = None => Cardinality(Has(g)) = Cardinality(Has(f)) + 1
<1>1. Has(g) = Has(f) \cup {i} /\ (i \in Has(f) <=> f[i] # None)
  BY DEF Has
<1> QED BY <1>1, FS_AddElement

\* One file less.
LEMMA HasOneLess ==
  ASSUME NEW f, NEW g, NEW i \in Ids, IsFiniteSet(Has(f)), f[i] # None, g[i] = None,
         \A j \in Ids \ {i} : g[j] = f[j]
  PROVE  IsFiniteSet(Has(g)) /\ Cardinality(Has(g)) = Cardinality(Has(f)) - 1
<1>1. Has(g) = Has(f) \ {i} /\ i \in Has(f)
  BY DEF Has
<1> QED BY <1>1, FS_RemoveElement

\* The counts are numbers.
LEMMA Sizes ==
  ASSUME IInv, IsFiniteSet(Has(history))
  PROVE  /\ Cardinality(Has(pending)) \in Nat /\ Cardinality(Has(identity)) \in Nat
         /\ Cardinality(Has(history)) \in Nat
BY FiniteFiles, FS_CardinalityType

\* A step of client c under the lock: only c has to know of the room left.
LEMMA LockedStepCounts ==
  ASSUME Counted, IInv, IInv', SampleConstants, NEW c \in Clients,
         client[c].at \in Locked,
         \A d \in Clients \ {c} : client'[d] = client[d],
         Bounds', IsFiniteSet(Has(history))', Room(c)'
  PROVE  Counted'
<1>1. ASSUME NEW d \in Clients, d # c PROVE Room(d)'
  <2>1. client'[d].at \notin Locked
    BY <1>1, OthersWait DEF IInv
  <2> QED BY <2>1 DEF Room, At, Locked, Admitting, Copying, Unlinking
<1> QED BY <1>1 DEF Counted

\* A step that leaves the files alone.
LEMMA FilesStayCounted ==
  ASSUME Counted, IInv, SampleConstants, NEW c \in Clients, UNCHANGED files,
         \A d \in Clients \ {c} : client'[d] = client[d], Room(c)'
  PROVE  Counted'
<1>1. UNCHANGED <<identity, order, pending, result, history>>
  BY DEF files
<1>2. Has(pending)' = Has(pending) /\ Has(identity)' = Has(identity) /\ Has(history)' = Has(history)
  BY <1>1 DEF Has
<1>3. ASSUME NEW d \in Clients, d # c PROVE Room(d)'
  BY <1>1, <1>2, <1>3 DEF Counted, Room, Used, At
<1> QED BY <1>2, <1>3 DEF Counted, Bounds

\* A client that is outside of admission needs no room.
LEMMA NoRoom ==
  ASSUME NEW c \in Clients, client'[c].at \in {"idle", "admit"} \cup Waiting
  PROVE  Room(c)'
BY DEF Room, At, Admitting, Copying, Unlinking, Waiting

\* Where a client goes.
LEMMA Going ==
  ASSUME IInv, NEW c \in Clients, NEW at, Go(c, at)
  PROVE  client'[c].at = at /\ \A d \in Clients \ {c} : client'[d] = client[d]
<1>1. client \in [Clients -> Sessions] /\ client[c] \in Sessions
  BY DEF IInv, ClientTyped
<1> QED BY <1>1 DEF Go, Sessions

LEMMA Leaving ==
  ASSUME IInv, NEW c \in Clients, Leave(c)
  PROVE  client'[c].at = "idle" /\ \A d \in Clients \ {c} : client'[d] = client[d]
BY DEF IInv, ClientTyped, Leave, Idle

\* Where there is room, there is room for one.
LEMMA OneFits == \A a, b, m \in Nat : a + b < m => a + (b + 1) <= m /\ (a + 1) + b <= m
OBVIOUS

\* A history that gets one more copy, at the expense of the room for it.
LEMMA CopyCounts ==
  ASSUME Counted, IInv, IInv', SampleConstants, NEW c \in Clients,
         client[c].at \in Copying, NEW h \in Ids, NEW r \in Histories,
         history' = [history EXCEPT ![h] = r],
         client[c].at = "copy request" \/ history[h] # None,
         UNCHANGED <<identity, order, pending>>,
         \A d \in Clients \ {c} : client'[d] = client[d],
         client'[c].at \in {"idle", "copy result", "receipt", "unlink request"}
  PROVE  Counted'
<1>1. /\ Bounds /\ IsFiniteSet(Has(history)) /\ Room(c)
      /\ client[c].at \in Admitting /\ client[c].at \in Locked
  BY DEF Counted, Admitting, Locked
<1>0. PICK g : g = history'
  OBVIOUS
<1>2. g[h] # None /\ \A j \in Ids \ {h} : g[j] = history[j]
  <2>1. history \in [Ids -> Histories \cup {None}]
    BY DEF IInv, TypeOK
  <2>2. r # None
    BY DEF SampleConstants
  <2> QED BY <1>0, <2>1, <2>2
<1>3. /\ IsFiniteSet(Has(g))
      /\ history[h] # None => Cardinality(Has(g)) = Cardinality(Has(history))
      /\ history[h] = None => Cardinality(Has(g)) = Cardinality(Has(history)) + 1
  BY <1>1, <1>2, HasOneMore
<1>4. /\ Cardinality(Has(pending)) \in Nat /\ Cardinality(Has(identity)) \in Nat
      /\ Cardinality(Has(history)) \in Nat
  BY <1>1, Sizes
<1>5. Has(pending)' = Has(pending) /\ Has(identity)' = Has(identity) /\ Has(history)' = Has(g)
  BY <1>0 DEF Has
<1>6. Cardinality(Has(identity)) + Cardinality(Has(g)) <= MaxRequests
  <2>1. CASE history[h] # None
    BY <1>1, <1>3, <2>1 DEF Bounds
  <2>2. CASE history[h] = None
    <3>1. Cardinality(Has(identity)) + Cardinality(Has(history)) < MaxRequests
      BY <1>1, <2>2 DEF Room, Used
    <3>2. Cardinality(Has(g)) = Cardinality(Has(history)) + 1
      BY <1>3, <2>2
    <3> QED BY <1>4, <3>1, <3>2, OneFits DEF SampleConstants
  <2> QED BY <2>1, <2>2
<1>7. Bounds'
  BY <1>1, <1>5, <1>6 DEF Bounds
<1>8. Room(c)'
  BY <1>1, <1>5 DEF Room, At, Admitting, Copying, Unlinking
<1> QED BY <1>1, <1>3, <1>5, <1>7, <1>8, LockedStepCounts

LEMMA OneLess == \A a, b, m, w \in Nat : a # 0 /\ a <= w /\ a + b <= m => a - 1 <= w /\ (a - 1) + b < m
OBVIOUS

\* What is known of the room as soon as a client is admitted.
LEMMA RoomNow ==
  ASSUME Counted, IInv, SampleConstants, NEW c \in Clients
  PROVE  /\ Bounds /\ IsFiniteSet(Has(history)) /\ Room(c)
         /\ Cardinality(Has(pending)) \in Nat /\ Cardinality(Has(identity)) \in Nat
         /\ Cardinality(Has(history)) \in Nat /\ QueueLimit \in Nat /\ Window \in Nat
         /\ MaxRequests \in Nat /\ Len(order) \in Nat
<1>1. Bounds /\ IsFiniteSet(Has(history)) /\ Room(c)
  BY DEF Counted
<1> QED BY <1>1, Sizes, FiniteFiles DEF SampleConstants

\* The retired request gives its room back.
LEMMA UnlinkRequestCounts ==
  ASSUME Counted, IInv, IInv', SampleConstants, NEW c \in Clients, UnlinkRequest(c)
  PROVE  Counted'
<1>0. PICK h, g : h = Head(client[c].todo) /\ g = identity'
  OBVIOUS
<1>1. /\ client[c].at = "unlink request" /\ client[c].at \in Copying \cup Unlinking
      /\ client[c].at \in Admitting
      /\ identity' = [identity EXCEPT ![h] = None] /\ UNCHANGED <<pending, history>>
      /\ Go(c, "unlink result")
  BY <1>0 DEF UnlinkRequest, At, Unlinking, Admitting
<1>2. h \in Ids /\ identity[h] # None /\ client[c].at \in Locked
  BY <1>0, <1>1, Retired
<1>3. g[h] = None /\ \A j \in Ids \ {h} : g[j] = identity[j]
  <2>1. identity \in [Ids -> Payloads \cup {None}]
    BY DEF IInv, TypeOK
  <2> QED BY <1>0, <1>1, <1>2, <2>1
<1>4. IsFiniteSet(Has(g)) /\ Cardinality(Has(g)) = Cardinality(Has(identity)) - 1
  BY <1>2, <1>3, FiniteFiles, HasOneLess
<1>5. Has(identity)' = Has(g) /\ Has(pending)' = Has(pending) /\ Has(history)' = Has(history)
  BY <1>0, <1>1 DEF Has
<1>6. Cardinality(Has(identity)) # 0
  <2>1. Has(identity) # {}
    BY <1>2 DEF Has
  <2> QED BY <2>1, FiniteFiles, FS_EmptySet
<1>7. Cardinality(Has(g)) <= Window /\ Cardinality(Has(g)) + Cardinality(Has(history)) < MaxRequests
  BY <1>4, <1>6, RoomNow, OneLess DEF Bounds
<1>8. Cardinality(Has(g)) \in Nat
  BY <1>4, FS_CardinalityType
<1>9. /\ client'[c].at = "unlink result"
      /\ \A d \in Clients \ {c} : client'[d] = client[d]
  BY <1>1, Going
<1>10. Bounds'
  <2>1. Cardinality(Has(g)) + Cardinality(Has(history)) <= MaxRequests
    BY <1>7, <1>8, RoomNow
  <2> QED BY <1>5, <1>7, <2>1, RoomNow DEF Bounds
<1>11. Room(c)'
  <2>1. Cardinality(Has(pending)) < QueueLimit
    BY <1>1, RoomNow DEF Room
  <2> QED BY <1>5, <1>7, <1>9, <2>1 DEF Room, Used, At, Admitting, Copying, Unlinking
<1> QED BY <1>2, <1>5, <1>9, <1>10, <1>11, RoomNow, LockedStepCounts

LEMMA UnlinkResultCounts ==
  ASSUME Counted, IInv, IInv', SampleConstants, NEW c \in Clients, UnlinkResult(c)
  PROVE  Counted'
<1>1. /\ client[c].at = "unlink result" /\ client[c].at \in Admitting /\ client[c].at \in Locked
      /\ UNCHANGED <<identity, pending, history>>
  BY DEF UnlinkResult, At, Unlinking, Admitting, Locked
<1>2. client'[c].at = "roll" /\ \A d \in Clients \ {c} : client'[d] = client[d]
  <2>1. client \in [Clients -> Sessions] /\ client[c] \in Sessions
    BY DEF IInv, ClientTyped
  <2> QED BY <2>1 DEF UnlinkResult, Sessions
<1>3. Has(pending)' = Has(pending) /\ Has(identity)' = Has(identity) /\ Has(history)' = Has(history)
  BY <1>1 DEF Has
<1>4. Cardinality(Has(pending)) < QueueLimit /\ Used < MaxRequests
  BY <1>1, RoomNow DEF Room
<1>5. Room(c)'
  BY <1>2, <1>3, <1>4 DEF Room, Used, At
<1>6. Bounds' /\ IsFiniteSet(Has(history))'
  BY <1>3, RoomNow DEF Bounds
<1> QED BY <1>1, <1>2, <1>5, <1>6, LockedStepCounts

\* The claim takes the room that the last look at the window has found.
LEMMA ClaimCounts ==
  ASSUME Counted, IInv, IInv', SampleConstants, NEW c \in Clients, Claim(c)
  PROVE  Counted'
<1>0. PICK i, g : i = client[c].id /\ g = identity'
  OBVIOUS
<1>1. /\ client[c].at = "claim" /\ client[c].at \in Admitting /\ client[c].at \in Locked
      /\ identity' = [identity EXCEPT ![i] = client[c].asks] /\ UNCHANGED <<pending, history>>
      /\ Go(c, "queue")
  BY <1>0 DEF Claim, At, Admitting, Locked
<1>2. i \in Ids /\ client[c].asks # None /\ ~ Known(i)
  BY <1>0, <1>1 DEF IInv, ClientTyped, Knows, At, SampleConstants
<1>3. g[i] # None /\ identity[i] = None /\ \A j \in Ids \ {i} : g[j] = identity[j]
  BY <1>0, <1>1, <1>2 DEF IInv, TypeOK, Known
<1>4. Cardinality(Has(g)) = Cardinality(Has(identity)) + 1
  BY <1>2, <1>3, FiniteFiles, HasOneMore
<1>5. Has(identity)' = Has(g) /\ Has(pending)' = Has(pending) /\ Has(history)' = Has(history)
  BY <1>0, <1>1 DEF Has
<1>6. /\ Cardinality(Has(identity)) < Window /\ Used < MaxRequests
      /\ Cardinality(Has(pending)) < QueueLimit
  BY <1>1, RoomNow, FiniteFiles DEF Room, At
<1>7. Cardinality(Has(g)) <= Window
  BY <1>4, <1>6, RoomNow
<1>8. Cardinality(Has(g)) + Cardinality(Has(history)) <= MaxRequests
  <2>1. Cardinality(Has(identity)) + Cardinality(Has(history)) < MaxRequests
    BY <1>6 DEF Used
  <2> QED BY <1>4, <2>1, RoomNow, OneFits
<1>9. client'[c].at = "queue" /\ \A d \in Clients \ {c} : client'[d] = client[d]
  BY <1>1, Going
<1>10. Bounds'
  BY <1>5, <1>7, <1>8, RoomNow DEF Bounds
<1>11. Room(c)'
  BY <1>5, <1>6, <1>9 DEF Room, At
<1> QED BY <1>1, <1>5, <1>9, <1>10, <1>11, RoomNow, LockedStepCounts

LEMMA QueueCounts ==
  ASSUME Counted, IInv, IInv', SampleConstants, NEW c \in Clients, Queue(c)
  PROVE  Counted'
<1>0. PICK i, g : i = client[c].id /\ g = pending'
  OBVIOUS
<1>1. /\ client[c].at = "queue" /\ client[c].at \in Locked
      /\ pending' = [pending EXCEPT ![i] = client[c].asks] /\ UNCHANGED <<identity, history>>
      /\ Go(c, "look")
  BY <1>0 DEF Queue, At, Locked
<1>2. i \in Ids /\ client[c].asks # None
  BY <1>0, <1>1 DEF IInv, ClientTyped, At, SampleConstants
<1>3. g[i] # None /\ \A j \in Ids \ {i} : g[j] = pending[j]
  BY <1>0, <1>1, <1>2 DEF IInv, TypeOK
<1>4. Cardinality(Has(pending)) < QueueLimit
  BY <1>1, RoomNow DEF Room
<1>5. Cardinality(Has(g)) <= QueueLimit
  <2>1. /\ pending[i] # None => Cardinality(Has(g)) = Cardinality(Has(pending))
        /\ pending[i] = None => Cardinality(Has(g)) = Cardinality(Has(pending)) + 1
    BY <1>2, <1>3, FiniteFiles, HasOneMore
  <2> QED BY <1>4, <2>1, RoomNow
<1>6. Has(pending)' = Has(g) /\ Has(identity)' = Has(identity) /\ Has(history)' = Has(history)
  BY <1>0, <1>1 DEF Has
<1>7. client'[c].at = "look" /\ \A d \in Clients \ {c} : client'[d] = client[d]
  BY <1>1, Going
<1>8. Bounds'
  BY <1>5, <1>6, RoomNow DEF Bounds
<1>9. Room(c)'
  BY <1>7, NoRoom DEF Waiting
<1> QED BY <1>1, <1>6, <1>7, <1>8, <1>9, RoomNow, LockedStepCounts

\* Queue, window and run have room for what an admission puts into them.
LEMMA ClientCounts ==
  ASSUME Counted, IInv, IInv', SampleConstants, NEW c \in Clients, ClientNext(c)
  PROVE  Counted'
<1>1. Bounds /\ IsFiniteSet(Has(history)) /\ Room(c)
  BY RoomNow
<1>2. /\ Cardinality(Has(pending)) \in Nat /\ Cardinality(Has(identity)) \in Nat
      /\ Cardinality(Has(history)) \in Nat /\ QueueLimit \in Nat /\ MaxRequests \in Nat
  BY RoomNow
<1>3. client \in [Clients -> Sessions] /\ client[c] \in Sessions
  BY DEF IInv, ClientTyped
<1>4. CASE Leave(c) /\ UNCHANGED files
  BY <1>4, Leaving, NoRoom, FilesStayCounted
<1>5. ASSUME NEW at, Go(c, at), at \in {"look", "inspect", "tell"}, UNCHANGED files
      PROVE  Counted'
  BY <1>5, Going, NoRoom, FilesStayCounted DEF Waiting
<1>6. ASSUME NEW i \in Ids, NEW p \in Payloads, Ask(c, i, p) PROVE Counted'
  <2>1. client'[c].at = "admit" /\ \A d \in Clients \ {c} : client'[d] = client[d]
    BY <1>3, <1>6 DEF Ask, Sessions
  <2> QED BY <1>6, <2>1, NoRoom, FilesStayCounted DEF Ask
<1>7. CASE Admit(c)
  <2>1. UNCHANGED <<identity, order, pending, result, history>>
    BY <1>7 DEF Admit, files
  <2>2. CASE client' = [client EXCEPT ![c].at = "look",
                                      ![c].path = IF Kept(client[c].id) THEN "history" ELSE "active"]
    <3>1. client'[c].at = "look" /\ \A d \in Clients \ {c} : client'[d] = client[d]
      BY <1>3, <2>2 DEF Sessions
    <3> QED BY <2>1, <3>1, NoRoom, FilesStayCounted DEF Waiting, files
  <2>3. CASE /\ ~ Full
             /\ ~ (Cardinality(Has(identity)) + Cardinality(Has(history)) >= MaxRequests)
             /\ client' = [client EXCEPT ![c].at = "roll", ![c].todo = order]
    <3>1. client'[c].at = "roll" /\ \A d \in Clients \ {c} : client'[d] = client[d]
      BY <1>3, <2>3 DEF Sessions
    <3>2. Cardinality(Has(pending)) < QueueLimit /\ Used < MaxRequests
      BY <1>2, <2>3 DEF Full, Used
    <3>3. Room(c)'
      BY <2>1, <3>1, <3>2 DEF Room, Used, Has, At
    <3> QED BY <2>1, <3>1, <3>3, FilesStayCounted DEF files
  <2> QED BY <1>4, <1>7, <2>2, <2>3 DEF Admit
<1>8. CASE Roll(c)
  <2>1. /\ UNCHANGED <<identity, order, pending, result, history>>
        /\ client[c].at = "roll" /\ client[c].at \in Admitting
    BY <1>8 DEF Roll, files, At, Admitting
  <2>2. Cardinality(Has(pending)) < QueueLimit /\ Used < MaxRequests
    BY <1>1, <2>1 DEF Room
  <2>3. ASSUME client'[c].at \in {"roll", "copy request", "unlink request"}
                 \/ (client'[c].at = "claim" /\ Len(order) < Window),
               \A d \in Clients \ {c} : client'[d] = client[d]
        PROVE  Counted'
    <3>1. Room(c)'
      BY <2>1, <2>2, <2>3 DEF Room, Used, Has, At
    <3> QED BY <2>1, <2>3, <3>1, FilesStayCounted DEF files
  <2>4. CASE client' = [client EXCEPT ![c].todo = Tail(@)]
    <3>1. client'[c].at = "roll" /\ \A d \in Clients \ {c} : client'[d] = client[d]
      BY <1>3, <2>1, <2>4 DEF Sessions
    <3> QED BY <2>3, <3>1
  <2>5. ASSUME NEW at \in {"copy request", "unlink request"}, Go(c, at) PROVE Counted'
    BY <2>3, <2>5, Going
  <2>6. CASE Go(c, "claim") /\ Len(order) < Window
    BY <2>3, <2>6, Going
  <2> QED BY <1>4, <1>8, <2>4, <2>5, <2>6 DEF Roll
<1>9. PICK h : h = Head(client[c].todo)
  OBVIOUS
<1>10. ASSUME client[c].at \in Copying
       PROVE  h \in Ids /\ (client[c].at # "copy request" => history[h] # None)
  <2>1. h \in Ids
    BY <1>9, <1>10, Retired
  <2>2. client[c].at # "copy request" => client[c].at \in {"copy result", "receipt"}
    BY <1>10 DEF Copying
  <2>3. client[c].at # "copy request" => history[h] # None
    BY <1>9, <2>2 DEF IInv, Retiring
  <2> QED BY <2>1, <2>3
<1>11. CASE CopyRequest(c)
  <2>1. client[c].at = "copy request" /\ client[c].at \in Copying
        /\ UNCHANGED <<identity, order, pending, result>>
    BY <1>11 DEF CopyRequest, At, Copying
  <2>2. h \in Ids /\ identity[h] \in Payloads
    BY <1>9, <2>1, Retired DEF IInv, TypeOK
  <2>3. PICK r \in Histories : r = [Copies(h) EXCEPT !.request = identity[h]]
    BY <2>2, CopyTyped DEF IInv
  <2>4. CASE history' = [history EXCEPT ![h] = r] /\ Go(c, "copy result")
    BY <2>1, <2>2, <2>4, Going, CopyCounts
  <2>5. CASE Leave(c) /\ UNCHANGED history
    BY <1>4, <2>1, <2>5 DEF files
  <2> QED BY <1>9, <1>11, <2>3, <2>4, <2>5 DEF CopyRequest, Retain
<1>12. CASE CopyResult(c)
  <2>1. client[c].at = "copy result" /\ client[c].at \in Copying
        /\ UNCHANGED <<identity, order, pending, result>>
    BY <1>12 DEF CopyResult, At, Copying
  <2>2. h \in Ids /\ history[h] # None /\ result[h] \in Answers \cup {None}
    BY <1>10, <2>1 DEF IInv, TypeOK
  <2>3. PICK r \in Histories : r = [Copies(h) EXCEPT !.result = result[h]]
    BY <2>2, CopyTyped DEF IInv
  <2>4. CASE history' = [history EXCEPT ![h] = r] /\ Go(c, "receipt")
    BY <2>1, <2>2, <2>4, Going, CopyCounts
  <2>5. CASE Leave(c) /\ UNCHANGED history
    BY <1>4, <2>1, <2>5 DEF files
  <2> QED BY <1>9, <1>12, <2>3, <2>4, <2>5 DEF CopyResult, Retain
<1>13. CASE Receipt(c)
  <2>1. client[c].at = "receipt" /\ client[c].at \in Copying
        /\ UNCHANGED <<identity, order, pending, result>> /\ Go(c, "unlink request")
    BY <1>13 DEF Receipt, At, Copying
  <2>2. h \in Ids /\ history[h] # None /\ Copies(h) = history[h]
    BY <1>10, <2>1 DEF Copies
  <2>3. PICK r \in Histories : r = [Copies(h) EXCEPT !.receipt = "done"]
    BY <2>2, CopyTyped DEF IInv
  <2>4. history' = [history EXCEPT ![h] = r]
    BY <1>9, <1>13, <2>2, <2>3 DEF Receipt
  <2> QED BY <2>1, <2>2, <2>4, Going, CopyCounts
<1>14. CASE ClientDies(c)
  <2>1. Leave(c) /\ UNCHANGED <<identity, order, pending, result>>
    BY <1>14 DEF ClientDies
  <2>2. ASSUME NEW name \in {"request", "result", "receipt"}, At(c, Writing[name]),
               history' = [history EXCEPT ![h] = [Copies(h) EXCEPT ![name] = Torn]]
        PROVE  Counted'
    <3>1. client[c].at \in Copying
      BY <2>2, WritingCopies
    <3>2. h \in Ids /\ (client[c].at # "copy request" => history[h] # None)
      BY <1>10, <3>1
    <3>3. PICK r \in Histories : r = [Copies(h) EXCEPT ![name] = Torn]
      <4>1. CASE name = "request"
        BY <3>2, <4>1, CopyTyped DEF IInv
      <4>2. CASE name = "result"
        BY <3>2, <4>2, CopyTyped DEF IInv
      <4>3. CASE name = "receipt"
        BY <3>2, <4>3, CopyTyped DEF IInv
      <4> QED BY <4>1, <4>2, <4>3
    <3>4. history' = [history EXCEPT ![h] = r]
      BY <2>2, <3>3
    <3> QED BY <2>1, <3>1, <3>2, <3>4, Leaving, CopyCounts
  <2>3. UNCHANGED history => Counted'
    BY <1>4, <2>1 DEF files
  <2> QED BY <1>9, <1>14, <2>2, <2>3 DEF ClientDies
<1>15. CASE Look(c)
  BY <1>4, <1>5, <1>15 DEF Look
<1>16. CASE Inspect(c)
  <2>1. client'[c].at = "tell" /\ \A d \in Clients \ {c} : client'[d] = client[d]
    BY <1>3, <1>16 DEF Inspect, Sessions
  <2> QED BY <1>16, <2>1, NoRoom, FilesStayCounted DEF Inspect, Waiting
<1>17. CASE Tell(c)
  BY <1>4, <1>17 DEF Tell
<1> QED
  BY <1>6, <1>7, <1>8, <1>11, <1>12, <1>13, <1>14, <1>15, <1>16, <1>17, UnlinkRequestCounts,
     UnlinkResultCounts, ClaimCounts, QueueCounts DEF ClientNext

\* The worker only takes requests away.
LEMMA WorkerCounts ==
  ASSUME Counted, IInv, SampleConstants, WorkerNext \/ UNCHANGED vars
  PROVE  Counted'
<1>0. PICK g : g = pending'
  OBVIOUS
<1>1. UNCHANGED <<identity, order, history, client>>
  BY DEF WorkerNext, Serve, Unqueue, WorkerEnds, vars, files
<1>2. Has(g) \subseteq Has(pending)
  BY <1>0 DEF WorkerNext, Serve, Unqueue, WorkerEnds, vars, files, Has, IInv, TypeOK
<1>3. /\ Cardinality(Has(g)) <= Cardinality(Has(pending)) /\ Cardinality(Has(g)) \in Nat
      /\ Cardinality(Has(pending)) \in Nat
  BY <1>2, FiniteFiles, FS_Subset, FS_CardinalityType
<1>4. Has(pending)' = Has(g) /\ Has(identity)' = Has(identity) /\ Has(history)' = Has(history)
  BY <1>0, <1>1 DEF Has
<1>5. ASSUME NEW q \in Nat PROVE /\ Cardinality(Has(pending)) < q => Cardinality(Has(g)) < q
                                 /\ Cardinality(Has(pending)) <= q => Cardinality(Has(g)) <= q
  BY <1>3
<1>6. ASSUME NEW c \in Clients PROVE Room(c)'
  BY <1>1, <1>4, <1>5 DEF Counted, Room, Used, At, SampleConstants
<1> QED BY <1>4, <1>5, <1>6 DEF Counted, Bounds, SampleConstants

\* The queue, the window and the requests of a run stay within their limits,
\* whoever dies and whatever the worker answers meanwhile.
THEOREM LimitsHold == Spec => []Bounds
<1>1. Init /\ SampleConstants => Counted
  <2> SUFFICES ASSUME Init, SampleConstants PROVE Counted
    OBVIOUS
  <2>1. Has(identity) = {} /\ Has(pending) = {} /\ Has(history) = {}
    BY DEF Init, Has
  <2>2. Bounds /\ IsFiniteSet(Has(history))
    BY <2>1, FS_EmptySet DEF Bounds, SampleConstants
  <2>3. ASSUME NEW c \in Clients PROVE Room(c)
    BY DEF Init, Idle, Room, At, Admitting, Copying, Unlinking
  <2> QED BY <2>2, <2>3 DEF Counted
<1>2. Counted /\ IInv /\ IInv' /\ SampleConstants /\ [Next]_vars => Counted'
  BY ClientCounts, WorkerCounts DEF Next
<1>3. Counted => Bounds
  BY DEF Counted
<1> QED BY <1>1, <1>2, <1>3, Invariance, SampleConstants, PTL DEF Spec
=============================================================================
