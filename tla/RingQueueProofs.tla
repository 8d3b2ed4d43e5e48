--------------------------- MODULE RingQueueProofs ---------------------------
(***************************************************************************)
(* For rings of every size, limit and number of entries: the shape of the  *)
(* ring is kept, and the ring implements the queue of FrameQueue.  The     *)
(* invariant adds to the shape that the live entries bear consecutive      *)
(* numbers that end at the next one to be given.                           *)
(***************************************************************************)
EXTENDS RingQueue, TLAPS

Numbered == \A i \in 0 .. count - 1 : buffer[At(i)].id = handled + 1 + i

IInv == TypeOK /\ Numbered /\ (at # "ended" => next_id = handled + count + 1)
               /\ (at = "ended" => count = 0)

-----------------------------------------------------------------------------
(* The ring's indices.                                                     *)

\* The i-th place from head is inside the buffer, and two places differ.
LEMMA Places ==
  ASSUME TypeOK
  PROVE  /\ \A i \in 0 .. capacity - 1 : At(i) \in Indices(capacity)
         /\ \A i, j \in 0 .. capacity - 1 : At(i) = At(j) => i = j
         /\ capacity > 0 => At(0) = head
         /\ count < capacity => tail = At(count)
BY DEF TypeOK, At, Indices

\* One step on from head, each place is the next one.
LEMMA Onward ==
  ASSUME TypeOK, count > 0
  PROVE  /\ Step(head) \in Indices(capacity)
         /\ \A i \in 0 .. count - 2 :
              At(i + 1) = (IF Step(head) + i < capacity THEN Step(head) + i ELSE Step(head) + i - capacity)
BY DEF TypeOK, At, Indices, Step

-----------------------------------------------------------------------------
(* The invariant.                                                          *)

LEMMA InitHolds == ASSUME Init PROVE IInv
BY RingConstants DEF Init, IInv, TypeOK, Numbered, Zeroed, Indices

LEMMA PushHolds == ASSUME IInv, NEW v \in Value, Push(v) PROVE IInv'
<1> USE DEF Push, Put
<1>1. capacity \in Nat /\ count \in Nat /\ count < capacity /\ head < capacity /\ head \in Nat
      /\ next_id \in Nat /\ handled \in Nat /\ tail = At(count) /\ next_id = handled + count + 1
  BY Places DEF IInv, TypeOK
<1>2. \A i \in 0 .. count : At(i)' = At(i) /\ At(i) \in Indices(capacity)
  BY <1>1, Places DEF IInv, At
<1>3. [id |-> next_id, value |-> v] \in Entry
  BY <1>1 DEF Entry
<1>4. buffer' = [buffer EXCEPT ![At(count)] = [id |-> next_id, value |-> v]]
  BY <1>1
<1>5. buffer' \in [Indices(capacity) -> Entry \cup {None}]
  BY <1>1, <1>2, <1>3, <1>4 DEF IInv, TypeOK
<1>6. \A i \in 0 .. count : buffer'[At(i)] = IF i = count THEN [id |-> next_id, value |-> v] ELSE buffer[At(i)]
  BY <1>1, <1>2, <1>4, Places DEF IInv, TypeOK
<1>7. TypeOK'
  <2>1. \A i \in 0 .. count' - 1 : buffer'[At(i)'] \in Entry
    BY <1>1, <1>2, <1>3, <1>6 DEF IInv, TypeOK
  <2>2. tail' = (IF head' + count' < capacity' \/ capacity' = 0 THEN head' + count' ELSE head' + count' - capacity')
    BY <1>1 DEF At, Step
  <2> QED BY <1>1, <1>5, <2>1, <2>2 DEF IInv, TypeOK
<1>8. Numbered'
  BY <1>1, <1>2, <1>6 DEF IInv, Numbered
<1> QED BY <1>1, <1>7, <1>8 DEF IInv

LEMMA PushGrowingHolds == ASSUME IInv, NEW v \in Value, PushGrowing(v) PROVE IInv'
<1> USE DEF PushGrowing
<1> DEFINE new == [id |-> next_id, value |-> v]
<1>1. /\ capacity \in Nat /\ count \in Nat /\ head \in Nat /\ next_id \in Nat /\ handled \in Nat
      /\ next_id = handled + count + 1 /\ ring \in [initial : Nat \ {0}, first : Nat, limit : Nat]
  BY RingConstants DEF IInv, TypeOK
<1>2. Larger \in Nat /\ count < Larger /\ count = capacity /\ count' = count + 1 /\ capacity' = Larger
  BY <1>1 DEF Larger, Put
<1>3. \A i \in 0 .. count : At(i)' = i
  BY <1>1, <1>2 DEF At
<1>4. \A i \in 0 .. count - 1 : At(i) \in Indices(capacity) /\ buffer[At(i)] \in Entry
  BY <1>1, <1>2, Places DEF IInv, TypeOK
<1>5. new \in Entry
  BY <1>1 DEF Entry
<1>6. buffer' = [i \in Indices(Larger) |-> IF i = count THEN new ELSE Unrolled(Larger)[i]]
  BY <1>1, <1>2 DEF Put, Unrolled, Indices
<1>7. \A i \in 0 .. count : buffer'[i] = IF i = count THEN new ELSE buffer[At(i)]
  BY <1>1, <1>2, <1>6 DEF Unrolled, Indices
<1>8. buffer' \in [Indices(Larger) -> Entry \cup {None}]
  <2>1. \A i \in Indices(Larger) : Unrolled(Larger)[i] = IF i < count THEN buffer[At(i)] ELSE None
    BY DEF Unrolled
  <2>2. \A i \in Indices(Larger) : i < count => Unrolled(Larger)[i] \in Entry
    BY <1>1, <1>4, <2>1 DEF Indices
  <2>3. \A i \in Indices(Larger) : Unrolled(Larger)[i] \in Entry \cup {None}
    BY <2>1, <2>2
  <2> QED BY <1>5, <1>6, <2>3
<1>9. TypeOK'
  <2>1. \A i \in 0 .. count' - 1 : buffer'[At(i)'] \in Entry
    BY <1>1, <1>2, <1>3, <1>4, <1>5, <1>7
  <2> QED BY <1>1, <1>2, <1>8, <2>1 DEF IInv, TypeOK, NewTail, Put
<1>10. Numbered'
  BY <1>1, <1>2, <1>3, <1>7 DEF IInv, Numbered
<1> QED BY <1>1, <1>2, <1>9, <1>10 DEF IInv, Put

LEMMA PopHolds == ASSUME IInv, Pop PROVE IInv' /\ handled' = handled + 1
<1> USE DEF Pop
<1>1. /\ capacity \in Nat /\ count \in Nat /\ count > 0 /\ count <= capacity /\ head \in Nat
      /\ next_id \in Nat /\ handled \in Nat /\ next_id = handled + count + 1
  BY DEF IInv, TypeOK
<1>2. handled' = handled + 1
  BY <1>1, Places DEF IInv, Numbered
<1>3. \A i \in 0 .. count - 2 : At(i)' = At(i + 1)
  BY <1>1, Onward DEF IInv, At
<1>4. TypeOK'
  <2>1. \A i \in 0 .. count' - 1 : buffer'[At(i)'] \in Entry
    BY <1>1, <1>3 DEF IInv, TypeOK
  <2>2. tail' = (IF head' + count' < capacity' \/ capacity' = 0 THEN head' + count' ELSE head' + count' - capacity')
    BY <1>1 DEF IInv, TypeOK, Step
  <2>3. head' \in Nat /\ head' < capacity'
    BY <1>1 DEF IInv, TypeOK, Step
  <2> QED BY <1>1, <1>2, <2>1, <2>2, <2>3 DEF IInv, TypeOK
<1>5. Numbered'
  BY <1>1, <1>2, <1>3 DEF IInv, Numbered
<1> QED BY <1>1, <1>2, <1>4, <1>5 DEF IInv

LEMMA ShutdownHolds == ASSUME IInv, Shutdown PROVE IInv'
BY DEF IInv, TypeOK, Numbered, Shutdown, Zeroed, Indices

\* What changes the phase of the frame only.
LEMMA PhaseHolds ==
  ASSUME IInv, UNCHANGED <<ring, buffer, capacity, head, tail, count, next_id, handled>>,
         at' \in {"input", "dispatch"}, at # "ended", processed' \in Nat
  PROVE  IInv'
BY DEF IInv, TypeOK, Numbered, At

LEMMA StepHolds == ASSUME IInv, [Next]_vars PROVE IInv'
<1>1. CASE UNCHANGED vars
  BY <1>1 DEF vars, IInv, TypeOK, Numbered, At
<1>2. ASSUME NEW v \in Value, Push(v) PROVE IInv'
  BY <1>2, PushHolds
<1>3. ASSUME NEW v \in Value, PushGrowing(v) PROVE IInv'
  BY <1>3, PushGrowingHolds
<1>4. CASE PushRefused
  BY <1>1, <1>4 DEF PushRefused
<1>5. CASE EndInput
  BY <1>5, PhaseHolds DEF EndInput
<1>6. CASE Pop
  BY <1>6, PopHolds
<1>7. CASE EndFrame
  BY <1>7, PhaseHolds DEF EndFrame
<1>8. CASE Shutdown
  BY <1>8, ShutdownHolds
<1> QED BY <1>1, <1>2, <1>3, <1>4, <1>5, <1>6, <1>7, <1>8 DEF Next, Input

LEMMA Invariance == Spec => []IInv
<1>1. Init => IInv
  BY InitHolds
<1>2. IInv /\ [Next]_vars => IInv'
  BY StepHolds
<1> QED BY <1>1, <1>2, PTL DEF Spec

\* The shape of the ring: tail is always count entries after head, around the
\* end, and the live entries are entries, through every growth and wrap of
\* command_bus_push, command_bus_pop and their stroke_buffer counterparts.
THEOREM TypeCorrect == Spec => []TypeOK
<1>1. IInv => TypeOK
  BY DEF IInv
<1> QED BY <1>1, Invariance, PTL

-----------------------------------------------------------------------------
(* The refinement.                                                         *)

LEMMA ContentsIsSequence ==
  ASSUME IInv
  PROVE  /\ Contents \in Seq(Entry) /\ Len(Contents) = count
         /\ \A i \in 1 .. count : Contents[i] = buffer[At(i - 1)]
<1>1. count \in Nat
  BY DEF IInv, TypeOK
<1>2. \A i \in 1 .. count : buffer[At(i - 1)] \in Entry
  BY <1>1 DEF IInv, TypeOK
<1> QED BY <1>1, <1>2 DEF Contents

\* Two sequences with the same entries are the same.
LEMMA SameSequence ==
  ASSUME NEW S, NEW s \in Seq(S), NEW t \in Seq(S), Len(s) = Len(t),
         \A i \in 1 .. Len(s) : s[i] = t[i]
  PROVE  s = t
OBVIOUS

LEMMA AppendsOne ==
  ASSUME IInv, IInv', NEW v \in Value, count' = count + 1, next_id \in Nat,
         \A i \in 0 .. count : buffer'[At(i)'] = IF i = count THEN [id |-> next_id, value |-> v]
                                                 ELSE buffer[At(i)]
  PROVE  Contents' = Append(Contents, [id |-> next_id, value |-> v])
<1> DEFINE new == [id |-> next_id, value |-> v]
<1>1. count \in Nat /\ new \in Entry
  BY DEF IInv, TypeOK, Entry
<1>2. /\ Contents \in Seq(Entry) /\ Len(Contents) = count
      /\ \A i \in 1 .. count : Contents[i] = buffer[At(i - 1)]
  BY ContentsIsSequence
<1>3. /\ Contents' \in Seq(Entry) /\ Len(Contents') = count + 1
      /\ \A i \in 1 .. count + 1 : Contents'[i] = buffer'[At(i - 1)']
  <2>1. \A i \in 1 .. count + 1 : buffer'[At(i - 1)'] \in Entry
    BY <1>1, \A i \in 1 .. count + 1 : i - 1 \in 0 .. count DEF IInv, TypeOK
  <2>2. Contents' = [i \in 1 .. count + 1 |-> buffer'[At(i - 1)']]
    BY DEF Contents
  <2> QED BY <1>1, <2>1, <2>2
<1>4. /\ Append(Contents, new) \in Seq(Entry) /\ Len(Append(Contents, new)) = count + 1
      /\ \A i \in 1 .. count + 1 : Append(Contents, new)[i] = IF i = count + 1 THEN new ELSE Contents[i]
  BY <1>1, <1>2
<1>5. ASSUME NEW i \in 1 .. count + 1 PROVE Contents'[i] = Append(Contents, new)[i]
  <2>1. i - 1 \in 0 .. count /\ (i - 1 = count <=> i = count + 1)
    BY <1>1
  <2>2. Contents'[i] = IF i = count + 1 THEN new ELSE buffer[At(i - 1)]
    <3>1. Contents'[i] = buffer'[At(i - 1)']
      BY <1>3
    <3>2. buffer'[At(i - 1)'] = IF i - 1 = count THEN new ELSE buffer[At(i - 1)]
      BY <2>1
    <3> QED BY <2>1, <3>1, <3>2
  <2>3. CASE i = count + 1
    BY <1>4, <2>2, <2>3
  <2>4. CASE i # count + 1
    <3>1. i \in 1 .. count
      BY <1>1, <2>4
    <3> QED BY <1>2, <1>4, <2>2, <2>4, <3>1
  <2> QED BY <2>3, <2>4
<1> QED BY <1>3, <1>4, <1>5, SameSequence

LEMMA InitAbstract == ASSUME Init PROVE Abstract!Init
<1>1. count = 0 /\ next_id = 1 /\ handled = 0
  BY DEF Init
<1>2. Contents = <<>>
  BY <1>1 DEF Contents
<1> QED BY <1>1, <1>2 DEF Abstract!Init

LEMMA PushAccepts == ASSUME IInv, IInv', NEW v \in Value, Push(v) PROVE Abstract!Accept(v)
<1>1. /\ capacity \in Nat /\ count \in Nat /\ count < capacity /\ head < capacity /\ head \in Nat
      /\ next_id \in Nat /\ tail = At(count)
  BY Places DEF IInv, TypeOK, Push
<1>2. \A i \in 0 .. count : At(i)' = At(i) /\ At(i) \in Indices(capacity)
  BY <1>1, Places DEF IInv, At, Push
<1>3. buffer' = [buffer EXCEPT ![At(count)] = [id |-> next_id, value |-> v]]
  BY <1>1 DEF Push, Put
<1>4. \A i \in 0 .. count : buffer'[At(i)'] = IF i = count THEN [id |-> next_id, value |-> v] ELSE buffer[At(i)]
  BY <1>1, <1>2, <1>3, Places DEF IInv, TypeOK
<1>5. Contents' = Append(Contents, [id |-> next_id, value |-> v])
  BY <1>1, <1>4, AppendsOne DEF Push, Put
<1> QED BY <1>5 DEF Abstract!Accept, Push, Put

LEMMA PushGrowingAccepts ==
  ASSUME IInv, IInv', NEW v \in Value, PushGrowing(v) PROVE Abstract!Accept(v)
<1> DEFINE new == [id |-> next_id, value |-> v]
<1>1. /\ capacity \in Nat /\ count \in Nat /\ next_id \in Nat
      /\ ring \in [initial : Nat \ {0}, first : Nat, limit : Nat]
  BY RingConstants DEF IInv, TypeOK
<1>2. Larger \in Nat /\ count < Larger /\ count' = count + 1 /\ capacity' = Larger /\ head' = 0
  BY <1>1 DEF Larger, PushGrowing, Put
<1>3. \A i \in 0 .. count : At(i)' = i
  BY <1>1, <1>2 DEF At
<1>4. buffer' = [i \in Indices(Larger) |-> IF i = count THEN new ELSE Unrolled(Larger)[i]]
  BY <1>1, <1>2 DEF PushGrowing, Put, Unrolled, Indices
<1>5. \A i \in 0 .. count : buffer'[At(i)'] = IF i = count THEN new ELSE buffer[At(i)]
  BY <1>1, <1>2, <1>3, <1>4 DEF Unrolled, Indices
<1>6. Contents' = Append(Contents, new)
  BY <1>1, <1>2, <1>5, AppendsOne
<1> QED BY <1>6 DEF Abstract!Accept, PushGrowing, Put

LEMMA PopTakes == ASSUME IInv, IInv', Pop PROVE Abstract!Take
<1>1. count \in Nat /\ count > 0 /\ count' = count - 1 /\ handled' = handled + 1 /\ handled \in Nat
  BY PopHolds DEF IInv, TypeOK, Pop
<1>2. /\ Contents \in Seq(Entry) /\ Len(Contents) = count
      /\ \A i \in 1 .. count : Contents[i] = buffer[At(i - 1)]
  BY ContentsIsSequence
<1>3. Contents # <<>> /\ Head(Contents).id = handled + 1
  BY <1>1, <1>2 DEF IInv, Numbered
<1>4. \A i \in 1 .. count - 1 : buffer'[At(i - 1)'] = buffer[At(i)] /\ buffer[At(i)] \in Entry
  <2>1. \A i \in 0 .. count - 2 : At(i)' = At(i + 1)
    BY <1>1, Onward DEF IInv, At, Pop
  <2>2. \A i \in 1 .. count - 1 : At(i - 1)' = At(i)
    BY <1>1, <2>1, \A i \in 1 .. count - 1 : i - 1 \in 0 .. count - 2 /\ (i - 1) + 1 = i
  <2> QED BY <1>1, <2>2 DEF IInv, TypeOK, Pop
<1>5. Contents' = [i \in 1 .. count - 1 |-> buffer'[At(i - 1)']]
  BY <1>1 DEF Contents
<1>6. /\ Contents' \in Seq(Entry) /\ Len(Contents') = count - 1
      /\ \A i \in 1 .. count - 1 : Contents'[i] = buffer[At(i)]
  <2>1. Contents' = [i \in 1 .. count - 1 |-> buffer[At(i)]]
    BY <1>4, <1>5
  <2>2. count - 1 \in Nat /\ \A i \in 1 .. count - 1 : buffer[At(i)] \in Entry
    BY <1>1, <1>4
  <2> QED BY <2>1, <2>2
<1>7. /\ Tail(Contents) \in Seq(Entry) /\ Len(Tail(Contents)) = count - 1
      /\ \A i \in 1 .. count - 1 : Tail(Contents)[i] = Contents[i + 1]
  BY <1>1, <1>2
<1>8. \A i \in 1 .. count - 1 : Contents'[i] = Tail(Contents)[i]
  BY <1>1, <1>2, <1>6, <1>7
<1>9. Contents' = Tail(Contents)
  BY <1>6, <1>7, <1>8, SameSequence
<1> QED BY <1>1, <1>3, <1>9 DEF Abstract!Take, Pop

LEMMA ShutdownDrops == ASSUME Shutdown PROVE Abstract!Drop
<1>1. Contents' = <<>>
  BY DEF Contents, Shutdown
<1> QED BY <1>1 DEF Abstract!Drop, Shutdown

\* What leaves ring and buffer alone leaves the queue alone.
LEMMA ContentsKept ==
  ASSUME UNCHANGED <<buffer, capacity, head, count, next_id, handled>>
  PROVE  UNCHANGED <<Contents, next_id, handled>>
BY DEF Contents, At

LEMMA StepAbstract ==
  ASSUME IInv, IInv', [Next]_vars PROVE [Abstract!Next]_<<Contents, next_id, handled>>
<1>1. CASE UNCHANGED vars
  BY <1>1, ContentsKept DEF vars
<1>2. ASSUME NEW v \in Value, Push(v) PROVE Abstract!Next
  BY <1>2, PushAccepts DEF Abstract!Next
<1>3. ASSUME NEW v \in Value, PushGrowing(v) PROVE Abstract!Next
  BY <1>3, PushGrowingAccepts DEF Abstract!Next
<1>4. CASE PushRefused
  BY <1>1, <1>4 DEF PushRefused
<1>5. CASE EndInput
  BY <1>5, ContentsKept DEF EndInput
<1>6. CASE Pop
  BY <1>6, PopTakes DEF Abstract!Next
<1>7. CASE EndFrame
  BY <1>7, ContentsKept DEF EndFrame
<1>8. CASE Shutdown
  BY <1>8, ShutdownDrops DEF Abstract!Next
<1> QED BY <1>1, <1>2, <1>3, <1>4, <1>5, <1>6, <1>7, <1>8 DEF Next, Input

\* The rings implement the queue of the frame loop: whatever the capacity, the
\* fill and the place of the wrap when command_bus_grow or stroke_buffer_push
\* doubles it, entries leave in the order of their acceptance, without a gap.
THEOREM RingIsAQueue == Spec => ImplementsQueue
<1>1. Init => Abstract!Init
  BY InitAbstract
<1>2. IInv /\ IInv' /\ [Next]_vars => [Abstract!Next]_<<Contents, next_id, handled>>
  BY StepAbstract
<1> QED BY <1>1, <1>2, Invariance, PTL DEF Spec, ImplementsQueue, Abstract!Spec
=============================================================================
