----------------------------- MODULE RingQueue -----------------------------
(***************************************************************************)
(* The two queues of the frame loop, command bus and stroke buffer: a ring *)
(* that doubles when it is full and keeps working when it cannot.  In each *)
(* frame the input phase pushes, then at most a limit of entries is popped *)
(* and handled.  They differ in their sizes, in what a ring does that has  *)
(* no buffer (the bus asks for one, the stroke buffer refuses for good),   *)
(* and in the limit.  Sequence numbers are the bus's; for strokes they are *)
(* history.                                                                *)
(***************************************************************************)
EXTENDS Naturals, Sequences

CONSTANTS
  Rings,        \* [initial, first, limit]: first buffer, buffer after none, pops per frame
  Value, None,
  MaxPushes     \* bound on the accepted entries

ASSUME RingConstants ==
  /\ Rings \subseteq [initial : Nat \ {0}, first : Nat, limit : Nat]
  /\ MaxPushes \in Nat

VARIABLES
  ring,         \* which of the queues this is
  buffer, capacity, head, tail, count, next_id,
  at, processed,\* phase of the frame and pops in it
  handled       \* history: number of the entry handled last

vars == <<ring, buffer, capacity, head, tail, count, next_id, at, processed, handled>>

Entry   == [id : Nat, value : Value]
Indices(n) == 0 .. n - 1
Zeroed(n)  == [i \in Indices(n) |-> None]

\* The buffer could be allocated, or not.
Init ==
  /\ ring \in Rings
  /\ capacity \in {0, ring.initial} /\ buffer = Zeroed(capacity)
  /\ head = 0 /\ tail = 0 /\ count = 0 /\ next_id = 1
  /\ at = "input" /\ processed = 0 /\ handled = 0

-----------------------------------------------------------------------------
\* The i-th index from head on, around the end (the code's remainder by the
\* capacity: head is below it, and i too).
At(i) == IF head + i < capacity THEN head + i ELSE head + i - capacity

Step(i) == IF i + 1 = capacity THEN 0 ELSE i + 1

\* The buffer is copied as it lies.
UnrolledInPlace(n) == [i \in Indices(n) |-> IF i < count THEN buffer[i] ELSE None]

\* The entries in order from index 0 of a larger buffer.
Unrolled(n) == [i \in Indices(n) |-> IF i < count THEN buffer[At(i)] ELSE None]

Larger == IF capacity = 0 THEN ring.first ELSE 2 * capacity

Put(b, i, v) ==
  /\ buffer' = [b EXCEPT ![i] = [id |-> next_id, value |-> v]]
  /\ count' = count + 1 /\ next_id' = next_id + 1

Push(v) ==
  /\ at = "input" /\ next_id <= MaxPushes /\ count < capacity
  /\ Put(buffer, tail, v) /\ tail' = Step(tail)
  /\ UNCHANGED <<ring, capacity, head, at, processed, handled>>

NewTail == IF count + 1 = Larger THEN 0 ELSE count + 1

\* A full ring: the push goes into the larger one.
PushGrowing(v) ==
  /\ at = "input" /\ next_id <= MaxPushes /\ count = capacity /\ Larger > capacity
  /\ capacity' = Larger /\ head' = 0 /\ tail' = NewTail
  /\ Put(Unrolled(Larger), count, v)
  /\ UNCHANGED <<ring, at, processed, handled>>

\* There is no memory for a larger ring, or it is not asked for: nothing
\* changes and the caller goes on.
PushRefused == at = "input" /\ count = capacity /\ UNCHANGED vars

EndInput ==
  /\ at = "input" /\ at' = "dispatch" /\ processed' = 0
  /\ UNCHANGED <<ring, buffer, capacity, head, tail, count, next_id, handled>>

-----------------------------------------------------------------------------
\* A limit of zero lets nothing through.
MayPopNone == processed < ring.limit

MayPop == ring.limit = 0 \/ processed < ring.limit

Pop ==
  /\ at = "dispatch" /\ MayPop /\ count > 0
  /\ handled' = buffer[head].id
  /\ head' = Step(head) /\ count' = count - 1
  /\ processed' = processed + 1
  /\ UNCHANGED <<ring, buffer, capacity, tail, next_id, at>>

EndFrame ==
  /\ at = "dispatch" /\ (MayPop => count = 0)
  /\ at' = "input" /\ processed' = 0
  /\ UNCHANGED <<ring, buffer, capacity, head, tail, count, next_id, handled>>

\* The loop is left, after a frame or at its top, and the queue shut down.
Shutdown ==
  /\ at # "ended" /\ at' = "ended"
  /\ capacity' = 0 /\ buffer' = Zeroed(0)
  /\ head' = 0 /\ tail' = 0 /\ count' = 0 /\ processed' = 0
  /\ UNCHANGED <<ring, next_id, handled>>

Input == (\E v \in Value : Push(v) \/ PushGrowing(v)) \/ PushRefused

Next == Input \/ EndInput \/ Pop \/ EndFrame \/ Shutdown

Spec == Init /\ [][Next]_vars

\* Frames follow one another for as long as the loop runs.
FairSpec == Spec /\ WF_vars(EndInput) /\ WF_vars(Pop) /\ WF_vars(EndFrame)

-----------------------------------------------------------------------------
(* Properties.                                                             *)

\* Type and shape of the ring: tail is count entries after head, the live
\* entries are entries, and what is outside a ring without buffer is nothing.
TypeOK ==
  /\ ring \in Rings /\ at \in {"input", "dispatch", "ended"} /\ processed \in Nat
  /\ capacity \in Nat /\ count \in 0 .. capacity
  /\ head \in Nat /\ (IF capacity = 0 THEN head = 0 ELSE head < capacity)
  /\ tail = (IF head + count < capacity \/ capacity = 0 THEN head + count ELSE head + count - capacity)
  /\ buffer \in [Indices(capacity) -> Entry \cup {None}]
  /\ \A i \in 0 .. count - 1 : buffer[At(i)] \in Entry
  /\ next_id \in Nat \ {0} /\ handled \in Nat

Contents == [i \in 1 .. count |-> buffer[At(i - 1)]]

Abstract == INSTANCE FrameQueue WITH queue <- Contents

\* Whatever the sizes, the fill and the place of the wrap when it grows, the
\* ring is a queue that takes entries in the order of their acceptance.
ImplementsQueue == Abstract!Spec

\* Every accepted entry is handled, whatever the limit, unless the loop ends.
\* For strokes a frame is one outside the retained view, in which they are
\* neither captured nor applied (scene_controller.c:416).
Handled == \A i \in 1 .. MaxPushes : (next_id > i) ~> (handled >= i \/ at = "ended")
=============================================================================
