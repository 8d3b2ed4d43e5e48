----------------------------- MODULE FrameQueue -----------------------------
(***************************************************************************)
(* What a queue between input and the frame loop promises: entries leave   *)
(* in the order they were accepted, none twice and none skipped, numbered  *)
(* from 1 without a gap, also when others in between were refused.  The    *)
(* rings that realise it are in RingQueue.                                 *)
(***************************************************************************)
EXTENDS Naturals, Sequences

CONSTANT Value

VARIABLES queue,        \* accepted and not yet taken, oldest first
          next_id,      \* number of the next entry
          handled       \* number of the entry taken last, 0 before the first

Init == queue = <<>> /\ next_id = 1 /\ handled = 0

Accept(v) == /\ queue' = Append(queue, [id |-> next_id, value |-> v])
             /\ next_id' = next_id + 1
             /\ handled' = handled

Take == /\ queue # <<>> /\ Head(queue).id = handled + 1
        /\ queue' = Tail(queue)
        /\ handled' = handled + 1
        /\ next_id' = next_id

\* The program ends and drops what it has not taken.
Drop == queue' = <<>> /\ UNCHANGED <<next_id, handled>>

Next == (\E v \in Value : Accept(v)) \/ Take \/ Drop

Spec == Init /\ [][Next]_<<queue, next_id, handled>>
=============================================================================
