---------------------------- MODULE PairRegister ----------------------------
(***************************************************************************)
(* What a job root promises to every cooperating reader: the status record *)
(* and the shared report are ONE register.  A publication offers a whole   *)
(* pair; the register only ever moves from one whole pair to another that  *)
(* was offered, in one step.  The files, locks, holds, crashes and         *)
(* recoveries that realise it are in JobPair.                              *)
(***************************************************************************)
CONSTANT Pair           \* the values a (status, report) pair can take

VARIABLES pair,         \* the pair a reader that takes the guard is shown
          offered       \* the whole pairs some publication prepared

Init == /\ pair \in Pair
        /\ offered = {}

\* A publication prepares both files of one generation.
Offer(p) == /\ offered' = offered \cup {p}
            /\ pair' = pair

\* The publication, or a recovery, commits: both files change together.
Commit(p) == /\ p \in offered
             /\ pair' = p
             /\ offered' = offered

Next == \E p \in Pair : Offer(p) \/ Commit(p)

Spec == Init /\ [][Next]_<<pair, offered>>
=============================================================================
