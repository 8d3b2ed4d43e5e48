---------------------------- MODULE MCRingQueue ----------------------------
(* Instances of RingQueue for TLC: a command bus without and with a limit  *)
(* per frame, and a stroke buffer, which never gets a buffer if the first  *)
(* allocation fails.                                                       *)
EXTENDS RingQueue

CONSTANTS v1, v2

McValue == {v1, v2}
McRings == {[initial |-> 3, first |-> 1, limit |-> 0],
            [initial |-> 2, first |-> 1, limit |-> 1],
            [initial |-> 2, first |-> 0, limit |-> 2]}
=============================================================================
