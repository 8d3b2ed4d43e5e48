------------------------ MODULE MCCachePublication ------------------------
(* An instance of CachePublication for TLC: one slot under the run id,     *)
(* before two active ones, and two publishers.                             *)
EXTENDS CachePublication

CONSTANTS p1, p2

McPublishers == {p1, p2}
McRunSlots == {1}
=============================================================================
