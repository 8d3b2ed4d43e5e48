---------------------------- MODULE MCJobRunner ----------------------------
(* Instances of JobRunner for TLC.                                         *)
EXTENDS JobRunner

CONSTANTS j1, j2

BothJobs == {j1, j2}
OneJob == {j1}
=============================================================================
