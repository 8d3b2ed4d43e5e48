------------------------------ MODULE MCJobPair ------------------------------
(***************************************************************************)
(* A small instance of JobPair for TLC.                                    *)
(***************************************************************************)
EXTENDS JobPair

\* A root before its first publication, and one submitted without a report.
McFound == {p \in Before : p["report"] = Absent}
=============================================================================
