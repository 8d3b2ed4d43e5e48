------------------------- MODULE MCDesktopReplace -------------------------
(* An instance of DesktopReplace for TLC.                                  *)
EXTENDS DesktopReplace, TLC

\* Invocations, attempts and builds differ in nothing but their name.
Symmetry == Permutations(Procs) \cup Permutations(Attempts) \cup Permutations(Builds)
=============================================================================
