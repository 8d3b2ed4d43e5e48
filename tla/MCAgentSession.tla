--------------------------- MODULE MCAgentSession ---------------------------
(* Instances of AgentSession for TLC.                                      *)
EXTENDS AgentSession, TLC

\* Clients differ in nothing but their name.
Symmetry == Permutations(Clients)
=============================================================================
