----------------------------- MODULE CommandLog -----------------------------
(***************************************************************************)
(* What a session promises for the commands of a run: they are ONE log.    *)
(* A command id is entered once, under the number after the last; numbers  *)
(* are settled once each and in order, and whoever asks for an id is given *)
(* the verdict its number was settled with, or that it was not seen        *)
(* applied.  The identity and command files, the lock, the worker that     *)
(* polls them and the deaths in between are in AgentSession.               *)
(***************************************************************************)
EXTENDS Naturals

CONSTANTS Runs, Commands, Seqs, Verdicts,
          Steps, Cancels,  \* the commands that advance a run, and end it
          None

VARIABLES log,      \* run -> number -> the command entered, or None
          settled,  \* run -> number -> its verdict, or None
          told      \* run -> command -> answers given to who asked for it

Init ==
  /\ log = [r \in Runs |-> [s \in Seqs |-> None]]
  /\ settled = [r \in Runs |-> [s \in Seqs |-> None]]
  /\ told = [r \in Runs |-> [k \in Commands |-> {}]]

\* A command that is not in the log gets the first number that is free.
Enter(r, s, k) ==
  /\ \A q \in Seqs : log[r][q] # k /\ (q < s <=> log[r][q] # None)
  /\ log' = [log EXCEPT ![r][s] = k]
  /\ UNCHANGED <<settled, told>>

\* Numbers are settled in ascending order.  Once one failed or was passed
\* over, the others can only fail; after a cancel that was applied none is
\* settled at all; and only a step is rejected or cut off.
Settle(r, s, v) ==
  /\ log[r][s] # None
  /\ \A q \in Seqs : /\ settled[r][q] # None => q < s
                     /\ q < s /\ settled[r][q] \in {None, "failed"} => v = "failed"
                     /\ log[r][q] \in Cancels => settled[r][q] # "applied"
  /\ v \in {"rejected", "cancelled"} => log[r][s] \in Steps
  /\ settled' = [settled EXCEPT ![r][s] = v]
  /\ UNCHANGED <<log, told>>

\* The answer to a command id that is in the log.
Tell(r, s, v) ==
  /\ log[r][s] # None
  /\ settled[r][s] = v \/ v = "not_applied"
  /\ told' = [told EXCEPT ![r][log[r][s]] = @ \cup {v}]
  /\ UNCHANGED <<log, settled>>

Next ==
  \E r \in Runs, s \in Seqs :
    \/ \E k \in Commands : Enter(r, s, k)
    \/ \E v \in Verdicts : Settle(r, s, v)
    \/ \E v \in Verdicts \cup {"not_applied"} : Tell(r, s, v)

Spec == Init /\ [][Next]_<<log, settled, told>>
=============================================================================
