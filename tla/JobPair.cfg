CONSTANTS
  Procs = {p1, p2}
  Attempts = {a1, a2}
  Absent = Absent
  Legacy = Legacy
  None = None
  Torn = Torn
  Found <- McFound
  MaxFaults = 2
  MaxStaged = 1
SPECIFICATION FairSpec
INVARIANTS
  MixedOnlyUnderHold
  ReadsWhole
  HoldRecoverable
  OneDirection
PROPERTIES
  IntentHonoured
  ActsAsRegister
  HoldResolved
\* A torn hold or completion record stops the root for good: the system really
\* may end there, so a state without successors is no error.
CHECK_DEADLOCK FALSE
