SPECIFICATION Spec
CONSTANTS
  Clients = {c1, c2}
  Runs = {r1, r2}
  Pauses = {}
  Continues = {}
  Steps = {}
  Cancels = {}
  Interruptible = FALSE
  Limit = 1
  None = None
  MaxFaults = 2
  MaxTimeouts = 1
INVARIANTS
  OneActiveRun
  FailureNotInvented
SYMMETRY Symmetry
CHECK_DEADLOCK FALSE
