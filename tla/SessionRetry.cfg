SPECIFICATION Spec
CONSTANTS
  Clients = {c1}
  Runs = {r1}
  Pauses = {}
  Continues = {}
  Steps = {}
  Cancels = {cancel}
  Interruptible = FALSE
  Limit = 1
  None = None
  MaxFaults = 0
  MaxTimeouts = 0
INVARIANTS
  RetriesReuseOutcome
CHECK_DEADLOCK FALSE
