SPECIFICATION Spec
CONSTANTS
  Clients = {c1}
  Runs = {r1}
  Pauses = {}
  Continues = {}
  Steps = {}
  Cancels = {}
  Interruptible = FALSE
  Limit = 1
  None = None
  MaxFaults = 0
  MaxTimeouts = 1
PROPERTIES
  NeverUnfinished
CHECK_DEADLOCK FALSE
