SPECIFICATION FairSpec
CONSTANTS
  Clients = {c1}
  Runs = {r1}
  Pauses = {pause}
  Continues = {continue}
  Steps = {}
  Cancels = {}
  Interruptible = TRUE
  Limit = 1
  None = None
  MaxFaults = 1
  MaxTimeouts = 0
PROPERTIES
  Answered
  LockReturned
CHECK_DEADLOCK FALSE
