SPECIFICATION Spec
CONSTANTS
  Clients = {c1, c2}
  Runs = {r1}
  Pauses = {}
  Continues = {}
  Steps = {step}
  Cancels = {cancel}
  Interruptible = TRUE
  Limit = 2
  None = None
  MaxFaults = 1
  MaxTimeouts = 0
INVARIANTS
  CommandsBound
  AnswersAgree
  NoSkippedReceipt
  CancelIsFinal
  AppliedIsVisible
PROPERTIES
  KeepsALog
  SnapshotForward
SYMMETRY Symmetry
CHECK_DEADLOCK FALSE
