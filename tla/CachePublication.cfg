SPECIFICATION Spec
CONSTANTS
  p1 = p1
  p2 = p2
  Publishers <- McPublishers
  RunSlots <- McRunSlots
  Slots = 3
  None = None
  MaxVersions = 1
INVARIANTS ReaderSeesOne NothingLost HoldRecoverable
PROPERTIES ImplementsRegister
