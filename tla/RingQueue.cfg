SPECIFICATION FairSpec
CONSTANTS
  v1 = v1
  v2 = v2
  None = None
  Value <- McValue
  Rings <- McRings
  MaxPushes = 6
PROPERTIES ImplementsQueue Handled
CHECK_DEADLOCK FALSE
