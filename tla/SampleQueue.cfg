SPECIFICATION Spec
CONSTANTS
  i1 = i1
  i2 = i2
  i3 = i3
  i4 = i4
  p1 = p1
  p2 = p2
  v1 = v1
  v2 = v2
  c1 = c1
  c2 = c2
  Ids <- McIds
  Payloads <- McPayloads
  Views <- McViews
  Clients <- McClients
  None = None
  Torn = Torn
  QueueLimit = 1
  Window = 2
  MaxRequests = 4
  MaxDeaths = 1
SYMMETRY McSymmetry
INVARIANTS Bounds OneRequest LostOnlyByDeath
PROPERTIES Preserved UnavailableIsStale
CHECK_DEADLOCK FALSE
