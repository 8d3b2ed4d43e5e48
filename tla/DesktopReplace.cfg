SPECIFICATION Spec
CONSTANTS
  Procs = {p1, p2}
  Attempts = {a1, a2}
  Builds = {b1, b2}
  Absent = Absent
  Torn = Torn
  None = None
  MaxKills = 2
  MaxExternals = 1
INVARIANTS OnlyWhole GapRecoverable HoldRecoverable
PROPERTIES NothingDropped NeverReopened
SYMMETRY Symmetry
