CONSTANTS
  User = {u1, u2}
  Info = {i1, i2}
  Request = {r1}
  MaxChanges = 2
  MaxActs = 2
  Failures = TRUE
SPECIFICATION PageSpec
INVARIANTS PageTypeOK StaleOnlyByRace SettledRowsTellTheTruth
CHECK_DEADLOCK FALSE
SYMMETRY Symmetry
