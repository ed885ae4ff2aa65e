CONSTANTS
  User = {"u"}
  Target = {"t"}
  Failures = TRUE
  MaxActs = 3
  MaxFaults = 2
  None = None
SPECIFICATION Spec
INVARIANTS TypeOK WaitsWhileOwed ListKeepsUp
CHECK_DEADLOCK FALSE
