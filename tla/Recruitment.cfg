CONSTANTS
  Offer = {"o1", "o2"}
  Foreign = {"o2"}
  Admin = TRUE
  Status = {"CV_SENT", "INTERVIEW"}
  Failures = TRUE
  MaxActs = 4
SPECIFICATION Spec
INVARIANTS TypeOK AppliedTwiceOnlyInHaste SettledItemsTellTheTruth
CHECK_DEADLOCK FALSE
