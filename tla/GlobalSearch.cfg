CONSTANTS
  Query = {"", "x", "a", "b", "x "}
  Short = {"", "x"}
  Blank = {"x "}
  Empty = ""
  SearchFailures = TRUE
SPECIFICATION SearchSpec
INVARIANTS SearchTypeOK ListAnswersTheBox
CHECK_DEADLOCK FALSE
