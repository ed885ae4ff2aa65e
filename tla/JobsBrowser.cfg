CONSTANTS
  o1 = o1  o2 = o2  o3 = o3
  s1 = s1  s2 = s2
  narrow = narrow  NoFilter = NoFilter  None = None
  Offer = {o1, o2, o3}
  Scraper = {s1, s2}
  ScraperOf <- ScraperOfDef
  Others = {s2}
  Filter = {NoFilter, narrow}
  Hits <- HitsDef
  PageSize = 1
  Failures = TRUE
  MaxActs = 3
SPECIFICATION Spec
INVARIANTS TypeOK ListAnswersTheBar SettledRowsTellTheTruth ViewFollowsRoute
CHECK_DEADLOCK FALSE
