CONSTANTS
  Scrapes = 3
  Pages <- PagesDef
  Details <- DetailsDef
  MaxGiveUps = 1
  MaxCrashes = 1
SPECIFICATION Spec
INVARIANTS TypeOK OneBrowserUnlessRaced MixedOnlyWhenShared
PROPERTIES ScrapesEnd
CHECK_DEADLOCK FALSE
