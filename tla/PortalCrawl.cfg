CONSTANTS
  Portal = {"olx", "justjoinit", "pracujpl", "bulldogjob", "theprotocol", "linkedin", "nofluffjobs"}
  Offers = 7
  New = 2
  PageSize = 2
  MaxPages = 3
  MaxIdle = 2
  MaxFresh = 1
  Listings <- MCListings
SPECIFICATION CrawlSpec
INVARIANTS CrawlTypeOK NothingMissed
PROPERTIES CrawlEnds
CHECK_DEADLOCK FALSE
