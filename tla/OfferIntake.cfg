CONSTANTS
  Portal = {"olx", "justjoinit", "pracujpl", "bulldogjob", "theprotocol", "linkedin", "nofluffjobs"}
  Amount = {13, 30}
  Rest = {5}
  None = None
  MaxChanges = 1
  MaxScrapes = 2
  MaxWords = 2
SPECIFICATION Spec
INVARIANTS TypeOK RowTellsTheOffer RowFitsTheSearch
PROPERTIES LostPageHarmless
CHECK_DEADLOCK FALSE
