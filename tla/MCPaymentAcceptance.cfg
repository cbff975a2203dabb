CONSTANTS
  Quote = 2
  Attempts = {a1, a2}
  Returnable = {a1}
  MaxReturns = 2
  Approvals = TRUE
SPECIFICATION FairAcceptanceSpec
CHECK_DEADLOCK FALSE
INVARIANTS
  ReturnedIsKnown
  ReturnsPostOnce
PROPERTIES
  CollectedIsBooked
