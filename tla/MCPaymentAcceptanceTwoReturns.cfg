CONSTANTS
  Quote = 2
  Attempts = {a1}
  Returnable = {a1}
  MaxReturns = 2
  Approvals = FALSE
SPECIFICATION AcceptanceSpec
CHECK_DEADLOCK FALSE
INVARIANT ReturnNotLost
