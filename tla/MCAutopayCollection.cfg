SPECIFICATION FairSpec
CONSTANTS
  Invoices = {i1}
  Runs = {r1}
  NoRun = NoRun
  MaxPosition = 1
  Ladder = 1
  Methods = 2
  ReplayWindow = 1
  KeyLife = 2
  FinalAction = "none"
  Gated = TRUE
  Others = FALSE
  OrgStates = {"served", "unreadable"}
INVARIANTS
  ChargedOnce
PROPERTIES
  UnknownStopsCharging
  InterruptedIsResolved
  CollectedIsBooked
