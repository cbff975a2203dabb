CONSTANTS
  MaxRounds = 2
  Processors = {p1}
  OutboxAttempts = 1
  QueueAttempts = 2
  MaxStalled = 0
  MaxMishaps = 1
SPECIFICATION FairSpec
CHECK_DEADLOCK FALSE
INVARIANTS
  LetterSentOnce
  SentIsEvidence
PROPERTIES
  RungIsResolved
