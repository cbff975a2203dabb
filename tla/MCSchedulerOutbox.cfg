CONSTANTS
  Scans = {s1}
  Tasks = {t1}
  Passes = {p1,p2}
  None = None
  MaxAttempts = 2
  MaxReplays = 1
SPECIFICATION FairSpec
CHECK_DEADLOCK FALSE
INVARIANTS
  EvidencePaired
PROPERTIES
  SucceededIsFinal
  EveryTaskEnds
  ScansKeepRunning
