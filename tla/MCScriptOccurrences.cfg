CONSTANTS
  LastTick = 1
  Scanners = {s1, s2}
  Workers = {w1}
  CatchUp = 1
  Stale = 1
  MaxStalled = 0
SPECIFICATION FairSpec
CHECK_DEADLOCK FALSE
INVARIANTS
  ClosedByRunSince
  DispatchedAtMostTwice
PROPERTIES
  EveryOccurrenceCloses
