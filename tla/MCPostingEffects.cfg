SPECIFICATION FairSpec
CONSTANTS
  Docs = {d1}
  NoDoc = NoDoc
  Workers = {w1,w2}
  Requests = {q1}
  Steps = 2
  MaxAttempts = 2
  Stale = 1
  BackoffCap = 1
  Batch = 1
  Horizon = 2
  MaxReplays = 1
INVARIANTS
  LeaseExclusive
  SucceededMeansApplied
  AttemptCeiling
  TerminalEvidence
  UnfinishedIsRetryable
PROPERTIES
  NewestClaimDecides
  KeepsPromise
  EffectsSettle
