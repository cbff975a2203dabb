SPECIFICATION Spec
CONSTANTS
  Events = {v1, v2}
  Endpoints = {e1}
  Scans = {w1, w2}
  Operators = {o1}
  Batch = 2
  Lease = 2
  Budget = 1
  MaxBackoff = 1
  Threshold = 2
INVARIANTS
  OneAttemptAtATime
