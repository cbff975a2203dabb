SPECIFICATION FairSpec
CONSTANTS
  Events = {v1}
  Endpoints = {e1}
  Scans = {w1, w2}
  Operators = {o1}
  Batch = 1
  Lease = 2
  Budget = 1
  MaxBackoff = 1
  Threshold = 2
INVARIANTS
  LeaseExcludes
PROPERTIES
  DeliveredIsFinal
  EveryDeliveryEnds
