\* Three callers compete for two slots, both of which may be trials; nothing is
\* assumed of the dependency.
SPECIFICATION FairSpec
CONSTANTS
  c1 = c1
  c2 = c2
  c3 = c3
  Calls <- Three
  MaxConcurrent = 2
  FailureThreshold = 2
  OpenTimeout = 3
  HalfOpenMaxCalls = 2
  CallTimeout = 1
  MaxLag = 1
  MaxOrphans = 1
INVARIANTS
  TypeOK
  HalfOpenAccounting
  HalfOpenOnlyTrials
  ClosedBelowThreshold
PROPERTIES
  OpenHoldsForCooldown
  CallReturns
  BulkheadRecovers
  HalfOpenResolves
