SPECIFICATION Spec
CONSTANTS
  Workers = {w1, w2}
  NumSources = 2
  NameOf <- MCOneName
  Interval <- MCInterval
  TTLs <- MCTTLs
  MinAuthInterval = 1
  ExpiredRetryInterval = 2
  Requests = {r1}
  StartTime = 3
  Horizon = 4
  MaxTaskID = 6
  None = None
SYMMETRY MCSymmetry
INVARIANTS
  TypeOK
  ExclusiveRun
  TimersMatchPending
  NoLostWakeup
  ChainsIntact
  DumpConsistent
PROPERTIES
  ImplementsExclusiveRuns
  SpacedUnlessRequested
