SPECIFICATION Spec
CONSTANTS
  Workers = {w1, w2}
  NumSources = 1
  NameOf <- MCOneSourceName
  Interval <- MCInterval
  TTLs <- MCTTLs
  MinAuthInterval = 1
  ExpiredRetryInterval = 2
  Requests = {r1}
  StartTime = 3
  Horizon = 6
  MaxTaskID = 6
  None = None
SYMMETRY MCSymmetry
PROPERTIES
  RefreshSpacing
