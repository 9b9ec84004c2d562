SPECIFICATION FairSpec
CONSTANTS
  Workers = {w1, w2}
  NumSources = 1
  NameOf <- MCOneSourceName
  Interval <- MCInterval
  TTLs <- MCForever
  MinAuthInterval = 1
  ExpiredRetryInterval = 2
  Requests = {r1}
  StartTime = 3
  Horizon = 6
  MaxTaskID = 5
  None = None
PROPERTIES
  QueueDrains
  RequestServed
