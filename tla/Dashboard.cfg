SPECIFICATION DashboardSpec
CONSTANTS
  SessionIDs = {s1, s2}
  Requests = {q1, q2}
  Pages = {p1, p2, p3}
  None = None
  Timeout = 4
  MaxDelay = 1
  PollPeriod = 1
SYMMETRY MCSymmetry
INVARIANTS
  TypeOK
  OnePollChain
  HiddenAfterLogout
PROPERTIES
  LeavingStopsPolls
  NoAccessAfterIdle
  PollingKeepsSession
