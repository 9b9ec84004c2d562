SPECIFICATION FairSpec
CONSTANTS
  NotGiven = NotGiven
  Certs = {c1, c2}
  Absent = Absent
  MaxLeft = 5
  Soon = 2
  Interval = 2
  MaxCheck = 1
  MaxLate = 2
INVARIANTS
  TypeOK
  MessageFits
  NoInstantLost

  
