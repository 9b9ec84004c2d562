SPECIFICATION Spec
CONSTANTS
  NotGiven = NotGiven
  MaxItems = 3
  MaxLeft = 4
INVARIANTS
  ShownAsAsked
CHECK_DEADLOCK FALSE
