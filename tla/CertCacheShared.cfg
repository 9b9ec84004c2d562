SPECIFICATION Spec
CONSTANTS
  Sources = {1, 2}
  Locations = {1, 2, 3}
  MaxPaths = 3
  Repeats = {}
  Slots = 5
  Absent = Absent
PROPERTIES
  OthersUntouched
