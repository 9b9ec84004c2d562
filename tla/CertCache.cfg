SPECIFICATION Spec
CONSTANTS
  Sources = {1, 2}
  Locations = {1, 2}
  MaxPaths = 2
  Repeats = {}
  Slots = 5
  Absent = Absent
INVARIANTS
  TypeOK
  GlobalIsUnion
  SourcesKeepTheirLists
