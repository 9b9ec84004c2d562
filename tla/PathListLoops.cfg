SPECIFICATION LoopSpec
CONSTANTS
  Lists <- MCLists
  Spare <- MCSpare
CHECK_DEADLOCK FALSE
INVARIANTS
  LoopsInBounds
  DiffIsDifference
  DeleteIsDifference
  MergeIsUnion
  LoopsEnd
