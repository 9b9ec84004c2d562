SPECIFICATION Spec
CONSTANTS
  Names = {a, b, c}
  Addresses = {x}
  Tokens = {t}
  None = None
  Processes = {p1, p2}
  Garbled = Garbled
INVARIANTS
  TypeOK
  FileIsMeant
SYMMETRY Symmetry
