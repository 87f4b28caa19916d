SPECIFICATION Spec
CONSTANTS
  Dir <- MCDir
  Slots = 3
  Handle = {h1, h2}
  Word = 8
  Junk = {0, 7}
  None = None
SYMMETRY MCSymmetry
INVARIANTS
  TypeOK
  Nested
  Counted
PROPERTIES
  MountsStay
  UsersKept
CHECK_DEADLOCK FALSE
