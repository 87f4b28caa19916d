SPECIFICATION Spec
CONSTANTS
  Name = {a, b}
  Ino = {i1, i2}
  Block = {11, 12}
  BlockSize = 4
  Inline = 2
  Text <- MCText
  Handle = {h1, h2}
  None = None
SYMMETRY MCSymmetry
INVARIANTS
  TypeOK
  NamesApart
  BlocksApart
PROPERTIES
  OneNameChanges
CHECK_DEADLOCK FALSE
