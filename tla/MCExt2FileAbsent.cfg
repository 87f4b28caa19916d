SPECIFICATION Spec
CONSTANTS
  Block = {b1, b2}
  BlockSize = 3
  NDirect = 2
  Word = 64
  Byte = {"x", "y"}
  Junk = "?"
  Payload <- MCPayload
  Count = {1, 2, 3, 6}
  Length = {0, 1, 4}
  Handle = {h1, h2}
  MaxSize = 7
SYMMETRY MCSymmetry
INVARIANTS
  ReleasesPresent
CHECK_DEADLOCK FALSE
