SPECIFICATION Spec
CONSTANTS
  Name = {"a", "b", "c"}
  Dots <- MCDots
  NoName = ""
  Need <- MCNeed
  Ino = {1, 2}
  BlockWords = 10
  NDirect = 3
  Images <- MCImages
  Left <- MCLeft
  Handle = {h1}
PROPERTIES
  ListingForward
CHECK_DEADLOCK FALSE
