SPECIFICATION FairSpec
CONSTANTS
  Name = {"a", "b", "c"}
  Dots <- MCDots
  NoName = ""
  Need <- MCNeed
  Ino = {1, 2}
  BlockWords = 10
  NDirect = 3
  Images <- MCImages
  Left <- MCLeft
  Handle = {h1}
INVARIANTS
  TypeOK
  Tiled
  EntriesFit
  FindsBound
  VacantExact
  ListingExact
PROPERTIES
  ListingEnds
  MapSpec
  CallsMapped
  SanityHolds
CHECK_DEADLOCK FALSE
