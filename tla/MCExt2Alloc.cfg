SPECIFICATION Spec
CONSTANTS
  WordBits = 6
  IntBits = 3
  MapWords = 1
  NGroups = 2
  TableBlocks = 2
  GroupMod = 8
  TotalMod = 32
  MaxCut <- CutBlock
  PerGroup <- MCPerGroup
  DescBlock <- MCDescBlock
  Marked <- LowMarked
  Held <- LowHeld
  FreeTotal <- LowTotal
INVARIANTS
  TypeOK
  UsedMarked
  NoSharing
  AssertHolds
  NoFalseENOSPC
  CounterHonest
