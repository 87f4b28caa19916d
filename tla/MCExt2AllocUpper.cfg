SPECIFICATION Spec
CONSTANTS
  WordBits = 6
  IntBits = 3
  MapWords = 1
  NGroups = 2
  TableBlocks = 2
  GroupMod = 8
  TotalMod = 32
  MaxCut <- CutNone
  PerGroup <- MCPerGroup
  DescBlock <- MCDescBlock
  Marked <- UpperMarked
  Held <- UpperHeld
  FreeTotal <- UpperTotal
INVARIANT AssertHolds
