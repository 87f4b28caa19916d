SPECIFICATION Spec
CONSTANTS
  Name = {"a", "b"}
  Target <- MCTarget
  Path <- MCPath
  Handle = {h1}
  Ctx = {c1}
  NoNode = NoNode
  Image <- LinkImage
  MaxDepth = 2
  MaxEntries = 3
  MaxLinks = 2
  MaxLeak = 0
  BackStack = 10
INVARIANTS
  NoDoubleFree
CHECK_DEADLOCK FALSE
