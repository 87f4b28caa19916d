SPECIFICATION Spec
CONSTANTS
  Name = {"a", "b"}
  Target = {}
  Path <- DirPath
  Handle = {h1}
  Ctx = {c1}
  NoNode = NoNode
  Image <- DirImage
  MaxDepth = 2
  MaxEntries = 2
  MaxLinks = 2
  MaxLeak = 1
  BackStack = 10
INVARIANTS
  IInv
PROPERTIES
  CwdKept
CHECK_DEADLOCK FALSE
