SPECIFICATION FairSpec
CONSTANTS
  a = a
  b = b
  c = c
  d = d
  ghost = ghost
  None = None
  Units <- ABC
  Names <- WithGhost
  Order <- LoadABC
  Configs <- Shapes
  MaxWakeups = 1
PROPERTIES StartCompletes ImplementsStartOrder
