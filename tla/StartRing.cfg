SPECIFICATION FairSpec
CONSTANTS
  a = a
  b = b
  c = c
  d = d
  ghost = ghost
  None = None
  Units <- ABCD
  Names <- ABCD
  Order <- LoadABCD
  Configs <- Ring
  MaxWakeups = 0
PROPERTIES StartCompletes
CHECK_DEADLOCK FALSE
