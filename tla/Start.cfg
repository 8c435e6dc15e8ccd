SPECIFICATION Spec
CONSTANTS
  a = a
  b = b
  c = c
  d = d
  ghost = ghost
  None = None
  Units <- ABC
  Names <- WithGhost
  Order <- LoadABC
  Configs <- All
  MaxWakeups = 1
INVARIANTS TypeOK NoLostWakeup DependenciesFirst FailureHasCause ResultIsTruthful ConflictExclusion
