SPECIFICATION Spec
CONSTANTS
  a = a
  b = b
  None = None
  Units = {a, b}
  MaxFds = 3
  Slots = 3
  Setups <- Instances
INVARIANTS TypeOK ProcessesAreKnown ConflictsExclude EnabledIsLinked EnabledExclude DefaultIsTold AnswerIsTrue ListsCover StaleIsMarked ClientSeesUnit
