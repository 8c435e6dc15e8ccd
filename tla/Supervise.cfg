SPECIFICATION Spec
CONSTANTS
  a = a
  b = b
  Units = {a, b}
  Setups <- Supervised
  ShowMax = 2
  MaxForks = 4
INVARIANTS TypeOK OneProcess StoppedIsDown DeathsAddUp RestartsBounded SuccessIsAlive
SYMMETRY Symmetric
