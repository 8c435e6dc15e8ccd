SPECIFICATION FairSpec
CONSTANTS
  a = a
  b = b
  Units = {a}
  Setups <- Restarting
  ShowMax = 2
  MaxForks = 2
PROPERTIES RestartPromised
