SPECIFICATION FairSpec
CONSTANTS
  a = a
  b = b
  Units = {a}
  Setups <- Dumping
  ShowMax = 2
  MaxForks = 2
PROPERTIES FailurePromised
