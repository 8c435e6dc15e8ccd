SPECIFICATION FairSpec
CONSTANTS
  a = a
  b = b
  Units = {a}
  Setups <- Living
  ShowMax = 2
  MaxForks = 3
PROPERTIES RecordedIsRestarted ShutdownCompletes
