SPECIFICATION FairSpec
CONSTANTS
  Interval = 2
  Setups <- Restarted
PROPERTIES RequestIsAnswered
CHECK_DEADLOCK FALSE
