SPECIFICATION FairSpec
CONSTANTS
  Interval = 2
  Setups <- Triggers
INVARIANTS TypeOK NeverAsleep ArmedIsSaved NothingMissed StoppedIsQuiet ChangeIsServed
PROPERTIES RequestIsAnswered ShutdownEnds
