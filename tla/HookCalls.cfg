CONSTANTS
  f1 = f1
  f2 = f2
  Setups <- OneOrTwo
  Task = {t1, t2}
  None = none
SPECIFICATION FairSpec
INVARIANTS
  TypeOK
  OneWake
  OwnTimeout
  NoStrayTimer
  FlagsAsAsked
  NeverBlocks
  WaitsAreWatched
PROPERTY TimedWaitEnds
