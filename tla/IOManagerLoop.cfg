CONSTANTS
  Worker = {w1}
  Owner = owner
  Task = {t1, t2}
  AnyThread = anyThread
  None = none
  Pin <- PinFree
  Wrap = 8
SPECIFICATION FairSpec
INVARIANTS
  TypeOK
  OnePlace
  LeaveNothing
PROPERTIES
  AllRun
  StopCompletes
