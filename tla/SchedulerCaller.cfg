CONSTANTS
  w1 = w1
  w2 = w2
  t1 = t1
  t2 = t2
  t3 = t3
  Worker = {w1, w2}
  Owner = owner
  Foreign = foreign
  UseCaller = TRUE
  Stopper = owner
  Task = {t1, t2, t3}
  AnyThread = anyThread
  None = none
  Pin <- PinMixed
  RequeueOwn = TRUE
SPECIFICATION FairSpec
INVARIANTS
  TypeOK
  CountersAccurate
  NoTaskLost
  DrainedExit
  StopDrains
  OneRunner
  SafeResume
PROPERTIES
  PoolSpec
  NoStarvation
  StopCompletes
