CONSTANTS
  w1 = w1
  w2 = w2
  t1 = t1
  t2 = t2
  t3 = t3
  Worker = {w1}
  Owner = owner
  Foreign = foreign
  UseCaller = TRUE
  Stopper = owner
  Task = {t1, t2}
  AnyThread = anyThread
  None = none
  Pin <- PinFree
  RequeueOwn = FALSE
SPECIFICATION Spec
INVARIANT SafeResume
