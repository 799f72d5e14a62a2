CONSTANTS
  Runner = {r1, r2}
  Client = {c1}
  Timer = {1, 2}
  Period = {0, 1}
  Recurring = {2}
  Start = 6
  Horizon = 8
  LastDue = 7
  MaxWait = 3
  Hour = 6
  Wrap = 64
CHECK_DEADLOCK FALSE
SPECIFICATION FairSpec
INVARIANTS
  TypeOK
  LiveIffQueued
  OneFate
  InTime
PROPERTIES
  EventuallyFires
  NeverEarly
