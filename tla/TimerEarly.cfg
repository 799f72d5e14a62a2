CONSTANTS
  Runner = {r1, r2}
  Client = {}
  Timer = {1, 2}
  Period = {1, 2}
  Recurring = {}
  Start = 0
  Horizon = 3
  LastDue = 2
  MaxWait = 2
  Hour = 16
  Wrap = 64
SPECIFICATION Spec
CHECK_DEADLOCK FALSE
PROPERTY NeverEarly
