CONSTANTS
  Thread = {a1, a2}
  Fd <- LargeFds
  Initial = 32
  Uses <- OneEach
  MaxMade = 4
SPECIFICATION Spec
INVARIANT EpollAsserts
