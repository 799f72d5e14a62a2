CONSTANTS
  Thread = {a1, a2, a3}
  Fd <- LargeFds
  Initial = 64
  None = none
SPECIFICATION FairSpec
INVARIANTS
  TypeOK
  FreshContext
  UnlockedTooOften
PROPERTIES
  ContextStays
  CallsEnd
