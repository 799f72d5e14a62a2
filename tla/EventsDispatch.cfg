CONSTANTS
  r1 = r1
  r2 = r2
  c1 = c1
  Runner = {r1, r2}
  Client = {}
  Setups <- Processes
  Wrap = 8
SPECIFICATION FairSpec
INVARIANTS
  TypeOK
  ContextMatches
  AtMostOnce
  NoFailure
 
