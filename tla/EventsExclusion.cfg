CONSTANTS
  r1 = r1
  r2 = r2
  c1 = c1
  Runner = {r1}
  Client = {c1}
  Setups <- Pair
  Wrap = 8
SPECIFICATION Spec
INVARIANT Exclusion
