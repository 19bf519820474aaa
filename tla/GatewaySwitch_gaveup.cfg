SPECIFICATION Spec
CONSTANTS
  s1 = s1
  Lanes = {code}
  Specs = {s1, s2}
  Typed <- AllS1
  Waiters = {w1, w2}
  Runs = {}
  RETRIES = 3
  MaxFails = 3
  MaxLosses = 0
  Free = Free
  NoAlias = NoAlias
INVARIANTS
  OldConfigBack
