SPECIFICATION FairSpec
CONSTANTS
  s1 = s1
  Lanes = {code, web}
  Specs = {s1, s2}
  Typed <- AllS1
  Waiters = {w1, w2, w3}
  Runs = {r1}
  RETRIES = 3
  MaxFails = 3
  MaxLosses = 1
  Free = Free
  NoAlias = NoAlias
INVARIANTS
  TypeOK
  NeverMidRun
  CleanReportIsTrue
PROPERTIES
  AdoptionServed
