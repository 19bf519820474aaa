SPECIFICATION FairSpec
CONSTANTS
  s = s
  a = a
  b = b
  k = k
  Models = {s, a, b}
  Stuck = {s}
  Bases = {k}
  Rank <- SFirst
  BaseOf <- BOnK
  Size <- Ones
  Budget = 2
  Top = 2
  Window = 2
  RETESTS = 1
  Renewable = {a}
  Judgeable = {b}
  MaxDeaths = 1
INVARIANTS
  TypeOK
  WithinBudget
  NotFetchedBack
PROPERTIES
  Answered
