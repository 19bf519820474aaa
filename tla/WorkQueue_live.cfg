SPECIFICATION FairSpec
CONSTANTS
  m1 = m1
  m2 = m2
  w1 = w1
  w2 = w2
  Machines = {m1}
  Workers = {w1}
  Cancellers = {}
  Quiescers = {q1}
  At <- AtOne
  Free = Free
  MaxJobs = 2
  Priorities = {0}
  MaxCrashes = 1
PROPERTIES
  QuiesceReturns
  PendingStarts
  CutOffIsFailed
