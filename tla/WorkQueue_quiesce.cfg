SPECIFICATION Spec
CONSTANTS
  m1 = m1
  m2 = m2
  w1 = w1
  w2 = w2
  Machines = {m1}
  Workers = {w1, w2}
  Cancellers = {}
  Quiescers = {q1}
  At <- AtOne
  Free = Free
  MaxJobs = 2
  Priorities = {0, 1}
  MaxCrashes = 1
INVARIANTS
  RunAtMostOnce
  RowOfLiveJobKept
  QuietMeansIdle
