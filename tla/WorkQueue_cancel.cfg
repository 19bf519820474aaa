SPECIFICATION Spec
CONSTANTS
  m1 = m1
  m2 = m2
  w1 = w1
  w2 = w2
  Machines = {m1, m2}
  Workers = {w1, w2}
  Cancellers = {c1}
  Quiescers = {}
  At <- AtTwo
  Free = Free
  MaxJobs = 2
  Priorities = {0}
  MaxCrashes = 1
INVARIANTS
  TypeOK
  CancelStops
  DoneIsReal
PROPERTIES
  ImplementsLedger
