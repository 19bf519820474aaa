SPECIFICATION DeploySpec
CONSTANTS
  m1 = m1
  Machines = {m1}
  Workers = {w1}
  Cancellers = {}
  Quiescers = {q1}
  At <- AtOne
  Free = Free
  MaxJobs = 1
  Priorities = {0}
  MaxCrashes = 0
PROPERTIES
  InstallFinishes
