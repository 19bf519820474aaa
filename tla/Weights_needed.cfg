SPECIFICATION Spec
CONSTANTS
  a = a
  b = b
  Repos = {a, b}
  Needs <- AOnB
  Fetchers = {f1}
  Sweepers = {s1}
  MaxRows = 2
  MaxCrashes = 0
  NoRepo = NoRepo
PROPERTIES
  NeededKept
CHECK_DEADLOCK FALSE
