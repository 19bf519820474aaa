SPECIFICATION Spec
CONSTANTS
  a = a
  b = b
  Repos = {a}
  Needs <- Alone
  Fetchers = {f1, f2}
  Sweepers = {s1}
  MaxRows = 2
  MaxCrashes = 1
  NoRepo = NoRepo
SYMMETRY Symmetric
INVARIANTS
  TypeOK
  HaveIsWhole
PROPERTIES
  OnlyRefusedGo
  DueIsFreed
CHECK_DEADLOCK FALSE
