SPECIFICATION FairSpec
CONSTANTS
  Runs = {r1, r2}
  Kids = {k1, k2}
  Probes = {b1}
  Nobody = Nobody
INVARIANTS
  TypeOK
  OneRun
  HolderNamed
  NoForeignUnload
PROPERTIES
  WaiterGetsIn
CHECK_DEADLOCK FALSE
