SPECIFICATION FairSpec
CONSTANTS
  MaxRows = 3
  QUEUE_MAX = 2
  BATCH_MAX = 2
  SAMPLE_ROWS = 1
  MaxAdoptions = 1
  MaxRestarts = 1
INVARIANTS
  TypeOK
  Conserved
  WrittenByClose
  DroppedAtMostLost
  LabelNotOlder
PROPERTIES
  NoTextWhenOff
  ImplementsLedger
  EveryRowSettles
