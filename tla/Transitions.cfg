SPECIFICATION Spec
CONSTANTS
  Writers = {a, b}
  Tiers = {"screen", "adopt"}
  RETESTS = 1
  Tries = 2
  MaxVid = 4
SYMMETRY WriterSymmetry
INVARIANTS
  TypeOK
  HistoryFolds
  HistoryLegal
  RetestsInStep
PROPERTIES
  NoSilentReopen
