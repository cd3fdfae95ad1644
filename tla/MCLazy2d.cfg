CONSTANTS
  SCREEN_H = 3
  SCANLINES_PER_FRAME = 5
  Long = 2
  LAZY_BURST_LIMIT = 2
  LAZY_BURST_LINES = 1
  LAG_STORE_LIMIT = 2
  JOURNAL_CAP = 16
  b1 = b1
  b2 = b2
  Banks = {b1, b2}
  Split = TRUE
  Scaling = TRUE
  Abrupt = FALSE
  MaxWrites = 1
  MaxModes = 1
  MaxStores = 1
  MaxRemaps = 1
SPECIFICATION Spec
INVARIANTS JournalSound LinesExact FrameComplete
SYMMETRY BankSymmetry
