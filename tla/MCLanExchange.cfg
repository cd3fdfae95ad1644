CONSTANTS
  Clients = {1, 2}
  Aid <- Crossed
  Gap = 5
  Window = 2
  Drift = 2
  Skew <- Apart
  MaxCmds = 2
  MaxRegular = 1
  MaxPower = 1
  MaxStalls = 1
SPECIFICATION Spec
INVARIANTS AnswersRight
PROPERTIES FailJustified RepliesReturn
