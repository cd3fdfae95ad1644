CONSTANTS
  W = 2
  bin_count = 2
  layout = FALSE
  MaxFrames = 2
SPECIFICATION LiveSpec
INVARIANTS TypeOK LineReady OneDrawer
PROPERTIES DispatchAlone WaitsReturn
