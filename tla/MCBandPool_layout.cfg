CONSTANTS
  W = 2
  bin_count = 2
  layout = TRUE
  MaxFrames = 2
SPECIFICATION Spec
INVARIANT ThiefHasContext
