CONSTANTS
  N = 1
  Inf = 99
  Dsi = TRUE
  Shift9 = 1
  Quantum = 3
  Margin = 0
  MaxCost = 2
  Delays = {2}
  MaxNow = 1
  Runs = {5}
SPECIFICATION LiveSpec
INVARIANTS ClocksAgree FiresOnTime
PROPERTIES RunEnds
