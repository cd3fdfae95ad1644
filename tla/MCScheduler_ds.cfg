CONSTANTS
  N = 2
  Inf = 99
  Dsi = FALSE
  Shift9 = 0
  Quantum = 2
  Margin = 0
  MaxCost = 2
  Delays = {1, 2}
  MaxNow = 2
  Runs = {1, 3}
SPECIFICATION Spec
INVARIANTS TypeOK NextIsEarliest NothingOverdue
