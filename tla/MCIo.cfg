CONSTANTS
  Bits = {a, b}
  Dsi = TRUE
  Words = {0, 1}
  Cap = 2
  Controls <- FewControls
  Defer = TRUE
SPECIFICATION IoSpec
INVARIANTS IrqTypeOK PendingExact ARM7Wakes NoneOverlooked TypeOK HeldFits EdgesTold
PROPERTIES ImplementsChannel
