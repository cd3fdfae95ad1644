CONSTANT Wrap = 3
SPECIFICATION LiveSpec
INVARIANTS TypeOK WaitMeansDone NoLostWakeup
PROPERTIES CallsReturn ImplementsHandOff
