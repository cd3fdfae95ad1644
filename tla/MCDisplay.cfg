CONSTANTS
  FbdevBufs = 3
  DispBufs = 4
  DrmBufs = 3
  MaxFrames = 6
  MaxJobs = 5
  Windows = {w1, w2}
  Sinks = {"fbdev", "disp", "kms", "gpu"}
  w1 = w1
  w2 = w2
SPECIFICATION Spec
INVARIANTS TypeOK NoTear JobsSafe
PROPERTIES ImplementsPanel SinkReturns ThreadReturns
