\* Both boards: without a display, and with one slower than a frame.
SPECIFICATION Spec
CONSTANTS
  FrameBytes = 4
  Capacity = 5
  DrawTimes = {0, 8}
  Stray = Stray
INVARIANTS
  TypeOK
  HeardWithoutDisplay
  HeardInSync
  IInv
