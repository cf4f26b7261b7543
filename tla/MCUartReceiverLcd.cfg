\* The board with the display, once the line is calm.
SPECIFICATION FairSpec
CONSTANTS
  FrameBytes = 4
  Capacity = 5
  DrawTimes = {8}
  Stray = Stray
PROPERTIES
  RecoversOnceCalm
