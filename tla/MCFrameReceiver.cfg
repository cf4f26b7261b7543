\* Requests of two bytes, the other frames of one; a timer of three values.
SPECIFICATION Spec
CONSTANTS
  RequestLen = 2
  ReportLen = 1
  Byte <- MCByte
  TimerMod = 3
  FrameTimeout = 2
INVARIANTS
  TypeOK
PROPERTIES
  DeliversFrames
