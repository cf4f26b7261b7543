\* A timer of 16 values, which wraps within two sessions.
SPECIFICATION FairSpec
CONSTANTS
  TimerMod = 16
  Interval = 7
  Lead = 2
  Timeout = 4
  MaxTurn = 3
INVARIANTS
  IInv
PROPERTIES
  KeepsTime
  SessionsGoOn
