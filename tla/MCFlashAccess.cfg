\* Both boards, with every combination of error flags; timers of five values.
SPECIFICATION FairSpec
CONSTANTS
  TimerMod = 5
  Limit = 2
INVARIANTS
  TypeOK
  MaskedExactly
  WritableOnlyInside
  FailureNamed
  IInv
PROPERTIES
  SavesEnd
