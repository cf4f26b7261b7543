\* Every contents of two blocks of three slots, with three counters, the
\* lowest of them below the seed.
SPECIFICATION Spec
CONSTANTS
  BlockSlots = 3
  CounterMax = 3
  Seed = 2
  Erased = Erased
  Blank = Blank
  Torn = Torn
INVARIANTS
  TypeOK
  AcceptsExactlyLoadable
  EndsAtNewest
  IInv
\* A load ends.
CHECK_DEADLOCK FALSE
