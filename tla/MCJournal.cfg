\* Three slots a block and counters up to 9: each block is erased and reused.
SPECIFICATION Spec
CONSTANTS
  BlockSlots = 3
  CounterMax = 9
  Seed = 1
  Erased = Erased
  Blank = Blank
  Torn = Torn
INVARIANTS
  TypeOK
  ProgramsOnlyErasedSlots
  NewestKept
  ResetFindsRam
  IInv
PROPERTIES
  NoRollback
  ImplementsCounterStore
