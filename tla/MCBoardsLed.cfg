\* One failing check.
SPECIFICATION Spec
CONSTANTS
  MaxDefects = 1
  SaveErrors = {14}
INVARIANTS
  FatalFlashes
