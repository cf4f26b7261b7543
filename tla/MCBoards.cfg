\* Up to two failing checks; of the errors of a save, the last code there is.
SPECIFICATION FairSpec
CONSTANTS
  MaxDefects = 2
  SaveErrors = {32}
INVARIANTS
  IInv
  DefectiveStaysOut
  StoppedNamesCause
  ScreenAgrees
PROPERTIES
  PeerErrorShown
