\* Three challenges, each of which may be cut off, lost, answered late or twice.
SPECIFICATION Spec
CONSTANTS
  CounterMax = 4
  Seed = 1
  Nonces = {n1, n2}
  NoNonce = NoNonce
  Timeout = 2
  Approved = Approved
  Changed = Changed
  Nothing = Nothing
INVARIANTS
  TypeOK
  ProverNeverAhead
  MeasuredIsCommitted
  IInv
PROPERTIES
  RequestsAdvance
  MeasurementsAdvance
  ImplementsSession
