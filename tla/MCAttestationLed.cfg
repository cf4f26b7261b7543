\* The LED while a challenge is pending.
SPECIFICATION Spec
CONSTANTS
  CounterMax = 2
  Seed = 1
  Nonces = {n1}
  NoNonce = NoNonce
  Timeout = 1
  Approved = Approved
  Changed = Changed
  Nothing = Nothing
INVARIANTS
  LedOffWhilePending
