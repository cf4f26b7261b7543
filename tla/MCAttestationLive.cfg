\* Two challenges; the repeated nonce leaves the counters to tell them apart.
SPECIFICATION FairSpec
CONSTANTS
  CounterMax = 3
  Seed = 1
  Nonces = {n1}
  NoNonce = NoNonce
  Timeout = 1
  Approved = Approved
  Changed = Changed
  Nothing = Nothing
PROPERTIES
  ChallengesEnd
  VerdictWhenCalm
