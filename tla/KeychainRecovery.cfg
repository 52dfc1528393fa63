SPECIFICATION Spec
CONSTANTS
  Pools <- TwoChains
  GapLimit = 2
  MaxSkip = 1
  Settles = TRUE
  MaxDeposits = 2
  MaxBatches = 3
  MaxNonce = 5
  None = None
INVARIANTS
  TypeOK
  RecoversExactly
  NonceUnused
  DepositsAccepted
