SPECIFICATION Spec
CONSTANTS
  Pools <- MC_Pools
  Prices = {50, 60}
  Rates = {2000, 2008}
  RateUnit = 1000
  Estimates <- MC_Estimates
  Timeout = 4
  WaitInterval = 2
  Latency = 1
  RootHistory = 1
  MaxDeposits <- MC_MaxDeposits
  MaxOps = 2
  MaxOwnerNonce = 1
  None = None
INVARIANTS
  TypeOK
  SponsoredIsValid
PROPERTIES
  SeenInTime
  OperationEnds
