SPECIFICATION WithdrawalSpec
CONSTANTS
  MaxJobs = 2
  Timeout = 1
  Honest = FALSE
  Responsive = TRUE
  None = None
  SECRET_BITS = 3
  NoPool = NoPool
  Garbled = Garbled
  WORD = 4096
  MaxU64 = 7
  FEE_PRECISION = 4
  WITHDRAWAL_GAS = 5
  Units <- Units_
  Decimals <- Decimals_
  Q = 409
  L = 47
  WIDTH = 6
  WINDOW_SIZE = 2
  N_WINDOWS_PER_SEGMENT = 2
  Candidates <- BlakeOutputs
  NoPoint = NoPoint
  Backups <- SomeBackups
  Withdrawn <- WithdrawnNotes
  RelayerStatuses <- SomeStatuses
  GasPrices = {0, 7, 63}
  Refunds = {0, 5, 405, 4090}
  RelayedQuotes <- SomeQuotes
  RootHistory = 2
  MaxDeposits = 2
INVARIANTS
  ConfirmedByChain
  WithdrawalTypeOK
  FindsItsPool
  CommitmentIsReference
  QuoteCovers
  Withdrawable
PROPERTIES
  LandedIsReported
  AwaitEnds
CHECK_DEADLOCK FALSE
