SPECIFICATION JsSpec
CONSTANTS
  Zero = Zero
  Leaf = Leaf
  Depth = 3
  Arity = 2
  Hash <- Row_
  Hashes <- Trees
  Batches <- SomeBatches
  ZeroDigest = 4
  P = 37
  RADIX = 4
  WORD_BYTES = 2
  U32_MAX = 15
  U64_MAX = 31
  Thrown = Thrown
  None = None
  Calls <- SomeCalls
  Logs <- SomeLogs
  DepositTopic = 13
  WithdrawalTopic = 14
  LeafOf <- LeafOf_
  C <- RoundConstants
  Q = 409
  L = 47
  WIDTH = 6
  WINDOW_SIZE = 2
  N_WINDOWS_PER_SEGMENT = 2
  Candidates <- BlakeOutputs
  NoPoint = NoPoint
INVARIANTS
  TypeOK
  HashesChildren
  ProofsVerify
  RootIsContracts
PROPERTIES
  SplicesWhatWasPassed
