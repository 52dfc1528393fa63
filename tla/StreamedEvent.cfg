SPECIFICATION Spec
CONSTANTS
  Latest = Latest
  NoHint = NoHint
  FromTags <- FromBounds
  ToTags <- ToBounds
  Heads <- ProviderHeads
  Hints <- ProviderHints
  ChunkSize = 4
  MaxConcurrent = 2
  BaseDelay = 2
  MaxDelay = 3
  MaxRetries = 1
INVARIANTS
  TypeOK
  SlotsSpaced
  PauseBounded
  ChunksNeverGrow
PROPERTIES
  ImplementsOrderedQuery
  StreamEnds
