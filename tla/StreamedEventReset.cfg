SPECIFICATION Spec
CONSTANTS
  Latest = Latest
  NoHint = NoHint
  FromTags <- FromStart
  ToTags <- ToHead
  Heads <- ProviderHeads
  Hints <- NoHints
  ChunkSize = 1
  MaxConcurrent = 1
  BaseDelay = 1
  MaxDelay = 4
  MaxRetries = 1
PROPERTIES
  SuccessResetsDelay
