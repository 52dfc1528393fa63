SPECIFICATION Spec
CONSTANTS
  MaxHead = 4
  Deployed = 1
  MaxBlock = 99
  BlockLogs <- Blocks
  Sources <- RemoteOnly
  ToBlocks <- Bounds
INVARIANTS
  CursorCovered
