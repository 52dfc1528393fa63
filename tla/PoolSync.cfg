SPECIFICATION Spec
CONSTANTS
  MaxHead = 3
  Deployed = 1
  MaxBlock = 99
  BlockLogs <- Blocks
  Sources <- AllSources
  ToBlocks <- Bounds
INVARIANTS
  TypeOK
  CoveredUnlessTorn
  RefusedOnlyIfTorn
PROPERTIES
  ImplementsPoolSession
  CatchesUp
