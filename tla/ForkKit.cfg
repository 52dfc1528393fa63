SPECIFICATION Spec
CONSTANTS
  a1 = a1
  a2 = a2
  r1 = r1
  r2 = r2
  Altos = {a1, a2}
  Relayers = {r1, r2}
  Casts <- Pairs
  AltoPort = 3000
  RelayerPort = 8000
  MaxAttempts = 2
  Foreign = {3000, 8001}
INVARIANTS
  TypeOK
PROPERTIES
  ReadyIsOwn
  SpawnEnds
  NothingLeft
CHECK_DEADLOCK FALSE
