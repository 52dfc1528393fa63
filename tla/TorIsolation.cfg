SPECIFICATION Spec
CONSTANTS
  Handles = {h1, h2}
  Requests = {r1, r2}
  Conns = {c1, c2}
  Circuits = {k1, k2}
  Urls <- Sites
  MaxGroups = 3
  None = None
INVARIANTS
  TypeOK
  Unlinkable
  ReachesEndpoint
PROPERTIES
  ImplementsSessions
SYMMETRY Symmetric
CHECK_DEADLOCK FALSE
