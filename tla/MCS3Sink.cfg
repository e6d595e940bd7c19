SPECIFICATION Spec
CONSTANTS
  wide = wide
  narrow = narrow
  document = document
  Sinks = {wide, narrow, document}
  Shards = {wide, narrow}
  Together <- MCTogether
  Plan <- MCPlan
  Offset <- MCOffset
  PartSize = 2
  NConnections = 2
  MaxTries = 2
  NThreads = 2
INVARIANTS
  TypeOK
  AckedBytesLand
  ConnectionsAccounted
PROPERTIES
  RequestsServed
CHECK_DEADLOCK FALSE
