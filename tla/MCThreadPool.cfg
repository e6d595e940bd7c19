SPECIFICATION Spec
CONSTANTS
  Jobs = {feeder, j1, j2}
  Feeder = feeder
  Requests = {0, 3}
  Hardware = {0, 2, 3}
  MaxRetries = 1
  InlineTries = 2
  None = None
INVARIANTS
  TypeOK
  OnePlace
PROPERTIES
  ImplementsPool
  JobsAndStopEnd
