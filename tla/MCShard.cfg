SPECIFICATION Spec
CONSTANTS
  Chunks = {0, 1, 2}
  SizeOf <- ChunkSizes
  Tries = 3
  Unwritten = Unwritten
  NoTable = NoTable
INVARIANTS
  TypeOK
  RangesDisjoint
  SinkAlive
  TableTruthful
PROPERTIES
  ImplementsLedger
