SPECIFICATION Spec
CONSTANTS
  Geometries <- TwoGeometries
  MaxFrames = 3
INVARIANTS
  CloseReportsLostChunks
