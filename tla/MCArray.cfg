SPECIFICATION Spec
CONSTANTS
  Geometries <- TwoGeometries
  MaxFrames = 7
INVARIANTS
  TypeOK
  FramesInTheirPlace
  EachSlotOnce
  SuccessMeans
