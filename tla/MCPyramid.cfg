SPECIFICATION Spec
CONSTANTS
  Configs <- MCConfigs
  MaxFrames = 20
  NoFrame = NoFrame
INVARIANTS
  TypeOK
  LevelsFaithful
  ScalesMatch
  SlotsCovered
CHECK_DEADLOCK FALSE
