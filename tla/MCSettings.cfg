SPECIFICATION Spec
CONSTANTS
  Configs <- MCConfigs
  Disks = {"absent", "file", "old"}
  UnsetIds = {1, 7}
  AsRead <- MCAsRead
  LowerCase <- MCLowerCase
  InvalidNames = {".."}
  NumericNames = {"0", "1", "05", "5"}
  MetadataNames = {"zarr.json"}
  PlainNames = {"A", "B", "1", "05", "5"}
  MaxStreams = 2
  MaxRebuilds = 1
  NoKey = NoKey
  None = None
  NoSettings = NoSettings
INVARIANTS
  TypeOK
  NodesDisjoint
  RefusalKeepsStore
  OneOwner
  RoundTrip
  StreamAsAsked
CHECK_DEADLOCK FALSE
