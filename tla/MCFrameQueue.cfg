SPECIFICATION ObserversSpec
CONSTANTS
  NumFrames = 2
  short = short
  long = long
  Labels = {short, long}
  SizeOf <- FrameSizes
  Bytes = {0, 1}
  Null = Null
  NoLabel = NoLabel
INVARIANTS
  TypeOK
  RefusedOnlyWhenDue
  ObserversHonest
PROPERTIES
  ImplementsFifo
