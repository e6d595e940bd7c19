SPECIFICATION Spec
CONSTANTS
  a = a
  b = b
  Keys = {a, b}
  FrameSize <- FrameSizes
  MaxArrayBytes <- ArrayBytes
  QueueBound = 1
  MaxAppend = 3
  MaxJobs = 0
INVARIANTS
  CloseFlushesAllData
