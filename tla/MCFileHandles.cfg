SPECIFICATION Spec
CONSTANTS
  Files = {f1, f2, f3}
  Threads = {t1, t2, t3}
  MaxHandles = 2
  MaxAttempts = 2
  MaxCalls = 2
  None = None
INVARIANTS
  TypeOK
  BorrowedStaysOpen
  WithinLimit
PROPERTIES
  CallsEnd
