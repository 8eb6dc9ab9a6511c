CONSTANTS
  BatchSize = 2
  QueueMax = 2
  FlushMax = 2
  PageLimit = 1
  FetchFactor = 2
  FetchMax = 2000
  Matching = {1, 3, 4}
  MaxTicks = 4
  MaxLogs = 4
  MaxFaults = 2
SPECIFICATION Spec
CHECK_DEADLOCK FALSE
INVARIANTS IInv ReadingsKept LogsAccounted PagedOnce
