SPECIFICATION RunSpec
CONSTANTS
  Scenarios <- FailedFirst
  PipeCapacity = 2
  Limits = {7}
  OpenBefore = 2
  MaxRuns = 0
  Capacity = 1
  MaxWrites = 1
  ReadSize = 1
  MaxAddr = 0
  MaxCalls = 0
INVARIANTS
  FailureStands
