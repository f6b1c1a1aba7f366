SPECIFICATION EachSpec
CONSTANTS
  Scenarios <- AllScenarios
  PipeCapacity = 2
  Limits = {7, 9, 12, 14, 15, 17, 18, 20, 21}
  OpenBefore = 2
  MaxRuns = 3
  Capacity = 3
  MaxWrites = 4
  ReadSize = 2
  MaxAddr = 5
  MaxCalls = 3
INVARIANTS
  VerdictExact
  ChildReaped
  TrackingEnds
  TableExact
  OutputExact
  MappingsExact
  CutExact
PROPERTIES
  RunReturns
  RunsEnd
  AlarmExact
