SPECIFICATION Spec
CONSTANTS
  Workers <- BothWorkers
  Scenarios <- AllScenarios
INVARIANTS
  BarrierHolds
  NotifyConserved
  MessagesInOrder
PROPERTIES
  AllEnd
