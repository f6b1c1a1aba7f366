SPECIFICATION Spec
CONSTANTS
  Workers <- BothWorkers
  Scenarios <- StaleScenarios
INVARIANTS
  DriverWaitsForThisTest
