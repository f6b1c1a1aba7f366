SPECIFICATION Spec
CONSTANTS
  a1 = a1
  a2 = a2
  b1 = b1
  c1 = c1
  A_ = A_
  B_ = B_
  C_ = C_
  Z_ = Z_
  Tests <- MCTests
  Modules <- MCModules
  moduleOf <- MCModuleOf
  expected <- MCExpected
  Verdicts <- MCVerdicts
  DepChoices <- MCDepChoices
  EnabledChoices <- MCEnabled
  FilterChoices <- MCFilters
  Programs <- MCPrograms
INVARIANTS
  TypeOK
  TablesExact
  ReadyExact
  DependencyOrder
  NoDanglingBlocked
  SummaryExact
  RegistryExact
PROPERTIES
  ImplementsSchedule
  RunAllEnds
