SPECIFICATION Spec
CONSTANTS
  Threads = {"main", "helper"}
  Main = "main"
  Size = 1
  Faulty <- MCFaulty
  Chance = TRUE
  Hole = 1
  Word = 2
INVARIANTS
  TrafficExact
PROPERTIES
  LossIsAskedFor
  EventuallyThrough
