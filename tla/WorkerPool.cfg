SPECIFICATION Spec
CONSTANTS
  NumRegistered = 2
  Remote <- RemoteMatching
  Needs <- MixedNeeds
  MaxId = 7
  Status = {0, 6}
  MayDie = {0, 3}
  Lacks = {1}
INVARIANTS
  OneStageEach
  JoinIsComplete
  QuietBetweenTests
PROPERTIES
  AllTestsEnd
