SPECIFICATION Spec
CONSTANTS
  Conns = {"p", "q"}
  Mortal = {"p"}
  Fields <- MCFields
  MaxMessages <- MCMessages
  MaxBody = 3
  PathLimit <- MCLimits
  Bodies <- MCBodies
  Header = 2
  BufferSize = 3
  SyscallSize = 4
  MaxMTU = 3
  LargeMTU = 2
  SmallMTU = 1
INVARIANTS
  BuffersFit
  Aligned
  MTUExact
  RoundTrip
PROPERTIES
  ImplementsChannel
  Drains
