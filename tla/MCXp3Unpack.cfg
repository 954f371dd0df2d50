SPECIFICATION Spec
CHECK_DEADLOCK FALSE
CONSTANTS
  N = 3
  Paths <- MCPaths
  Shapes <- MCShapes
  BatchSize = 2
  ByteLimit = 4
  NoFile = NoFile
INVARIANTS
  AcceptedIsVerified
  GuessIsLast
PROPERTIES
  InOrder
  Terminates
