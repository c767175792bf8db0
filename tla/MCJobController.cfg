SPECIFICATION Spec
CONSTANTS
  Chunk = 2
  Pipe = 2
  MaxOut = 3
  MaxIn = 3
INVARIANT TypeOK
INVARIANT OutputWhole
INVARIANT OnlyNamedWaits
PROPERTY ImplementsInteractiveJob
PROPERTY AllEnd
CHECK_DEADLOCK FALSE
