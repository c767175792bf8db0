SPECIFICATION Spec
CONSTANTS
  a = a
  b = b
  Node = {a, b}
  PrefFile <- NoPrefs
  MaxTable = 3
SYMMETRY Exchange
INVARIANTS
  TypeOK
  ListsIndexable
PROPERTY
  StatusSpec
