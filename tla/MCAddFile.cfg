SPECIFICATION FairSpec
CONSTANTS
  Node = {n1, n2}
  File = {f1, f2}
  Version = {v1, v2}
  none = none
  MaxPuts = 2
  MaxEvents = 3
INVARIANTS
  TypeOK
  NotStranded
  CatalogueTells
  DeletedStays
PROPERTY AddsHappen
CHECK_DEADLOCK FALSE
