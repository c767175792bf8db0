SPECIFICATION FairSpec
CONSTANTS
  n1 = n1
  n2 = n2
  f1 = f1
  f2 = f2
  nobody = nobody
  Node = {n1, n2}
  File = {f1, f2}
  MaxEvents = 3
INVARIANTS
  TypeOK
  CatalogueBacked
PROPERTIES
  OrphansNamed
  DeletesHappen
