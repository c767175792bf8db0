SPECIFICATION Spec
CONSTANTS
  n1 = n1
  n2 = n2
  n3 = n3
  f1 = f1
  f2 = f2
  h1 = h1
  h2 = h2
  t1 = t1
  t2 = t2
  t3 = t3
  none = none
  Node = {n1, n2}
  Site = {n1, n2}
  siteOf <- OwnSites
  copiesRequired = 2
  File = {f1, f2}
  Handle = {h1, h2}
  Temp = {t1, t2, t3}
  Counts = {"", "1"}
  MaxQueue = 2
  MaxEvents = 3
SYMMETRY Symmetry
INVARIANTS
  TypeOK
  PriorityOrder
  OneTransferEach
  NoLeaks
  LocationsKnown
  Schedule
