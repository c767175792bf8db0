SPECIFICATION Spec
CONSTANTS
  n1 = n1
  n2 = n2
  n3 = n3
  f1 = f1
  u1 = u1
  u2 = u2
  nobody = nobody
  Node = {n1, n2}
  File = {f1}
  User = {u1, u2}
  Administrator = {}
  MaxVersion = 3
  MaxEvents = 2
SYMMETRY Symmetry
INVARIANTS
  TypeOK
  Settled
  NotStuck
PROPERTY
  LockedByAuthor
