SPECIFICATION FairSpec
CONSTANTS
  f1 = f1
  f2 = f2
  d = d
  Node = {n1, n2}
  File = {f1, f2}
  Dir = {d}
  below <- MCbelow
  Perm = {public, private}
  private = private
  none = none
  MaxEvents = 4
INVARIANTS
  TypeOK
  LastChangeWins
  ReplicasFollow
PROPERTY ChangesHappen
CHECK_DEADLOCK FALSE
