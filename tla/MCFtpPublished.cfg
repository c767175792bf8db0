SPECIFICATION Spec
CONSTANTS
  Remote = {r}
  Local = {}
  none = none
  Blocks = 2
  MaxId = 4
  MaxTransfers = 2
INVARIANT NeverPartlyPublished
CHECK_DEADLOCK FALSE
