SPECIFICATION Spec
CONSTANTS
  Remote = {r}
  Local = {l}
  none = none
  Blocks = 2
  MaxId = 3
  MaxTransfers = 2
INVARIANT TypeOK
INVARIANT NoUseAfterFree
INVARIANT NoneForgotten
INVARIANT PublishedWhole
INVARIANT ReportedThere
PROPERTY ImplementsTransfer
PROPERTY AbandonedFreed
CHECK_DEADLOCK FALSE
