CONSTANTS
  RowLen  = 3
  ColLen  = 4
  DiagLen = 3
  Char    = {0, 1, 2}
  Gap     = 2
  Typed  <- MCTyped
SPECIFICATION FairExchange
INVARIANTS DiagonalDelivered
