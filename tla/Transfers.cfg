CONSTANTS
  Last       <- ShortLast
  Entry      <- ShortEntry
  ResetEntry <- HaltEntry
  IPWrite    <- AddressForWrite
  IPRead     <- AddressForRead
  Registers  <- ShortRegisters
  COM7       <- MCCOM7
  Default    <- MCDefault
  Contended = {0}
  RowLen  = 3
  ColLen  = 4
  DiagLen = 3
  Char    = {0, 1, 2}
  Gap     = 2
  Typed  <- MCTyped
SPECIFICATION TransfersSpec
INVARIANTS InStep ConfiguredAtHiatus KeysDelivered SamePosition
PROPERTIES DataStable ImplementsProgram ReachesHiatus KeysTransferred SessionEnds
