CONSTANTS
  Last       <- TableLast
  Entry      <- TableEntry
  ResetEntry <- HaltEntry
  IPWrite    <- AddressForWrite
  IPRead     <- AddressForRead
  Registers  <- FullRegisters
  COM7       <- MCCOM7
  Default    <- MCDefault
  Contended = {0}
SPECIFICATION UninterruptedSpec
INVARIANTS HiatusAfterLastWrite
