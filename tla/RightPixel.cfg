CONSTANTS
  HTotal = 12
  VTotal = 8
  HVisible = 9
  VVisible = 4
  HeldRows = 4
  HSyncAt  = 10
  HSyncEnd = 11
  VSyncAt  = 6
  BankSize = 16
SPECIFICATION ScanSpec
INVARIANT RightPixel
