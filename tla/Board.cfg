CONSTANTS
  Width  = 3
  Lines  = 3
  Rows   = 2
  Half   = 1
  Rate   = 1
  Frames <- MCFrames
  HTotal = 100
  VTotal = 66
  HVisible = 80
  VVisible = 60
  HeldRows = 30
  HSyncAt  = 82
  HSyncEnd = 94
  VSyncAt  = 62
  BankSize = 1024
  Edges <- MCEdges
  HalfPeriod = 64
SPECIFICATION BoardSpec
INVARIANTS PixelsInPlace FrameStored SyncInBlanking NeverZero
PROPERTIES NoWordTwice CaptureStarts SlowEnough ResetStopsClock
