CONSTANTS
  Width  = 2
  Lines  = 3
  Rows   = 2
  Half   = 1
  Rate   = 1
  Frames = {1, 2}
SPECIFICATION FairSpec
INVARIANTS LastPixelStored
