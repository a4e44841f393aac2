CONSTANTS
  Functions = {f, g}
  Callers = {c}
  Align = 2
  Record = 2
  SlabIncrement = 4
  TextBytes = 2
  BucketBytes = 1
  HeapLimit = 18
  AppBytes = {3}
  MaxCalls = 4
SPECIFICATION ProfileSpec
INVARIANT SamplerStartsOnce
