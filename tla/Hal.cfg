CONSTANTS
  MaxFd       = 5
  Devices     = {"null", "tty", "lcd"}
  FileSystems = {"fs"}
  Null        = "null"
  None        = "none"
  Names       = {"lcd", "fs/file", "missing"}
  NameOf     <- MCNameOf
  Mounted    <- MCMounted
  Calls      <- MCCalls
  OpenFlags  <- MCFlags
  Modes       = {"r", "rw"}
  Fails       = {1}
  EACCES = 1
  EMFILE = 1
  ENODEV = 1
  EINVAL = 1
  ENOTTY = 1
  ENOTSUP = 1
  EBADFD = 1
  ENOSYS = 1
  ECHILD = 1
  ESRCH  = 1
  Drivers    <- MCDrivers
  StdName     = "tty"
  Ctors       = 2
  Wrap = 7
  Rates = {2, 4}
  US = 4
  Times <- MCTimes
  IntMax = 11
  LoopsPerUs = 4
  MaxSleep = 8
  Functions = {"f", "g"}
  Callers = {"c"}
  Align = 2
  Record = 2
  SlabIncrement = 4
  TextBytes = 2
  BucketBytes = 1
  HeapLimit = 16
  AppBytes = {3}
  MaxCalls = 4
  LineSize = 2
  DLines = 1
  ILines = 1
  Ram = {0, 1}
  Code = {2}
  Flash = {3}
  Block = 2
  MaxLen = 3
  Bits = 8
  Values = {0, 7, 8, 9, 10, 15, 16, 127, 128, 246, 255}
  Strings <- MCStrings
  MaxWidth = 9
  EchoLen = 3
  Buffers <- MCBuffers
  Interval = 2
  AlarmTicks = 2
  MaxSec = 2
  NIrq     = 3
  Handlers = {"h"}
  NULL     = "null"
  ChangeInIsr = FALSE
  Alarm = {a, b, c}
  ListHead = ListHead
  MaxInterval = 3
SPECIFICATION HalSpec
INVARIANTS EntryWhole MoreUrgentOnly MaskRestored ListWhole OnTime
INVARIANTS PoolInOrder StandardReady KeepsTime SleepsAsAsked MemoryApart CallsCounted
INVARIANTS NothingLost NeverStale ReadsBack EchoIsSafe
PROPERTIES NoOpenPastLock UrgentServed WalkEnds
