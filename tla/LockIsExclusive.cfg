CONSTANTS
  MaxFd       = 5
  Devices     = {"null", "tty", "lcd"}
  FileSystems = {"fs"}
  Null        = "null"
  None        = "none"
  Names       = {"null", "tty", "lcd", "fs/file", "missing"}
  NameOf     <- MCNameOf
  Mounted    <- MCMounted
  Calls      <- MCCalls
  OpenFlags  <- MCFlags
  Modes       = {"r", "rw"}
  Fails       = {1}
  EACCES = 1
  EMFILE = 1
  ENODEV = 1
  EINVAL = 1
  ENOTTY = 1
  ENOTSUP = 1
  EBADFD = 1
  ENOSYS = 1
  ECHILD = 1
  ESRCH  = 1
  Drivers    <- MCDrivers
  StdName     = "tty"
  Ctors       = 2
SPECIFICATION Spec

PROPERTIES LockIsExclusive
