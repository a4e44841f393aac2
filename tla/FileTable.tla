------------------------------- MODULE FileTable -------------------------------
(***************************************************************************)
(* The file layer of the HAL (IOmodule_bsp/HAL/src): the pool of file      *)
(* descriptors, the lists of devices and file systems, and the system      *)
(* calls on them.  The library is built for a single thread, so a call is  *)
(* one step.  A driver's own work is a result: it succeeds or fails.       *)
(* Where the code returns -1 with errno set, result is minus errno.        *)
(***************************************************************************)
EXTENDS Integers, Sequences

CONSTANTS
  MaxFd,         \* ALT_MAX_FD, size of the pool
  Devices, FileSystems,
  Null,          \* alt_dev_null
  None,          \* no device
  Names,         \* what open is called with
  NameOf,        \* a function on Devices
  Mounted,       \* [FileSystems -> SUBSET Names]: the names under a mount point
  Calls,         \* [Devices \cup FileSystems -> SUBSET of the driver's operations]
  OpenFlags,     \* sets of flags open and fcntl are called with
  Modes,         \* and the access asked of open
  Fails,         \* the errors drivers give
  EACCES, EMFILE, ENODEV, EINVAL, ENOTTY, ENOTSUP, EBADFD, ENOSYS, ECHILD, ESRCH

ASSUME PoolAssumption   == MaxFd \in Nat /\ MaxFd > 3
ASSUME DeviceAssumption == Null \in Devices /\ None \notin Devices \cup FileSystems
                           /\ Devices \cap FileSystems = {}
ASSUME FlagAssumption   == Modes \subseteq {"r", "w", "rw"}
                           /\ \A f \in OpenFlags : f \cap {"EXCL", "DEV"} = {}
ASSUME ErrorAssumption  ==
  \A e \in Fails \cup {EACCES, EMFILE, ENODEV, EINVAL, ENOTTY, ENOTSUP, EBADFD, ENOSYS, ECHILD, ESRCH} :
    e \in Nat \ {0}

VARIABLES fdList, maxFd,      \* alt_fd_list, alt_max_fd
          devList, fsList,    \* alt_dev_list, alt_fs_list, first to be found first
          result

tables   == <<fdList, maxFd>>
lists    == <<devList, fsList>>
fileVars == <<fdList, maxFd, devList, fsList, result>>

Fds     == 0..(MaxFd - 1)
Access  == {"r", "w", "rw"}
Closed  == [dev |-> None, flags |-> {}, acc |-> "r"]
InUse   == {fd \in Fds : fdList[fd].dev # None}

FilesInit ==
  /\ fdList = [fd \in Fds |-> IF fd < 3 THEN [Closed EXCEPT !.dev = Null] ELSE Closed]
  /\ maxFd = -1
  /\ devList = <<Null>> /\ fsList = <<>>
  /\ result = 0

-------------------------------------------------------------------------------
(* Registration puts the newcomer first.  Nothing checks for a name that   *)
(* is taken.                                                               *)
alt_dev_reg(dev) == devList' = <<dev>> \o devList /\ UNCHANGED <<tables, fsList, result>>
alt_fs_reg(fs)   == fsList' = <<fs>> \o fsList /\ UNCHANGED <<tables, devList, result>>

FirstOf(list, Matching) ==
  LET hits == {k \in DOMAIN list : list[k] \in Matching}
  IN IF hits = {} THEN None ELSE list[CHOOSE k \in hits : \A h \in hits : k <= h]
alt_find_dev(name)  == FirstOf(devList, {d \in Devices : NameOf[d] = name})
alt_find_file(name) == FirstOf(fsList, {f \in FileSystems : name \in Mounted[f]})

(* The first free descriptor; the mark of the highest one only rises.      *)
alt_get_fd ==
  LET free == Fds \ InUse
  IN IF free = {} THEN -1 ELSE CHOOSE fd \in free : \A f \in free : fd <= f
HighMark(fd) == IF fd > maxFd THEN fd ELSE maxFd

(* The first three stay with their device, flags and all.                  *)
KeepFlags(list, fd) ==                             \* mutant of Released
  IF fd > 2 THEN [list EXCEPT ![fd].dev = None] ELSE list
Released(list, fd) == IF fd > 2 THEN [list EXCEPT ![fd] = Closed] ELSE list

(* Another descriptor of the device is locked.                             *)
LockedBelow(list, high, fd) ==                     \* mutant of alt_file_locked
  \E i \in 0..(high - 1) :
    list[i].dev = list[fd].dev /\ "EXCL" \in list[i].flags /\ i # fd
alt_file_locked(list, high, fd) ==
  \E i \in 0..high : list[i].dev = list[fd].dev /\ "EXCL" \in list[i].flags /\ i # fd

(* open: what it leaves in the table, and its result.  The error paths     *)
(* give the descriptor back, but not the mark.                             *)
Refuse(list, high, err) == [list |-> list, high |-> high, rc |-> -err]

Opened(name, flags, acc, err) ==
  LET isafs == alt_find_dev(name) = None
      dev   == IF isafs THEN alt_find_file(name) ELSE alt_find_dev(name)
      fd    == alt_get_fd
      high  == HighMark(fd)
      new   == [fdList EXCEPT ![fd] =
                 [dev |-> dev, acc |-> acc, flags |-> flags \cup IF isafs THEN {} ELSE {"DEV"}]]
  IN IF dev = None THEN Refuse(fdList, maxFd, ENODEV)
     ELSE IF fd < 0 THEN Refuse(fdList, maxFd, EMFILE)
     ELSE IF ~isafs /\ alt_file_locked(new, high, fd)
          THEN Refuse(Released(new, fd), high, EACCES)
     ELSE IF "open" \in Calls[dev] /\ err # 0
          THEN Refuse(Released(new, fd), high, err)
     ELSE [list |-> new, high |-> high, rc |-> fd]

open(name, flags, acc) == \E err \in {0} \cup Fails :
  LET o == Opened(name, flags, acc, err) IN
    /\ fdList' = o.list /\ maxFd' = o.high /\ result' = o.rc
    /\ UNCHANGED lists

-------------------------------------------------------------------------------
(* The calls on a descriptor.  A negative one is refused; one that was     *)
(* never opened is not looked for, and the program must not use it.        *)
BadFd == /\ result' = -EBADFD /\ UNCHANGED <<tables, lists>>

Given(err) == result' = -err /\ UNCHANGED <<tables, lists>>
Driver(fd, call, otherwise) ==
  IF call \in Calls[fdList[fd].dev] THEN \E err \in {0} \cup Fails : Given(err)
  ELSE Given(otherwise)

(* A driver's failure to close does not keep the descriptor.               *)
close(fd) ==
  /\ fdList' = Released(fdList, fd)
  /\ \E err \in {0} \cup IF "close" \in Calls[fdList[fd].dev] THEN Fails ELSE {} : result' = -err
  /\ UNCHANGED <<maxFd, lists>>

read(fd)  == IF fdList[fd].acc # "w" THEN Driver(fd, "read", EACCES) ELSE Given(EACCES)
write(fd) == IF fdList[fd].acc # "r" THEN Driver(fd, "write", EACCES) ELSE Given(EACCES)
lseek(fd) == Driver(fd, "lseek", ENOTSUP)
fstat(fd) == Driver(fd, "fstat", 0)

(* A terminal unless the driver's fstat says something else.               *)
isatty(fd) ==
  /\ result' \in IF "fstat" \in Calls[fdList[fd].dev] THEN {0, 1} ELSE {1}
  /\ UNCHANGED <<tables, lists>>

(* alt_fd_lock looks at the descriptors before alt_max_fd, not at that one. *)
alt_fd_lock(fd) ==
  IF \E i \in 0..(maxFd - 1) : i # fd /\ fdList[i].dev = fdList[fd].dev
  THEN Given(EACCES)
  ELSE /\ fdList' = [fdList EXCEPT ![fd].flags = @ \cup {"EXCL"}]
       /\ result' = 0
       /\ UNCHANGED <<maxFd, lists>>
alt_fd_unlock(fd) ==
  /\ fdList' = [fdList EXCEPT ![fd].flags = @ \ {"EXCL"}]
  /\ result' = 0
  /\ UNCHANGED <<maxFd, lists>>

ioctl(fd, req) ==
  IF "DEV" \in fdList[fd].flags /\ req \in {"TIOCEXCL", "TIOCNXCL"}
  THEN IF req = "TIOCEXCL" THEN alt_fd_lock(fd) ELSE alt_fd_unlock(fd)
  ELSE Driver(fd, "ioctl", ENOTTY)

(* Only these two flags can be changed.                                    *)
Settable == {"APPEND", "NONBLOCK"}
fcntl(fd, cmd, arg) ==
  IF cmd = "F_SETFL"
  THEN /\ fdList' = [fdList EXCEPT ![fd].flags = (@ \ Settable) \cup (arg \cap Settable)]
       /\ result' = 0
       /\ UNCHANGED <<maxFd, lists>>
  ELSE Given(IF cmd = "F_GETFL" THEN 0 ELSE EINVAL)

(* open, fstat, close.  When open fails the two others are called with -1, *)
(* and their error is the one that is left.                                *)
stat(name) == \E err \in {0} \cup Fails :
  LET o == Opened(name, {}, "r", err) IN
    /\ maxFd' = o.high
    /\ fdList' = IF o.rc < 0 THEN o.list ELSE Released(o.list, o.rc)
    /\ IF o.rc < 0 THEN result' = -EBADFD
       ELSE \E e \in {0} \cup IF "fstat" \in Calls[o.list[o.rc].dev] THEN Fails ELSE {} : result' = -e
    /\ UNCHANGED lists

(* What the HAL does not have.                                             *)
fork   == Given(ENOSYS)
link   == Given(ENOSYS)
unlink == Given(ENOSYS)
rename == Given(ENOSYS)
execve == Given(ENOSYS)
wait   == Given(ECHILD)
getpid == Given(0)

FileCall ==
  \/ \E n \in Names, f \in OpenFlags, a \in Modes : open(n, f, a)
  \/ \E n \in Names : stat(n)
  \/ \E fd \in InUse : \/ close(fd) \/ read(fd) \/ write(fd) \/ lseek(fd)
                       \/ fstat(fd) \/ isatty(fd)
                       \/ \E req \in {"TIOCEXCL", "TIOCNXCL", "other"} : ioctl(fd, req)
                       \/ \E cmd \in {"F_GETFL", "F_SETFL", "other"}, f \in OpenFlags :
                            fcntl(fd, cmd, f)
  \/ BadFd \/ fork \/ link \/ unlink \/ rename \/ execve \/ wait \/ getpid

-------------------------------------------------------------------------------
FilesTypeOK ==
  /\ fdList \in [Fds -> [dev : Devices \cup FileSystems \cup {None},
                         flags : SUBSET ((UNION OpenFlags) \cup {"EXCL", "DEV"}), acc : Access]]
  /\ maxFd \in -1..(MaxFd - 1)

(* alt_get_fd.c 72-78, alt_release_fd.c 36-51: no descriptor from the pool *)
(* is in use beyond alt_max_fd, where the search for locks ends, and a     *)
(* free one carries no flag (a lock, say) into its next life.              *)
PoolInOrder ==
  \A fd \in Fds : /\ fd > maxFd => fd < 3 \/ fd \notin InUse
                  /\ fd \notin InUse => fdList[fd].flags = {}

Holds(list, fd, dev) == list[fd].dev = dev /\ "EXCL" \in list[fd].flags

(* alt_open.c 77-88: while a descriptor is locked, no other one comes to   *)
(* refer to its device.                                                    *)
NoOpenPastLock ==
  [][\A fd, other \in Fds : fd # other /\ Holds(fdList, fd, fdList[fd].dev)
       /\ fdList'[other].dev = fdList[fd].dev => fdList[other].dev = fdList[fd].dev]_fileVars

-------------------------------------------------------------------------------
(* alt_fd_lock.c 43: the lock is granted if no other open file descriptors *)
(* reference the same device.                                              *)
LockIsExclusive ==
  [][\A fd \in Fds : Holds(fdList', fd, fdList[fd].dev) /\ "EXCL" \notin fdList[fd].flags =>
       \A other \in Fds \ {fd} : fdList[other].dev # fdList[fd].dev]_fileVars
===============================================================================
