----------------------------- MODULE Startup_proofs -----------------------------
(***************************************************************************)
(* The file layer for any pool, devices and file systems, from the start   *)
(* of the program on, whatever the program calls.  What the locks rest on  *)
(* is that the mark of the highest descriptor is never behind a lock.      *)
(***************************************************************************)
EXTENDS Startup, WellFoundedInduction, TLAPS

Entries == [dev : Devices \cup FileSystems \cup {None},
            flags : SUBSET ((UNION OpenFlags) \cup {"EXCL", "DEV"}), acc : Access]

(* A table of descriptors, and the mark of the highest one that was used.  *)
Sound(list, high) ==
  /\ list \in [Fds -> Entries] /\ high \in -1..(MaxFd - 1)
  /\ \A fd \in Fds :
       /\ fd < 3 => list[fd].dev # None
       /\ list[fd].dev = None => list[fd].flags = {}
       /\ fd > high => fd < 3 \/ list[fd].dev = None
       /\ "EXCL" \in list[fd].flags \/ "DEV" \in list[fd].flags =>
            fd <= high /\ list[fd].dev \in Devices

(* From the table old to the table list nothing comes to refer to a device *)
(* that another descriptor has locked.                                     *)
NotPast(old, list) ==
  \A fd, other \in Fds : fd # other /\ "EXCL" \in old[fd].flags
    /\ list[other].dev = old[fd].dev => old[other].dev = old[fd].dev

Lists == devList \in Seq(Devices) /\ fsList \in Seq(FileSystems)

LEMMA Constants ==
  /\ MaxFd \in Nat /\ MaxFd > 3 /\ Null \in Devices /\ None \notin Devices
  /\ None \notin FileSystems /\ Devices \cap FileSystems = {}
  /\ 0 \in Fds /\ 1 \in Fds /\ 2 \in Fds /\ Fds \subseteq Nat
BY PoolAssumption, DeviceAssumption DEF Fds

LEMMA LeastExists ==
  ASSUME NEW T, T \subseteq Nat, T # {}
  PROVE  \E k \in T : \A j \in T : k <= j
<1>1. PICK k \in T : \A j \in T : ~ (<<j, k>> \in OpToRel(<, Nat))
  BY NatLessThanWellFounded, WFMin
<1>2. \A j \in T : ~(j < k)
  BY <1>1 DEF OpToRel
<1> QED
  BY <1>2

(* alt_find_dev.c, alt_find_file.c: what is found has the name.            *)
LEMMA FirstOfFinds ==
  ASSUME NEW T, NEW list \in Seq(T), NEW Matching
  PROVE  FirstOf(list, Matching) \in (Matching \cap T) \cup {None}
<1> DEFINE hits == {k \in DOMAIN list : list[k] \in Matching}
           k0   == CHOOSE k \in hits : \A h \in hits : k <= h
<1>1. FirstOf(list, Matching) = IF hits = {} THEN None ELSE list[k0]
  BY DEF FirstOf
<1>2. CASE hits = {}
  BY <1>1, <1>2
<1>3. CASE hits # {}
  <2>1. hits \subseteq Nat
    OBVIOUS
  <2>2. \E k \in hits : \A h \in hits : k <= h
    BY <1>3, <2>1, LeastExists
  <2>3. k0 \in hits
    BY <2>2
  <2>4. list[k0] \in Matching \cap T
    BY <2>3
  <2> QED
    BY <1>1, <1>3, <2>4
<1> QED
  BY <1>2, <1>3

LEMMA FindDev ==
  ASSUME Lists, NEW name
  PROVE  alt_find_dev(name) \in Devices \cup {None}
BY FirstOfFinds DEF alt_find_dev, Lists

LEMMA FindFile ==
  ASSUME Lists, NEW name
  PROVE  alt_find_file(name) \in {f \in FileSystems : name \in Mounted[f]} \cup {None}
BY FirstOfFinds DEF alt_find_file, Lists

(* alt_get_fd.c 79-97: the descriptor given was free, and is from the pool. *)
LEMMA GetFd ==
  ASSUME Sound(fdList, maxFd)
  PROVE  \/ alt_get_fd = -1
         \/ alt_get_fd \in Fds /\ alt_get_fd > 2 /\ fdList[alt_get_fd].dev = None
<1> DEFINE free == Fds \ InUse
           k0   == CHOOSE fd \in free : \A f \in free : fd <= f
<1>1. alt_get_fd = IF free = {} THEN -1 ELSE k0
  BY DEF alt_get_fd
<1>2. CASE free = {}
  BY <1>1, <1>2
<1>3. CASE free # {}
  <2>1. k0 \in free
    BY <1>3, LeastExists, Constants
  <2>2. \A fd \in free : fd \in Fds /\ fd > 2 /\ fdList[fd].dev = None
    BY Constants DEF InUse, Sound
  <2> QED
    BY <1>1, <1>3, <2>1, <2>2
<1> QED
  BY <1>2, <1>3

(* alt_release_fd.c: a descriptor given back leaves a sound table.         *)
LEMMA ReleaseSound ==
  ASSUME NEW list, NEW high, Sound(list, high), NEW fd \in Fds
  PROVE  Sound(Released(list, fd), high) /\ \A c \in 0..2 : Released(list, fd)[c] = list[c]
<1>1. Closed \in Entries /\ Closed.dev = None /\ Closed.flags = {}
  BY DEF Closed, Entries, Access
<1>2. CASE fd > 2
  BY <1>1, <1>2, Constants DEF Released, Sound
<1>3. CASE ~(fd > 2)
  BY <1>3 DEF Released
<1> QED
  BY <1>2, <1>3

LEMMA ReleaseNotPast ==
  ASSUME NEW old, NEW list, NEW high, NEW top, Sound(old, top), Sound(list, high), NEW fd \in Fds,
         NotPast(old, list)
  PROVE  NotPast(old, Released(list, fd))
<1>1. \A c \in Fds : Released(list, fd)[c] = list[c] \/ Released(list, fd)[c].dev = None
  BY DEF Released, Sound, Closed
<1>2. \A c \in Fds : "EXCL" \in old[c].flags => old[c].dev # None
  BY Constants DEF Sound
<1> QED
  BY <1>1, <1>2 DEF NotPast

LEMMA NotPastItself == ASSUME NEW list PROVE NotPast(list, list)
BY DEF NotPast
-------------------------------------------------------------------------------
(* What a new descriptor refers to, and that it takes no locked device.    *)
Taken(o, name) ==
  LET e == o.list[o.rc] IN
    /\ o.rc \in Fds /\ o.rc > 2 /\ o.rc <= o.high /\ fdList[o.rc].dev = None
    /\ e.dev # None /\ "EXCL" \notin e.flags
    /\ e.dev = IF alt_find_dev(name) = None THEN alt_find_file(name) ELSE alt_find_dev(name)
    /\ \A fd \in Fds : "EXCL" \in fdList[fd].flags => fdList[fd].dev # e.dev

OpenLeaves(o, name) ==
  /\ Sound(o.list, o.high) /\ NotPast(fdList, o.list)
  /\ \A c \in 0..2 : o.list[c] = fdList[c]
  /\ o.rc < 0 => \A c \in Fds : o.list[c].dev = None <=> fdList[c].dev = None
  /\ ~(o.rc < 0) => Taken(o, name) /\ \A c \in Fds : c # o.rc => o.list[c] = fdList[c]

LEMMA OpenSound ==
  ASSUME Sound(fdList, maxFd), Lists, NEW name, NEW flags \in OpenFlags \cup {{}},
         NEW acc \in Access, NEW err \in {0} \cup Fails, NEW o, o = Opened(name, flags, acc, err)
  PROVE  OpenLeaves(o, name)
<1> DEFINE isafs == alt_find_dev(name) = None
           dev   == IF isafs THEN alt_find_file(name) ELSE alt_find_dev(name)
           fd    == alt_get_fd
           high  == HighMark(fd)
           e     == [dev |-> dev, acc |-> acc, flags |-> flags \cup IF isafs THEN {} ELSE {"DEV"}]
           new   == [fdList EXCEPT ![fd] = e]
<1>1. o = IF dev = None THEN Refuse(fdList, maxFd, ENODEV)
          ELSE IF fd < 0 THEN Refuse(fdList, maxFd, EMFILE)
          ELSE IF ~isafs /\ alt_file_locked(new, high, fd)
               THEN Refuse(Released(new, fd), high, EACCES)
          ELSE IF "open" \in Calls[dev] /\ err # 0
               THEN Refuse(Released(new, fd), high, err)
          ELSE [list |-> new, high |-> high, rc |-> fd]
  BY DEF Opened
<1>2. /\ isafs => dev \in FileSystems \cup {None}
      /\ ~isafs => dev \in Devices
  BY FindDev, FindFile
<1>3. /\ fd = -1 \/ (fd \in Fds /\ fd > 2 /\ fdList[fd].dev = None)
      /\ flags \cap {"EXCL", "DEV"} = {} /\ flags \subseteq UNION OpenFlags
      /\ \A n \in {ENODEV, EMFILE, EACCES, err} : n # 0 => n \in Nat /\ -n < 0
      /\ ENODEV # 0 /\ EMFILE # 0 /\ EACCES # 0
  BY GetFd, FlagAssumption, ErrorAssumption
<1> HIDE DEF isafs, fd, dev, high, e, new
<1>4. CASE dev = None \/ fd < 0
  <2>1. o.list = fdList /\ o.high = maxFd /\ o.rc < 0
    BY <1>1, <1>3, <1>4 DEF Refuse
  <2>2. 0..2 \subseteq Fds
    BY Constants DEF Fds
  <2> QED
    BY <2>1, <2>2, NotPastItself DEF OpenLeaves
<1>5. CASE dev # None /\ ~(fd < 0)
  <2>1. fd \in Fds /\ fd > 2 /\ fdList[fd].dev = None
    BY <1>3, <1>5
  <2>2. high = (IF fd > maxFd THEN fd ELSE maxFd) /\ high \in -1..(MaxFd - 1)
        /\ fd <= high /\ maxFd <= high
    BY <2>1, Constants DEF Sound, HighMark, Fds, high
  <2>3. /\ e \in Entries /\ e.dev = dev /\ dev # None /\ "EXCL" \notin e.flags
        /\ "DEV" \in e.flags => dev \in Devices
    <3>1. dev \in Devices \cup FileSystems /\ dev # None
      BY <1>2, <1>5
    <3>2. /\ (flags \cup IF isafs THEN {} ELSE {"DEV"})
                \in SUBSET ((UNION OpenFlags) \cup {"EXCL", "DEV"})
          /\ "EXCL" \notin flags \cup IF isafs THEN {} ELSE {"DEV"}
          /\ "DEV" \in flags \cup (IF isafs THEN {} ELSE {"DEV"}) => ~isafs
      BY <1>3
    <3> QED
      BY <1>2, <3>1, <3>2 DEF e, Entries
  <2>4. /\ new \in [Fds -> Entries] /\ new[fd] = e
        /\ \A c \in Fds : c # fd => new[c] = fdList[c]
    BY <2>1, <2>3 DEF new, Sound
  <2>5. Sound(new, high)
    BY <2>1, <2>2, <2>3, <2>4 DEF Sound, Fds
  <2>6. Sound(Released(new, fd), high)
    BY <2>1, <2>5, ReleaseSound
  <2>7. /\ \A c \in Fds : c # fd => Released(new, fd)[c] = fdList[c]
        /\ Released(new, fd)[fd].dev = None
    BY <2>1, <2>4 DEF Released, Closed
  <2>8. NotPast(fdList, Released(new, fd))
    BY <2>1, <2>7, Constants DEF NotPast, Sound
  <2>9. 0..2 \subseteq Fds \ {fd}
    BY <2>1, Constants
  <2>10. CASE ~isafs /\ alt_file_locked(new, high, fd)
    <3>1. o = Refuse(Released(new, fd), high, EACCES)
      BY <1>1, <1>5, <2>10
    <3>2. o.list = Released(new, fd) /\ o.high = high /\ o.rc < 0
      BY <1>3, <3>1 DEF Refuse
    <3> QED
      BY <2>1, <2>6, <2>7, <2>8, <2>9, <3>2 DEF OpenLeaves
  <2>11. CASE ~(~isafs /\ alt_file_locked(new, high, fd)) /\ "open" \in Calls[dev] /\ err # 0
    <3>1. o = Refuse(Released(new, fd), high, err)
      BY <1>1, <1>5, <2>11
    <3>2. o.list = Released(new, fd) /\ o.high = high /\ o.rc < 0
      BY <1>3, <2>11, <3>1 DEF Refuse
    <3> QED
      BY <2>1, <2>6, <2>7, <2>8, <2>9, <3>2 DEF OpenLeaves
  <2>12. CASE ~(~isafs /\ alt_file_locked(new, high, fd)) /\ ~("open" \in Calls[dev] /\ err # 0)
    <3>1. o.list = new /\ o.high = high /\ o.rc = fd
      BY <1>1, <1>5, <2>12
    <3>2. ASSUME NEW c \in Fds, "EXCL" \in fdList[c].flags PROVE fdList[c].dev # dev
      <4>1. fdList[c].dev \in Devices /\ c <= maxFd /\ c # fd
        BY <2>1, <3>2, Constants DEF Sound
      <4>2. c \in 0..high
        BY <2>2, <4>1 DEF Fds, Sound
      <4>3. CASE isafs
        BY <1>2, <1>5, <4>1, <4>3, Constants
      <4>4. CASE ~isafs
        BY <2>3, <2>4, <2>12, <3>2, <4>1, <4>2, <4>4 DEF alt_file_locked
      <4> QED
        BY <4>3, <4>4
    <3>3. Taken(o, name)
      BY <2>1, <2>2, <2>3, <2>4, <3>1, <3>2 DEF Taken, dev, isafs
    <3>4. NotPast(fdList, new)
      BY <2>3, <2>4, <3>2 DEF NotPast
    <3>5. ~(o.rc < 0)
      BY <1>5, <3>1
    <3>6. \A c \in 0..2 : o.list[c] = fdList[c]
      BY <2>4, <2>9, <3>1
    <3>7. \A c \in Fds : c # o.rc => o.list[c] = fdList[c]
      BY <2>4, <3>1
    <3> QED
      BY <2>5, <3>1, <3>3, <3>4, <3>5, <3>6, <3>7 DEF OpenLeaves
  <2> QED
    BY <2>10, <2>11, <2>12
<1> QED
  BY <1>4, <1>5
-------------------------------------------------------------------------------
(* What every call of the program leaves: the three standard descriptors   *)
(* with their devices, and no lock passed.                                 *)
Kept ==
  /\ Sound(fdList', maxFd') /\ NotPast(fdList, fdList')
  /\ \A c \in 0..2 : fdList'[c].dev = fdList[c].dev
  /\ UNCHANGED lists

LEMMA TablesStay ==
  ASSUME Sound(fdList, maxFd), UNCHANGED <<tables, lists>>
  PROVE  Kept
BY NotPastItself DEF Kept, tables, lists

LEMMA FlagsChange ==
  ASSUME Sound(fdList, maxFd), NEW fd \in Fds, fdList[fd].dev # None,
         NEW F \in SUBSET ((UNION OpenFlags) \cup {"EXCL", "DEV"}),
         fdList' = [fdList EXCEPT ![fd].flags = F], UNCHANGED <<maxFd, lists>>,
         "EXCL" \in F \/ "DEV" \in F => fd <= maxFd /\ fdList[fd].dev \in Devices
  PROVE  Kept
<1>1. PICK e : e = [fdList[fd] EXCEPT !.flags = F]
  OBVIOUS
<1>2. e \in Entries /\ e.dev = fdList[fd].dev /\ e.flags = F
  BY <1>1 DEF Sound, Entries
<1>3. /\ fdList' \in [Fds -> Entries] /\ fdList'[fd] = e
      /\ \A c \in Fds : c # fd => fdList'[c] = fdList[c]
  BY <1>1, <1>2 DEF Sound
<1>4. \A c \in Fds : fdList'[c].dev = fdList[c].dev
  BY <1>2, <1>3
<1>5. Sound(fdList', maxFd')
  BY <1>2, <1>3 DEF Sound
<1>6. 0..2 \subseteq Fds
  BY Constants DEF Fds
<1> QED
  BY <1>4, <1>5, <1>6 DEF Kept, NotPast, lists

LEMMA OpenKeeps ==
  ASSUME Sound(fdList, maxFd), Lists, NEW n, NEW f \in OpenFlags, NEW a \in Modes, open(n, f, a)
  PROVE  Kept
<1>1. PICK err \in {0} \cup Fails :
        /\ fdList' = Opened(n, f, a, err).list /\ maxFd' = Opened(n, f, a, err).high
        /\ UNCHANGED lists
  BY DEF open
<1>2. PICK o : o = Opened(n, f, a, err)
  OBVIOUS
<1>3. a \in Access
  BY FlagAssumption DEF Access
<1>4. OpenLeaves(o, n)
  BY <1>2, <1>3, OpenSound
<1> QED
  BY <1>1, <1>2, <1>4 DEF Kept, OpenLeaves

LEMMA StatKeeps ==
  ASSUME Sound(fdList, maxFd), Lists, NEW n, stat(n)
  PROVE  Kept
<1>1. PICK err \in {0} \cup Fails :
        LET o == Opened(n, {}, "r", err) IN
          /\ maxFd' = o.high
          /\ fdList' = IF o.rc < 0 THEN o.list ELSE Released(o.list, o.rc)
          /\ UNCHANGED lists
  BY DEF stat
<1>2. PICK o : o = Opened(n, {}, "r", err)
  OBVIOUS
<1>3. /\ Sound(o.list, o.high) /\ NotPast(fdList, o.list) /\ \A c \in 0..2 : o.list[c] = fdList[c]
      /\ ~(o.rc < 0) => Taken(o, n)
  <2>1. {} \in OpenFlags \cup {{}} /\ "r" \in Access
    BY DEF Access
  <2>2. OpenLeaves(o, n)
    BY <1>2, <2>1, OpenSound
  <2> QED
    BY <2>2 DEF OpenLeaves
<1>4. CASE o.rc < 0
  BY <1>1, <1>2, <1>3, <1>4 DEF Kept
<1>5. CASE ~(o.rc < 0)
  <2>1. o.rc \in Fds /\ fdList' = Released(o.list, o.rc) /\ maxFd' = o.high
    BY <1>1, <1>2, <1>3, <1>5 DEF Taken
  <2>2. Sound(fdList', maxFd') /\ \A c \in 0..2 : fdList'[c] = o.list[c]
    BY <2>1, <1>3, ReleaseSound
  <2>3. NotPast(fdList, fdList')
    BY <2>1, <1>3, ReleaseNotPast
  <2> QED
    BY <2>2, <2>3, <1>1, <1>3 DEF Kept
<1> QED
  BY <1>4, <1>5

LEMMA CloseKeeps ==
  ASSUME Sound(fdList, maxFd), NEW fd \in Fds, close(fd)
  PROVE  Kept
<1>1. fdList' = Released(fdList, fd) /\ UNCHANGED <<maxFd, lists>>
  BY DEF close
<1> QED
  BY <1>1, ReleaseSound, ReleaseNotPast, NotPastItself DEF Kept, lists

LEMMA IoctlKeeps ==
  ASSUME Sound(fdList, maxFd), NEW fd \in InUse, NEW req, ioctl(fd, req)
  PROVE  Kept
<1>1. fd \in Fds /\ fdList[fd].dev # None
  BY DEF InUse
<1>2. fdList[fd].flags \in SUBSET ((UNION OpenFlags) \cup {"EXCL", "DEV"})
  BY <1>1 DEF Sound, Entries
<1>3. CASE UNCHANGED <<tables, lists>>
  BY <1>3, TablesStay
<1>4. CASE "DEV" \in fdList[fd].flags
           /\ fdList' = [fdList EXCEPT ![fd].flags = @ \cup {"EXCL"}] /\ UNCHANGED <<maxFd, lists>>
  <2>1. fd <= maxFd /\ fdList[fd].dev \in Devices
    BY <1>1, <1>4 DEF Sound
  <2>2. PICK F : F = fdList[fd].flags \cup {"EXCL"}
    OBVIOUS
  <2>3. fdList' = [fdList EXCEPT ![fd].flags = F]
    BY <1>4, <2>2
  <2>4. F \in SUBSET ((UNION OpenFlags) \cup {"EXCL", "DEV"})
    BY <1>2, <2>2
  <2> QED
    BY <1>1, <1>4, <2>1, <2>3, <2>4, FlagsChange
<1>5. CASE fdList' = [fdList EXCEPT ![fd].flags = @ \ {"EXCL"}] /\ UNCHANGED <<maxFd, lists>>
  <2>1. PICK F : F = fdList[fd].flags \ {"EXCL"}
    OBVIOUS
  <2>2. fdList' = [fdList EXCEPT ![fd].flags = F]
    BY <1>5, <2>1
  <2>3. F \in SUBSET ((UNION OpenFlags) \cup {"EXCL", "DEV"})
    BY <1>2, <2>1
  <2>4. "EXCL" \in F \/ "DEV" \in F => fd <= maxFd /\ fdList[fd].dev \in Devices
    BY <1>1, <2>1 DEF Sound
  <2> QED
    BY <1>1, <1>5, <2>2, <2>3, <2>4, FlagsChange
<1> QED
  BY <1>3, <1>4, <1>5 DEF ioctl, alt_fd_lock, alt_fd_unlock, Given, Driver

LEMMA FcntlKeeps ==
  ASSUME Sound(fdList, maxFd), NEW fd \in InUse, NEW cmd, NEW arg \in OpenFlags, fcntl(fd, cmd, arg)
  PROVE  Kept
<1>1. fd \in Fds /\ fdList[fd].dev # None
  BY DEF InUse
<1>2. CASE UNCHANGED <<tables, lists>>
  BY <1>2, TablesStay
<1>3. CASE /\ fdList' = [fdList EXCEPT ![fd].flags = (@ \ Settable) \cup (arg \cap Settable)]
           /\ UNCHANGED <<maxFd, lists>>
  <2>1. PICK F : F = (fdList[fd].flags \ Settable) \cup (arg \cap Settable)
    OBVIOUS
  <2>2. fdList' = [fdList EXCEPT ![fd].flags = F]
    BY <1>3, <2>1
  <2>3. fdList[fd].flags \in SUBSET ((UNION OpenFlags) \cup {"EXCL", "DEV"})
    BY <1>1 DEF Sound, Entries
  <2>4. arg \subseteq UNION OpenFlags
    OBVIOUS
  <2>5. F \in SUBSET ((UNION OpenFlags) \cup {"EXCL", "DEV"})
    BY <2>1, <2>3, <2>4
  <2>6. "EXCL" \in F \/ "DEV" \in F => fd <= maxFd /\ fdList[fd].dev \in Devices
    BY <1>1, <2>1 DEF Sound, Settable
  <2> QED
    BY <1>1, <1>3, <2>2, <2>5, <2>6, FlagsChange
<1> QED
  BY <1>2, <1>3 DEF fcntl, Given

LEMMA CallKeeps ==
  ASSUME Sound(fdList, maxFd), Lists, FileCall
  PROVE  Kept
<1>1. CASE \E n \in Names, f \in OpenFlags, a \in Modes : open(n, f, a)
  BY <1>1, OpenKeeps
<1>2. CASE \E n \in Names : stat(n)
  BY <1>2, StatKeeps
<1>3. CASE \E fd \in InUse : close(fd)
  BY <1>3, CloseKeeps DEF InUse
<1>4. CASE \E fd \in InUse, req \in {"TIOCEXCL", "TIOCNXCL", "other"} : ioctl(fd, req)
  BY <1>4, IoctlKeeps
<1>5. CASE \E fd \in InUse, cmd \in {"F_GETFL", "F_SETFL", "other"}, f \in OpenFlags : fcntl(fd, cmd, f)
  BY <1>5, FcntlKeeps
<1>6. CASE \/ \E fd \in InUse : read(fd) \/ write(fd) \/ lseek(fd) \/ fstat(fd) \/ isatty(fd)
           \/ BadFd \/ fork \/ link \/ unlink \/ rename \/ execve \/ wait \/ getpid
  <2>1. UNCHANGED <<tables, lists>>
    BY <1>6 DEF read, write, lseek, fstat, isatty, BadFd, fork, link, unlink, rename,
                execve, wait, getpid, Driver, Given
  <2> QED
    BY <2>1, TablesStay
<1> QED
  BY <1>1, <1>2, <1>3, <1>4, <1>5, <1>6 DEF FileCall
-------------------------------------------------------------------------------
(* Where the three standard descriptors point while the program starts.    *)
Ready ==
  /\ phase \in {"irq", "drivers"} => \A c \in 0..2 : fdList[c].dev = Null
  /\ phase \in {"redirect", "ctors", "main", "exit"} =>
       \A c \in 0..2 : fdList[c].dev \in {alt_find_dev(StdName), Null}
  /\ phase \in {"irq", "drivers", "redirect", "ctors"} =>
       \A c \in Fds : c > 2 => fdList[c].dev = None

IInv == Sound(fdList, maxFd) /\ Lists /\ Ready /\ step \in Nat

LEMMA Start ==
  ASSUME StartInit
  PROVE  IInv
<1>1. \A c \in Fds : /\ fdList[c] \in Entries /\ fdList[c].flags = {}
                     /\ c < 3 => fdList[c].dev = Null
                     /\ ~(c < 3) => fdList[c].dev = None
  BY Constants DEF StartInit, FilesInit, Closed, Entries, Access
<1>2. fdList \in [Fds -> Entries]
  BY <1>1 DEF StartInit, FilesInit
<1>3. Sound(fdList, maxFd)
  <2>1. maxFd = -1 /\ -1 \in -1..(MaxFd - 1)
    BY Constants DEF StartInit, FilesInit
  <2>2. \A c \in Fds : c < 3 => fdList[c].dev # None
    BY <1>1, Constants
  <2> QED
    BY <1>1, <1>2, <2>1, <2>2 DEF Sound
<1>4. Lists
  BY Constants DEF Lists, StartInit, FilesInit
<1>5. Ready
  BY <1>1, Constants DEF Ready, StartInit, FilesInit, Fds
<1> QED
  BY <1>3, <1>4, <1>5 DEF IInv, StartInit

(* The names are those of a list that did not change.                      *)
LEMMA SameLists ==
  ASSUME UNCHANGED lists, Lists
  PROVE  Lists' /\ alt_find_dev(StdName)' = alt_find_dev(StdName)
BY DEF lists, Lists, alt_find_dev, FirstOf

(* A call of main, and the close of standard output at its end.            *)
LEMMA AfterKept ==
  ASSUME IInv, Kept, phase \in {"main", "exit", "stopped"}, phase' \in {"main", "exit", "stopped"},
         phase' # "stopped" => phase # "stopped", step' \in Nat
  PROVE  IInv' /\ NotPast(fdList, fdList')
<1>1. Lists' /\ alt_find_dev(StdName)' = alt_find_dev(StdName)
  BY SameLists DEF IInv, Kept
<1>2. Ready'
  BY <1>1 DEF IInv, Kept, Ready
<1> QED
  BY <1>1, <1>2 DEF IInv, Kept

LEMMA RegisterStep ==
  ASSUME IInv, alt_sys_init
  PROVE  IInv' /\ NotPast(fdList, fdList')
<1>1. fdList' = fdList /\ maxFd' = maxFd /\ phase = "drivers" /\ phase' \in {"drivers", "redirect"}
  BY DEF alt_sys_init, alt_dev_reg, alt_fs_reg, Enter, fileVars, tables
<1>2. Lists'
  <2>1. CASE step < Len(Drivers)
    <3>1. PICK d : d = Drivers[step + 1]
      OBVIOUS
    <3>2. \/ d \in Devices /\ devList' = <<d>> \o devList /\ fsList' = fsList
          \/ d \notin Devices /\ fsList' = <<d>> \o fsList /\ devList' = devList
      BY <2>1, <3>1 DEF alt_sys_init, alt_dev_reg, alt_fs_reg, lists
    <3>3. step + 1 \in 1..Len(Drivers)
      BY <2>1, DriverAssumption DEF IInv
    <3>4. d \in Devices \cup FileSystems
      BY <3>1, <3>3, DriverAssumption
    <3>5. \A T : \A l \in Seq(T), x \in T : <<x>> \o l \in Seq(T)
      OBVIOUS
    <3> QED
      BY <3>2, <3>4, <3>5 DEF IInv, Lists
  <2>2. CASE ~(step < Len(Drivers))
    BY <2>2 DEF alt_sys_init, fileVars, IInv, Lists
  <2> QED
    BY <2>1, <2>2
<1>3. Ready' /\ step' \in Nat
  BY <1>1 DEF IInv, Ready, alt_sys_init, Enter
<1>4. Sound(fdList', maxFd')
  BY <1>1 DEF IInv
<1> QED
  BY <1>1, <1>2, <1>3, <1>4, NotPastItself DEF IInv

(* alt_open_fd: what the standard descriptor gets is the terminal.         *)
LEMMA RedirectStep ==
  ASSUME IInv, phase = "redirect", NEW fd \in 0..2, NEW acc \in Access, alt_open_fd(fd, acc)
  PROVE  /\ Sound(fdList', maxFd') /\ NotPast(fdList, fdList') /\ UNCHANGED lists
         /\ \A c \in 0..2 : fdList'[c].dev \in {alt_find_dev(StdName), Null}
         /\ \A c \in Fds : c > 2 => fdList'[c].dev = None
<1>1. PICK err \in {0} \cup Fails :
        LET o == Opened(StdName, {}, acc, err) IN
          /\ maxFd' = o.high
          /\ fdList' = IF o.rc < 0 THEN o.list
                       ELSE Released([o.list EXCEPT ![fd] = o.list[o.rc]], o.rc)
          /\ UNCHANGED lists
  BY DEF alt_open_fd
<1>2. PICK o : o = Opened(StdName, {}, acc, err)
  OBVIOUS
<1>3. /\ Sound(o.list, o.high) /\ NotPast(fdList, o.list)
      /\ \A c \in 0..2 : o.list[c] = fdList[c]
      /\ o.rc < 0 => \A c \in Fds : o.list[c].dev = None <=> fdList[c].dev = None
      /\ ~(o.rc < 0) => Taken(o, StdName)
                       /\ \A c \in Fds : c # o.rc => o.list[c] = fdList[c]
  <2>1. {} \in OpenFlags \cup {{}}
    OBVIOUS
  <2>2. Sound(fdList, maxFd) /\ Lists
    BY DEF IInv
  <2>3. OpenLeaves(o, StdName)
    BY <1>2, <2>1, <2>2, OpenSound
  <2> QED
    BY <2>3 DEF OpenLeaves
<1>4. /\ \A c \in 0..2 : fdList[c].dev \in {alt_find_dev(StdName), Null}
      /\ \A c \in Fds : c > 2 => fdList[c].dev = None
  BY DEF IInv, Ready
<1>5. CASE o.rc < 0
  BY <1>1, <1>2, <1>3, <1>4, <1>5
<1>6. CASE ~(o.rc < 0)
  <2> DEFINE e    == o.list[o.rc]
             copy == [o.list EXCEPT ![fd] = e]
  <2>1. /\ o.rc \in Fds /\ o.rc > 2 /\ o.rc <= o.high /\ e.dev # None /\ "EXCL" \notin e.flags
        /\ \A c \in Fds : "EXCL" \in fdList[c].flags => fdList[c].dev # e.dev
    BY <1>3, <1>6 DEF Taken
  <2>2. e.dev = alt_find_dev(StdName)
    <3>1. alt_find_file(StdName) \in {f \in FileSystems : StdName \in Mounted[f]} \cup {None}
      BY FindFile DEF IInv
    <3>2. alt_find_file(StdName) = None
      BY <3>1, StdAssumption
    <3> QED
      BY <1>3, <1>6, <2>1, <3>2 DEF Taken
  <2>3. fd \in Fds /\ fd < 3 /\ fd # o.rc /\ 0..2 \subseteq Fds
    BY <2>1, Constants DEF Fds
  <2>4. e \in Entries /\ ("DEV" \in e.flags => e.dev \in Devices)
    BY <1>3, <2>1 DEF Sound
  <2>5. /\ copy \in [Fds -> Entries] /\ copy[fd] = e
        /\ \A c \in Fds : c # fd => copy[c] = o.list[c]
    BY <1>3, <2>3, <2>4 DEF Sound
  <2> HIDE DEF copy, e
  <2>6. fd <= o.high
    BY <1>3, <2>1, <2>3 DEF Sound, Fds
  <2>7. Sound(copy, o.high)
    BY <1>3, <2>1, <2>3, <2>4, <2>5, <2>6 DEF Sound
  <2>8. NotPast(fdList, copy)
    BY <1>3, <2>1, <2>5 DEF NotPast
  <2>9. fdList' = Released(copy, o.rc) /\ maxFd' = o.high /\ UNCHANGED lists
    BY <1>1, <1>2, <1>6 DEF copy, e
  <2>10. Sound(fdList', maxFd') /\ \A c \in 0..2 : fdList'[c] = copy[c]
    BY <2>1, <2>7, <2>9, ReleaseSound
  <2>11. NotPast(fdList, fdList')
    BY <2>1, <2>7, <2>8, <2>9, ReleaseNotPast DEF IInv
  <2>12. \A c \in 0..2 : fdList'[c].dev \in {alt_find_dev(StdName), Null}
    BY <1>3, <1>4, <2>2, <2>3, <2>5, <2>10
  <2>13. ASSUME NEW c \in Fds, c > 2 PROVE fdList'[c].dev = None
    <3>1. c # fd
      BY <2>3, <2>13 DEF Fds
    <3>2. CASE c = o.rc
      BY <2>1, <2>5, <2>9, <3>2 DEF Released, Closed
    <3>3. CASE c # o.rc
      BY <1>3, <1>4, <1>6, <2>1, <2>5, <2>9, <2>13, <3>1, <3>3 DEF Released
    <3> QED
      BY <3>2, <3>3
  <2> QED
    BY <2>9, <2>10, <2>11, <2>12, <2>13
<1> QED
  BY <1>5, <1>6

LEMMA NextStep ==
  ASSUME IInv, [Next]_vars
  PROVE  IInv' /\ NotPast(fdList, fdList')
<1>1. CASE alt_irq_init
  BY <1>1, NotPastItself, SameLists
     DEF alt_irq_init, Enter, fileVars, lists, IInv, Ready
<1>2. CASE alt_sys_init
  BY <1>2, RegisterStep
<1>3. CASE alt_io_redirect
  <2>1. PICK fd \in 0..2, acc \in Access : alt_open_fd(fd, acc)
    BY <1>3 DEF alt_io_redirect, Access
  <2>2. /\ phase = "redirect" /\ phase' \in {"redirect", "ctors"} /\ step' \in Nat
    BY <1>3 DEF alt_io_redirect, Enter, IInv
  <2>3. /\ Sound(fdList', maxFd') /\ NotPast(fdList, fdList') /\ UNCHANGED lists
        /\ \A c \in 0..2 : fdList'[c].dev \in {alt_find_dev(StdName), Null}
        /\ \A c \in Fds : c > 2 => fdList'[c].dev = None
    BY <2>1, <2>2, RedirectStep
  <2>4. Lists' /\ alt_find_dev(StdName)' = alt_find_dev(StdName)
    BY <2>3, SameLists DEF IInv
  <2> QED
    BY <2>2, <2>3, <2>4 DEF IInv, Ready
<1>4. CASE do_ctors
  <2>1. /\ UNCHANGED fileVars /\ phase = "ctors" /\ phase' \in {"ctors", "main"} /\ step' \in Nat
    BY <1>4 DEF do_ctors, Enter, IInv
  <2>2. Lists' /\ alt_find_dev(StdName)' = alt_find_dev(StdName)
    BY <2>1, SameLists DEF IInv, fileVars, lists
  <2> QED
    BY <2>1, <2>2, NotPastItself DEF fileVars, IInv, Ready
<1>5. CASE main
  <2>1. Kept
    BY <1>5, CallKeeps DEF main, IInv
  <2> QED
    BY <1>5, <2>1, AfterKept DEF main, startVars, IInv
<1>6. CASE MainReturns
  <2>1. Kept
    BY <1>6, CloseKeeps, Constants DEF MainReturns, IInv
  <2> QED
    BY <1>6, <2>1, AfterKept DEF MainReturns, Enter
<1>7. CASE do_dtors \/ kill
  <2>1. UNCHANGED <<tables, lists>>
    BY <1>7 DEF do_dtors, kill, fileVars, tables, lists, Given
  <2>2. Kept
    BY <2>1, TablesStay DEF IInv
  <2> QED
    BY <1>7, <2>2, AfterKept DEF do_dtors, kill, Enter, IInv
<1>8. CASE UNCHANGED vars
  <2>1. UNCHANGED <<fileVars, phase, step>>
    BY <1>8 DEF vars, startVars
  <2>2. Lists' /\ alt_find_dev(StdName)' = alt_find_dev(StdName)
    BY <2>1, SameLists DEF IInv, fileVars, lists
  <2> QED
    BY <2>1, <2>2, NotPastItself DEF fileVars, IInv, Ready
<1> QED
  BY <1>1, <1>2, <1>3, <1>4, <1>5, <1>6, <1>7, <1>8 DEF Next, exit

LEMMA Invariance == Spec => []IInv
<1>1. StartInit => IInv
  BY Start
<1>2. IInv /\ [Next]_vars => IInv'
  BY NextStep
<1> QED
  BY <1>1, <1>2, PTL DEF Spec
-------------------------------------------------------------------------------
(* The table has its type in every state of the program.                   *)
THEOREM TypeCorrect == Spec => []FilesTypeOK
<1>1. IInv => FilesTypeOK
  BY DEF IInv, Sound, Entries, FilesTypeOK
<1> QED
  BY <1>1, Invariance, PTL

(* alt_get_fd.c 72-78, alt_release_fd.c 36-51: the search for locks, which *)
(* ends at alt_max_fd, misses no descriptor, and none is reused with a     *)
(* flag of the one before.                                                 *)
THEOREM PoolSound == Spec => []PoolInOrder
<1>1. IInv => PoolInOrder
  BY DEF IInv, Sound, PoolInOrder, InUse
<1> QED
  BY <1>1, Invariance, PTL

(* alt_open.c 77-88: no open goes past a lock, whatever was opened, closed,*)
(* locked and duplicated before.                                           *)
THEOREM LocksHold == Spec => NoOpenPastLock
<1> DEFINE Passed ==
      \A fd, other \in Fds : fd # other /\ Holds(fdList, fd, fdList[fd].dev)
        /\ fdList'[other].dev = fdList[fd].dev => fdList[other].dev = fdList[fd].dev
<1>1. IInv /\ [Next]_vars => [Passed]_fileVars
  BY NextStep DEF NotPast, Holds
<1> HIDE DEF Passed
<1>2. Spec => [][Passed]_fileVars
  BY <1>1, Invariance, PTL DEF Spec
<1> QED
  BY <1>2 DEF Passed, NoOpenPastLock

(* alt_main.c 75-160, alt_io_redirect.c 42-94: whichever opens fail, the   *)
(* program gets the terminal or the null device as its three standard      *)
(* files, with nothing else open, and keeps them to the end.               *)
THEOREM StandardFiles == Spec => []StandardReady
<1>1. IInv => StandardReady
  BY Constants DEF IInv, Sound, Ready, StandardReady, InUse, Fds
<1> QED
  BY <1>1, Invariance, PTL
===============================================================================
