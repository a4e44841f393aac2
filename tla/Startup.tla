-------------------------------- MODULE Startup --------------------------------
(***************************************************************************)
(* alt_main: from the first C instruction to main and back, over the file  *)
(* layer.  Devices are registered, standard input, output and error are    *)
(* redirected, constructors run, main runs, and its end is the program's.  *)
(***************************************************************************)
EXTENDS FileTable

CONSTANTS
  Drivers,       \* sequence of what alt_sys_init registers
  StdName,       \* ALT_STDIN, ALT_STDOUT and ALT_STDERR: one name in system.h
  Ctors          \* how many constructors and destructors the linker collected

ASSUME CtorsAssumption  == Ctors \in Nat
ASSUME DriverAssumption == Drivers \in Seq(Devices \cup FileSystems)
(* The terminal of system.h is no file of a file system.                   *)
ASSUME StdAssumption    == \A f \in FileSystems : StdName \notin Mounted[f]

VARIABLES phase,        \* where alt_main is
          step,         \* how far in a phase that has several steps
          interrupts,   \* the processor takes interrupts
          constructed, destructed, atexit

startVars == <<phase, step, interrupts, constructed, destructed, atexit>>
vars == <<fileVars, startVars>>

StartInit ==
  /\ FilesInit
  /\ phase = "irq" /\ step = 0 /\ interrupts = FALSE
  /\ constructed = <<>> /\ destructed = <<>> /\ atexit = FALSE

Enter(p) == phase' = p /\ step' = 0

alt_irq_init ==
  /\ phase = "irq" /\ Enter("drivers")
  /\ interrupts' = TRUE
  /\ UNCHANGED <<fileVars, constructed, destructed, atexit>>

(* The drivers of alt_sys_init, one after the other.                       *)
alt_sys_init ==
  /\ phase = "drivers"
  /\ IF step < Len(Drivers)
     THEN /\ step' = step + 1 /\ UNCHANGED phase
          /\ IF Drivers[step + 1] \in Devices THEN alt_dev_reg(Drivers[step + 1])
             ELSE alt_fs_reg(Drivers[step + 1])
     ELSE Enter("redirect") /\ UNCHANGED fileVars
  /\ UNCHANGED <<interrupts, constructed, destructed, atexit>>

(* alt_open_fd: opens, copies, and gives the descriptor back; a device     *)
(* that cannot be opened leaves the standard descriptor where it was.      *)
KeepSpare(fd, acc) == \E err \in {0} \cup Fails :  \* mutant of alt_open_fd
  LET old == Opened(StdName, {}, acc, err) IN
    /\ maxFd' = old.high /\ result' = old.rc
    /\ fdList' = IF old.rc < 0 THEN old.list ELSE [old.list EXCEPT ![fd] = old.list[old.rc]]
    /\ UNCHANGED lists
alt_open_fd(fd, acc) == \E err \in {0} \cup Fails :
  LET old == Opened(StdName, {}, acc, err) IN
    /\ maxFd' = old.high /\ result' = old.rc
    /\ fdList' = IF old.rc < 0 THEN old.list
                 ELSE Released([old.list EXCEPT ![fd] = old.list[old.rc]], old.rc)
    /\ UNCHANGED lists

(* Output, input, error, in this order.                                    *)
alt_io_redirect ==
  /\ phase = "redirect"
  /\ \/ step = 0 /\ alt_open_fd(1, "w") /\ step' = 1 /\ UNCHANGED phase
     \/ step = 1 /\ alt_open_fd(0, "r") /\ step' = 2 /\ UNCHANGED phase
     \/ step = 2 /\ alt_open_fd(2, "w") /\ Enter("ctors")
  /\ UNCHANGED <<interrupts, constructed, destructed, atexit>>

(* From the last to the first.                                             *)
do_ctors ==
  /\ phase = "ctors"
  /\ IF Len(constructed) < Ctors
     THEN /\ constructed' = Append(constructed, Ctors - Len(constructed))
          /\ UNCHANGED <<phase, step, atexit>>
     ELSE Enter("main") /\ atexit' = TRUE /\ UNCHANGED constructed
  /\ UNCHANGED <<fileVars, interrupts, destructed>>

(* The application; its exit calls the registered functions.               *)
main ==
  /\ phase = "main"
  /\ FileCall
  /\ UNCHANGED startVars

MainReturns ==
  /\ phase = "main" /\ Enter("exit")
  /\ close(1)
  /\ UNCHANGED <<interrupts, constructed, destructed, atexit>>

do_dtors ==
  /\ phase = "exit" /\ atexit
  /\ IF Len(destructed) < Ctors
     THEN destructed' = Append(destructed, Ctors - Len(destructed)) /\ UNCHANGED <<phase, step>>
     ELSE Enter("stopped") /\ UNCHANGED destructed
  /\ UNCHANGED <<fileVars, interrupts, constructed, atexit>>

(* kill sends a signal to the only process there is: most end it at once,  *)
(* two are ignored, others are unknown.                                    *)
kill ==
  /\ phase = "main"
  /\ \/ Enter("stopped") /\ UNCHANGED fileVars
     \/ \E err \in {0, EINVAL, ESRCH} : Given(err) /\ UNCHANGED <<phase, step>>
  /\ UNCHANGED <<interrupts, constructed, destructed, atexit>>

(* _exit does not return, and leaves interrupts on.                        *)
exit == phase = "stopped" /\ UNCHANGED vars

Next == alt_irq_init \/ alt_sys_init \/ alt_io_redirect \/ do_ctors \/ main
        \/ MainReturns \/ do_dtors \/ kill \/ exit
Spec == StartInit /\ [][Next]_vars

-------------------------------------------------------------------------------
(* alt_main.c 75-160, alt_io_redirect.c 42-94: when main begins, standard  *)
(* input and output are the terminal (or, if it would not open, the null   *)
(* device) with nothing else open; later they stay open whatever is closed. *)
StandardReady ==
  phase \in {"ctors", "main", "exit"} =>
    /\ \A fd \in 0..2 : fdList[fd].dev \in {alt_find_dev(StdName), Null}
    /\ phase = "ctors" => InUse = 0..2
===============================================================================
