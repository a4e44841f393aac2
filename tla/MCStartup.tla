------------------------------- MODULE MCStartup -------------------------------
(***************************************************************************)
(* Startup for TLC: a pool of five, a terminal, a second device, and a     *)
(* file system.                                                            *)
(***************************************************************************)
EXTENDS Startup, TLC

MCNameOf  == [d \in Devices |-> d]
MCMounted == [f \in FileSystems |-> {"fs/file"}]
MCCalls   == "null" :> {"write"} @@ "tty" :> {"close", "read", "write", "ioctl"}
             @@ "lcd" :> {"write"} @@ "fs" :> {"open", "close", "read", "write", "lseek", "fstat"}
MCDrivers == <<"fs", "lcd", "tty">>
MCFlags   == {{}, {"NONBLOCK"}}
===============================================================================
