---------------------------- MODULE RegisterProgram ----------------------------
(***************************************************************************)
(* What the camera's configuration promises, with no bus in it: the writes *)
(* of a program reach the register file whole, in order, each once; a      *)
(* press of Reset starts the program again and spoils no register.         *)
(***************************************************************************)
EXTENDS CameraRegisters

CONSTANTS Program,     \* the register writes, a function on 0..N-1 or more
          N            \* how many of them are to be written

VARIABLES regs,        \* the register file
          sent         \* how many writes of this run have reached it

avars == <<regs, sent>>

Init == /\ regs = [r \in Registers |-> Default]
        /\ sent = 0

Write == /\ sent < N
         /\ regs' = Written(regs, Program[sent].sub, Program[sent].data)
         /\ sent' = sent + 1

Restart == /\ sent' = 0
           /\ UNCHANGED regs

Next == Write \/ Restart

Spec == Init /\ [][Next]_avars
===============================================================================
