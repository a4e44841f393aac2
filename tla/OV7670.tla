--------------------------------- MODULE OV7670 ---------------------------------
(***************************************************************************)
(* The SCCB side of the OV7670 camera, a device outside this repository,   *)
(* modelled from the bus it shares with SCCB_master.sv: START and STOP are *)
(* changes of the data line while the clock line is high, a bit is sampled *)
(* when the clock line rises, each byte is followed by a don't-care bit,   *)
(* a write is address, sub-address, data, and a read returns the register  *)
(* last addressed.                                                         *)
(***************************************************************************)
EXTENDS CameraRegisters

CONSTANTS WriteID, ReadID     \* the bus addresses the camera answers to

VARIABLES cphase,   \* which byte of a transaction is being received
          cbits,    \* how many bits of it have been
          cshift,   \* the bits
          csub,     \* the register addressed
          cdrive,   \* what the camera drives on the data line (2: nothing)
          regs      \* the register file

cvars == <<cphase, cbits, cshift, csub, cdrive, regs>>

CInit ==
  /\ cphase = "idle" /\ cbits = 0
  /\ cshift = [i \in 0..7 |-> 0] /\ csub = [i \in 0..7 |-> 0]
  /\ cdrive = 2
  /\ regs = [r \in Registers |-> Default]

Start ==
  /\ cphase' = "id" /\ cbits' = 0 /\ cdrive' = 2
  /\ UNCHANGED <<cshift, csub, regs>>

Stop ==
  /\ cphase' = "idle" /\ cbits' = 0 /\ cdrive' = 2
  /\ UNCHANGED <<cshift, csub, regs>>

(* The clock line rises with the data line at level d.                     *)
Shift(d) ==
  /\ cphase # "idle" /\ cbits < 8
  /\ cshift' = IF cphase = "reading" THEN cshift ELSE [cshift EXCEPT ![7 - cbits] = d]
  /\ cbits' = cbits + 1
  /\ UNCHANGED <<cphase, csub, cdrive, regs>>

Commit == cphase = "data" /\ cbits = 8     \* the next rising edge writes

NinthBit ==
  /\ cphase # "idle" /\ cbits = 8
  /\ cbits' = 0
  /\ cphase' = IF cphase = "id" /\ cshift = WriteID THEN "sub"
               ELSE IF cphase = "id" /\ cshift = ReadID THEN "reading"
               ELSE IF cphase = "sub" THEN "data" ELSE "idle"
  /\ csub' = IF cphase = "sub" THEN cshift ELSE csub
  /\ regs' = IF Commit THEN Written(regs, csub, cshift) ELSE regs
  /\ UNCHANGED <<cshift, cdrive>>

Rise(d) == Shift(d) \/ NinthBit \/ (cphase = "idle" /\ UNCHANGED cvars)

(* The clock line falls: a camera being read puts out its next bit.        *)
Fall ==
  /\ cdrive' = IF cphase = "reading" /\ cbits < 8 /\ csub \in Registers
               THEN regs[csub][7 - cbits] ELSE 2
  /\ UNCHANGED <<cphase, cbits, cshift, csub, regs>>

(* The camera's reaction to the lines going from c, d to cn, dn.  Where    *)
(* both change at once on a rising edge, either data level may be sampled; *)
(* on a falling edge the clock is taken to arrive first.                   *)
Observe(c, d, cn, dn) ==
  \/ c = 0 /\ cn = 1 /\ \E s \in {d, dn} : Rise(s)
  \/ c = 1 /\ cn = 0 /\ Fall
  \/ c = 1 /\ cn = 1 /\ d = 1 /\ dn = 0 /\ Start
  \/ c = 1 /\ cn = 1 /\ d = 0 /\ dn = 1 /\ Stop
  \/ c = cn /\ (c = 1 => d = dn) /\ UNCHANGED cvars
===============================================================================
