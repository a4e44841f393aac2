---------------------------- MODULE CameraRegisters ----------------------------
(***************************************************************************)
(* The register file of the OV7670, a device outside this repository, as   *)
(* SCCB_master.sv uses it: an address holds the byte last written to it,   *)
(* and writing COM7 with bit 7 set ("COM7 Reset" in the table) restores    *)
(* every register.                                                         *)
(***************************************************************************)
EXTENDS Integers

CONSTANTS Registers,   \* the addresses of interest
          COM7,        \* the address whose bit 7 resets the device
          Default      \* the byte every register holds after a reset

Written(file, sub, data) ==
  IF sub = COM7 /\ data[7] = 1
  THEN [r \in Registers |-> Default]
  ELSE [file EXCEPT ![sub] = data]
===============================================================================
