------------------------------- MODULE MCSCCBBus -------------------------------
(***************************************************************************)
(* Instances of SCCBBus for TLC: the whole table, and a short one for runs *)
(* in which Reset and SCCB_Run come at every clock.                        *)
(***************************************************************************)
EXTENDS SCCBBus, SCCBTable

MCCOM7    == HexByte(\h12)
MCDefault == HexByte(\ha5)     \* a byte no entry of the table carries

Addresses(table, last) == {table[k].sub : k \in 0..last} \cup {HaltEntry.sub}

FullRegisters == Addresses(TableEntry, TableLast)

(* The first entries of the table (two device resets and COM7), then its   *)
(* last one, so that the short program also ends on a register it has      *)
(* already written.                                                        *)
ShortLast  == 3
ShortEntry == [k \in 0..ShortLast |-> IF k = ShortLast THEN TableEntry[TableLast]
                                      ELSE TableEntry[k]]
ShortRegisters == Addresses(ShortEntry, ShortLast)

(* A run in which nobody presses Reset after power-up.                     *)
NoReset == state # "HALT" => state' # "HALT"
UninterruptedSpec == BusInit /\ [][BusNext /\ NoReset]_vars
                             /\ WF_vars(BusNext /\ NoReset)
===============================================================================
