------------------------------ MODULE SCCBMaster ------------------------------
(***************************************************************************)
(* SCCB_master.sv: the state machine that programs the registers of the    *)
(* OV7670 camera over the two-wire SCCB bus.  One step of this module is   *)
(* one rising edge of SCCB_clk.  Every register reads the value its inputs *)
(* had before the edge, as in the synthesized netlist, so the state         *)
(* routine of an edge runs for the state held before it even when the edge *)
(* samples Reset.  Registers keep their source names.  A byte is a         *)
(* function of its bit positions, so Write_data[7 - state_counter] reads   *)
(* as it does in the source.                                               *)
(***************************************************************************)
EXTENDS Integers

CONSTANTS Last,        \* SCCB_COUNTER at which FIN stops for good (8'h3b)
          Entry,       \* the case table of FIN: SCCB_COUNTER -> register write
          ResetEntry,  \* RESET_ADDR and RESET_DATA, the write HALT prepares
          IPWrite,     \* 8'h42, the camera's bus address for writing
          IPRead       \* 8'h43, the camera's bus address for reading

Bit   == {0, 1}
Byte  == [0..7 -> Bit]
RegisterWrite == [sub : Byte, data : Byte]

ASSUME LastAssumption  == Last \in Nat /\ 1 <= Last /\ Last <= 255
ASSUME EntryAssumption == Entry \in [0..Last -> RegisterWrite]
ASSUME ResetAssumption == ResetEntry \in RegisterWrite
ASSUME IPAssumption    == IPWrite \in Byte /\ IPRead \in Byte /\ IPWrite # IPRead

HiZ   == 2                      \* 1'bz: the pin is not driven
Zero  == [i \in 0..7 |-> 0]     \* a byte register at power-up

VARIABLES state, state_counter, cam_clk, curr_data, prep_sig1, prep_sig2,
          garbage, garbage2, SCCB_COUNTER, Sub_address, Write_data, Read_data,
          IP_address_Write, IP_address_Read, sdioc, sdiod

counters == <<garbage, garbage2>>
preps    == <<prep_sig1, prep_sig2>>
entry    == <<Sub_address, Write_data>>
ids      == <<IP_address_Write, IP_address_Read>>
mvars    == <<state, state_counter, cam_clk, curr_data, preps, counters,
              SCCB_COUNTER, entry, Read_data, ids, sdioc, sdiod>>

Init ==
  /\ state = "HALT"
  /\ state_counter = 0 /\ cam_clk = 0 /\ curr_data = 0
  /\ prep_sig1 = 0 /\ prep_sig2 = 0
  /\ garbage = 0 /\ garbage2 = 0 /\ SCCB_COUNTER = 0
  /\ Sub_address = Zero /\ Write_data = Zero /\ Read_data = Zero
  /\ IP_address_Write = Zero /\ IP_address_Read = Zero
  /\ sdioc = 0
  /\ sdiod \in {0, HiZ}         \* the build fixes whether the pin powers up driven

-------------------------------------------------------------------------------
(* The state register: Reset is synchronous and only forces the state.     *)
Goto(reset, next) == state' = IF reset THEN "HALT" ELSE next

HALT(reset, run) ==
  /\ state = "HALT"
  /\ Goto(reset, IF run THEN "STOP" ELSE "HALT")
  /\ Sub_address' = ResetEntry.sub
  /\ Write_data' = ResetEntry.data
  /\ IP_address_Write' = IPWrite
  /\ IP_address_Read' = IPRead
  /\ sdioc' = 1
  /\ sdiod' = HiZ
  /\ SCCB_COUNTER' = 0
  /\ UNCHANGED <<state_counter, cam_clk, curr_data, preps, counters, Read_data>>

STOP(reset) ==
  /\ state = "STOP"
  /\ Goto(reset, "PREP")
  /\ SCCB_COUNTER' = (SCCB_COUNTER + 1) % 256
  /\ state_counter' = 0
  /\ cam_clk' = 0
  /\ prep_sig1' = 0 /\ prep_sig2' = 0
  /\ garbage' = 0 /\ garbage2' = 0
  /\ sdioc' = 1
  /\ sdiod' = HiZ
  /\ UNCHANGED <<curr_data, entry, Read_data, ids>>

(* The start condition: the data pin goes high, then low, the clock high.  *)
PREP(reset) ==
  /\ state = "PREP"
  /\ Goto(reset, IF prep_sig2 = 1 THEN "Phase1" ELSE "PREP")
  /\ sdioc' = 1
  /\ \/ /\ prep_sig1 = 0
        /\ sdiod' = 1
        /\ prep_sig1' = 1
        /\ UNCHANGED prep_sig2
     \/ /\ prep_sig1 = 1
        /\ sdiod' = 0
        /\ prep_sig2' = 1
        /\ UNCHANGED prep_sig1
  /\ UNCHANGED <<state_counter, cam_clk, curr_data, counters, SCCB_COUNTER,
                 entry, Read_data, ids>>

(* The low half of a bit: the clock pin falls and, for the first eight     *)
(* bits, the data pin takes the next bit of byte, most significant first.  *)
LeastFirst(byte) ==                                    \* mutant of DriveBit
  /\ state_counter < 8
  /\ sdiod' = byte[state_counter]
  /\ curr_data' = byte[state_counter]

DriveBit(byte) ==
  /\ state_counter < 8
  /\ sdiod' = byte[7 - state_counter]
  /\ curr_data' = byte[7 - state_counter]

ClockStaysHigh ==                                      \* mutant of LowHalf
  /\ cam_clk = 0
  /\ cam_clk' = 1
  /\ sdioc' = 1
  /\ state_counter' = (state_counter + 1) % 32

LowHalf ==
  /\ cam_clk = 0
  /\ cam_clk' = 1
  /\ sdioc' = 0
  /\ state_counter' = (state_counter + 1) % 32

(* The high half: the clock pin rises; after the last bit the counter is   *)
(* cleared.                                                                *)
HighHalf(last) ==
  /\ cam_clk = 1
  /\ cam_clk' = 0
  /\ sdioc' = 1
  /\ state_counter' = IF state_counter = last THEN 0 ELSE state_counter
  /\ UNCHANGED curr_data

(* Phase1, Phase2 and Phase3 send one byte and a ninth, don't-care bit.    *)
SendByte(reset, here, byte, next) ==
  /\ state = here
  /\ Goto(reset, IF state_counter = 9 THEN next ELSE here)
  /\ \/ /\ LowHalf
        /\ DriveBit(byte)
     \/ /\ LowHalf
        /\ state_counter >= 8
        /\ UNCHANGED <<sdiod, curr_data>>
     \/ /\ HighHalf(9)
        /\ sdiod' = IF state_counter # 9 THEN curr_data ELSE sdiod
  /\ UNCHANGED <<preps, counters, SCCB_COUNTER, entry, Read_data, ids>>

Phase1(reset) == SendByte(reset, "Phase1", IP_address_Write, "Phase2")
Phase2(reset) == SendByte(reset, "Phase2", Sub_address, "INPUT")
Phase3(reset) == SendByte(reset, "Phase3", IP_address_Read, "Phase4")

(* INPUT sends the data byte, the don't-care bit and a final 0.            *)
INPUT(reset) ==
  /\ state = "INPUT"
  /\ Goto(reset, IF state_counter = 10 THEN "BREAK" ELSE "INPUT")
  /\ \/ /\ LowHalf
        /\ DriveBit(Write_data)
     \/ /\ LowHalf
        /\ state_counter = 9
        /\ sdiod' = 0 /\ curr_data' = 0
     \/ /\ LowHalf
        /\ state_counter \notin 0..7 \cup {9}
        /\ UNCHANGED <<sdiod, curr_data>>
     \/ /\ HighHalf(10)
        /\ sdiod' = IF state_counter # 9 THEN curr_data ELSE sdiod
  /\ UNCHANGED <<preps, counters, SCCB_COUNTER, entry, Read_data, ids>>

LongPulse  == IF garbage2 > 6 THEN 1 ELSE 0            \* mutant of BreakLevel
BreakLevel == IF garbage2 > 6 /\ garbage2 < 12 THEN 1 ELSE 0

(* BREAK ends the write with 0-1 on the data pin and starts the read with  *)
(* 1-0, the clock pin high.                                                *)
BREAK(reset) ==
  /\ state = "BREAK"
  /\ Goto(reset, IF garbage2 = 20 THEN "Phase3" ELSE "BREAK")
  /\ sdioc' = 1
  /\ sdiod' = BreakLevel
  /\ garbage2' = (garbage2 + 1) % 256
  /\ UNCHANGED <<state_counter, cam_clk, curr_data, preps, garbage,
                 SCCB_COUNTER, entry, Read_data, ids>>

(* Phase4 clocks eight bits in.  The release of the data pin is commented  *)
(* out, so it stays driven; line is the level seen at the pin.  An index   *)
(* outside 0..7 writes nothing.                                            *)
Phase4(reset, line) ==
  /\ state = "Phase4"
  /\ Goto(reset, IF state_counter = 10 THEN "FIN" ELSE "Phase4")
  /\ \/ /\ LowHalf
        /\ state_counter \in {8, 9}
        /\ sdiod' = 9 - state_counter
        /\ curr_data' = 9 - state_counter
        /\ UNCHANGED Read_data
     \/ /\ LowHalf
        /\ state_counter \notin {8, 9}
        /\ UNCHANGED <<sdiod, curr_data, Read_data>>
     \/ /\ HighHalf(10)
        /\ Read_data' = [i \in 0..7 |-> IF i = (8 - state_counter) % 32
                                        THEN line ELSE Read_data[i]]
        /\ sdiod' = IF state_counter \in {9, 10} THEN curr_data ELSE sdiod
  /\ UNCHANGED <<preps, counters, SCCB_COUNTER, entry, ids>>

LoadEntry ==
  IF SCCB_COUNTER \in 0..Last
  THEN /\ Sub_address' = Entry[SCCB_COUNTER].sub
       /\ Write_data' = Entry[SCCB_COUNTER].data
  ELSE UNCHANGED entry

NeverRest == garbage' = (garbage + 1) % 65536          \* mutant of Pause
Pause     == garbage' = IF SCCB_COUNTER # Last THEN (garbage + 1) % 65536 ELSE garbage

(* FIN loads the next register write.  At Last it counts no further and    *)
(* never leaves: the "infinite hiatus".                                    *)
FIN(reset) ==
  /\ state = "FIN"
  /\ Goto(reset, IF garbage = 20 THEN "STOP" ELSE "FIN")
  /\ sdioc' = 1
  /\ sdiod' = 0
  /\ LoadEntry
  /\ Pause
  /\ UNCHANGED <<state_counter, cam_clk, curr_data, preps, garbage2,
                 SCCB_COUNTER, Read_data, ids>>

-------------------------------------------------------------------------------
(* One edge of SCCB_clk with the sampled Reset, SCCB_Run and data pin.     *)
Clock(reset, run, line) ==
  \/ HALT(reset, run) \/ STOP(reset) \/ PREP(reset)
  \/ Phase1(reset) \/ Phase2(reset) \/ INPUT(reset) \/ BREAK(reset)
  \/ Phase3(reset) \/ Phase4(reset, line) \/ FIN(reset)

Sending == {"Phase1", "Phase2", "INPUT", "Phase3"}
States  == {"HALT", "STOP", "PREP", "BREAK", "Phase4", "FIN"} \cup Sending

Word(size) == {n \in Nat : n < size}     \* what an unsigned register can hold

TypeOK ==
  /\ state \in States
  /\ state_counter \in Word(32) /\ cam_clk \in Bit /\ curr_data \in Bit
  /\ prep_sig1 \in Bit /\ prep_sig2 \in Bit
  /\ garbage \in Word(65536) /\ garbage2 \in Word(256) /\ SCCB_COUNTER \in Word(256)
  /\ Sub_address \in Byte /\ Write_data \in Byte /\ Read_data \in Byte
  /\ IP_address_Write \in Byte /\ IP_address_Read \in Byte
  /\ sdioc \in Bit /\ sdiod \in {0, 1, HiZ}

(* The register writes in the order they are loaded: HALT's reset write,   *)
(* then the table from its entry 1.                                        *)
Program == [k \in 0..Last |-> IF k = 0 THEN ResetEntry ELSE Entry[k]]
===============================================================================
