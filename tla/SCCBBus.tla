-------------------------------- MODULE SCCBBus --------------------------------
(***************************************************************************)
(* The camera-programming path as a whole: SCCB_master.sv and the camera   *)
(* on the two lines between them, clocked by SCCB_clk, with Reset and      *)
(* SCCB_Run pressed at any time.                                           *)
(***************************************************************************)
EXTENDS SCCBMaster

CONSTANTS Registers, COM7, Default,
          Contended   \* the levels a line driven to both 0 and 1 may show

VARIABLES cphase, cbits, cshift, csub, cdrive, regs,
          sent     \* history: the writes that reached the camera in this run

Camera == INSTANCE OV7670 WITH WriteID <- IPWrite, ReadID <- IPRead

cvars == <<cphase, cbits, cshift, csub, cdrive, regs>>
vars  == <<mvars, cvars, sent>>

ASSUME RegistersAssumption ==
  /\ Registers \subseteq Byte
  /\ COM7 \in Byte /\ Default \in Byte
  /\ Contended # {} /\ Contended \subseteq Bit
  /\ \A k \in 0..Last : Program[k].sub \in Registers

(* The data line: pulled up when nobody drives it; with both ends driving  *)
(* it different ways the level is any of Contended.                        *)
Level(m) == IF m = HiZ THEN 1 ELSE m

Line(m, c) == IF c = HiZ THEN {Level(m)}
              ELSE IF m \in {HiZ, c} THEN {c} ELSE Contended

BusInit == Init /\ Camera!CInit /\ sent = 0

Count == sent' = IF state = "STOP" /\ SCCB_COUNTER = 0 THEN 0
                 ELSE IF sdioc = 0 /\ sdioc' = 1 /\ Camera!Commit THEN sent + 1
                 ELSE sent

BusNext ==
  \E reset, run \in BOOLEAN : \E line \in Line(sdiod, cdrive) :
     /\ Clock(reset, run, line)
     /\ Camera!Observe(sdioc, Level(sdiod), sdioc', Level(sdiod'))
     /\ Count

Spec == BusInit /\ [][BusNext]_vars

(* SCCB_clk is derived from the free-running board clock, so it keeps      *)
(* ticking.                                                                *)
FairSpec == Spec /\ WF_vars(BusNext)

-------------------------------------------------------------------------------
BusTypeOK ==
  /\ TypeOK
  /\ cphase \in {"idle", "id", "sub", "data", "reading"}
  /\ cbits \in 0..8 /\ cshift \in Byte /\ csub \in Byte
  /\ cdrive \in {0, 1, HiZ} /\ regs \in [Registers -> Byte]
  /\ sent \in 0..Last

(* While the clock pin stays high the data pin is still, except where the  *)
(* code means a START or a STOP: PREP, BREAK and the release of the bus.   *)
DataStable ==
  [][(sdioc = 1 /\ sdioc' = 1 /\ Level(sdiod') # Level(sdiod))
       => state \in {"HALT", "STOP", "PREP", "BREAK"}]_vars

(* A register write under way is the one SCCB_COUNTER stands for, in every *)
(* state that sends it: nothing reloads the pair while it is on the bus,   *)
(* and STOP and FIN hand the next one over without a gap.                  *)
EntryMatchesCounter ==
  /\ state = "STOP" \/ (state = "FIN" /\ garbage > 0)
       => [sub |-> Sub_address, data |-> Write_data] = Program[SCCB_COUNTER]
  /\ state \in {"PREP", "BREAK"} \cup Sending
       => [sub |-> Sub_address, data |-> Write_data] = Program[SCCB_COUNTER - 1]

(* The bits of the current byte the master has clocked into the camera.    *)
BitsOut == state_counter - cam_clk

(* The camera is at the byte and the bit the master is at: no START, STOP  *)
(* or ninth bit is lost or invented between the two.                       *)
InStep ==
  /\ state = "PREP" /\ prep_sig2 = 1 => cphase = "id" /\ cbits = 0
  /\ state = "Phase1" => cphase = "id"  /\ cbits = BitsOut
  /\ state = "Phase2" => cphase = "sub" /\ cbits = BitsOut
  /\ state = "INPUT"  => IF BitsOut <= 8 THEN cphase = "data" /\ cbits = BitsOut
                                         ELSE cphase = "idle"
  /\ state = "BREAK"  => IF garbage2 <= 12 THEN cphase = "idle"
                                           ELSE cphase = "id" /\ cbits = 0
  /\ state = "Phase3" => cphase = "id"  /\ cbits = BitsOut
  /\ state = "Phase4" => IF BitsOut <= 8 THEN cphase = "reading" /\ cbits = BitsOut
                                         ELSE cphase = "idle"
  /\ state = "FIN"    => cphase = "idle"

(* Every write that the camera performs is the next of the program, whole, *)
(* and an interrupted run leaves no half-written register: the bus         *)
(* implements RegisterProgram.                                             *)
Abstract == INSTANCE RegisterProgram WITH N <- Last
ImplementsProgram == Abstract!Spec

(* The registers after the first k writes of a run, from any earlier ones. *)
Config[k \in 0..Last] ==
  IF k = 0 THEN [r \in Registers |-> Default]
  ELSE Camera!Written(Config[k - 1], Program[k - 1].sub, Program[k - 1].data)

(* In the hiatus the camera holds exactly the configured registers, even   *)
(* when earlier runs were cut short by Reset at any clock.                 *)
Hiatus == state = "FIN" /\ SCCB_COUNTER = Last
ConfiguredAtHiatus == Hiatus => sent = Last /\ regs = Config[Last]

(* Once Reset is left alone and SCCB_Run has been seen, the hiatus is      *)
(* reached with the camera configured, and kept.                           *)
ReachesHiatus == <>[](state # "HALT") => <>[](Hiatus /\ regs = Config[Last])

-------------------------------------------------------------------------------
(* What the source's comments say and the code does not do.                *)

(* Lines 356-358: "The state machine will reach infinite histus when the   *)
(* last register is written": in the hiatus the last table entry has been. *)
HiatusAfterLastWrite == Hiatus => regs[Entry[Last].sub] = Entry[Last].data

(* Lines 315-316: Phase 4 "is reading data from the Sub-address specified  *)
(* in Phase 2": when FIN begins, Read_data is the register's content.      *)
ReadsRegister == state = "FIN" /\ garbage = 0 => Read_data = regs[csub]
===============================================================================
