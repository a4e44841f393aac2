------------------------------ MODULE DisplayScan ------------------------------
(***************************************************************************)
(* Image_mod.sv, the half that runs on VGA_Clk: the two beam counters, the *)
(* sync pulses, and the read ports of the three video memories.  One step  *)
(* is one rising edge of VGA_Clk, or a press of Reset.  Instead of a       *)
(* pixel's colour the model carries the address it was read from.          *)
(***************************************************************************)
EXTENDS Integers

CONSTANTS HTotal, VTotal,      \* clocks in a line, lines in a frame (800, 525)
          HVisible, VVisible,  \* the visible part (640, 480)
          HeldRows,            \* the lines that show the memory (240)
          HSyncAt, HSyncEnd,   \* hs is low from ... to before ... (656, 752)
          VSyncAt,             \* vs is low at this line and the next (490)
          BankSize             \* words in one memory (65536)

ASSUME DisplayAssumption ==
  /\ \A n \in {HTotal, VTotal, HVisible, VVisible, HeldRows, HSyncAt, HSyncEnd, VSyncAt, BankSize} :
       n \in Nat /\ n >= 2
  /\ HVisible < HSyncAt /\ HSyncAt < HSyncEnd /\ HSyncEnd < HTotal
  /\ HeldRows <= VVisible /\ VVisible < VSyncAt - 1 /\ VSyncAt + 1 < VTotal

(* The rows shown fit into the three memories.                             *)
ASSUME FitsAssumption == HVisible * HeldRows + HTotal <= 3 * BankSize

VARIABLES hc, vc, hs, vs,
          address_reg, q     \* the two registers between address and data

scanVars == <<hc, vc, hs, vs, address_reg, q>>

(* Powered up without a Reset the counters start at zero too.              *)
ScanInit == hc = 0 /\ vc = 0 /\ hs = 0 /\ vs = 0 /\ address_reg = 0 /\ q = 0

VRAM_rdaddress == (HVisible * vc + hc) % (4 * BankSize)

Count ==
  IF hc = HTotal - 1
  THEN hc' = 0 /\ vc' = IF vc = VTotal - 1 THEN 0 ELSE vc + 1
  ELSE hc' = hc + 1 /\ UNCHANGED vc

EarlySync ==                                       \* mutant of Sync
  /\ hs' = IF hc + 1 >= HSyncAt /\ hc + 1 < HSyncEnd THEN 0 ELSE 1
  /\ vs' = IF vc + 1 \in {VVisible, VVisible + 1} THEN 0 ELSE 1
Sync ==
  /\ hs' = IF hc + 1 >= HSyncAt /\ hc + 1 < HSyncEnd THEN 0 ELSE 1
  /\ vs' = IF vc + 1 \in {VSyncAt, VSyncAt + 1} THEN 0 ELSE 1

(* All three memories are given the low bits of the address; the address   *)
(* and the output are both registered.                                     *)
ReadPorts ==
  /\ address_reg' = VRAM_rdaddress % BankSize
  /\ q' = address_reg

VgaClock == Count /\ Sync /\ ReadPorts

ResetBeam ==
  /\ hc' = 0 /\ vc' = 0 /\ hs' = 0 /\ vs' = 0
  /\ UNCHANGED <<address_reg, q>>

ScanNext == VgaClock \/ ResetBeam

ScanSpec == ScanInit /\ [][ScanNext]_scanVars

(* The memory is chosen by the address of now, the word in it by the one   *)
(* of two clocks ago.  Below the last row, and for the bank that does not  *)
(* exist, the screen is black.                                             *)
NoLight == -1
Bank  == VRAM_rdaddress \div BankSize
Shown == IF vc >= HeldRows \/ Bank = 3 THEN NoLight ELSE BankSize * Bank + q
blank == ~(hc >= HVisible \/ vc >= VVisible)

-------------------------------------------------------------------------------
ScanTypeOK ==
  /\ hc \in 0..(HTotal - 1) /\ vc \in 0..(VTotal - 1)
  /\ hs \in {0, 1} /\ vs \in {0, 1}
  /\ address_reg \in 0..(BankSize - 1) /\ q \in 0..(BankSize - 1)

(* Image_mod.sv 335-337: the pixel counter sends "appropriate data for the *)
(* right pixel number".  From the third pixel of a line on, allowing for   *)
(* the two registers of the read port, a pixel shows the word of its own   *)
(* address or of one of the two before.                                    *)
RightPixel == hc >= 2 /\ blank /\ vc < HeldRows =>
                Shown \in (VRAM_rdaddress - 2)..VRAM_rdaddress

(* What is sent at each of these pixels: the word of two addresses before, *)
(* but for the first two pixels of a memory, which show the last two words *)
(* of that same memory (Image_mod.sv 164-175, VRAM.v 68-110).              *)
Sent == VRAM_rdaddress - 2 + IF VRAM_rdaddress % BankSize < 2 THEN BankSize ELSE 0
SentTwoLate == hc >= 2 /\ blank /\ vc < HeldRows => Shown = Sent

(* No sync pulse reaches into the visible picture, but for the one clock   *)
(* after Reset.                                                            *)
SyncInBlanking == (hs = 0 \/ vs = 0) /\ <<hc, vc>> # <<0, 0>> => ~blank

===============================================================================
