------------------------------ MODULE ImageCapture ------------------------------
(***************************************************************************)
(* Image_mod.sv, the half that runs on the camera's clock: the state       *)
(* machine that waits for a frame, the block that makes pixels of bytes    *)
(* and addresses of pixels, and the write ports of the three video         *)
(* memories, taken as one memory over the whole address.  One step is one  *)
(* rising edge of Cam_pclk.  counter, which only feeds the HEX display, is *)
(* left out.                                                               *)
(***************************************************************************)
EXTENDS CameraVideo

CONSTANTS Rows,      \* lines that are kept (240)
          Half       \* first column of the encrypted plane (320)

ASSUME ImageAssumption == /\ Rows \in Nat /\ 1 <= Rows /\ Rows < Lines
                          /\ Half \in Nat /\ Half < Width

VARIABLES state, byte_num, horizontal_counter, vertical_counter, temp,
          VRAM_wren, VRAM_wraddress, VRAM_in, encryption_trigger,
          VRAM       \* the contents of the memories

pixelvars == <<byte_num, horizontal_counter, vertical_counter, temp>>
portvars  == <<VRAM_wren, VRAM_wraddress, VRAM_in>>
ivars     == <<state, pixelvars, portvars, encryption_trigger, VRAM>>

Addr(x, y) == x + y * Width
Last == Addr(Width - 1, Rows - 1)

NoByte == <<>>
Black == [hi |-> NoByte, lo |-> NoByte, masked |-> FALSE]

CaptureInit ==
  /\ state = "SLEEP"
  /\ byte_num = 0 /\ horizontal_counter = 0 /\ vertical_counter = 0 /\ temp = NoByte
  /\ VRAM_wren = FALSE /\ VRAM_wraddress = 0 /\ VRAM_in = Black
  /\ encryption_trigger = FALSE
  /\ VRAM = [a \in 0..Last |-> Black]

FromSleep(Run) == IF Run THEN "PREP" ELSE "SLEEP"
FromPrep       == IF Cam_vsync THEN "PREP2" ELSE "PREP"
BackToPrep     == IF Cam_vsync THEN "PREP2" ELSE "PREP"      \* mutant of FromPrep2
FromPrep2      == IF Cam_vsync THEN "PREP2" ELSE "RUN"
FromRun        == IF Cam_vsync THEN "PREP" ELSE "RUN"

NextState(Run) ==
  CASE state = "SLEEP" -> FromSleep(Run)
    [] state = "PREP"  -> FromPrep
    [] state = "PREP2" -> FromPrep2
    [] state = "RUN"   -> FromRun

(* The memories take what stood at their write port before the edge.       *)
WritePort ==
  VRAM' = IF VRAM_wren THEN [VRAM EXCEPT ![VRAM_wraddress] = VRAM_in] ELSE VRAM

KeepByteNum ==                                     \* mutant of Clear
  /\ state = "PREP"
  /\ horizontal_counter' = 0 /\ vertical_counter' = 0 /\ temp' = NoByte
  /\ VRAM_wren' = FALSE /\ encryption_trigger' = FALSE
  /\ UNCHANGED <<byte_num, VRAM_wraddress, VRAM_in>>
Clear ==
  /\ state = "PREP"
  /\ byte_num' = 0 /\ horizontal_counter' = 0 /\ vertical_counter' = 0 /\ temp' = NoByte
  /\ VRAM_wren' = FALSE /\ encryption_trigger' = FALSE
  /\ UNCHANGED <<VRAM_wraddress, VRAM_in>>

FirstByte ==
  /\ state = "RUN" /\ Cam_href /\ byte_num = 0
  /\ VRAM_wren' = FALSE /\ encryption_trigger' = TRUE
  /\ temp' = Cam_data /\ byte_num' = 1
  /\ UNCHANGED <<horizontal_counter, vertical_counter, VRAM_wraddress, VRAM_in>>

(* One further in the line, or the first of the next line.                 *)
WrapLate ==                                        \* mutant of Advance
  IF horizontal_counter = Width
  THEN horizontal_counter' = 0 /\ vertical_counter' = vertical_counter + 1
  ELSE horizontal_counter' = horizontal_counter + 1 /\ UNCHANGED vertical_counter
Advance ==
  IF horizontal_counter = Width - 1
  THEN horizontal_counter' = 0 /\ vertical_counter' = vertical_counter + 1
  ELSE horizontal_counter' = horizontal_counter + 1 /\ UNCHANGED vertical_counter

(* The right plane is xored with the encryptor's word; a word that is      *)
(* still the zero of power-up changes nothing.  Below the last kept line   *)
(* the address stands still and black is written.                          *)
Keep(mask) ==
  \/ /\ vertical_counter < Rows
     /\ VRAM_wraddress' = Addr(horizontal_counter, vertical_counter)
     /\ VRAM_in' = [hi |-> temp, lo |-> Cam_data,
                    masked |-> horizontal_counter >= Half /\ mask]
  \/ /\ vertical_counter >= Rows
     /\ VRAM_in' = Black
     /\ UNCHANGED VRAM_wraddress

SecondByte(mask) ==
  /\ state = "RUN" /\ Cam_href /\ byte_num = 1
  /\ encryption_trigger' = FALSE
  /\ VRAM_wren' = TRUE
  /\ Keep(mask)
  /\ Advance
  /\ byte_num' = 0
  /\ UNCHANGED temp

BetweenLines ==
  /\ state = "RUN" /\ ~Cam_href
  /\ VRAM_wren' = FALSE
  /\ UNCHANGED <<pixelvars, VRAM_wraddress, VRAM_in, encryption_trigger>>

Hold ==
  /\ state \in {"SLEEP", "PREP2"}
  /\ UNCHANGED <<pixelvars, portvars, encryption_trigger>>

Capture(Run, mask) ==
  /\ state' = NextState(Run)
  /\ WritePort
  /\ Clear \/ FirstByte \/ SecondByte(mask) \/ BetweenLines \/ Hold

(* Reset clears the state register only.                                   *)
ResetState ==
  /\ state' = "SLEEP"
  /\ UNCHANGED <<pixelvars, portvars, encryption_trigger, VRAM>>

-------------------------------------------------------------------------------
Byte  == (Frames \X (0..(Lines - 1)) \X (0..(2 * Width - 1))) \cup {NoByte}
Pixel == [hi : Byte, lo : Byte, masked : BOOLEAN]

CaptureTypeOK ==
  /\ state \in {"SLEEP", "PREP", "PREP2", "RUN"} /\ byte_num \in {0, 1}
  /\ horizontal_counter \in 0..(Width - 1) /\ vertical_counter \in 0..Lines
  /\ temp \in Byte /\ VRAM_in \in Pixel
  /\ VRAM_wren \in BOOLEAN /\ encryption_trigger \in BOOLEAN
  /\ VRAM_wraddress \in 0..Last
  /\ DOMAIN VRAM = 0..Last /\ \A a \in 0..Last : VRAM[a] \in Pixel
===============================================================================
