------------------------------ MODULE ImageInput ------------------------------
(***************************************************************************)
(* The capture path of the video: the camera, Image_mod.sv's capture half, *)
(* and encryptor.sv, whose clock is VGA_Clk gated by encryption_trigger.   *)
(* Cam_pclk and VGA_Clk are different clocks; their edges come in any      *)
(* order that Rate allows.  Of the generator's word it is kept only        *)
(* whether it is the zero of power-up, new, or already used for a pixel.   *)
(***************************************************************************)
EXTENDS ImageCapture

CONSTANT Rate     \* edges of Cam_pclk between two changes of VGA_Clk, at most

ASSUME RateAssumption == Rate \in Nat /\ Rate >= 1

VARIABLES VGA_Clk,
          word,   \* "zero", "new" or "used"
          edges   \* edges of Cam_pclk since VGA_Clk changed

vars == <<cvars, ivars, VGA_Clk, word, edges>>

Init == /\ VideoInit /\ CaptureInit
        /\ VGA_Clk = FALSE /\ word = "zero" /\ edges = 0

(* always @ (posedge clk && wren): either input may bring the edge.        *)
ClockOnly(clk, trigger) ==                         \* mutant of GatedEdge
  ~VGA_Clk /\ clk /\ trigger
GatedEdge(clk, trigger) == ~(VGA_Clk /\ encryption_trigger) /\ clk /\ trigger

Masks == SecondByte(word # "zero") /\ horizontal_counter >= Half /\ vertical_counter < Rows

Encrypt(clk, trigger) ==
  word' = IF GatedEdge(clk, trigger) THEN "new" ELSE IF Masks THEN "used" ELSE word

PclkEdge(video) ==
  /\ edges < Rate
  /\ video
  /\ \E Run \in BOOLEAN : Capture(Run, word # "zero")
  /\ Encrypt(VGA_Clk, encryption_trigger')
  /\ edges' = edges + 1
  /\ UNCHANGED VGA_Clk

VgaEdge ==
  /\ VGA_Clk' = ~VGA_Clk
  /\ word' = IF GatedEdge(~VGA_Clk, encryption_trigger) THEN "new" ELSE word
  /\ edges' = 0
  /\ UNCHANGED <<cvars, ivars>>

(* Reset comes at any moment; while it is held the state stays SLEEP.      *)
PressReset == ResetState /\ UNCHANGED <<cvars, VGA_Clk, word, edges>>

Next == PclkEdge(VideoAdvance) \/ PclkEdge(VideoStay) \/ VgaEdge \/ PressReset

Spec == Init /\ [][Next]_vars

(* The board's clock runs, and the camera's timing does not stand still.   *)
FairSpec == Spec /\ WF_vars(VgaEdge) /\ SF_vars(PclkEdge(VideoAdvance))

-------------------------------------------------------------------------------
TypeOK ==
  /\ VideoTypeOK /\ CaptureTypeOK
  /\ VGA_Clk \in BOOLEAN /\ word \in {"zero", "new", "used"} /\ edges \in 0..Rate

(* While a frame is received, the module's place in it is the camera's,    *)
(* whatever frames were cut and whenever Run and Reset were pressed.       *)
Aligned ==
  state = "RUN" /\ Cam_href => /\ byte_num = at % 2
                               /\ horizontal_counter = at \div 2
                               /\ vertical_counter = line

PixelOf(f, x, y) == [hi |-> <<f, y, 2 * x>>, lo |-> <<f, y, 2 * x + 1>>,
                     masked |-> x >= Half]

(* README.md lines 5 to 7: each place of the memory is black or shows the  *)
(* camera's pixel of just that place, plain in the left plane and          *)
(* encrypted in the right; never bytes of two pixels or of two frames.     *)
PixelsInPlace ==
  \A x \in 0..(Width - 1), y \in 0..(Rows - 1) :
    VRAM[Addr(x, y)] # Black => \E f \in Frames : VRAM[Addr(x, y)] = PixelOf(f, x, y)

(* When the camera has sent a whole frame to a module that was running, it *)
(* is in the memory, all but its last pixel.                               *)
FrameStored ==
  state = "RUN" /\ phase = "gap" /\ line = Lines =>
    \A x \in 0..(Width - 1), y \in 0..(Rows - 1) :
      Addr(x, y) # Last => VRAM[Addr(x, y)] = PixelOf(frame, x, y)

(* No word of the generator encrypts two pixels.                           *)
NoWordTwice == [][Masks => word # "used"]_vars

(* Once started the module finds the beginning of a frame, or is reset.    *)
CaptureStarts == state = "PREP" ~> state \in {"RUN", "SLEEP"}

-------------------------------------------------------------------------------
(* README.md line 7: the right plane, its last pixel too, is the           *)
(* encrypted picture.                                                      *)
LastPixelStored ==
  state = "RUN" /\ phase = "gap" /\ line = Lines =>
    VRAM[Last] = PixelOf(frame, Width - 1, Rows - 1)
===============================================================================
