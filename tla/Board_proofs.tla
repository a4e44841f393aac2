------------------------------ MODULE Board_proofs ------------------------------
(***************************************************************************)
(* The clocked parts of the board for every size: the capture of pictures, *)
(* the generators, the divider of the SCCB clock and the display.  They    *)
(* share no variable; each has its own inductive invariant.                *)
(***************************************************************************)
EXTENDS ImageInput, DisplayScan, Encryptor, ClockDivider, TLAPS

(***************************************************************************)
(* The capture.  A frame that is being received, the place the module has  *)
(* reached in it, the word the generator has ready, the write port and the *)
(* memory are tied to one another in Capturing.                            *)
(***************************************************************************)
(* A frame is being received, from its vsync on.                           *)
Receiving == state = "RUN" /\ phase \in {"gap", "line"}

(* Of the video alone: pauses are at the beginning of a line, and before   *)
(* the first line.                                                         *)
VideoPlace ==
  /\ VideoTypeOK
  /\ phase # "line" => at = 0
  /\ phase \in {"off", "vsync"} => line = 0

(* The place the module has reached is the camera's, and the byte it waits *)
(* with is the one before.                                                 *)
InStep ==
  /\ encryption_trigger <=> byte_num = 1
  /\ Receiving => /\ at = 2 * horizontal_counter + byte_num
                  /\ vertical_counter = line
                  /\ byte_num = 1 => temp = <<frame, line, at - 1>>
  /\ state = "PREP2" => /\ phase # "line" /\ line = 0
                        /\ byte_num = 0 /\ horizontal_counter = 0 /\ vertical_counter = 0
                        /\ VRAM_wren = FALSE

(* A pixel that waits for its second byte has its word, or gets it before  *)
(* the next edge of Cam_pclk.                                              *)
WordReady == byte_num = 1 => word = "new" \/ (~VGA_Clk /\ edges = 1)

Columns == 0..(Width - 1)
KeptRows == 0..(Rows - 1)

Shows(a, p) == \E f \in Frames, x \in Columns, y \in KeptRows :
                 a = Addr(x, y) /\ p = PixelOf(f, x, y)

Past(x, y) == y < vertical_counter \/ (y = vertical_counter /\ x < horizontal_counter)

(* Every place of the memory, and the one at its write port.               *)
Memory ==
  /\ \A a \in 0..Last : VRAM[a] = Black \/ Shows(a, VRAM[a])
  /\ VRAM_wren => VRAM_in = Black \/ Shows(VRAM_wraddress, VRAM_in)

AtPort(a, p) == VRAM_wren /\ VRAM_wraddress = a /\ VRAM_in = p

(* While a frame is received: what is at the write port is of this frame,  *)
(* or black over the last place; every pixel that was received is in the   *)
(* memory or at its port.                                                  *)
Progress ==
  Receiving =>
    /\ vertical_counter >= Rows => VRAM_wraddress = Last
    /\ VRAM_wren => \/ VRAM_wraddress = Last
                    \/ \E x \in Columns, y \in KeptRows :
                         VRAM_wraddress = Addr(x, y) /\ VRAM_in = PixelOf(frame, x, y)
    /\ \A x \in Columns, y \in KeptRows :
         Past(x, y) /\ Addr(x, y) # Last =>
           \/ VRAM[Addr(x, y)] = PixelOf(frame, x, y)
           \/ AtPort(Addr(x, y), PixelOf(frame, x, y))

(* What holds however the two clocks go, and what needs an edge of VGA_Clk *)
(* between two of Cam_pclk.                                                *)
Following ==
  /\ VideoPlace /\ CaptureTypeOK
  /\ VGA_Clk \in BOOLEAN /\ word \in {"zero", "new", "used"} /\ edges \in 0..Rate
  /\ InStep

Capturing == Following /\ WordReady /\ Memory /\ Progress

LEMMA ImageSizes ==
  /\ Width \in Nat /\ Width >= 1 /\ Lines \in Nat /\ Lines >= 1
  /\ Rows \in Nat /\ 1 <= Rows /\ Rows < Lines /\ Half \in Nat /\ Half < Width
BY VideoAssumption, ImageAssumption

LEMMA RowsApart ==
  ASSUME NEW w \in Nat, NEW a \in Nat, NEW b \in Nat, a < b
  PROVE  a * w \in Nat /\ b * w \in Nat /\ a * w + w <= b * w
<1>1. PICK d \in Nat : b = a + 1 + d
  <2>1. b - a - 1 \in Nat /\ b = a + 1 + (b - a - 1)
    OBVIOUS
  <2> QED
    BY <2>1
<1>2. b * w = a * w + w + d * w
  BY <1>1
<1>3. a * w \in Nat /\ d * w \in Nat /\ b * w \in Nat
  OBVIOUS
<1> QED
  BY <1>2, <1>3

(* No two pixels have the same address, and all are in the memory.         *)
LEMMA AddrInjective ==
  ASSUME NEW x1 \in Columns, NEW y1 \in KeptRows, NEW x2 \in Columns, NEW y2 \in KeptRows,
         Addr(x1, y1) = Addr(x2, y2)
  PROVE  x1 = x2 /\ y1 = y2
<1> USE ImageSizes
<1>1. /\ x1 \in Nat /\ x1 < Width /\ x2 \in Nat /\ x2 < Width /\ y1 \in Nat /\ y2 \in Nat
  BY DEF Columns, KeptRows
<1>2. x1 + y1 * Width = x2 + y2 * Width
  BY DEF Addr
<1>3. y1 * Width \in Nat /\ y2 * Width \in Nat
  BY <1>1
<1>4. CASE y1 < y2
  <2>1. y1 * Width + Width <= y2 * Width
    BY <1>1, <1>4, RowsApart
  <2> QED
    BY <1>1, <1>2, <1>3, <2>1
<1>5. CASE y2 < y1
  <2>1. y2 * Width + Width <= y1 * Width
    BY <1>1, <1>5, RowsApart
  <2> QED
    BY <1>1, <1>2, <1>3, <2>1
<1>6. CASE y1 = y2
  BY <1>1, <1>2, <1>3, <1>6
<1> QED
  BY <1>1, <1>4, <1>5, <1>6

LEMMA AddrInMemory ==
  ASSUME NEW x \in Columns, NEW y \in KeptRows PROVE Addr(x, y) \in 0..Last
<1> USE ImageSizes
<1>1. /\ x \in Nat /\ x <= Width - 1 /\ y \in Nat /\ y <= Rows - 1 /\ Rows - 1 \in Nat
  BY DEF Columns, KeptRows
<1>2. y * Width \in Nat /\ (Rows - 1) * Width \in Nat
  BY <1>1
<1>3. y * Width <= (Rows - 1) * Width
  <2>1. CASE y = Rows - 1
    BY <2>1, <1>2
  <2>2. CASE y < Rows - 1
    BY <2>2, <1>1, <1>2, RowsApart
  <2> QED
    BY <1>1, <2>1, <2>2
<1> QED
  BY <1>1, <1>2, <1>3 DEF Addr, Last

LEMMA LastAddress == Last \in Nat /\ Last = Addr(Width - 1, Rows - 1)
<1>1. Width - 1 \in Columns /\ Rows - 1 \in KeptRows
  BY ImageSizes DEF Columns, KeptRows
<1> QED
  BY <1>1, AddrInMemory DEF Last

LEMMA PixelTyped ==
  ASSUME NEW f \in Frames, NEW x \in Columns, NEW y \in KeptRows
  PROVE  PixelOf(f, x, y) \in Pixel
<1>1. /\ 2 * x \in 0..(2 * Width - 1) /\ 2 * x + 1 \in 0..(2 * Width - 1)
      /\ y \in 0..(Lines - 1) /\ (x >= Half) \in BOOLEAN
  BY ImageSizes DEF Columns, KeptRows
<1>2. <<f, y, 2 * x>> \in Byte /\ <<f, y, 2 * x + 1>> \in Byte
  BY <1>1 DEF Byte
<1> QED
  BY <1>1, <1>2 DEF PixelOf, Pixel

LEMMA InitFollowing == Init => Following
<1> SUFFICES ASSUME Init PROVE Following
  OBVIOUS
<1>1. VideoPlace
  BY ImageSizes DEF Init, VideoInit, VideoPlace, VideoTypeOK
<1>2. CaptureTypeOK
  <2>1. Black \in Pixel /\ NoByte \in Byte
    BY DEF Black, Pixel, Byte, NoByte
  <2>2. DOMAIN VRAM = 0..Last /\ \A a \in 0..Last : VRAM[a] \in Pixel
    BY <2>1 DEF Init, CaptureInit
  <2>3. VRAM_wraddress \in 0..Last /\ VRAM_in \in Pixel /\ temp \in Byte
    BY <2>1, LastAddress DEF Init, CaptureInit
  <2>4. byte_num \in {0, 1} /\ horizontal_counter \in 0..(Width - 1) /\ vertical_counter \in 0..Lines
    BY ImageSizes DEF Init, CaptureInit
  <2> QED
    BY <2>2, <2>3, <2>4 DEF Init, CaptureInit, CaptureTypeOK
<1>3. InStep
  BY DEF Init, VideoInit, CaptureInit, InStep, Receiving
<1>4. edges \in 0..Rate
  BY RateAssumption DEF Init
<1>5. VGA_Clk \in BOOLEAN /\ word \in {"zero", "new", "used"}
  BY DEF Init
<1> QED
  BY <1>1, <1>2, <1>3, <1>4, <1>5 DEF Following

LEMMA InitCapturing == Init => Capturing
<1> SUFFICES ASSUME Init PROVE Capturing
  OBVIOUS
<1>1. WordReady /\ Progress
  BY DEF Init, VideoInit, CaptureInit, WordReady, Progress, Receiving
<1>2. Memory
  BY DEF Init, CaptureInit, Memory
<1> QED
  BY <1>1, <1>2, InitFollowing DEF Capturing

(* What the camera may do between two edges of its clock.                 *)
VideoStep == VideoAdvance \/ VideoStay

(* One edge of Cam_pclk, whatever the camera does with it.                 *)
PixelEdge == PclkEdge(VideoAdvance) \/ PclkEdge(VideoStay)

Captured(mask) == Clear \/ FirstByte \/ SecondByte(mask) \/ BetweenLines \/ Hold

LEMMA EdgeParts ==
  ASSUME PixelEdge
  PROVE  /\ edges < Rate /\ edges' = edges + 1 /\ VGA_Clk' = VGA_Clk
         /\ VideoStep
         /\ \E Run \in BOOLEAN : state' = NextState(Run)
         /\ WritePort
         /\ Captured(word # "zero")
         /\ Encrypt(VGA_Clk, encryption_trigger')
BY DEF PixelEdge, PclkEdge, Capture, Captured, VideoStep

LEMMA Transitions ==
  ASSUME NEW Run \in BOOLEAN, state \in {"SLEEP", "PREP", "PREP2", "RUN"},
         state' = NextState(Run)
  PROVE  /\ state = "SLEEP" => state' \in {"SLEEP", "PREP"}
         /\ state = "PREP"  => state' = IF phase = "vsync" THEN "PREP2" ELSE "PREP"
         /\ state = "PREP2" => state' = IF phase = "vsync" THEN "PREP2" ELSE "RUN"
         /\ state = "RUN"   => state' = IF phase = "vsync" THEN "PREP" ELSE "RUN"
         /\ state' \in {"SLEEP", "PREP", "PREP2", "RUN"}
BY DEF NextState, FromSleep, FromPrep, FromPrep2, FromRun, Cam_vsync

LEMMA StepVideo ==
  ASSUME VideoPlace, VideoStep PROVE VideoPlace'
<1> USE ImageSizes DEF VideoPlace, VideoTypeOK
<1>1. CASE StartSync
  BY <1>1 DEF StartSync
<1>2. CASE EndSync
  BY <1>2 DEF EndSync
<1>3. CASE StartLine
  BY <1>3 DEF StartLine
<1>4. CASE NextByte
  BY <1>4 DEF NextByte
<1>5. CASE EndLine
  BY <1>5 DEF EndLine
<1>6. CASE VideoStay
  BY <1>6 DEF VideoStay, Cut, cvars
<1> QED
  BY <1>1, <1>2, <1>3, <1>4, <1>5, <1>6 DEF VideoStep, VideoAdvance

(* Where the camera may get in one step, as far as it matters to a module  *)
(* that receives or waits for a frame.                                     *)
LEMMA VideoGoes ==
  ASSUME VideoPlace, VideoStep
  PROVE  /\ phase = "off" => phase' \in {"off", "vsync"}
         /\ phase = "vsync" => phase' # "line" /\ line' = 0
         /\ phase = "gap" /\ phase' \in {"gap", "line"} =>
              at' = at /\ line' = line /\ frame' = frame
         /\ phase = "line" /\ phase' \in {"gap", "line"} =>
              /\ frame' = frame
              /\ \/ at < 2 * Width - 1 /\ at' = at + 1 /\ line' = line
                 \/ at = 2 * Width - 1 /\ at' = 0 /\ line' = line + 1
<1> USE DEF VideoPlace
<1>1. CASE StartSync
  BY <1>1 DEF StartSync
<1>2. CASE EndSync
  BY <1>2 DEF EndSync
<1>3. CASE StartLine
  BY <1>3 DEF StartLine
<1>4. CASE NextByte
  BY <1>4 DEF NextByte
<1>5. CASE EndLine
  BY <1>5 DEF EndLine
<1>6. CASE VideoStay
  BY <1>6 DEF VideoStay, Cut, cvars
<1> QED
  BY <1>1, <1>2, <1>3, <1>4, <1>5, <1>6 DEF VideoStep, VideoAdvance

(* A frame that is being received after an edge was being received before  *)
(* it, or is just beginning.                                               *)
LEMMA ReceivesOn ==
  ASSUME Following, PixelEdge, Receiving'
  PROVE  /\ frame' = frame
         /\ \/ Receiving
            \/ state = "PREP2" /\ phase = "gap" /\ at' = 0 /\ line' = 0
<1>1. VideoPlace /\ state \in {"SLEEP", "PREP", "PREP2", "RUN"}
  BY DEF Following, CaptureTypeOK
<1>2. PICK Run \in BOOLEAN : state' = NextState(Run)
  BY EdgeParts
<1>3. VideoStep
  BY EdgeParts
<1>4. state' = "RUN" /\ phase' \in {"gap", "line"}
  BY DEF Receiving
<1>5. state \in {"RUN", "PREP2"} /\ phase # "vsync"
  BY <1>1, <1>2, <1>4, Transitions
<1>6. phase \in {"gap", "line"}
  BY <1>1, <1>3, <1>4, <1>5, VideoGoes DEF VideoPlace, VideoTypeOK
<1>7. frame' = frame
  BY <1>1, <1>3, <1>4, <1>6, VideoGoes
<1>8. state = "PREP2" => phase = "gap" /\ at' = 0 /\ line' = 0
  BY <1>1, <1>3, <1>4, <1>6, VideoGoes DEF Following, InStep, VideoPlace
<1> QED
  BY <1>5, <1>6, <1>7, <1>8 DEF Receiving

LEMMA ByteTyped ==
  ASSUME VideoPlace, Cam_href PROVE Cam_data \in Byte
<1>1. frame \in Frames /\ line \in 0..(Lines - 1) /\ at \in 0..(2 * Width - 1)
  BY ImageSizes DEF VideoPlace, VideoTypeOK, Cam_href
<1> QED
  BY <1>1 DEF Cam_data, Byte

LEMMA StepVRAM ==
  ASSUME CaptureTypeOK, WritePort
  PROVE  /\ DOMAIN VRAM' = 0..Last
         /\ \A a \in 0..Last : VRAM'[a] = IF VRAM_wren /\ VRAM_wraddress = a
                                          THEN VRAM_in ELSE VRAM[a]
BY DEF CaptureTypeOK, WritePort

(* The place in the line while a byte arrives.                             *)
LEMMA PlaceInLine ==
  ASSUME Following, state = "RUN", Cam_href
  PROVE  /\ Receiving /\ at = 2 * horizontal_counter + byte_num
         /\ at \in 0..(2 * Width - 1) /\ byte_num \in {0, 1}
         /\ horizontal_counter \in Columns /\ vertical_counter = line
         /\ line \in 0..(Lines - 1) /\ frame \in Frames
         /\ byte_num = 1 => temp = <<frame, line, at - 1>>
<1> USE ImageSizes
<1>1. Receiving
  BY DEF Cam_href, Receiving
<1> QED
  BY <1>1 DEF Following, InStep, VideoPlace, VideoTypeOK, CaptureTypeOK, Cam_href, Columns

LEMMA AdvanceTyped ==
  ASSUME Following, state = "RUN", Cam_href, Advance
  PROVE  horizontal_counter' \in 0..(Width - 1) /\ vertical_counter' \in 0..Lines
BY PlaceInLine, ImageSizes DEF Advance, Columns

LEMMA KeepTyped ==
  ASSUME Following, state = "RUN", Cam_href, NEW mask \in BOOLEAN, Keep(mask)
  PROVE  VRAM_wraddress' \in 0..Last /\ VRAM_in' \in Pixel
<1>1. temp \in Byte /\ VRAM_wraddress \in 0..Last /\ VideoPlace
  BY DEF Following, CaptureTypeOK
<1>2. Cam_data \in Byte
  BY <1>1, ByteTyped
<1>3. CASE vertical_counter < Rows /\ VRAM_wraddress' = Addr(horizontal_counter, vertical_counter)
           /\ VRAM_in' = [hi |-> temp, lo |-> Cam_data, masked |-> horizontal_counter >= Half /\ mask]
  <2>1. vertical_counter \in KeptRows /\ horizontal_counter \in Columns
    BY <1>3, PlaceInLine, ImageSizes DEF KeptRows
  <2>2. VRAM_wraddress' \in 0..Last
    BY <1>3, <2>1, AddrInMemory
  <2>3. (horizontal_counter >= Half /\ mask) \in BOOLEAN
    OBVIOUS
  <2>4. VRAM_in' \in Pixel
    BY <1>1, <1>2, <1>3, <2>3 DEF Pixel
  <2> QED
    BY <2>2, <2>4
<1>4. CASE VRAM_in' = Black /\ UNCHANGED VRAM_wraddress
  BY <1>1, <1>4 DEF Black, Pixel, Byte, NoByte
<1> QED
  BY <1>3, <1>4 DEF Keep

LEMMA StepCaptureTypes ==
  ASSUME Following, PixelEdge PROVE CaptureTypeOK'
<1>1. CaptureTypeOK /\ VideoPlace /\ (word # "zero") \in BOOLEAN
  BY DEF Following
<1>2. state' \in {"SLEEP", "PREP", "PREP2", "RUN"}
  BY <1>1, EdgeParts, Transitions DEF CaptureTypeOK
<1>3. DOMAIN VRAM' = 0..Last /\ \A a \in 0..Last : VRAM'[a] \in Pixel
  BY <1>1, EdgeParts, StepVRAM DEF CaptureTypeOK
<1> DEFINE Registers == /\ byte_num \in {0, 1}
                        /\ horizontal_counter \in 0..(Width - 1) /\ vertical_counter \in 0..Lines
                        /\ temp \in Byte /\ VRAM_in \in Pixel
                        /\ VRAM_wren \in BOOLEAN /\ encryption_trigger \in BOOLEAN
                        /\ VRAM_wraddress \in 0..Last
<1>4. Registers
  BY <1>1 DEF CaptureTypeOK
<1>5. ASSUME Clear PROVE Registers'
  <2>1. NoByte \in Byte
    BY DEF Byte
  <2>2. temp' \in Byte /\ VRAM_in' \in Pixel /\ VRAM_wraddress' \in 0..Last
    BY <1>4, <1>5, <2>1 DEF Clear
  <2>3. VRAM_wren' \in BOOLEAN /\ encryption_trigger' \in BOOLEAN
    BY <1>5 DEF Clear
  <2>4. /\ byte_num' \in {0, 1} /\ horizontal_counter' \in 0..(Width - 1)
        /\ vertical_counter' \in 0..Lines
    BY <1>5, ImageSizes DEF Clear
  <2> QED
    BY <2>2, <2>3, <2>4
<1>6. ASSUME FirstByte PROVE Registers'
  BY <1>1, <1>4, <1>6, ByteTyped DEF FirstByte
<1>7. ASSUME SecondByte(word # "zero") PROVE Registers'
  <2>1. horizontal_counter' \in 0..(Width - 1) /\ vertical_counter' \in 0..Lines
    BY <1>7, AdvanceTyped DEF SecondByte
  <2>2. VRAM_wraddress' \in 0..Last /\ VRAM_in' \in Pixel
    BY <1>1, <1>7, KeepTyped DEF SecondByte
  <2> QED
    BY <1>4, <1>7, <2>1, <2>2 DEF SecondByte
<1>8. ASSUME BetweenLines \/ Hold PROVE Registers'
  BY <1>4, <1>8 DEF BetweenLines, Hold, pixelvars, portvars
<1>9. Registers'
  BY <1>5, <1>6, <1>7, <1>8, EdgeParts DEF Captured
<1> QED
  BY <1>2, <1>3, <1>9 DEF CaptureTypeOK

(* While a frame is received the edge moves the module's place as the      *)
(* camera's.                                                               *)
LEMMA StepPlace ==
  ASSUME Following, PixelEdge, Receiving', Receiving
  PROVE  (/\ at = 2 * horizontal_counter + byte_num
          /\ vertical_counter = line
          /\ byte_num = 1 => temp = <<frame, line, at - 1>>)'
<1> USE ImageSizes
<1>1. /\ at = 2 * horizontal_counter + byte_num /\ vertical_counter = line
      /\ byte_num = 1 => temp = <<frame, line, at - 1>>
      /\ VideoPlace /\ state = "RUN" /\ CaptureTypeOK /\ phase \in {"gap", "line"}
  BY DEF Following, InStep, Receiving
<1>2. /\ phase' \in {"gap", "line"} /\ VideoStep
      /\ Captured(word # "zero") /\ frame' = frame
  BY EdgeParts, ReceivesOn DEF Receiving
<1>3. at \in 0..(2 * Width - 1) /\ horizontal_counter \in 0..(Width - 1) /\ byte_num \in {0, 1}
      /\ line \in 0..Lines
  BY <1>1 DEF VideoPlace, VideoTypeOK, CaptureTypeOK
<1>4. CASE phase = "gap"
  <2>1. at' = at /\ line' = line
    BY <1>1, <1>2, <1>4, VideoGoes
  <2>2. BetweenLines
    BY <1>1, <1>2, <1>4 DEF Captured, Clear, FirstByte, SecondByte, Hold, Cam_href
  <2> QED
    BY <1>1, <1>2, <2>1, <2>2 DEF BetweenLines, pixelvars
<1>5. CASE phase = "line"
  <2>1. \/ at < 2 * Width - 1 /\ at' = at + 1 /\ line' = line
        \/ at = 2 * Width - 1 /\ at' = 0 /\ line' = line + 1
    BY <1>1, <1>2, <1>5, VideoGoes
  <2>2. FirstByte \/ SecondByte(word # "zero")
    BY <1>1, <1>2, <1>5 DEF Captured, Clear, BetweenLines, Hold, Cam_href
  <2>3. CASE FirstByte
    <3>1. byte_num = 0 /\ byte_num' = 1 /\ temp' = <<frame, line, at>>
          /\ horizontal_counter' = horizontal_counter /\ vertical_counter' = vertical_counter
      BY <2>3 DEF FirstByte, Cam_data
    <3>2. at # 2 * Width - 1
      BY <1>1, <1>3, <3>1
    <3>3. at' = at + 1 /\ line' = line
      BY <2>1, <3>2
    <3>4. at' - 1 = at
      BY <1>3, <3>3
    <3>5. at' = 2 * horizontal_counter' + byte_num' /\ vertical_counter' = line'
      BY <1>1, <1>3, <3>1, <3>3
    <3> QED
      BY <1>2, <3>1, <3>3, <3>4, <3>5
  <2>4. CASE SecondByte(word # "zero")
    <3>1. byte_num = 1 /\ byte_num' = 0 /\ Advance
      BY <2>4 DEF SecondByte
    <3>2. CASE horizontal_counter = Width - 1
      <4>1. at = 2 * Width - 1
        BY <1>1, <1>3, <3>1, <3>2
      <4>2. at' = 0 /\ line' = line + 1
        BY <2>1, <4>1
      <4> QED
        BY <1>1, <3>1, <3>2, <4>2 DEF Advance
    <3>3. CASE horizontal_counter # Width - 1
      <4>1. at # 2 * Width - 1
        BY <1>1, <1>3, <3>1, <3>3
      <4>2. at' = at + 1 /\ line' = line
        BY <2>1, <4>1
      <4> QED
        BY <1>1, <1>3, <3>1, <3>3, <4>2 DEF Advance
    <3> QED
      BY <3>2, <3>3
  <2> QED
    BY <2>2, <2>3, <2>4
<1> QED
  BY <1>1, <1>4, <1>5

LEMMA StepInStep ==
  ASSUME Following, PixelEdge PROVE InStep'
<1>1. /\ VideoPlace /\ CaptureTypeOK /\ InStep /\ VideoStep
      /\ Captured(word # "zero")
  BY EdgeParts DEF Following
<1>2. (encryption_trigger <=> byte_num = 1)'
  BY <1>1 DEF InStep, CaptureTypeOK, Captured, Clear, FirstByte, SecondByte, BetweenLines, Hold, pixelvars
<1>3. ASSUME Receiving'
      PROVE  (/\ at = 2 * horizontal_counter + byte_num
              /\ vertical_counter = line
              /\ byte_num = 1 => temp = <<frame, line, at - 1>>)'
  <2>1. CASE Receiving
    BY <1>3, <2>1, StepPlace
  <2>2. CASE state = "PREP2" /\ at' = 0 /\ line' = 0
    <3>1. byte_num' = 0 /\ horizontal_counter' = 0 /\ vertical_counter' = 0
      BY <1>1, <2>2 DEF InStep, Captured, Clear, FirstByte, SecondByte, BetweenLines, Hold, pixelvars
    <3> QED
      BY <2>2, <3>1
  <2> QED
    BY <1>3, <2>1, <2>2, ReceivesOn
<1>4. ASSUME state' = "PREP2"
      PROVE  (/\ phase # "line" /\ line = 0
              /\ byte_num = 0 /\ horizontal_counter = 0 /\ vertical_counter = 0
              /\ VRAM_wren = FALSE)'
  <2>1. state \in {"PREP", "PREP2"} /\ phase = "vsync"
    BY <1>1, <1>4, EdgeParts, Transitions DEF CaptureTypeOK
  <2>2. phase' # "line" /\ line' = 0
    BY <1>1, <2>1, VideoGoes
  <2>3. CASE state = "PREP"
    <3>1. Clear
      BY <1>1, <2>3 DEF Captured, FirstByte, SecondByte, BetweenLines, Hold
    <3> QED
      BY <2>2, <3>1 DEF Clear
  <2>4. CASE state = "PREP2"
    <3>1. Hold
      BY <1>1, <2>4 DEF Captured, Clear, FirstByte, SecondByte, BetweenLines
    <3> QED
      BY <1>1, <2>2, <2>4, <3>1 DEF Hold, InStep, pixelvars, portvars
  <2> QED
    BY <2>1, <2>3, <2>4
<1> QED
  BY <1>2, <1>3, <1>4 DEF InStep

LEMMA EncryptTyped ==
  ASSUME word \in {"zero", "new", "used"}, NEW clk, NEW trigger, Encrypt(clk, trigger)
  PROVE  word' \in {"zero", "new", "used"}
BY DEF Encrypt

LEMMA StepFollowing ==
  ASSUME Following, [Next]_vars PROVE Following'
<1>1. CASE UNCHANGED vars
  BY <1>1 DEF vars, cvars, ivars, pixelvars, portvars, Following, VideoPlace, VideoTypeOK,
              CaptureTypeOK, InStep, Receiving
<1>2. CASE PixelEdge
  <2>1. VideoPlace'
    BY <1>2, EdgeParts, StepVideo DEF Following
  <2>2. edges' \in 0..Rate
    BY <1>2, EdgeParts, RateAssumption DEF Following
  <2>3. VGA_Clk' \in BOOLEAN /\ word' \in {"zero", "new", "used"}
    BY <1>2, EdgeParts, EncryptTyped DEF Following
  <2> QED
    BY <1>2, <2>1, <2>2, <2>3, StepCaptureTypes, StepInStep DEF Following
<1>3. CASE VgaEdge
  <2>1. VideoPlace' /\ CaptureTypeOK' /\ InStep'
    BY <1>3 DEF VgaEdge, cvars, ivars, pixelvars, portvars, Following, VideoPlace, VideoTypeOK,
                CaptureTypeOK, InStep, Receiving
  <2>2. edges' \in 0..Rate
    BY <1>3, RateAssumption DEF VgaEdge
  <2>3. VGA_Clk' \in BOOLEAN /\ word' \in {"zero", "new", "used"}
    BY <1>3 DEF VgaEdge, Following
  <2> QED
    BY <2>1, <2>2, <2>3 DEF Following
<1>4. CASE PressReset
  BY <1>4 DEF PressReset, ResetState, cvars, pixelvars, portvars, Following, VideoPlace,
              VideoTypeOK, CaptureTypeOK, InStep, Receiving
<1> QED
  BY <1>1, <1>2, <1>3, <1>4 DEF Next, PixelEdge

LEMMA FollowingInvariant == Spec => []Following
BY InitFollowing, StepFollowing, PTL DEF Spec

-------------------------------------------------------------------------------
(* VGA_Clk changes at least once between two edges of Cam_pclk.            *)
LEMMA SlowerEdge ==
  ASSUME Rate = 1, Following, PixelEdge PROVE edges = 0 /\ edges' = 1
BY EdgeParts DEF Following

LEMMA StepWordReady ==
  ASSUME Rate = 1, Following, WordReady, [Next]_vars PROVE WordReady'
<1> USE DEF WordReady
<1>1. CASE UNCHANGED vars
  BY <1>1 DEF vars, ivars, pixelvars
<1>2. CASE PixelEdge
  <2>1. edges = 0 /\ edges' = 1 /\ VGA_Clk' = VGA_Clk /\ VGA_Clk \in BOOLEAN
    BY <1>2, SlowerEdge, EdgeParts DEF Following
  <2>2. byte_num = 1 => word = "new"
    BY <2>1
  <2>3. Captured(word # "zero") /\ Encrypt(VGA_Clk, encryption_trigger')
    BY <1>2, EdgeParts
  <2>4. CASE FirstByte
    <3>1. byte_num = 0 /\ encryption_trigger' = TRUE
      BY <2>4 DEF FirstByte
    <3>2. encryption_trigger = FALSE
      BY <3>1 DEF Following, InStep, CaptureTypeOK
    <3>3. VGA_Clk => word' = "new"
      BY <2>3, <3>1, <3>2 DEF Encrypt, GatedEdge
    <3> QED
      BY <2>1, <3>3
  <2>5. CASE Clear \/ SecondByte(word # "zero")
    BY <2>5 DEF Clear, SecondByte
  <2>6. CASE BetweenLines \/ Hold
    <3>1. byte_num' = byte_num
      BY <2>6 DEF BetweenLines, Hold, pixelvars
    <3>2. ~Masks
      BY <2>6 DEF BetweenLines, Hold, Masks, SecondByte
    <3>3. word' \in {"new", word}
      BY <2>3, <3>2 DEF Encrypt
    <3> QED
      BY <2>2, <3>1, <3>3
  <2> QED
    BY <2>3, <2>4, <2>5, <2>6 DEF Captured
<1>3. CASE VgaEdge
  <2>1. /\ byte_num' = byte_num /\ VGA_Clk' = ~VGA_Clk /\ edges' = 0
        /\ word' = IF GatedEdge(~VGA_Clk, encryption_trigger) THEN "new" ELSE word
    BY <1>3 DEF VgaEdge, ivars, pixelvars
  <2>2. byte_num = 1 => encryption_trigger
    BY DEF Following, InStep
  <2>3. VGA_Clk \in BOOLEAN /\ encryption_trigger \in BOOLEAN
    BY DEF Following, CaptureTypeOK
  <2>4. byte_num = 1 /\ ~VGA_Clk => word' = "new"
    BY <2>1, <2>2, <2>3 DEF GatedEdge
  <2>5. byte_num = 1 /\ VGA_Clk => word = "new"
    OBVIOUS
  <2> QED
    BY <2>1, <2>3, <2>4, <2>5
<1>4. CASE PressReset
  BY <1>4 DEF PressReset, ResetState, pixelvars
<1> QED
  BY <1>1, <1>2, <1>3, <1>4 DEF Next, PixelEdge

(* A pixel is always encrypted with a word the generator has made.         *)
LEMMA WordThere ==
  ASSUME Rate = 1, Following, WordReady, PixelEdge, SecondByte(word # "zero")
  PROVE  word = "new" /\ SecondByte(TRUE)
<1>1. byte_num = 1 /\ edges = 0
  BY SlowerEdge DEF SecondByte
<1>2. word = "new"
  BY <1>1 DEF WordReady
<1>3. (word # "zero") = TRUE
  BY <1>2
<1> QED
  BY <1>2, <1>3

(* The place and the pixel that a second byte puts at the write port.      *)
LEMMA PortWritten ==
  ASSUME Following, SecondByte(TRUE)
  PROVE  \/ /\ vertical_counter \in KeptRows /\ horizontal_counter \in Columns
            /\ VRAM_wraddress' = Addr(horizontal_counter, vertical_counter)
            /\ VRAM_in' = PixelOf(frame, horizontal_counter, vertical_counter)
         \/ /\ vertical_counter >= Rows
            /\ VRAM_wraddress' = VRAM_wraddress /\ VRAM_in' = Black
<1>1. state = "RUN" /\ Cam_href /\ byte_num = 1 /\ Keep(TRUE)
  BY DEF SecondByte
<1>2. /\ at = 2 * horizontal_counter + 1 /\ vertical_counter = line
      /\ temp = <<frame, line, at - 1>> /\ horizontal_counter \in Columns /\ line \in 0..(Lines - 1)
  BY <1>1, PlaceInLine
<1>3. CASE vertical_counter < Rows /\ VRAM_wraddress' = Addr(horizontal_counter, vertical_counter)
           /\ VRAM_in' = [hi |-> temp, lo |-> Cam_data, masked |-> horizontal_counter >= Half /\ TRUE]
  <2>1. vertical_counter \in KeptRows
    BY <1>2, <1>3, ImageSizes DEF KeptRows
  <2>2. at - 1 = 2 * horizontal_counter
    BY <1>2, ImageSizes DEF Columns
  <2>3. temp = <<frame, vertical_counter, 2 * horizontal_counter>>
        /\ Cam_data = <<frame, vertical_counter, 2 * horizontal_counter + 1>>
    BY <1>2, <2>2 DEF Cam_data
  <2>4. (horizontal_counter >= Half /\ TRUE) = (horizontal_counter >= Half)
    BY <1>2, ImageSizes DEF Columns
  <2>5. VRAM_in' = PixelOf(frame, horizontal_counter, vertical_counter)
    BY <1>3, <2>3, <2>4 DEF PixelOf
  <2> QED
    BY <1>2, <1>3, <2>1, <2>5
<1>4. CASE vertical_counter >= Rows /\ VRAM_in' = Black /\ UNCHANGED VRAM_wraddress
  BY <1>4
<1> QED
  BY <1>1, <1>3, <1>4 DEF Keep

(* Every stored word is black or a pixel of its place, and so is the word  *)
(* that waits at the write port.                                           *)
LEMMA StepMemory ==
  ASSUME Rate = 1, Following, WordReady, Memory, [Next]_vars PROVE Memory'
<1>1. CASE UNCHANGED <<portvars, VRAM>>
  BY <1>1 DEF portvars, Memory, Shows
<1>2. CASE PixelEdge
  <2>1. CaptureTypeOK /\ WritePort /\ Captured(word # "zero") /\ frame \in Frames
    BY <1>2, EdgeParts DEF Following, VideoPlace, VideoTypeOK
  <2>2. ASSUME NEW a \in 0..Last PROVE VRAM'[a] = Black \/ Shows(a, VRAM'[a])
    BY <2>1, <2>2, StepVRAM DEF Memory
  <2>3. ASSUME VRAM_wren' PROVE VRAM_in' = Black \/ Shows(VRAM_wraddress', VRAM_in')
    <3>1. CASE SecondByte(word # "zero")
      BY <1>2, <2>1, <3>1, WordThere, PortWritten DEF Shows
    <3>2. CASE Hold
      BY <2>3, <3>2 DEF Hold, portvars, Memory
    <3>3. CASE Clear \/ FirstByte \/ BetweenLines
      BY <2>3, <3>3 DEF Clear, FirstByte, BetweenLines
    <3> QED
      BY <2>1, <3>1, <3>2, <3>3 DEF Captured
  <2>4. (\A a \in 0..Last : VRAM[a] = Black \/ Shows(a, VRAM[a]))'
    BY <2>2 DEF Shows
  <2>5. (VRAM_wren => VRAM_in = Black \/ Shows(VRAM_wraddress, VRAM_in))'
    BY <2>3 DEF Shows
  <2> QED
    BY <2>4, <2>5 DEF Memory
<1> QED
  BY <1>1, <1>2 DEF Next, PixelEdge, VgaEdge, PressReset, ResetState, vars, ivars, portvars

-------------------------------------------------------------------------------
(* What was received of the frame, and the place of the port when all the  *)
(* kept lines are in.                                                      *)
PortPlace ==
  /\ vertical_counter >= Rows => VRAM_wraddress = Last
  /\ VRAM_wren => \/ VRAM_wraddress = Last
                  \/ \E x \in Columns, y \in KeptRows :
                       VRAM_wraddress = Addr(x, y) /\ VRAM_in = PixelOf(frame, x, y)

HasPixel(x, y) ==
  \/ VRAM[Addr(x, y)] = PixelOf(frame, x, y)
  \/ AtPort(Addr(x, y), PixelOf(frame, x, y))

LEMMA ProgressParts ==
  Progress <=> (Receiving => /\ PortPlace
                             /\ \A x \in Columns, y \in KeptRows :
                                  Past(x, y) /\ Addr(x, y) # Last => HasPixel(x, y))
BY DEF Progress, PortPlace, HasPixel

(* A pixel that was in the memory or at the port is in the memory after    *)
(* the edge.                                                               *)
LEMMA PixelStays ==
  ASSUME Following, PortPlace, WritePort, frame' = frame,
         NEW x \in Columns, NEW y \in KeptRows, Addr(x, y) # Last, HasPixel(x, y)
  PROVE  VRAM'[Addr(x, y)] = PixelOf(frame', x, y)
<1>1. CaptureTypeOK /\ Addr(x, y) \in 0..Last
  BY AddrInMemory DEF Following
<1>2. VRAM'[Addr(x, y)] = IF VRAM_wren /\ VRAM_wraddress = Addr(x, y) THEN VRAM_in
                          ELSE VRAM[Addr(x, y)]
  BY <1>1, StepVRAM
<1>3. CASE ~(VRAM_wren /\ VRAM_wraddress = Addr(x, y))
  BY <1>2, <1>3 DEF HasPixel, AtPort
<1>4. CASE VRAM_wren /\ VRAM_wraddress = Addr(x, y)
  <2>1. PICK x2 \in Columns, y2 \in KeptRows :
          VRAM_wraddress = Addr(x2, y2) /\ VRAM_in = PixelOf(frame, x2, y2)
    BY <1>4 DEF PortPlace
  <2>2. Addr(x2, y2) = Addr(x, y)
    BY <1>4, <2>1
  <2>3. x2 = x /\ y2 = y
    BY <2>2, AddrInjective
  <2> QED
    BY <1>2, <1>4, <2>1, <2>3
<1> QED
  BY <1>3, <1>4

LEMMA PastStep ==
  ASSUME Following, state = "RUN", Cam_href, Advance,
         NEW x \in Columns, NEW y \in KeptRows, Past(x, y)'
  PROVE  Past(x, y) \/ (x = horizontal_counter /\ y = vertical_counter)
<1>1. horizontal_counter \in Columns /\ vertical_counter \in 0..(Lines - 1)
  BY PlaceInLine
<1> QED
  BY <1>1, ImageSizes DEF Past, Advance, Columns, KeptRows

LEMMA PortAfterSecond ==
  ASSUME Following, PortPlace, SecondByte(TRUE), frame' = frame PROVE PortPlace'
<1>1. horizontal_counter \in Columns /\ vertical_counter \in 0..(Lines - 1)
  BY PlaceInLine DEF SecondByte
<1>2. Advance /\ frame' = frame
  BY DEF SecondByte
<1>3. CASE /\ vertical_counter \in KeptRows
           /\ VRAM_wraddress' = Addr(horizontal_counter, vertical_counter)
           /\ VRAM_in' = PixelOf(frame, horizontal_counter, vertical_counter)
  <2>1. ASSUME vertical_counter' >= Rows PROVE VRAM_wraddress' = Last
    <3>1. horizontal_counter = Width - 1 /\ vertical_counter = Rows - 1
      BY <1>1, <1>2, <1>3, <2>1, ImageSizes DEF Advance, KeptRows
    <3> QED
      BY <1>3, <3>1, LastAddress
  <2> QED
    BY <1>1, <1>2, <1>3, <2>1 DEF PortPlace
<1>4. CASE vertical_counter >= Rows /\ VRAM_wraddress' = VRAM_wraddress
  BY <1>4 DEF PortPlace
<1> QED
  BY <1>3, <1>4, PortWritten

LEMMA StepProgress ==
  ASSUME Rate = 1, Following, WordReady, Progress, [Next]_vars PROVE Progress'
<1>1. CASE UNCHANGED <<cvars, ivars>>
  BY <1>1 DEF cvars, ivars, pixelvars, portvars, Progress, Receiving, Past, AtPort
<1>2. CASE PressReset
  BY <1>2 DEF PressReset, ResetState, Progress, Receiving
<1>3. CASE PixelEdge
  <2> SUFFICES ASSUME Receiving' 
      PROVE /\ PortPlace'
            /\ \A x \in Columns, y \in KeptRows :
                 Past(x, y)' /\ Addr(x, y) # Last => HasPixel(x, y)'
    BY DEF Progress, PortPlace, HasPixel, Past, AtPort
  <2>1. frame' = frame /\ WritePort /\ Captured(word # "zero")
    BY <1>3, EdgeParts, ReceivesOn
  <2>2. CASE state = "PREP2"
    <3>1. Hold
      BY <2>1, <2>2 DEF Captured, Clear, FirstByte, SecondByte, BetweenLines
    <3>2. horizontal_counter' = 0 /\ vertical_counter' = 0 /\ VRAM_wren' = FALSE
      BY <2>2, <3>1 DEF Hold, pixelvars, portvars, Following, InStep
    <3> QED
      BY <3>2, ImageSizes DEF PortPlace, Past, Columns, KeptRows
  <2>3. CASE Receiving
    <3>1. PortPlace /\ \A x \in Columns, y \in KeptRows :
                         Past(x, y) /\ Addr(x, y) # Last => HasPixel(x, y)
      BY <2>3, ProgressParts
    <3>2. \A x \in Columns, y \in KeptRows :
            Past(x, y) /\ Addr(x, y) # Last => VRAM'[Addr(x, y)] = PixelOf(frame', x, y)
      BY <2>1, <3>1, PixelStays
    <3>3. CASE SecondByte(word # "zero")
      <4>1. SecondByte(TRUE) /\ state = "RUN" /\ Cam_href /\ Advance /\ VRAM_wren'
        BY <1>3, <3>3, WordThere DEF SecondByte
      <4>2. PortPlace'
        BY <2>1, <3>1, <4>1, PortAfterSecond
      <4>3. ASSUME NEW x \in Columns, NEW y \in KeptRows, Past(x, y)', Addr(x, y) # Last
            PROVE  HasPixel(x, y)'
        <5>1. CASE Past(x, y)
          BY <3>2, <4>3, <5>1 DEF HasPixel
        <5>2. CASE x = horizontal_counter /\ y = vertical_counter
          <6>1. ~(vertical_counter >= Rows)
            BY <5>2, ImageSizes DEF KeptRows
          <6> QED
            BY <2>1, <4>1, <5>2, <6>1, PortWritten DEF HasPixel, AtPort
        <5> QED
          BY <4>1, <4>3, <5>1, <5>2, PastStep
      <4> QED
        BY <4>2, <4>3
    <3>4. CASE FirstByte \/ BetweenLines
      <4>1. /\ horizontal_counter' = horizontal_counter /\ vertical_counter' = vertical_counter
            /\ VRAM_wraddress' = VRAM_wraddress /\ VRAM_wren' = FALSE
        BY <3>4 DEF FirstByte, BetweenLines, pixelvars
      <4>2. PortPlace'
        BY <3>1, <4>1 DEF PortPlace
      <4> QED
        BY <3>2, <4>1, <4>2 DEF HasPixel, Past
    <3> QED
      BY <2>1, <2>3, <3>3, <3>4 DEF Captured, Clear, Hold, Receiving
  <2> QED
    BY <1>3, <2>2, <2>3, ReceivesOn
<1> QED
  BY <1>1, <1>2, <1>3 DEF Next, PixelEdge, VgaEdge, vars

LEMMA CaptureInvariant == ASSUME Rate = 1 PROVE Spec => []Capturing
<1>1. Capturing /\ [Next]_vars => Capturing'
  BY StepFollowing, StepWordReady, StepMemory, StepProgress DEF Capturing
<1> QED
  BY <1>1, InitCapturing, PTL DEF Spec

(* Every register of the capture stays in its range, the memory's places   *)
(* hold pixels (Image_mod.sv lines 187 to 330).                            *)
THEOREM CaptureTypes == Spec => []TypeOK
<1>1. Following => TypeOK
  BY DEF Following, VideoPlace, TypeOK
<1> QED
  BY <1>1, FollowingInvariant, PTL

(* While a byte arrives the module's counters are its place, whatever      *)
(* frames were cut and whenever Run and Reset were pressed.                *)
THEOREM PlaceKept == Spec => []Aligned
<1>1. ASSUME Following, state = "RUN", Cam_href
      PROVE  byte_num = at % 2 /\ horizontal_counter = at \div 2 /\ vertical_counter = line
  <2>1. /\ at = 2 * horizontal_counter + byte_num /\ horizontal_counter \in Nat
        /\ byte_num \in {0, 1} /\ vertical_counter = line
    BY <1>1, PlaceInLine, ImageSizes DEF Columns
  <2> QED
    BY <2>1
<1>2. Following => Aligned
  BY <1>1 DEF Aligned
<1> QED
  BY <1>2, FollowingInvariant, PTL

(* Each place of the memory is black or the pixel of just that place, from *)
(* two bytes of one frame, encrypted in the right plane.                   *)
THEOREM InPlace == ASSUME Rate = 1 PROVE Spec => []PixelsInPlace
<1>1. ASSUME Memory, NEW x \in Columns, NEW y \in KeptRows, VRAM[Addr(x, y)] # Black
      PROVE  \E f \in Frames : VRAM[Addr(x, y)] = PixelOf(f, x, y)
  <2>1. Shows(Addr(x, y), VRAM[Addr(x, y)])
    BY <1>1, AddrInMemory DEF Memory
  <2>2. PICK f \in Frames, x2 \in Columns, y2 \in KeptRows :
          Addr(x, y) = Addr(x2, y2) /\ VRAM[Addr(x, y)] = PixelOf(f, x2, y2)
    BY <2>1 DEF Shows
  <2>3. x2 = x /\ y2 = y
    BY <2>2, AddrInjective
  <2> QED
    BY <2>2, <2>3
<1>2. Capturing => PixelsInPlace
  BY <1>1 DEF Capturing, PixelsInPlace, Columns, KeptRows
<1> QED
  BY <1>2, CaptureInvariant, PTL

(* When a whole frame has been received it is in the memory, but for the   *)
(* last pixel, which black has overwritten.                                *)
THEOREM WholeFrame == ASSUME Rate = 1 PROVE Spec => []FrameStored
<1>1. ASSUME Capturing, state = "RUN", phase = "gap", line = Lines,
             NEW x \in Columns, NEW y \in KeptRows, Addr(x, y) # Last
      PROVE  VRAM[Addr(x, y)] = PixelOf(frame, x, y)
  <2>1. Receiving /\ vertical_counter = Lines
    BY <1>1 DEF Receiving, Capturing, Following, InStep
  <2>2. PortPlace /\ (Past(x, y) /\ Addr(x, y) # Last => HasPixel(x, y))
    BY <1>1, <2>1, ProgressParts DEF Capturing
  <2>3. Past(x, y) /\ VRAM_wraddress = Last
    BY <2>1, <2>2, ImageSizes DEF Past, KeptRows, PortPlace
  <2> QED
    BY <1>1, <2>2, <2>3 DEF HasPixel, AtPort
<1>2. Capturing => FrameStored
  BY <1>1 DEF FrameStored, Columns, KeptRows
<1> QED
  BY <1>2, CaptureInvariant, PTL

(* No word of the generator encrypts two pixels.                           *)
THEOREM FreshWords == ASSUME Rate = 1 PROVE Spec => NoWordTwice
<1>1. Capturing /\ [Next]_vars => [Masks => word # "used"]_vars
  <2> SUFFICES ASSUME Capturing, Next, Masks PROVE word # "used"
    BY DEF vars
  <2>1. SecondByte(word # "zero")
    BY DEF Masks
  <2>2. byte_num = 1 /\ byte_num' = 0
    BY <2>1 DEF SecondByte
  <2>3. PixelEdge
    BY <2>2 DEF Next, PixelEdge, VgaEdge, PressReset, ResetState, ivars, pixelvars
  <2> QED
    BY <2>1, <2>3, WordThere DEF Capturing
<1> QED
  BY <1>1, CaptureInvariant, PTL DEF Spec, NoWordTwice

-------------------------------------------------------------------------------
(***************************************************************************)
(* The generators never fall back to zero and never meet.  Both follow     *)
(* from one fact: each of the three xorshift steps loses nothing.  If two  *)
(* words gave the same result, the positions where they differ would, with *)
(* every position, contain the one k lower (or higher), and there is no    *)
(* such set in 32 positions but the empty one.                             *)
(***************************************************************************)
Differ(a, c) == {b \in Bits : ~(b \in a <=> b \in c)}

LEMMA LeftDescends ==
  ASSUME NEW k \in Nat, k >= 1, NEW a \in Word, NEW c \in Word,
         Xor(a, Left(a, k)) = Xor(c, Left(c, k)), NEW b \in Differ(a, c)
  PROVE  b - k \in Differ(a, c)
<1>1. b \in Bits /\ ~(b \in a <=> b \in c)
  BY DEF Differ
<1>2. (b \in Xor(a, Left(a, k))) <=> (b \in Xor(c, Left(c, k)))
  OBVIOUS
<1>3. ~(b - k \in a <=> b - k \in c)
  BY <1>1, <1>2 DEF Xor, Left
<1> QED
  BY <1>3 DEF Differ, Word

LEMMA RightAscends ==
  ASSUME NEW k \in Nat, k >= 1, NEW a \in Word, NEW c \in Word,
         Xor(a, Right(a, k)) = Xor(c, Right(c, k)), NEW b \in Differ(a, c)
  PROVE  b + k \in Differ(a, c)
<1>1. b \in Bits /\ ~(b \in a <=> b \in c)
  BY DEF Differ
<1>2. (b \in Xor(a, Right(a, k))) <=> (b \in Xor(c, Right(c, k)))
  OBVIOUS
<1>3. ~(b + k \in a <=> b + k \in c)
  BY <1>1, <1>2 DEF Xor, Right
<1> QED
  BY <1>3 DEF Differ, Word

LEMMA NoDifference ==
  ASSUME NEW a \in Word, NEW c \in Word, Differ(a, c) = {}
  PROVE  a = c
BY DEF Differ, Word

LEMMA Xor1Injective ==
  ASSUME NEW a \in Word, NEW c \in Word, Xor1(a) = Xor1(c) PROVE a = c
<1>1. ASSUME NEW b \in Differ(a, c) PROVE b - 13 \in Differ(a, c)
  BY LeftDescends DEF Xor1
<1>2. Differ(a, c) \subseteq Bits
  BY DEF Differ
<1>3. ASSUME NEW b \in Differ(a, c) PROVE FALSE
  <2>1. b - 13 \in Differ(a, c) /\ b \in Int
    BY <1>1, <1>2 DEF Bits
  <2>2. (b - 13) - 13 \in Differ(a, c)
    BY <1>1, <2>1
  <2>3. ((b - 13) - 13) - 13 \in Differ(a, c)
    BY <1>1, <2>2
  <2>4. ((b - 13) - 13) - 13 \in 0..31 /\ b \in 0..31
    BY <1>2, <2>3 DEF Bits
  <2> QED
    BY <2>4
<1> QED
  BY <1>3, NoDifference

LEMMA Xor2Injective ==
  ASSUME NEW a \in Word, NEW c \in Word, Xor2(a) = Xor2(c) PROVE a = c
<1>1. ASSUME NEW b \in Differ(a, c) PROVE b + 7 \in Differ(a, c)
  BY RightAscends DEF Xor2
<1>2. Differ(a, c) \subseteq Bits
  BY DEF Differ
<1>3. ASSUME NEW b \in Differ(a, c) PROVE FALSE
  <2>1. (b + 7) + 7 \in Differ(a, c)
    BY <1>1
  <2>2. (((b + 7) + 7) + 7) + 7 \in Differ(a, c)
    BY <1>1, <2>1
  <2>3. ((((b + 7) + 7) + 7) + 7) + 7 \in Differ(a, c)
    BY <1>1, <2>2
  <2>4. ((((b + 7) + 7) + 7) + 7) + 7 \in 0..31 /\ b \in 0..31
    BY <1>2, <2>3 DEF Bits
  <2> QED
    BY <2>4
<1> QED
  BY <1>3, NoDifference

LEMMA Xor3Injective ==
  ASSUME NEW a \in Word, NEW c \in Word, Xor3(a) = Xor3(c) PROVE a = c
<1>1. ASSUME NEW b \in Differ(a, c) PROVE b - 5 \in Differ(a, c)
  BY LeftDescends DEF Xor3
<1>2. Differ(a, c) \subseteq Bits
  BY DEF Differ
<1>3. ASSUME NEW b \in Differ(a, c) PROVE FALSE
  <2>1. (b - 5) - 5 \in Differ(a, c)
    BY <1>1
  <2>2. (((b - 5) - 5) - 5) - 5 \in Differ(a, c)
    BY <1>1, <2>1
  <2>3. (((((b - 5) - 5) - 5) - 5) - 5) - 5 \in Differ(a, c)
    BY <1>1, <2>2
  <2>4. ((((((b - 5) - 5) - 5) - 5) - 5) - 5) - 5 \in Differ(a, c)
    BY <1>1, <2>3
  <2>5. ((((((b - 5) - 5) - 5) - 5) - 5) - 5) - 5 \in 0..31 /\ b \in 0..31
    BY <1>2, <2>4 DEF Bits
  <2> QED
    BY <2>5
<1> QED
  BY <1>3, NoDifference

LEMMA WordSteps ==
  ASSUME NEW a \in Word PROVE Xor1(a) \in Word /\ Xor2(a) \in Word /\ Xor3(a) \in Word
BY DEF Xor1, Xor2, Xor3, Xor, Left, Right, Word

(* One edge of the clock never sends two words to the same word, and never *)
(* a word to zero.                                                         *)
LEMMA ShiftedInjective ==
  ASSUME NEW a \in Word, NEW c \in Word, Shifted(a) = Shifted(c) PROVE a = c
<1>1. Xor1(a) \in Word /\ Xor1(c) \in Word
  BY WordSteps
<1>2. Xor2(Xor1(a)) \in Word /\ Xor2(Xor1(c)) \in Word
  BY <1>1, WordSteps
<1>3. Xor2(Xor1(a)) = Xor2(Xor1(c))
  BY <1>2, Xor3Injective DEF Shifted
<1>4. Xor1(a) = Xor1(c)
  BY <1>1, <1>3, Xor2Injective
<1> QED
  BY <1>4, Xor1Injective

LEMMA ShiftedWord ==
  ASSUME NEW a \in Word PROVE Shifted(a) \in Word /\ (a # {} => Shifted(a) # {})
<1>1. Shifted(a) \in Word
  BY WordSteps DEF Shifted
<1>2. {} \in Word /\ Shifted({}) = {}
  BY DEF Shifted, Xor1, Xor2, Xor3, Xor, Left, Right, Word
<1> QED
  BY <1>1, <1>2, ShiftedInjective

-------------------------------------------------------------------------------
(* Before the first edge all three words are zero, after it none is and no *)
(* two are the same.                                                       *)
Generating ==
  /\ GeneratorTypeOK /\ NeverZero /\ ThreeStreams
  /\ edge = 0 => R_prev = {} /\ G_prev = {} /\ B_prev = {}

LEMMA Seeds ==
  /\ Seed33 \in Word /\ Seed63 \in Word /\ Seed11 \in Word
  /\ Seed33 # {} /\ Seed63 # {} /\ Seed11 # {}
  /\ Seed33 # Seed63 /\ Seed33 # Seed11 /\ Seed63 # Seed11
<1>1. /\ Seed33 \in Word /\ Seed63 \in Word /\ Seed11 \in Word
  BY DEF Seed33, Seed63, Seed11, Word, Bits
<1>2. 5 \in Seed33 /\ 5 \in Seed63 /\ 5 \notin Seed11 /\ 1 \in Seed11
  BY DEF Seed33, Seed63, Seed11
<1>3. 1 \in Seed63 /\ 1 \notin Seed33
  BY DEF Seed33, Seed63
<1> QED
  BY <1>1, <1>2, <1>3

LEMMA StepGenerating == Generating /\ [Clock]_generatorVars => Generating'
<1> SUFFICES ASSUME Generating, [Clock]_generatorVars PROVE Generating'
  OBVIOUS
<1> USE EdgesAssumption
<1>1. CASE UNCHANGED generatorVars
  BY <1>1 DEF generatorVars, Generating, GeneratorTypeOK, NeverZero, ThreeStreams
<1>2. CASE Clock /\ edge = 0
  BY <1>2, Seeds DEF Clock, Step, Generating, GeneratorTypeOK, NeverZero, ThreeStreams
<1>3. CASE Clock /\ edge # 0
  <2>1. /\ R_prev \in Word /\ G_prev \in Word /\ B_prev \in Word
        /\ R_prev # {} /\ G_prev # {} /\ B_prev # {}
        /\ R_prev # G_prev /\ R_prev # B_prev /\ G_prev # B_prev
        /\ edge \in 0..Edges
    BY <1>3 DEF Generating, GeneratorTypeOK, NeverZero, ThreeStreams
  <2>2. /\ R_prev' = Shifted(R_prev) /\ G_prev' = Shifted(G_prev)
        /\ B_prev' = Shifted(B_prev) /\ edge' \in 0..Edges /\ edge' # 0
    BY <1>3, <2>1 DEF Clock, Step
  <2>3. /\ R_prev' \in Word /\ G_prev' \in Word /\ B_prev' \in Word
        /\ R_prev' # {} /\ G_prev' # {} /\ B_prev' # {}
    BY <2>1, <2>2, ShiftedWord
  <2>4. R_prev' # G_prev' /\ R_prev' # B_prev' /\ G_prev' # B_prev'
    BY <2>1, <2>2, ShiftedInjective
  <2> QED
    BY <2>2, <2>3, <2>4 DEF Generating, GeneratorTypeOK, NeverZero, ThreeStreams
<1> QED
  BY <1>1, <1>2, <1>3

LEMMA EncryptorInvariant == GeneratorSpec => []Generating
<1>1. GeneratorInit => Generating
  BY EdgesAssumption DEF GeneratorInit, Generating, GeneratorTypeOK, NeverZero, ThreeStreams, Word
<1> QED
  BY <1>1, StepGenerating, PTL DEF GeneratorSpec

(* However many pixels it encrypts, no generator falls back to zero and is *)
(* seeded a second time.                                                   *)
THEOREM RunsOn == GeneratorSpec => []NeverZero
<1>1. Generating => NeverZero
  BY DEF Generating
<1> QED
  BY <1>1, EncryptorInvariant, PTL

(* The words of red, green and blue are always three different ones.       *)
THEOREM Different == GeneratorSpec => []ThreeStreams
<1>1. Generating => ThreeStreams
  BY DEF Generating
<1> QED
  BY <1>1, EncryptorInvariant, PTL
-------------------------------------------------------------------------------
(* The divider: its counter never gets ahead of the time since SCCB_clk    *)
(* changed, and a button that was down for two clocks has put it to zero.  *)
Dividing ==
  /\ DividerTypeOK
  /\ freq_counter < since
  /\ pressed > 0 <=> Reset
  /\ pressed = 2 => freq_counter = 0

LEMMA InitDividing == DividerInit => Dividing
BY HalfPeriodAssumption DEF DividerInit, Dividing, DividerTypeOK

LEMMA StepDividing == Dividing /\ [DividerNext]_dividerVars => Dividing'
<1> SUFFICES ASSUME Dividing, [DividerNext]_dividerVars PROVE Dividing'
  OBVIOUS
<1> USE HalfPeriodAssumption
<1>1. CASE UNCHANGED dividerVars
  BY <1>1 DEF dividerVars, Dividing, DividerTypeOK
<1>2. CASE DividerNext
  <2>1. DividerTypeOK'
    BY <1>2 DEF Dividing, DividerTypeOK, DividerNext, Divide, Toggle
  <2>2. (freq_counter < since)'
    BY <1>2 DEF Dividing, DividerTypeOK, DividerNext, Divide, Toggle
  <2>3. (pressed > 0 <=> Reset)' /\ (pressed = 2 => freq_counter = 0)'
    BY <1>2 DEF Dividing, DividerTypeOK, DividerNext, Divide
  <2> QED
    BY <2>1, <2>2, <2>3 DEF Dividing
<1> QED
  BY <1>1, <1>2

LEMMA DividerInvariant == DividerSpec => []Dividing
BY InitDividing, StepDividing, PTL DEF DividerSpec

(* SCCB_clk is never faster than Clk divided by two HalfPeriod, however    *)
(* Reset is pressed (test2.sv lines 171 and 172).                          *)
THEOREM NeverFast == DividerSpec => SlowEnough
<1>1. Dividing /\ [DividerNext]_dividerVars => [SCCB_clk' # SCCB_clk => since = HalfPeriod]_dividerVars
  BY HalfPeriodAssumption DEF Dividing, DividerTypeOK, DividerNext, Toggle, dividerVars
<1> QED
  BY <1>1, DividerInvariant, PTL DEF DividerSpec, SlowEnough

(* The SCCB master gets no clock from a Reset that lasts, so it can miss   *)
(* it (test2.sv lines 138 and 179).                                        *)
THEOREM StoppedByReset == DividerSpec => ResetStopsClock
<1>1. Dividing /\ [DividerNext]_dividerVars => [SCCB_clk' > SCCB_clk => pressed < 2]_dividerVars
  BY HalfPeriodAssumption DEF Dividing, DividerTypeOK, DividerNext, Toggle, dividerVars
<1> QED
  BY <1>1, DividerInvariant, PTL DEF DividerSpec, ResetStopsClock

-------------------------------------------------------------------------------
(***************************************************************************)
(* The display.  The two registers of the read ports hold the addresses of *)
(* one and two clocks ago, which in the same line are one and two less.    *)
(***************************************************************************)
Address(x) == (HVisible * vc + x) % (4 * BankSize)

(* vs is low from the second clock of the line before VSyncAt to the first *)
(* clock of the line after VSyncAt.                                        *)
Scanning ==
  /\ ScanTypeOK
  /\ hc >= 1 => address_reg = Address(hc - 1) % BankSize
  /\ hc >= 2 => q = Address(hc - 2) % BankSize
  /\ hs = 0 => <<hc, vc>> = <<0, 0>> \/ (hc >= HSyncAt /\ hc < HSyncEnd)
  /\ vs = 0 => <<hc, vc>> = <<0, 0>> \/ vc \in {VSyncAt - 1, VSyncAt, VSyncAt + 1}

LEMMA Remainder == ASSUME NEW a \in Nat, NEW b \in Nat, b > 0 PROVE a % b \in 0..(b - 1)
OBVIOUS

LEMMA Product == ASSUME NEW a \in Nat, NEW b \in Nat PROVE a * b \in Nat
OBVIOUS

LEMMA Sizes ==
  /\ HTotal \in Nat /\ VTotal \in Nat /\ HVisible \in Nat /\ VVisible \in Nat /\ HeldRows \in Nat
  /\ HSyncAt \in Nat /\ HSyncEnd \in Nat /\ VSyncAt \in Nat /\ BankSize \in Nat
  /\ HTotal >= 2 /\ VTotal >= 2 /\ BankSize >= 2
  /\ HVisible < HSyncAt /\ HSyncAt < HSyncEnd /\ HSyncEnd < HTotal
  /\ HeldRows <= VVisible /\ VVisible < VSyncAt - 1 /\ VSyncAt + 1 < VTotal
BY DisplayAssumption

LEMMA InitScanning == ScanInit => Scanning
BY Sizes DEF ScanInit, Scanning, ScanTypeOK

LEMMA StepScanning == Scanning /\ [ScanNext]_scanVars => Scanning'
<1> SUFFICES ASSUME Scanning, [ScanNext]_scanVars PROVE Scanning'
  OBVIOUS
<1> USE Sizes
<1>1. CASE UNCHANGED scanVars
  BY <1>1 DEF scanVars, Scanning, ScanTypeOK, Address
<1>2. CASE ResetBeam
  BY <1>2 DEF ResetBeam, Scanning, ScanTypeOK
<1>3. CASE VgaClock
  <2>1. /\ hc \in 0..(HTotal - 1) /\ vc \in 0..(VTotal - 1)
        /\ address_reg \in 0..(BankSize - 1)
        /\ BankSize \in Nat /\ BankSize > 0
        /\ HTotal \in Nat /\ VTotal \in Nat /\ HVisible \in Nat
    BY DEF Scanning, ScanTypeOK
  <2>2. VRAM_rdaddress \in Nat /\ VRAM_rdaddress = Address(hc)
    <3>1. HVisible * vc + hc \in Nat
      BY <2>1, Product
    <3>2. 4 * BankSize \in Nat /\ 4 * BankSize > 0
      BY <2>1
    <3>3. (HVisible * vc + hc) % (4 * BankSize) \in Nat
      BY <3>1, <3>2, Remainder
    <3> QED
      BY <3>3 DEF VRAM_rdaddress, Address
  <2>3. address_reg' = Address(hc) % BankSize /\ q' = address_reg
        /\ address_reg' \in 0..(BankSize - 1)
    BY <1>3, <2>1, <2>2, Remainder DEF VgaClock, ReadPorts
  <2>4. /\ hc' \in 0..(HTotal - 1) /\ vc' \in 0..(VTotal - 1)
        /\ hc' = 0 \/ (hc' = hc + 1 /\ vc' = vc)
    BY <1>3, <2>1 DEF VgaClock, Count
  <2>5. hs' \in {0, 1} /\ vs' \in {0, 1}
    BY <1>3 DEF VgaClock, Sync
  <2>6. ScanTypeOK'
    BY <2>1, <2>3, <2>4, <2>5 DEF ScanTypeOK
  <2>7. (hc >= 1 => address_reg = Address(hc - 1) % BankSize)'
    <3>1. ASSUME hc' >= 1 PROVE hc' - 1 = hc /\ vc' = vc
      <4>1. hc' = hc + 1 /\ vc' = vc /\ hc \in Int
        BY <2>1, <2>4, <3>1
      <4> QED
        BY <4>1
    <3> QED
      BY <2>3, <3>1 DEF Address
  <2>8. (hc >= 2 => q = Address(hc - 2) % BankSize)'
    <3>1. hc >= 1 => address_reg = Address(hc - 1) % BankSize
      BY DEF Scanning
    <3>2. ASSUME hc' >= 2 PROVE hc' - 2 = hc - 1 /\ hc >= 1 /\ vc' = vc
      <4>1. hc' = hc + 1 /\ vc' = vc /\ hc \in Int
        BY <2>1, <2>4, <3>2
      <4> QED
        BY <3>2, <4>1
    <3> QED
      BY <2>3, <3>1, <3>2 DEF Address
  <2>9. (hs = 0 => <<hc, vc>> = <<0, 0>> \/ (hc >= HSyncAt /\ hc < HSyncEnd))'
    <3>1. hs' = 0 => hc + 1 >= HSyncAt /\ hc + 1 < HSyncEnd
      BY <1>3 DEF VgaClock, Sync
    <3>2. hs' = 0 => hc' = hc + 1
      BY <1>3, <2>1, <3>1 DEF VgaClock, Count
    <3> QED
      BY <3>1, <3>2
  <2>10. (vs = 0 => <<hc, vc>> = <<0, 0>> \/ vc \in {VSyncAt - 1, VSyncAt, VSyncAt + 1})'
    <3>1. vs' = 0 => vc \in {VSyncAt - 1, VSyncAt}
      BY <1>3, <2>1 DEF VgaClock, Sync
    <3>2. vc' = vc \/ vc' = vc + 1 \/ (vc = VTotal - 1 /\ vc' = 0)
      BY <1>3, <2>1 DEF VgaClock, Count
    <3> QED
      BY <2>1, <3>1, <3>2
  <2> QED
    BY <2>6, <2>7, <2>8, <2>9, <2>10 DEF Scanning
<1> QED
  BY <1>1, <1>2, <1>3 DEF ScanNext

LEMMA DisplayInvariant == ScanSpec => []Scanning
BY InitScanning, StepScanning, PTL DEF ScanSpec

(* Every counter and register of the display stays in its range.           *)
THEOREM ScanTypes == ScanSpec => []ScanTypeOK
<1>1. Scanning => ScanTypeOK
  BY DEF Scanning
<1> QED
  BY <1>1, DisplayInvariant, PTL

(* The sync pulses stay outside the visible picture.                       *)
THEOREM SyncOutside == ScanSpec => []SyncInBlanking
<1>1. ASSUME Scanning, hs = 0 \/ vs = 0, <<hc, vc>> # <<0, 0>> PROVE ~blank
  <2> USE Sizes
  <2>1. CASE vs = 0
    BY <1>1, <2>1 DEF Scanning, ScanTypeOK, blank
  <2>2. CASE hs = 0
    BY <1>1, <2>2 DEF Scanning, ScanTypeOK, blank
  <2> QED
    BY <1>1, <2>1, <2>2
<1>2. Scanning => SyncInBlanking
  BY <1>1 DEF SyncInBlanking
<1> QED
  BY <1>2, DisplayInvariant, PTL

LEMMA Monotone == ASSUME NEW a \in Nat, NEW b \in Nat, NEW c \in Nat, b <= c
                  PROVE  a * b <= a * c
OBVIOUS

LEMMA Split ==
  ASSUME NEW a \in Nat, NEW b \in Nat, b > 0
  PROVE  a = b * (a \div b) + (a % b)
OBVIOUS

LEMMA SmallRemainder == ASSUME NEW a \in Nat, NEW b \in Nat, a < b PROVE a % b = a
OBVIOUS

LEMMA Quotient ==
  ASSUME NEW a \in Nat, NEW b \in Nat, b > 0, a < 3 * b PROVE a \div b # 3
<1> SUFFICES ASSUME a \div b = 3 PROVE FALSE
  OBVIOUS
<1>1. a = b * 3 + (a % b) /\ a % b \in Nat
  BY Split, Remainder
<1> QED
  BY <1>1

LEMMA UniqueRemainder ==
  ASSUME NEW a \in Nat, NEW b \in Nat, NEW k \in Nat, NEW r \in Nat, r < b, a = b * k + r
  PROVE  a % b = r
<1>1. PICK d \in Nat, m \in Nat : m = a % b /\ m < b /\ a = b * d + m
  <2>1. a \div b \in Nat /\ a % b \in Nat /\ a % b < b /\ b > 0
    OBVIOUS
  <2>2. a = b * (a \div b) + (a % b)
    BY <2>1, Split
  <2> QED
    BY <2>1, <2>2
<1>2. b * d \in Nat /\ b * k \in Nat /\ b * (d + 1) = b * d + b /\ b * (k + 1) = b * k + b
  OBVIOUS
<1>3. ~(d < k)
  <2>1. d + 1 <= k => b * (d + 1) <= b * k
    BY Monotone
  <2> QED
    BY <1>1, <1>2, <2>1
<1>4. ~(k < d)
  <2>1. k + 1 <= d => b * (k + 1) <= b * d
    BY Monotone
  <2> QED
    BY <1>1, <1>2, <2>1
<1> QED
  BY <1>1, <1>3, <1>4

(* From the third pixel of a line on the picture is the memory two pixels  *)
(* late, and where it changes to another memory, its first two pixels are  *)
(* the last two words of that memory (VRAM.v registers the address and the *)
(* output, Image_mod.sv 164-175 chooses the memory by the present address).*)
THEOREM InOrder == ScanSpec => []SentTwoLate
<1>1. ASSUME Scanning, hc >= 2, blank, vc < HeldRows
      PROVE  Shown = Sent
  <2> DEFINE n == HVisible * vc + hc
  <2>1. hc \in Nat /\ vc \in Nat /\ HVisible * vc \in Nat /\ HVisible * HeldRows \in Nat
    BY <1>1, Sizes, Product DEF Scanning, ScanTypeOK
  <2>2. n < 3 * BankSize
    <3>1. HVisible * vc + HVisible <= HVisible * HeldRows
      <4>1. HVisible * (vc + 1) <= HVisible * HeldRows
        BY <1>1, <2>1, Sizes, Monotone
      <4>2. HVisible * (vc + 1) = HVisible * vc + HVisible
        BY <2>1, Sizes
      <4> QED
        BY <4>1, <4>2
    <3>2. 3 * BankSize \in Nat /\ HVisible * HeldRows <= 3 * BankSize
      BY <2>1, Sizes, FitsAssumption
    <3>3. hc < HVisible
      BY <1>1, <2>1, Sizes DEF blank
    <3> QED
      BY <1>1, <2>1, <3>1, <3>2, <3>3, Sizes
  <2> HIDE DEF n
  <2>3. n \in Nat /\ n >= 2 /\ n - 2 \in Nat
    BY <1>1, <2>1 DEF n
  <2>4. 4 * BankSize \in Nat /\ n < 4 * BankSize /\ n - 2 < 4 * BankSize
    BY <2>2, <2>3, Sizes
  <2>5. VRAM_rdaddress = n
    <3>1. n % (4 * BankSize) = n
      BY <2>3, <2>4, SmallRemainder
    <3> QED
      BY <3>1 DEF VRAM_rdaddress, n
  <2>6. q = (n - 2) % BankSize
    <3>1. HVisible * vc + (hc - 2) = n - 2
      BY <2>1 DEF n
    <3>2. (n - 2) % (4 * BankSize) = n - 2
      BY <2>3, <2>4, SmallRemainder
    <3> QED
      BY <1>1, <3>1, <3>2 DEF Scanning, Address
  <2>7. Bank # 3
    BY <2>2, <2>3, <2>5, Sizes, Quotient DEF Bank
  <2>8. Shown = BankSize * (n \div BankSize) + ((n - 2) % BankSize)
    BY <1>1, <2>1, <2>5, <2>6, <2>7, Sizes DEF Shown, Bank
  <2>9. PICK d \in Nat, m \in Nat :
          d = n \div BankSize /\ m = n % BankSize /\ m < BankSize /\ n = BankSize * d + m
    BY <2>3, Sizes, Split
  <2>10. BankSize \in Nat /\ BankSize >= 2 /\ BankSize * d \in Nat
    BY Sizes
  <2>11. CASE m >= 2
    <3>1. n - 2 = BankSize * d + (m - 2) /\ m - 2 \in Nat /\ m - 2 < BankSize
      BY <2>3, <2>9, <2>10, <2>11
    <3>2. (n - 2) % BankSize = m - 2
      BY <2>3, <2>10, <3>1, UniqueRemainder
    <3>3. Shown = n - 2
      BY <2>8, <2>9, <2>10, <2>11, <3>1, <3>2
    <3> QED
      BY <2>5, <2>9, <2>11, <3>3 DEF Sent
  <2>12. CASE m < 2
    <3>1. d # 0
      <4>1. d = 0 => BankSize * d = 0
        BY <2>10
      <4> QED
        BY <2>3, <2>9, <2>12, <4>1
    <3>2. d - 1 \in Nat /\ BankSize * d = BankSize * (d - 1) + BankSize
      BY <2>10, <3>1
    <3>3. /\ n - 2 = BankSize * (d - 1) + (m + BankSize - 2) /\ BankSize * (d - 1) \in Nat
          /\ m + BankSize - 2 \in Nat /\ m + BankSize - 2 < BankSize
      BY <2>3, <2>9, <2>10, <2>12, <3>2
    <3>4. (n - 2) % BankSize = m + BankSize - 2
      BY <2>3, <2>10, <3>2, <3>3, UniqueRemainder
    <3>5. Shown = n - 2 + BankSize
      BY <2>3, <2>8, <2>9, <2>10, <2>12, <3>4
    <3> QED
      BY <2>5, <2>9, <2>12, <3>5 DEF Sent
  <2> QED
    BY <2>9, <2>11, <2>12
<1>2. Scanning => SentTwoLate
  BY <1>1 DEF SentTwoLate
<1> QED
  BY <1>2, DisplayInvariant, PTL
===============================================================================
