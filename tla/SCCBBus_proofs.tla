----------------------------- MODULE SCCBBus_proofs -----------------------------
(***************************************************************************)
(* Proofs about the camera-programming bus for every table, every length   *)
(* of it and every byte in it.  IInv strengthens the invariants of SCCBBus *)
(* into an inductive one: what the master's registers hold in each state,  *)
(* and how much of the current byte the camera has.                        *)
(***************************************************************************)
EXTENDS SCCBBus, WellFoundedInduction, TLAPS

-------------------------------------------------------------------------------
(* The inductive invariant.                                                *)

Transfer == Sending \cup {"Phase4"}          \* the states that clock bits

(* The counters stay inside their widths, so none of them wraps.           *)
CounterInv ==
  /\ SCCB_COUNTER \in 0..Last
  /\ state \notin {"HALT", "STOP"} => SCCB_COUNTER >= 1
  /\ state = "STOP" => SCCB_COUNTER < Last
  /\ state \in {"PREP", "BREAK"} \cup Transfer => garbage = 0
  /\ state = "FIN" => garbage \in 0..20 /\ (garbage > 0 => SCCB_COUNTER # Last)
  /\ state \in {"PREP", "Phase1", "Phase2", "INPUT"} => garbage2 = 0
  /\ state = "BREAK" => garbage2 \in 0..20

(* Where a transfer state is in its byte.                                  *)
BitInv ==
  /\ state \in {"PREP", "BREAK"} => state_counter = 0 /\ cam_clk = 0
  /\ state \in {"Phase1", "Phase2", "Phase3"} => BitsOut \in 0..8
  /\ state \in {"INPUT", "Phase4"} => BitsOut \in 0..9

(* The levels of the two pins.                                             *)
PinInv ==
  /\ state \in Transfer => sdioc = 1 - cam_clk
  /\ state \in {"STOP", "PREP", "BREAK", "FIN"} => sdioc = 1
  /\ state = "PREP" => /\ prep_sig1 = 0 => sdiod = HiZ /\ prep_sig2 = 0
                       /\ prep_sig1 = 1 => sdiod = 1 - prep_sig2
  /\ state \in Transfer => sdiod # HiZ
  /\ state \in Sending /\ cam_clk = 1 /\ state_counter # 9 => sdiod = curr_data
  /\ state = "Phase4" /\ cam_clk = 1 /\ state_counter \in {9, 10} => sdiod = curr_data
  /\ state \in {"INPUT", "Phase4"} /\ cam_clk = 1 /\ state_counter = 10 => sdiod = 0
  /\ state = "BREAK" => sdiod = IF garbage2 \in 8..12 THEN 1 ELSE 0
  /\ state = "FIN" => sdiod = 0

(* The bus addresses, set by HALT before anything is sent.                 *)
IdInv == state # "HALT" => IP_address_Write = IPWrite /\ IP_address_Read = IPRead

(* The byte the master is sending, and the bits of it already on their     *)
(* way: in the camera's shift register, and on the pin.                    *)
Current == IF state = "Phase1" THEN IPWrite ELSE IF state = "Phase2" THEN Sub_address
           ELSE IF state = "INPUT" THEN Write_data ELSE IPRead

ByteInv ==
  state \in Sending /\ BitsOut <= 8 =>
    /\ \A i \in 0..7 : i > 7 - BitsOut => cshift[i] = Current[i]
    /\ cam_clk = 1 /\ state_counter <= 8 => sdiod = Current[8 - state_counter]

(* The sub-address arrived whole; and whatever happens to the master, a    *)
(* write the camera is about to perform is the one SCCB_COUNTER stands for.*)
WriteInv ==
  /\ state = "INPUT" /\ BitsOut <= 8 => csub = Sub_address
  /\ sdioc = 0 /\ Camera!Commit => /\ SCCB_COUNTER >= 1 /\ sent = SCCB_COUNTER - 1
                                   /\ csub = Program[SCCB_COUNTER - 1].sub
                                   /\ cshift = Program[SCCB_COUNTER - 1].data

(* How many writes of this run the camera has performed.                   *)
SentInv ==
  /\ sent \in 0..Last
  /\ state = "STOP" /\ SCCB_COUNTER > 0 => sent = SCCB_COUNTER
  /\ state \in {"PREP", "Phase1", "Phase2"} => sent = SCCB_COUNTER - 1
  /\ state = "INPUT" => sent = IF BitsOut <= 8 THEN SCCB_COUNTER - 1 ELSE SCCB_COUNTER
  /\ state \in {"BREAK", "Phase3", "Phase4", "FIN"} => sent = SCCB_COUNTER

IInv ==
  /\ BusTypeOK /\ CounterInv /\ BitInv /\ PinInv /\ IdInv
  /\ EntryMatchesCounter /\ InStep /\ ByteInv /\ WriteInv /\ SentInv

-------------------------------------------------------------------------------
(* What the proofs use of the constants.                                   *)
LEMMA ProgramType ==
  ASSUME NEW k \in 0..Last
  PROVE  /\ Program[k] \in RegisterWrite
         /\ Program[k].sub \in Byte /\ Program[k].data \in Byte
         /\ Program[k] = [sub |-> Program[k].sub, data |-> Program[k].data]
BY LastAssumption, EntryAssumption, ResetAssumption DEF Program, RegisterWrite

LEMMA ProgramZero == Program[0] = ResetEntry
BY LastAssumption DEF Program

LEMMA ProgramEntry == ASSUME NEW k \in 1..Last PROVE Program[k] = Entry[k]
BY LastAssumption DEF Program

(* The invariant holds at power-up.                                        *)
LEMMA InitIInv == BusInit => IInv
<1> SUFFICES ASSUME BusInit PROVE IInv
  OBVIOUS
<1> USE LastAssumption, RegistersAssumption
        DEF BusInit, Init, Camera!CInit, HiZ, Zero, Byte, Bit
<1>1. BusTypeOK
  BY DEF BusTypeOK, TypeOK, Word, States, Sending
<1>2. CounterInv /\ BitInv /\ PinInv /\ IdInv
  BY DEF CounterInv, BitInv, PinInv, IdInv, Transfer, Sending, BitsOut
<1>3. EntryMatchesCounter /\ InStep
  BY DEF EntryMatchesCounter, InStep, Sending
<1>4. ByteInv /\ WriteInv /\ SentInv
  BY DEF ByteInv, WriteInv, SentInv, Sending, Camera!Commit
<1> QED
  BY <1>1, <1>2, <1>3, <1>4 DEF IInv

(* One clock edge of the bus.                                              *)
Edge(reset, run, line) ==
  /\ Clock(reset, run, line)
  /\ Camera!Observe(sdioc, Level(sdiod), sdioc', Level(sdiod'))
  /\ Count

(* The camera's part of an edge keeps its types.                           *)
LEMMA CameraType ==
  ASSUME BusTypeOK, NEW c \in Bit, NEW cn \in Bit, NEW d \in Bit, NEW dn \in Bit,
         Camera!Observe(c, d, cn, dn)
  PROVE  /\ cphase' \in {"idle", "id", "sub", "data", "reading"}
         /\ cbits' \in 0..8 /\ cshift' \in Byte /\ csub' \in Byte
         /\ cdrive' \in {0, 1, HiZ} /\ regs' \in [Registers -> Byte]
<1> USE RegistersAssumption DEF BusTypeOK, Camera!cvars
<1>1. CASE UNCHANGED Camera!cvars
  BY <1>1
<1>2. CASE Camera!Fall
  BY <1>2 DEF Camera!Fall, HiZ, Byte, Bit
<1>3. CASE Camera!Start \/ Camera!Stop
  BY <1>3 DEF Camera!Start, Camera!Stop, HiZ
<1>4. ASSUME NEW s \in Bit, Camera!Shift(s)
      PROVE  /\ cphase' \in {"idle", "id", "sub", "data", "reading"}
         /\ cbits' \in 0..8 /\ cshift' \in Byte /\ csub' \in Byte
         /\ cdrive' \in {0, 1, HiZ} /\ regs' \in [Registers -> Byte]
  BY <1>4 DEF Camera!Shift, Byte
<1>5. CASE Camera!NinthBit
  <2>1. Camera!Written(regs, csub, cshift) \in [Registers -> Byte]
    BY DEF Camera!Written
  <2> QED
    BY <1>5, <2>1 DEF Camera!NinthBit
<1> QED
  BY <1>1, <1>2, <1>3, <1>4, <1>5 DEF Camera!Observe, Camera!Rise

(* Types are kept by every edge: the wraps of the counters included.       *)
LEMMA MasterType ==
  ASSUME TypeOK, IInv, NEW reset \in BOOLEAN, NEW run \in BOOLEAN, NEW line \in Bit,
         Clock(reset, run, line)
  PROVE  TypeOK'
<1> USE LastAssumption DEF TypeOK, Word, Goto
<1>1. CASE HALT(reset, run)
  BY <1>1, ResetAssumption, IPAssumption
  DEF HALT, RegisterWrite, States, Sending, preps, counters, Bit
<1>2. CASE STOP(reset) \/ PREP(reset) \/ BREAK(reset)
  BY <1>2 DEF STOP, PREP, BREAK, BreakLevel, States, Sending, preps, counters, entry, ids, Bit
<1>3. ASSUME NEW byte \in Byte, NEW next \in States, NEW here \in States,
             SendByte(reset, here, byte, next)
      PROVE  TypeOK'
  BY <1>3 DEF SendByte, LowHalf, HighHalf, DriveBit, States, Sending, preps, counters,
              entry, ids, Bit, Byte
<1>4. CASE Phase1(reset) \/ Phase2(reset) \/ Phase3(reset)
  BY <1>4, <1>3 DEF Phase1, Phase2, Phase3, States, Sending
<1>5. CASE INPUT(reset)
  BY <1>5 DEF INPUT, LowHalf, HighHalf, DriveBit, States, Sending, preps, counters,
              entry, ids, Bit, Byte
<1>6. CASE Phase4(reset, line)
  BY <1>6 DEF Phase4, LowHalf, HighHalf, States, Sending, preps, counters,
              entry, ids, Bit, Byte
<1>7. CASE FIN(reset)
  BY <1>7, EntryAssumption DEF FIN, LoadEntry, Pause, States, Sending, preps, counters, entry, ids, Bit,
              RegisterWrite
<1> QED
  BY <1>1, <1>2, <1>4, <1>5, <1>6, <1>7 DEF Clock

(* The camera sees a bit of the master's with the level of the data pin.   *)
LEMMA SeenHigh ==
  ASSUME NEW d, NEW dn, d = dn, Camera!Observe(0, d, 1, dn)
  PROVE  Camera!Rise(d)
BY DEF Camera!Observe

LEMMA SeenLow ==
  ASSUME NEW d, NEW dn, Camera!Observe(1, d, 0, dn)
  PROVE  Camera!Fall
BY DEF Camera!Observe

(* With the clock pin high and no edge of the data pin the camera rests.   *)
LEMMA SeenRest ==
  ASSUME NEW d \in Bit, Camera!Observe(1, d, 1, d)
  PROVE  UNCHANGED cvars
BY DEF Camera!Observe, Camera!cvars, cvars, Bit

LEMMA HALTStep ==
  ASSUME IInv, NEW reset \in BOOLEAN, NEW run \in BOOLEAN, HALT(reset, run),
         Camera!Observe(sdioc, Level(sdiod), sdioc', Level(sdiod')), Count, BusTypeOK'
  PROVE  IInv'
<1> USE LastAssumption DEF IInv, HALT, Goto
<1>1. state' \in {"HALT", "STOP"} /\ SCCB_COUNTER' = 0 /\ sdioc' = 1
  OBVIOUS
<1>2. CounterInv'
  BY <1>1 DEF CounterInv, Transfer, Sending
<1>3. BitInv' /\ PinInv' /\ IdInv'
  BY <1>1 DEF BitInv, PinInv, IdInv, Transfer, Sending
<1>4. EntryMatchesCounter'
  BY <1>1, ProgramZero, ResetAssumption DEF EntryMatchesCounter, Sending, RegisterWrite
<1>5. InStep' /\ ByteInv'
  BY <1>1 DEF InStep, ByteInv, Sending
<1>6. sent' \in 0..Last
  BY DEF Count, SentInv, WriteInv, CounterInv
<1>7. WriteInv' /\ SentInv'
  BY <1>1, <1>6 DEF WriteInv, SentInv
<1> QED
  BY <1>2, <1>3, <1>4, <1>5, <1>7

LEMMA STOPStep ==
  ASSUME IInv, NEW reset \in BOOLEAN, STOP(reset),
         Camera!Observe(sdioc, Level(sdiod), sdioc', Level(sdiod')), Count, BusTypeOK'
  PROVE  IInv'
<1> USE LastAssumption DEF IInv, STOP, Goto
<1>1. /\ state = "STOP" /\ state' \in {"HALT", "PREP"} /\ sdioc = 1 /\ sdioc' = 1
      /\ SCCB_COUNTER' = SCCB_COUNTER + 1 /\ SCCB_COUNTER < Last
  BY DEF PinInv, CounterInv
<1>2. CounterInv'
  BY <1>1 DEF CounterInv, Transfer, Sending
<1>3. BitInv' /\ PinInv' /\ IdInv'
  BY <1>1 DEF BitInv, PinInv, IdInv, Transfer, Sending, ids
<1>4. EntryMatchesCounter'
  BY <1>1 DEF EntryMatchesCounter, Sending, entry, CounterInv
<1>5. InStep' /\ ByteInv'
  BY <1>1 DEF InStep, ByteInv, Sending
<1>6. sent' = IF SCCB_COUNTER = 0 THEN 0 ELSE SCCB_COUNTER
  BY <1>1 DEF Count, SentInv, CounterInv
<1>7. WriteInv' /\ SentInv'
  BY <1>1, <1>6 DEF WriteInv, SentInv, CounterInv
<1> QED
  BY <1>2, <1>3, <1>4, <1>5, <1>7

LEMMA PREPStep ==
  ASSUME IInv, NEW reset \in BOOLEAN, PREP(reset),
         Camera!Observe(sdioc, Level(sdiod), sdioc', Level(sdiod')), Count, BusTypeOK'
  PROVE  IInv'
<1> USE LastAssumption DEF IInv, PREP, Goto
<1>1. /\ state = "PREP" /\ state' \in {"HALT", "PREP", "Phase1"} /\ sdioc = 1 /\ sdioc' = 1
      /\ SCCB_COUNTER' = SCCB_COUNTER /\ state_counter' = state_counter
      /\ cam_clk' = cam_clk /\ garbage' = garbage /\ garbage2' = garbage2
      /\ sent' = sent
  BY DEF PinInv, counters, Count
<1>2. CounterInv' /\ BitInv' /\ IdInv'
  BY <1>1 DEF CounterInv, BitInv, IdInv, Transfer, Sending, BitsOut, ids
<1>3. PinInv'
  <2>1. prep_sig1 \in {0, 1} /\ prep_sig2 \in {0, 1} /\ cam_clk = 0
    BY <1>1 DEF BusTypeOK, TypeOK, Bit, BitInv
  <2>2. prep_sig1' = 1 /\ sdiod' = 1 - prep_sig2' /\ sdiod' # HiZ
    BY <1>1, <2>1 DEF PinInv, HiZ
  <2> QED
    BY <1>1, <2>1, <2>2 DEF PinInv, Transfer, Sending
<1>4. EntryMatchesCounter'
  BY <1>1 DEF EntryMatchesCounter, Sending, entry
<1>5. prep_sig1 = 1 => cphase' = "id" /\ cbits' = 0
  <2>1. CASE prep_sig1 = 1 /\ prep_sig2 = 0
    BY <1>1, <2>1 DEF PinInv, Level, HiZ, Camera!Observe, Camera!Start
  <2>2. CASE prep_sig1 = 1 /\ prep_sig2 = 1
    <3>1. UNCHANGED cvars
      BY <1>1, <2>2, SeenRest DEF PinInv, Level, HiZ, Bit
    <3> QED
      BY <1>1, <2>2, <3>1 DEF InStep, cvars
  <2> QED
    BY <2>1, <2>2 DEF BusTypeOK, TypeOK, Bit
<1>6. prep_sig2' = 1 => prep_sig1 = 1
  BY <1>1 DEF PinInv, BusTypeOK, TypeOK, Bit
<1>7. InStep'
  BY <1>1, <1>5, <1>6 DEF InStep, BitInv, BitsOut, PinInv, BusTypeOK, TypeOK, Bit
<1>8. ByteInv'
  BY <1>1 DEF ByteInv, Sending, BitInv, BitsOut
<1>9. WriteInv' /\ SentInv'
  BY <1>1 DEF WriteInv, SentInv
<1> QED
  BY <1>2, <1>3, <1>4, <1>7, <1>8, <1>9

(* One byte of the write or read header: the low half puts a bit on the    *)
(* pin, the high half moves it into the camera, the ninth ends the byte.   *)
After(here) == IF here = "Phase1" THEN "Phase2"
               ELSE IF here = "Phase2" THEN "INPUT" ELSE "Phase4"

LEMMA SendStep ==
  ASSUME IInv, NEW reset \in BOOLEAN, NEW here \in {"Phase1", "Phase2", "Phase3"},
         NEW byte, SendByte(reset, here, byte, After(here)),
         byte = IF here = "Phase1" THEN IP_address_Write
                ELSE IF here = "Phase2" THEN Sub_address ELSE IP_address_Read,
         Camera!Observe(sdioc, Level(sdiod), sdioc', Level(sdiod')), Count, BusTypeOK'
  PROVE  IInv'
<1> USE DEF IInv
<1> DEFINE phase == IF here = "Phase2" THEN "sub" ELSE "id"
<1>1. /\ state = here /\ state' \in {here, After(here), "HALT"} /\ BitsOut \in 0..8
      /\ cphase = phase /\ cbits = BitsOut
      /\ byte = Current /\ byte \in Byte /\ sdiod \in Bit
      /\ \A i \in 0..7 : i > 7 - BitsOut => cshift[i] = byte[i]
      /\ cam_clk \in Bit /\ state_counter \in Nat /\ sdioc = 1 - cam_clk
  <2>1. state = here /\ state' \in {here, After(here), "HALT"}
    BY DEF SendByte, Goto
  <2>2. cam_clk \in Bit /\ state_counter \in Nat /\ sdiod \in {0, 1, HiZ}
    BY DEF BusTypeOK, TypeOK, Word
  <2>3. byte = Current /\ byte \in Byte
    BY <2>1, IPAssumption DEF IdInv, Current, BusTypeOK, TypeOK
  <2>4. BitsOut \in 0..8 /\ sdioc = 1 - cam_clk /\ sdiod # HiZ
    BY <2>1 DEF BitInv, PinInv, Transfer, Sending
  <2>5. cphase = phase /\ cbits = BitsOut
    BY <2>1 DEF InStep
  <2>6. \A i \in 0..7 : i > 7 - BitsOut => cshift[i] = byte[i]
    BY <2>1, <2>3, <2>4 DEF ByteInv, Sending
  <2> QED
    BY <2>1, <2>2, <2>3, <2>4, <2>5, <2>6 DEF Bit, HiZ
<1>2. /\ UNCHANGED <<SCCB_COUNTER, Sub_address, Write_data, garbage, garbage2,
                     IP_address_Write, IP_address_Read>>
      /\ IdInv'
  BY <1>1 DEF SendByte, IdInv, counters, entry, ids
<1>3. CASE cam_clk = 0
  <2>1. /\ cam_clk' = 1 /\ sdioc = 1 /\ sdioc' = 0 /\ state_counter \in 0..8
        /\ state_counter' = state_counter + 1 /\ state' \in {here, "HALT"}
        /\ BitsOut' = BitsOut /\ sent' = sent
    BY <1>1, <1>3 DEF SendByte, Goto, LowHalf, HighHalf, BitsOut, Count
  <2>2. UNCHANGED <<cphase, cbits, cshift, csub>>
    BY <2>1, SeenLow DEF Camera!Fall
  <2>3. /\ state_counter < 8 => sdiod' = byte[7 - state_counter] /\ curr_data' = sdiod'
        /\ state_counter = 8 => sdiod' = sdiod
    BY <1>1, <1>3 DEF SendByte, LowHalf, HighHalf, DriveBit
  <2>4. sdiod' \in Bit
    BY <1>1, <2>1, <2>3 DEF Byte
  <2>5. CounterInv' /\ BitInv'
    BY <1>1, <1>2, <2>1 DEF CounterInv, BitInv, Transfer, Sending
  <2>6. PinInv'
    BY <1>1, <2>1, <2>3, <2>4 DEF PinInv, Transfer, Sending, Bit, HiZ
  <2>7. EntryMatchesCounter' /\ SentInv'
    BY <1>1, <1>2, <2>1 DEF EntryMatchesCounter, SentInv, Sending
  <2>8. InStep'
    BY <1>1, <2>1, <2>2 DEF InStep
  <2>9. ByteInv'
    <3>1. state' = here => Current' = byte
      BY <1>1, <1>2 DEF Current
    <3> QED
      BY <1>1, <2>1, <2>2, <2>3, <3>1 DEF ByteInv, Sending
  <2>10. WriteInv'
    BY <1>1, <2>1, <2>2 DEF WriteInv, Camera!Commit
  <2> QED
    BY <1>2, <2>5, <2>6, <2>7, <2>8, <2>9, <2>10
<1>4. CASE cam_clk = 1
  <2>1. /\ cam_clk' = 0 /\ sdioc = 0 /\ sdioc' = 1 /\ state_counter \in 1..9
        /\ state_counter' = (IF state_counter = 9 THEN 0 ELSE state_counter)
        /\ state' \in {IF state_counter = 9 THEN After(here) ELSE here, "HALT"}
        /\ BitsOut = state_counter - 1 /\ BitsOut' = state_counter'
    BY <1>1, <1>4 DEF SendByte, Goto, LowHalf, HighHalf, BitsOut, Bit
  <2>2. sdiod' = sdiod
    <3>1. state_counter # 9 => sdiod = curr_data
      BY <1>1, <1>4 DEF PinInv, Sending
    <3> QED
      BY <1>4, <3>1 DEF SendByte, LowHalf, HighHalf
  <2>3. Camera!Rise(sdiod)
    BY <1>1, <2>1, <2>2, SeenHigh DEF Level, Bit, HiZ
  <2>4. sent' = sent
    BY <1>1, <2>1 DEF Count, Camera!Commit
  <2>5. CounterInv' /\ BitInv' /\ PinInv' /\ EntryMatchesCounter' /\ SentInv'
    <3>1. CounterInv'
      BY <1>1, <1>2, <2>1 DEF CounterInv, Transfer, Sending, After
    <3>2. BitInv'
      BY <1>1, <2>1 DEF BitInv, Transfer, Sending, After
    <3>3. PinInv'
      BY <1>1, <2>1, <2>2 DEF PinInv, Transfer, Sending, After, Bit, HiZ
    <3>4. EntryMatchesCounter' /\ SentInv'
      BY <1>1, <1>2, <2>1, <2>4 DEF EntryMatchesCounter, SentInv, Sending, After
    <3> QED
      BY <3>1, <3>2, <3>3, <3>4
  <2>6. CASE state_counter <= 8
    <3>1. /\ cshift' = [cshift EXCEPT ![8 - state_counter] = sdiod]
          /\ cbits' = state_counter /\ cphase' = cphase /\ csub' = csub
      BY <1>1, <2>1, <2>3, <2>6 DEF Camera!Rise, Camera!Shift, Camera!NinthBit
    <3>2. sdiod = byte[8 - state_counter]
      BY <1>1, <1>4, <2>1, <2>6 DEF ByteInv, Sending
    <3>3. \A i \in 0..7 : i > 7 - BitsOut' => cshift'[i] = byte[i]
      BY <1>1, <2>1, <2>6, <3>1, <3>2 DEF BusTypeOK, Byte
    <3>4. InStep'
      BY <1>1, <2>1, <2>6, <3>1 DEF InStep
    <3>5. ByteInv'
      <4>1. state' = here => Current' = byte
        BY <1>1, <1>2 DEF Current
      <4> QED
        BY <1>1, <2>1, <2>6, <3>3, <4>1 DEF ByteInv, Sending
    <3>6. WriteInv'
      BY <1>1, <2>1, <2>6 DEF WriteInv
    <3> QED
      BY <1>2, <2>5, <3>4, <3>5, <3>6
  <2>7. CASE state_counter = 9
    <3>1. cshift = byte
      BY <1>1, <2>1, <2>7 DEF BusTypeOK, Byte
    <3>2. /\ cbits' = 0
          /\ cphase' = (IF here = "Phase1" THEN "sub"
                        ELSE IF here = "Phase2" THEN "data" ELSE "reading")
          /\ here = "Phase2" => csub' = byte
      BY <1>1, <2>1, <2>3, <2>7, <3>1, IPAssumption
      DEF Camera!Rise, Camera!Shift, Camera!NinthBit, Current
    <3>3. InStep'
      BY <1>1, <2>1, <2>7, <3>2 DEF InStep, After
    <3>4. ByteInv'
      BY <1>1, <2>1, <2>7 DEF ByteInv, Sending
    <3>5. WriteInv'
      BY <1>1, <1>2, <2>1, <2>7, <3>2 DEF WriteInv, After, Current
    <3> QED
      BY <1>2, <2>5, <3>3, <3>4, <3>5
  <2> QED
    BY <2>1, <2>6, <2>7
<1> QED
  BY <1>1, <1>3, <1>4 DEF Bit

(* The data byte: its ninth bit makes the camera perform the write.        *)
LEMMA INPUTStep ==
  ASSUME IInv, NEW reset \in BOOLEAN, INPUT(reset),
         Camera!Observe(sdioc, Level(sdiod), sdioc', Level(sdiod')), Count, BusTypeOK'
  PROVE  IInv'
<1> USE DEF IInv
<1>1. /\ state = "INPUT" /\ state' \in {"INPUT", "BREAK", "HALT"} /\ BitsOut \in 0..9
      /\ sdiod \in Bit /\ cam_clk \in Bit /\ state_counter \in Nat /\ sdioc = 1 - cam_clk
      /\ Write_data \in Byte /\ SCCB_COUNTER >= 1 /\ SCCB_COUNTER \in 0..Last
  BY DEF INPUT, Goto, BusTypeOK, TypeOK, Word, Bit, HiZ, BitInv, PinInv, CounterInv,
         Transfer, Sending
<1>2. BitsOut <= 8 => /\ cphase = "data" /\ cbits = BitsOut /\ csub = Sub_address
                      /\ \A i \in 0..7 : i > 7 - BitsOut => cshift[i] = Write_data[i]
                      /\ sent = SCCB_COUNTER - 1
  BY <1>1 DEF InStep, WriteInv, ByteInv, Sending, Current, SentInv
<1>3. BitsOut = 9 => cphase = "idle" /\ sent = SCCB_COUNTER
  BY <1>1 DEF InStep, SentInv
<1>4. /\ UNCHANGED <<SCCB_COUNTER, Sub_address, Write_data, garbage, garbage2,
                     IP_address_Write, IP_address_Read>>
      /\ IdInv'
  BY <1>1 DEF INPUT, IdInv, counters, entry, ids
<1>5. /\ Sub_address = Program[SCCB_COUNTER - 1].sub
      /\ Write_data = Program[SCCB_COUNTER - 1].data
  <2>1. [sub |-> Sub_address, data |-> Write_data] = Program[SCCB_COUNTER - 1]
    BY <1>1 DEF EntryMatchesCounter, Sending
  <2> QED
    BY <2>1
<1>6. CASE cam_clk = 0
  <2>1. /\ cam_clk' = 1 /\ sdioc = 1 /\ sdioc' = 0 /\ state_counter \in 0..9
        /\ state_counter' = state_counter + 1 /\ state' \in {"INPUT", "HALT"}
        /\ BitsOut = state_counter /\ BitsOut' = BitsOut /\ sent' = sent
    BY <1>1, <1>6 DEF INPUT, Goto, LowHalf, HighHalf, BitsOut, Count
  <2>2. UNCHANGED <<cphase, cbits, cshift, csub>>
    BY <2>1, SeenLow DEF Camera!Fall
  <2>3. /\ state_counter < 8 => sdiod' = Write_data[7 - state_counter] /\ curr_data' = sdiod'
        /\ state_counter = 8 => sdiod' = sdiod
        /\ state_counter = 9 => sdiod' = 0 /\ curr_data' = 0
    BY <1>1, <1>6, <2>1 DEF INPUT, LowHalf, HighHalf, DriveBit
  <2>4. sdiod' \in Bit
    BY <1>1, <2>1, <2>3 DEF Byte, Bit
  <2>5. CounterInv' /\ BitInv'
    BY <1>1, <1>4, <2>1 DEF CounterInv, BitInv, Transfer, Sending
  <2>6. PinInv'
    BY <1>1, <2>1, <2>3, <2>4 DEF PinInv, Transfer, Sending, Bit, HiZ
  <2>7. EntryMatchesCounter' /\ SentInv'
    BY <1>1, <1>2, <1>3, <1>4, <2>1 DEF EntryMatchesCounter, SentInv, Sending
  <2>8. InStep'
    BY <1>1, <1>2, <1>3, <2>1, <2>2 DEF InStep
  <2>9. ByteInv'
    BY <1>1, <1>2, <1>4, <2>1, <2>2, <2>3 DEF ByteInv, Sending, Current
  <2>10. WriteInv'
    <3>1. CASE Camera!Commit'
      <4>1. BitsOut = 8
        BY <1>1, <1>2, <1>3, <2>1, <2>2, <3>1 DEF Camera!Commit
      <4>2. cshift = Write_data
        BY <1>1, <1>2, <4>1 DEF BusTypeOK, Byte
      <4> QED
        BY <1>1, <1>2, <1>4, <1>5, <2>1, <2>2, <4>1, <4>2 DEF WriteInv
    <3>2. CASE ~ Camera!Commit'
      BY <1>1, <1>2, <1>4, <2>1, <2>2, <3>2 DEF WriteInv
    <3> QED
      BY <3>1, <3>2
  <2> QED
    BY <1>4, <2>5, <2>6, <2>7, <2>8, <2>9, <2>10
<1>7. CASE cam_clk = 1
  <2>1. /\ cam_clk' = 0 /\ sdioc = 0 /\ sdioc' = 1 /\ state_counter \in 1..10
        /\ state_counter' = (IF state_counter = 10 THEN 0 ELSE state_counter)
        /\ state' \in {IF state_counter = 10 THEN "BREAK" ELSE "INPUT", "HALT"}
        /\ BitsOut = state_counter - 1 /\ BitsOut' = state_counter'
    BY <1>1, <1>7 DEF INPUT, Goto, LowHalf, HighHalf, BitsOut, Bit
  <2>2. sdiod' = sdiod /\ (state_counter = 10 => sdiod = 0)
    <3>1. /\ state_counter # 9 => sdiod = curr_data
          /\ state_counter = 10 => sdiod = 0
      BY <1>1, <1>7 DEF PinInv, Sending
    <3> QED
      BY <1>7, <3>1 DEF INPUT, LowHalf, HighHalf
  <2>3. Camera!Rise(sdiod)
    BY <1>1, <2>1, <2>2, SeenHigh DEF Level, Bit, HiZ
  <2>4. sent' = IF state_counter = 9 THEN sent + 1 ELSE sent
    BY <1>1, <1>2, <1>3, <2>1 DEF Count, Camera!Commit
  <2>5. CounterInv' /\ BitInv'
    BY <1>1, <1>4, <2>1 DEF CounterInv, BitInv, Transfer, Sending
  <2>6. PinInv'
    <3>1. garbage2' = 0
      BY <1>1, <1>4 DEF CounterInv
    <3> QED
      BY <1>1, <2>1, <2>2, <3>1 DEF PinInv, Transfer, Sending, Bit, HiZ
  <2>7. EntryMatchesCounter'
    BY <1>1, <1>4, <2>1 DEF EntryMatchesCounter, Sending
  <2>8. SentInv'
    BY <1>1, <1>2, <1>3, <1>4, <2>1, <2>4 DEF SentInv
  <2>9. CASE state_counter <= 8
    <3>1. /\ cshift' = [cshift EXCEPT ![8 - state_counter] = sdiod]
          /\ cbits' = state_counter /\ cphase' = cphase /\ csub' = csub
      BY <1>1, <1>2, <2>1, <2>3, <2>9 DEF Camera!Rise, Camera!Shift, Camera!NinthBit
    <3>2. sdiod = Write_data[8 - state_counter]
      BY <1>1, <1>7, <2>1, <2>9 DEF ByteInv, Sending, Current
    <3>3. \A i \in 0..7 : i > 7 - BitsOut' => cshift'[i] = Write_data[i]
      BY <1>1, <1>2, <2>1, <2>9, <3>1, <3>2 DEF BusTypeOK, Byte
    <3>4. InStep'
      BY <1>1, <1>2, <2>1, <2>9, <3>1 DEF InStep
    <3>5. ByteInv'
      BY <1>1, <1>4, <2>1, <2>9, <3>3 DEF ByteInv, Sending, Current
    <3>6. WriteInv'
      BY <1>1, <1>2, <1>4, <2>1, <2>9, <3>1 DEF WriteInv
    <3> QED
      BY <1>4, <2>5, <2>6, <2>7, <2>8, <3>4, <3>5, <3>6
  <2>10. CASE state_counter \in {9, 10}
    <3>1. cphase' = "idle"
      BY <1>1, <1>2, <1>3, <2>1, <2>3, <2>10 DEF Camera!Rise, Camera!Shift,
         Camera!NinthBit, Camera!cvars
    <3>2. garbage2' = 0
      BY <1>1, <1>4 DEF CounterInv
    <3>3. InStep'
      BY <1>1, <2>1, <2>10, <3>1, <3>2 DEF InStep
    <3>4. ByteInv'
      BY <1>1, <2>1, <2>10 DEF ByteInv, Sending
    <3>5. WriteInv'
      BY <1>1, <2>1, <2>10 DEF WriteInv
    <3> QED
      BY <1>4, <2>5, <2>6, <2>7, <2>8, <3>3, <3>4, <3>5
  <2> QED
    BY <2>1, <2>9, <2>10
<1> QED
  BY <1>1, <1>6, <1>7 DEF Bit

(* STOP of the write at count 7, START of the read at count 12.            *)
LEMMA BREAKStep ==
  ASSUME IInv, NEW reset \in BOOLEAN, BREAK(reset),
         Camera!Observe(sdioc, Level(sdiod), sdioc', Level(sdiod')), Count, BusTypeOK'
  PROVE  IInv'
<1> USE DEF IInv
<1>1. /\ state = "BREAK" /\ sdioc = 1 /\ sdioc' = 1 /\ garbage2 \in 0..20
      /\ state' \in {IF garbage2 = 20 THEN "Phase3" ELSE "BREAK", "HALT"}
      /\ state_counter' = 0 /\ cam_clk' = 0 /\ garbage2' = garbage2 + 1
      /\ sdiod = (IF garbage2 \in 8..12 THEN 1 ELSE 0)
      /\ sdiod' = (IF garbage2 \in 7..11 THEN 1 ELSE 0)
      /\ sent' = sent /\ sent = SCCB_COUNTER /\ SCCB_COUNTER >= 1
      /\ UNCHANGED <<SCCB_COUNTER, Sub_address, Write_data, garbage,
                     IP_address_Write, IP_address_Read>>
  BY DEF BREAK, BreakLevel, Goto, CounterInv, BitInv, PinInv, SentInv, Count, entry, ids, Transfer,
         Sending
<1>2. CounterInv' /\ BitInv' /\ PinInv' /\ IdInv'
  <2>1. CounterInv'
    BY <1>1 DEF CounterInv, Transfer, Sending
  <2>2. BitInv' /\ IdInv'
    BY <1>1 DEF BitInv, IdInv, BitsOut
  <2>3. PinInv'
    BY <1>1 DEF PinInv, Transfer, Sending, HiZ
  <2> QED
    BY <2>1, <2>2, <2>3
<1>3. EntryMatchesCounter'
  BY <1>1 DEF EntryMatchesCounter, Sending
<1>4. /\ garbage2 < 12 => cphase' = "idle"
      /\ garbage2 >= 12 => cphase' = "id" /\ cbits' = 0
  <2>1. CASE garbage2 = 7
    BY <1>1, <2>1 DEF Level, HiZ, Camera!Observe, Camera!Stop
  <2>2. CASE garbage2 = 12
    BY <1>1, <2>2 DEF Level, HiZ, Camera!Observe, Camera!Start
  <2>3. CASE garbage2 \notin {7, 12}
    <3>1. UNCHANGED cvars
      BY <1>1, <2>3, SeenRest DEF Level, HiZ, Bit
    <3> QED
      BY <1>1, <2>3, <3>1 DEF InStep, cvars
  <2> QED
    BY <2>1, <2>2, <2>3
<1>5. InStep'
  BY <1>1, <1>4 DEF InStep, BitsOut
<1>6. ByteInv' /\ WriteInv' /\ SentInv'
  <2>1. ByteInv'
    BY <1>1 DEF ByteInv, Sending, BitsOut
  <2>2. WriteInv' /\ SentInv'
    BY <1>1 DEF WriteInv, SentInv
  <2> QED
    BY <2>1, <2>2
<1> QED
  BY <1>2, <1>3, <1>5, <1>6

(* The read: the camera answers eight bits and the master ends it.         *)
LEMMA Phase4Step ==
  ASSUME IInv, NEW reset \in BOOLEAN, NEW line \in Bit, Phase4(reset, line),
         Camera!Observe(sdioc, Level(sdiod), sdioc', Level(sdiod')), Count, BusTypeOK'
  PROVE  IInv'
<1> USE DEF IInv
<1>1. /\ state = "Phase4" /\ state' \in {"Phase4", "FIN", "HALT"} /\ BitsOut \in 0..9
      /\ sdiod \in Bit /\ cam_clk \in Bit /\ state_counter \in Nat /\ sdioc = 1 - cam_clk
      /\ sent = SCCB_COUNTER /\ SCCB_COUNTER >= 1 /\ garbage = 0
      /\ (IF BitsOut <= 8 THEN cphase = "reading" /\ cbits = BitsOut ELSE cphase = "idle")
      /\ UNCHANGED <<SCCB_COUNTER, Sub_address, Write_data, garbage, garbage2,
                     IP_address_Write, IP_address_Read>>
  BY DEF Phase4, Goto, BusTypeOK, TypeOK, Word, Bit, HiZ, BitInv, PinInv, CounterInv,
         Transfer, Sending, SentInv, InStep, counters, entry, ids
<1>2. IdInv' /\ EntryMatchesCounter' /\ ByteInv'
  BY <1>1 DEF IdInv, EntryMatchesCounter, ByteInv, Sending
<1>3. CounterInv'
  BY <1>1 DEF CounterInv, Transfer, Sending
<1>4. CASE cam_clk = 0
  <2>1. /\ cam_clk' = 1 /\ sdioc = 1 /\ sdioc' = 0 /\ state_counter \in 0..9
        /\ state_counter' = state_counter + 1 /\ state' \in {"Phase4", "HALT"}
        /\ BitsOut = state_counter /\ BitsOut' = BitsOut /\ sent' = sent
    BY <1>1, <1>4 DEF Phase4, Goto, LowHalf, HighHalf, BitsOut, Count
  <2>2. UNCHANGED <<cphase, cbits, cshift, csub>>
    BY <2>1, SeenLow DEF Camera!Fall
  <2>3. /\ state_counter \in {8, 9} => sdiod' = 9 - state_counter /\ curr_data' = sdiod'
        /\ state_counter \notin {8, 9} => sdiod' = sdiod
    BY <1>1, <1>4, <2>1 DEF Phase4, LowHalf, HighHalf
  <2>4. BitInv'
    BY <1>1, <2>1 DEF BitInv
  <2>5. PinInv'
    BY <1>1, <2>1, <2>3 DEF PinInv, Transfer, Sending, Bit, HiZ
  <2>6. InStep' /\ WriteInv' /\ SentInv'
    BY <1>1, <2>1, <2>2 DEF InStep, WriteInv, SentInv, Camera!Commit
  <2> QED
    BY <1>2, <1>3, <2>4, <2>5, <2>6
<1>5. CASE cam_clk = 1
  <2>1. /\ cam_clk' = 0 /\ sdioc = 0 /\ sdioc' = 1 /\ state_counter \in 1..10
        /\ state_counter' = (IF state_counter = 10 THEN 0 ELSE state_counter)
        /\ state' \in {IF state_counter = 10 THEN "FIN" ELSE "Phase4", "HALT"}
        /\ BitsOut = state_counter - 1 /\ BitsOut' = state_counter'
        /\ sent' = sent
    BY <1>1, <1>5 DEF Phase4, Goto, LowHalf, HighHalf, BitsOut, Bit, Count, Camera!Commit
  <2>2. sdiod' = sdiod /\ (state_counter = 10 => sdiod = 0)
    <3>1. /\ state_counter \in {9, 10} => sdiod = curr_data
          /\ state_counter = 10 => sdiod = 0
      BY <1>1, <1>5 DEF PinInv
    <3> QED
      BY <1>5, <3>1 DEF Phase4, LowHalf, HighHalf
  <2>3. Camera!Rise(sdiod)
    BY <1>1, <2>1, <2>2, SeenHigh DEF Level, Bit, HiZ
  <2>4. BitInv'
    BY <1>1, <2>1 DEF BitInv
  <2>5. PinInv'
    BY <1>1, <2>1, <2>2 DEF PinInv, Transfer, Sending, Bit, HiZ
  <2>6. IF state_counter <= 8 THEN cphase' = "reading" /\ cbits' = state_counter
                              ELSE cphase' = "idle"
    BY <1>1, <2>1, <2>3 DEF Camera!Rise, Camera!Shift, Camera!NinthBit, Camera!cvars
  <2>7. InStep' /\ WriteInv' /\ SentInv'
    BY <1>1, <2>1, <2>6 DEF InStep, WriteInv, SentInv
  <2> QED
    BY <1>2, <1>3, <2>4, <2>5, <2>7
<1> QED
  BY <1>1, <1>4, <1>5 DEF Bit

LEMMA FINStep ==
  ASSUME IInv, NEW reset \in BOOLEAN, FIN(reset),
         Camera!Observe(sdioc, Level(sdiod), sdioc', Level(sdiod')), Count, BusTypeOK'
  PROVE  IInv'
<1> USE DEF IInv
<1>1. /\ state = "FIN" /\ sdioc = 1 /\ sdioc' = 1 /\ sdiod = 0 /\ sdiod' = 0
      /\ state' \in {IF garbage = 20 THEN "STOP" ELSE "FIN", "HALT"}
      /\ garbage \in 0..20 /\ (garbage > 0 => SCCB_COUNTER # Last)
      /\ garbage' = (IF SCCB_COUNTER # Last THEN garbage + 1 ELSE garbage)
      /\ sent' = sent /\ sent = SCCB_COUNTER /\ SCCB_COUNTER \in 1..Last
      /\ UNCHANGED <<SCCB_COUNTER, IP_address_Write, IP_address_Read>>
  BY LastAssumption DEF FIN, Pause, Goto, CounterInv, PinInv, SentInv, Count, ids
<1>2. [sub |-> Sub_address', data |-> Write_data'] = Program[SCCB_COUNTER]
  <2>1. Entry[SCCB_COUNTER] \in RegisterWrite
    BY <1>1, EntryAssumption, LastAssumption
  <2>2. Sub_address' = Entry[SCCB_COUNTER].sub /\ Write_data' = Entry[SCCB_COUNTER].data
    BY <1>1 DEF FIN, LoadEntry
  <2> QED
    BY <1>1, <2>1, <2>2, ProgramEntry DEF RegisterWrite
<1>3. UNCHANGED cvars
  BY <1>1, SeenRest DEF Level, HiZ, Bit
<1>4. CounterInv' /\ BitInv' /\ PinInv' /\ IdInv'
  <2>1. CounterInv'
    BY <1>1, LastAssumption DEF CounterInv, Transfer, Sending
  <2>2. BitInv' /\ PinInv' /\ IdInv'
    BY <1>1 DEF BitInv, PinInv, IdInv, Transfer, Sending
  <2> QED
    BY <2>1, <2>2
<1>5. EntryMatchesCounter'
  BY <1>1, <1>2 DEF EntryMatchesCounter, Sending
<1>6. InStep' /\ ByteInv' /\ WriteInv' /\ SentInv'
  BY <1>1, <1>3 DEF InStep, ByteInv, WriteInv, SentInv, Sending, cvars
<1> QED
  BY <1>4, <1>5, <1>6

-------------------------------------------------------------------------------
LEMMA LineType == BusTypeOK => Line(sdiod, cdrive) \subseteq Bit
BY RegistersAssumption DEF BusTypeOK, TypeOK, Line, Level, HiZ, Bit

LEMMA StepIInv == IInv /\ [BusNext]_vars => IInv'
<1> SUFFICES ASSUME IInv, [BusNext]_vars PROVE IInv'
  OBVIOUS
<1>1. ASSUME NEW reset \in BOOLEAN, NEW run \in BOOLEAN, NEW line \in Line(sdiod, cdrive),
             Clock(reset, run, line),
             Camera!Observe(sdioc, Level(sdiod), sdioc', Level(sdiod')), Count
      PROVE  IInv'
  <2>1. line \in Bit
    BY LineType DEF IInv
  <2>2. TypeOK'
    BY <1>1, <2>1, MasterType DEF IInv, BusTypeOK
  <2>3. sdioc \in Bit /\ sdioc' \in Bit /\ Level(sdiod) \in Bit /\ Level(sdiod') \in Bit
    BY <2>2 DEF IInv, BusTypeOK, TypeOK, Level, HiZ, Bit
  <2>4. sent' \in 0..Last
    <3>1. sent \in 0..Last /\ SCCB_COUNTER \in 0..Last
      BY DEF IInv, SentInv, CounterInv
    <3>2. sdioc = 0 /\ Camera!Commit => SCCB_COUNTER >= 1 /\ sent = SCCB_COUNTER - 1
      BY DEF IInv, WriteInv
    <3> QED
      BY <1>1, <3>1, <3>2, LastAssumption DEF Count
  <2>5. BusTypeOK'
    BY <1>1, <2>2, <2>3, <2>4, CameraType DEF IInv, BusTypeOK
  <2>6. CASE HALT(reset, run)
    BY <1>1, <2>5, <2>6, HALTStep
  <2>7. CASE STOP(reset)
    BY <1>1, <2>5, <2>7, STOPStep
  <2>8. CASE PREP(reset)
    BY <1>1, <2>5, <2>8, PREPStep
  <2>9. CASE Phase1(reset) \/ Phase2(reset) \/ Phase3(reset)
    <3>1. CASE Phase1(reset)
      <4>1. SendByte(reset, "Phase1", IP_address_Write, After("Phase1"))
        BY <3>1 DEF Phase1, After
      <4> QED
        BY <1>1, <2>5, <4>1, SendStep
    <3>2. CASE Phase2(reset)
      <4>1. SendByte(reset, "Phase2", Sub_address, After("Phase2"))
        BY <3>2 DEF Phase2, After
      <4> QED
        BY <1>1, <2>5, <4>1, SendStep
    <3>3. CASE Phase3(reset)
      <4>1. SendByte(reset, "Phase3", IP_address_Read, After("Phase3"))
        BY <3>3 DEF Phase3, After
      <4> QED
        BY <1>1, <2>5, <4>1, SendStep
    <3> QED
      BY <2>9, <3>1, <3>2, <3>3
  <2>10. CASE INPUT(reset)
    BY <1>1, <2>5, <2>10, INPUTStep
  <2>11. CASE BREAK(reset)
    BY <1>1, <2>5, <2>11, BREAKStep
  <2>12. CASE Phase4(reset, line)
    BY <1>1, <2>1, <2>5, <2>12, Phase4Step
  <2>13. CASE FIN(reset)
    BY <1>1, <2>5, <2>13, FINStep
  <2> QED
    BY <1>1, <2>6, <2>7, <2>8, <2>9, <2>10, <2>11, <2>12, <2>13 DEF Clock
<1>2. CASE UNCHANGED vars
  <2> USE <1>2 DEF IInv, vars, mvars, cvars, counters, preps, entry, ids
  <2>1. BusTypeOK'
    BY DEF BusTypeOK, TypeOK
  <2>2. CounterInv' /\ BitInv' /\ PinInv' /\ IdInv'
    BY DEF CounterInv, BitInv, PinInv, IdInv, BitsOut
  <2>3. EntryMatchesCounter' /\ InStep'
    BY DEF EntryMatchesCounter, InStep, BitsOut
  <2>4. ByteInv' /\ WriteInv' /\ SentInv'
    BY DEF ByteInv, Current, WriteInv, SentInv, BitsOut, Camera!Commit
  <2> QED
    BY <2>1, <2>2, <2>3, <2>4
<1> QED
  BY <1>1, <1>2 DEF BusNext

(***************************************************************************)
(* The inductive invariant holds of every state the bus can be in, for     *)
(* every table; with it the types and all the invariants it is made of:    *)
(* no counter wraps, no register write is reloaded while it is sent, and   *)
(* the camera is at the bit the master is at whatever Reset interrupts.    *)
(***************************************************************************)
THEOREM BusInvariant == Spec => []IInv
<1>1. BusInit => IInv
  BY InitIInv
<1>2. IInv /\ [BusNext]_vars => IInv'
  BY StepIInv
<1> QED
  BY <1>1, <1>2, PTL DEF Spec

(* Type correctness of master, camera and history.                         *)
THEOREM TypeCorrect == Spec => []BusTypeOK
<1>1. IInv => BusTypeOK
  BY DEF IInv
<1> QED
  BY <1>1, BusInvariant, PTL

(* The pair being sent is the one SCCB_COUNTER stands for.                 *)
THEOREM EntriesMatch == Spec => []EntryMatchesCounter
<1>1. IInv => EntryMatchesCounter
  BY DEF IInv
<1> QED
  BY <1>1, BusInvariant, PTL

(* The camera never loses the master's byte and bit position.              *)
THEOREM Framing == Spec => []InStep
<1>1. IInv => InStep
  BY DEF IInv
<1> QED
  BY <1>1, BusInvariant, PTL

-------------------------------------------------------------------------------
(* With the clock pin high the data pin moves only where the code means a  *)
(* START, a STOP or the release of the bus.                                *)
THEOREM DataOnlyMovesForStartStop == Spec => DataStable
<1> DEFINE Still == (sdioc = 1 /\ sdioc' = 1 /\ Level(sdiod') # Level(sdiod))
                      => state \in {"HALT", "STOP", "PREP", "BREAK"}
<1>1. IInv /\ [BusNext]_vars => [Still]_vars
  <2> SUFFICES ASSUME IInv, BusNext PROVE Still
    OBVIOUS
  <2>1. PICK reset \in BOOLEAN, run \in BOOLEAN, line \in Line(sdiod, cdrive) :
           Clock(reset, run, line)
    BY DEF BusNext
  <2>2. CASE HALT(reset, run) \/ STOP(reset) \/ PREP(reset) \/ BREAK(reset)
    BY <2>2 DEF HALT, STOP, PREP, BREAK
  <2>3. CASE Phase1(reset) \/ Phase2(reset) \/ Phase3(reset) \/ INPUT(reset)
             \/ Phase4(reset, line)
    <3>1. sdioc = 1 => sdioc' = 0
      BY <2>3 DEF Phase1, Phase2, Phase3, SendByte, INPUT, Phase4, LowHalf, HighHalf,
                  IInv, PinInv, Transfer, Sending
    <3> QED
      BY <3>1
  <2>4. CASE FIN(reset)
    BY <2>4 DEF FIN, IInv, PinInv
  <2> QED
    BY <2>1, <2>2, <2>3, <2>4 DEF Clock
<1> QED
  BY <1>1, BusInvariant, PTL DEF Spec, DataStable

(***************************************************************************)
(* The bus implements RegisterProgram: whatever clock Reset is pressed at, *)
(* each write the camera performs is the next of the program, with the     *)
(* whole address and the whole byte, and nothing else touches a register.  *)
(***************************************************************************)
THEOREM Implementation == Spec => ImplementsProgram
<1>1. BusInit => Abstract!Init
  BY DEF BusInit, Camera!CInit, Abstract!Init
<1>2. IInv /\ [BusNext]_vars => [Abstract!Next]_(Abstract!avars)
  <2> SUFFICES ASSUME IInv, BusNext PROVE [Abstract!Next]_(Abstract!avars)
    BY DEF vars, cvars, Abstract!avars
  <2>1. PICK reset \in BOOLEAN, run \in BOOLEAN, line \in Line(sdiod, cdrive) :
           /\ Clock(reset, run, line)
           /\ Camera!Observe(sdioc, Level(sdiod), sdioc', Level(sdiod'))
           /\ Count
    BY DEF BusNext
  <2>2. CASE sdioc = 0 /\ sdioc' = 1 /\ Camera!Commit
    <3>1. /\ SCCB_COUNTER >= 1 /\ SCCB_COUNTER \in 0..Last /\ sent = SCCB_COUNTER - 1
          /\ csub = Program[sent].sub /\ cshift = Program[sent].data
          /\ state # "STOP"
      BY <2>2 DEF IInv, WriteInv, CounterInv, PinInv
    <3>2. Camera!NinthBit
      BY <2>1, <2>2 DEF Camera!Observe, Camera!Rise, Camera!Shift, Camera!Commit
    <3>3. regs' = Camera!Written(regs, csub, cshift)
      BY <2>2, <3>2 DEF Camera!NinthBit
    <3>4. sent' = sent + 1
      BY <2>1, <2>2, <3>1 DEF Count
    <3>5. sent < Last
      BY <3>1, LastAssumption
    <3> QED
      BY <3>1, <3>3, <3>4, <3>5 DEF Abstract!Next, Abstract!Write, Abstract!Written,
                                    Camera!Written
  <2>3. CASE ~ (sdioc = 0 /\ sdioc' = 1 /\ Camera!Commit)
    <3>1. regs' = regs
      BY <2>1, <2>3 DEF Camera!Observe, Camera!Rise, Camera!Shift, Camera!NinthBit,
         Camera!Fall, Camera!Start, Camera!Stop, Camera!cvars
    <3>2. sent' = sent \/ sent' = 0
      BY <2>1, <2>3 DEF Count
    <3> QED
      BY <3>1, <3>2 DEF Abstract!Next, Abstract!Restart, Abstract!avars
  <2> QED
    BY <2>2, <2>3
<1> QED
  BY <1>1, <1>2, BusInvariant, PTL DEF Spec, ImplementsProgram, Abstract!Spec

-------------------------------------------------------------------------------
(***************************************************************************)
(* The registers in the hiatus.  Config is a recursive function: that a    *)
(* function with its equation exists is shown for 0..n by induction on n,  *)
(* which is the least element of a set of numbers.                         *)
(***************************************************************************)
LEMMA NumberInduction ==
  ASSUME NEW S, 0 \in S, \A n \in Nat : n \in S => n + 1 \in S
  PROVE  Nat \subseteq S
<1> DEFINE T == Nat \ S
           R == OpToRel(<, Nat)
<1>1. IsWellFoundedOn(R, Nat)
  BY NatLessThanWellFounded, Zenon
<1>2. R = {ss \in Nat \X Nat : ss[1] < ss[2]}
  BY DEF OpToRel
<1>3. T \subseteq Nat
  OBVIOUS
<1> HIDE DEF R
<1>4. SUFFICES ASSUME T # {} PROVE FALSE
  OBVIOUS
<1>5. PICK x \in T : \A y \in T : ~ (<<y, x>> \in R)
  BY <1>1, <1>3, <1>4, WFMin
<1>6. x \in Nat /\ x # 0 /\ x - 1 \in Nat /\ x - 1 + 1 = x
  OBVIOUS
<1>7. x - 1 \notin S
  BY <1>6
<1>8. <<x - 1, x>> \in R
  BY <1>2, <1>6
<1> QED
  BY <1>5, <1>6, <1>7, <1>8

AfterReset == [r \in Registers |-> Default]
Next1(file, k) == Camera!Written(file, Program[k - 1].sub, Program[k - 1].data)
Follows(f, n) == f = [k \in 0..n |-> IF k = 0 THEN AfterReset ELSE Next1(f[k - 1], k)]

LEMMA ConfigExists == ASSUME NEW n \in Nat PROVE \E f : Follows(f, n)
<1> DEFINE S == {m \in Nat : \E f : Follows(f, m)}
<1>1. 0 \in S
  <2>1. Follows([k \in 0..0 |-> AfterReset], 0)
    BY DEF Follows
  <2> QED
    BY <2>1
<1>2. ASSUME NEW m \in Nat, m \in S PROVE m + 1 \in S
  <2>1. PICK f : Follows(f, m)
    BY <1>2
  <2> DEFINE g == [k \in 0..(m + 1) |-> IF k = m + 1 THEN Next1(f[m], m + 1) ELSE f[k]]
  <2>2. ASSUME NEW k \in 0..(m + 1)
        PROVE  g[k] = IF k = 0 THEN AfterReset ELSE Next1(g[k - 1], k)
    <3>1. CASE k = m + 1
      <4>1. g[k] = Next1(f[m], m + 1) /\ k # 0
        BY <3>1
      <4>2. g[k - 1] = f[m] 
        BY <3>1
      <4> QED
        BY <3>1, <4>1, <4>2
    <3>2. CASE k \in 0..m
      <4>1. g[k] = f[k] /\ f[k] = IF k = 0 THEN AfterReset ELSE Next1(f[k - 1], k)
        BY <2>1, <3>2 DEF Follows
      <4>2. k # 0 => g[k - 1] = f[k - 1]
        BY <3>2
      <4> QED
        BY <4>1, <4>2
    <3> QED
      BY <3>1, <3>2
  <2>3. Follows(g, m + 1)
    <3>1. DOMAIN g = 0..(m + 1) /\ g = [k \in 0..(m + 1) |-> g[k]]
      OBVIOUS
    <3> HIDE DEF g
    <3> QED
      BY <2>2, <3>1 DEF Follows
  <2> QED
    BY <2>3
<1> HIDE DEF S
<1>3. Nat \subseteq S
  BY <1>1, <1>2, NumberInduction
<1> QED
  BY <1>3 DEF S

LEMMA ConfigIs ==
  ASSUME NEW k \in 0..Last
  PROVE  Config[k] = IF k = 0 THEN AfterReset ELSE Next1(Config[k - 1], k)
<1>1. Config = CHOOSE f : Follows(f, Last)
  BY DEF Config, Follows, AfterReset, Next1
<1>2. \E f : Follows(f, Last)
  BY ConfigExists, LastAssumption
<1>3. Follows(Config, Last)
  BY <1>1, <1>2
<1> QED
  BY <1>3 DEF Follows

(* After k writes of a run, k > 0, the registers are Config[k]: the first  *)
(* write of every run resets the device, so what an earlier run left is    *)
(* forgotten (HALT, lines 135 to 140, loads RESET_ADDR and RESET_DATA).            *)
Configured == sent >= 1 => regs = Config[sent]

LEMMA ProgramConfigures ==
  ASSUME ResetEntry.sub = COM7, ResetEntry.data[7] = 1
  PROVE  Spec => []Configured
<1>1. BusInit => Configured
  BY DEF BusInit, Configured
<1>2. IInv /\ Configured /\ [Abstract!Next]_(Abstract!avars) => Configured'
  <2> SUFFICES ASSUME IInv, Configured, [Abstract!Next]_(Abstract!avars) PROVE Configured'
    OBVIOUS
  <2>1. sent \in 0..Last
    BY DEF IInv, SentInv
  <2>2. CASE Abstract!Write
    <3>1. PICK n \in 0..Last : n = sent
      BY <2>1
    <3>2. sent' = n + 1 /\ n + 1 \in 0..Last /\ regs' = Next1(regs, n + 1)
      BY <2>2, <3>1, LastAssumption DEF Abstract!Write, Abstract!Written, Next1, Camera!Written
    <3>3. Config[n + 1] = Next1(Config[n], n + 1)
      BY <3>2, ConfigIs
    <3>4. CASE n = 0
      <4>1. Program[0].sub = COM7 /\ Program[0].data[7] = 1
        BY ProgramZero
      <4>2. \A file : Next1(file, 1) = AfterReset
        BY <4>1 DEF Next1, Camera!Written, AfterReset
      <4> QED
        BY <3>2, <3>3, <3>4, <4>2 DEF Configured
    <3>5. CASE n >= 1
      BY <3>1, <3>2, <3>3, <3>5 DEF Configured
    <3> QED
      BY <3>4, <3>5
  <2>3. CASE Abstract!Restart
    BY <2>3 DEF Abstract!Restart, Configured
  <2>4. CASE UNCHANGED Abstract!avars
    BY <2>4 DEF Abstract!avars, Configured
  <2> QED
    BY <2>2, <2>3, <2>4 DEF Abstract!Next
<1>3. Abstract!Spec => [][Abstract!Next]_(Abstract!avars)
  BY DEF Abstract!Spec
<1> QED
  BY <1>1, <1>2, <1>3, BusInvariant, Implementation, PTL DEF Spec, ImplementsProgram

(***************************************************************************)
(* In the hiatus the camera holds the configured registers, from whatever  *)
(* an interrupted run left in it, when the first entry is a device reset.  *)
(***************************************************************************)
THEOREM HiatusConfigured ==
  ASSUME ResetEntry.sub = COM7, ResetEntry.data[7] = 1
  PROVE  Spec => []ConfiguredAtHiatus
<1>1. IInv /\ Configured => ConfiguredAtHiatus
  <2> SUFFICES ASSUME IInv, Configured, Hiatus PROVE sent = Last /\ regs = Config[Last]
    BY DEF ConfiguredAtHiatus
  <2>1. sent = Last
    BY DEF IInv, SentInv, Hiatus
  <2> QED
    BY <2>1, LastAssumption DEF Configured
<1> QED
  BY <1>1, BusInvariant, ProgramConfigures, PTL
===============================================================================
