-------------------------------- MODULE JtagUart --------------------------------
(***************************************************************************)
(* The interrupt-driven JTAG UART driver of the board support package      *)
(* (IOmodule_bsp/drivers), with the core it drives and the host behind it. *)
(* Two threads of control share the driver's state: the program, in one    *)
(* call of read, write or close, and the interrupt routine, which runs     *)
(* with interrupts off (pie FALSE) and stops the program while it does.    *)
(* The host moves at any time, between the steps of both.                  *)
(*                                                                         *)
(* A memcpy is one step: the interrupt routine never touches the part of   *)
(* a buffer the program copies to or from.  RI and WI are modelled without *)
(* the core's thresholds: a FIFO that is not empty, not full.  A slot that *)
(* was emptied is marked Free where the code leaves the old character.     *)
(***************************************************************************)
EXTENDS Integers, Sequences

CONSTANTS
  BufLen,        \* ALTERA_AVALON_JTAG_UART_BUF_LEN
  FifoDepth,     \* of each hardware FIFO
  Typed, Printed, \* characters the host sends, and the program
  MaxCall,       \* bytes in one call of read or write
  IntMax,        \* INT_MAX
  Timeouts,      \* values the program asks for with TIOCSTIMEOUT
  Free           \* what a slot that is not held reads as

ASSUME BufLenAssumption == BufLen \in Nat /\ BufLen > 1
ASSUME SizeAssumption   == FifoDepth \in Nat \ {0} /\ MaxCall \in Nat \ {0}
ASSUME TimeAssumption   == IntMax \in Nat /\ IntMax > 3 /\ Timeouts \subseteq 0..IntMax
ASSUME FreeAssumption   == Free \notin Typed \cup Printed

VARIABLES
  rxBuf, rxIn, rxOut, txBuf, txIn, txOut,   \* the two circular buffers
  irqEnable,                                \* copy of the enables, kept in memory
  hostInactive, timeout, alarmOn,           \* the host watchdog
  control, rxFifo, txFifo,                  \* the core: enables, FIFOs
  pie, isr,                                 \* interrupts on; the interrupt routine
  call, chunk, tmp                          \* the program

rx     == <<rxBuf, rxIn, rxOut>>
tx     == <<txBuf, txIn, txOut>>
dog    == <<hostInactive, timeout, alarmOn>>
core   == <<control, rxFifo, txFifo>>
enable == <<irqEnable, control>>
prog   == <<call, chunk, tmp>>
vars   == <<rx, tx, irqEnable, dog, core, pie, isr, prog>>

Slots   == 0..(BufLen - 1)
Enables == SUBSET {"RE", "WE"}
Lesser(a, b) == IF a < b THEN a ELSE b
Wrap(n) == n % BufLen

(* What a circular buffer holds, oldest first.                             *)
Fill(in, out) == (in + BufLen - out) % BufLen
Held(buf, in, out) == [k \in 1..Fill(in, out) |-> buf[Wrap(out + k - 1)]]
RxHeld == Held(rxBuf, rxIn, rxOut)
TxHeld == Held(txBuf, txIn, txOut)

NoCall == [op |-> "none", pc |-> "idle", left |-> 0, moved |-> FALSE,
           nonblock |-> FALSE, seen |-> 0]
IsrOff == [pc |-> "off", space |-> 0, avail |-> FALSE]

(* The state structure is zero but for timeout; altera_avalon_jtag_uart_init *)
(* has not run, and alt_irq_init has already let interrupts in.            *)
Init ==
  /\ rxBuf = [s \in Slots |-> Free] /\ txBuf = rxBuf
  /\ rxIn = 0 /\ rxOut = 0 /\ txIn = 0 /\ txOut = 0
  /\ irqEnable = {} /\ control = {}
  /\ hostInactive = 0 /\ timeout = 2 /\ alarmOn = FALSE
  /\ rxFifo = <<>> /\ txFifo = <<>>
  /\ pie = TRUE /\ isr = IsrOff
  /\ call = [NoCall EXCEPT !.pc = "init"] /\ chunk = <<>> /\ tmp = {}

-------------------------------------------------------------------------------
(* altera_avalon_jtag_uart_init: receive interrupts on at the core before  *)
(* the routine is registered, then the watchdog; with no system clock      *)
(* alt_alarm_start fails and the host counts as present for ever.          *)
EnableReceive ==
  /\ call.pc = "init"
  /\ irqEnable' = {"RE"} /\ control' = {"RE"}
  /\ call' = [call EXCEPT !.pc = "register"]
  /\ UNCHANGED <<rx, tx, dog, rxFifo, txFifo, pie, isr, chunk, tmp>>

StartWatchdog ==
  /\ call.pc = "register"
  /\ hostInactive' = 0
  /\ alarmOn' \in BOOLEAN
  /\ timeout' = IF alarmOn' THEN timeout ELSE IntMax
  /\ call' = NoCall
  /\ UNCHANGED <<rx, tx, irqEnable, core, pie, isr, chunk, tmp>>

Registered == call.pc \notin {"init", "register"}
HostIsInactive == hostInactive >= timeout

(* altera_avalon_jtag_uart_timeout, once a second in the clock's interrupt: *)
(* the host has looked at the core since, or it has not.                   *)
Looked ==
  /\ alarmOn /\ pie
  /\ hostInactive' = 0 /\ control' = irqEnable
  /\ UNCHANGED <<rx, tx, irqEnable, timeout, alarmOn, rxFifo, txFifo, pie, isr, prog>>

NotLooked ==
  /\ alarmOn /\ pie /\ hostInactive < IntMax - 2
  /\ hostInactive' = hostInactive + 1
  /\ UNCHANGED <<rx, tx, irqEnable, timeout, alarmOn, core, pie, isr, prog>>
Timeout == Looked \/ NotLooked

-------------------------------------------------------------------------------
(* The interrupt routine.                                                  *)
Ri == "RE" \in control /\ rxFifo # <<>>
Wi == "WE" \in control /\ Len(txFifo) < FifoDepth

IsrEnter ==
  /\ pie /\ Registered /\ isr.pc = "off" /\ (Ri \/ Wi)
  /\ pie' = FALSE
  /\ isr' = [isr EXCEPT !.pc = "control"]
  /\ UNCHANGED <<rx, tx, irqEnable, dog, core, prog>>

(* One read of the control register serves a whole turn of the loop; the   *)
(* space it shows is a lower bound by the time it is used.                 *)
IsrControl ==
  /\ isr.pc = "control"
  /\ IF Ri \/ Wi
     THEN /\ isr' = [pc |-> IF Ri THEN "rx" ELSE "tx", avail |-> Ri,
                     space |-> IF Wi THEN FifoDepth - Len(txFifo) ELSE 0]
          /\ UNCHANGED pie
     ELSE isr' = IsrOff /\ pie' = TRUE
  /\ UNCHANGED <<rx, tx, irqEnable, dog, core, prog>>

NeverFull == FALSE                                 \* mutant of RxFull
RxFull == Wrap(rxIn + 1) = rxOut

(* The receive loop: a character at a time while the buffer has room; a    *)
(* read of the empty FIFO is not valid and ends the loop too.              *)
IsrReceive ==
  /\ isr.pc = "rx" /\ ~RxFull
  /\ IF rxFifo = <<>>
     THEN /\ isr' = [isr EXCEPT !.pc = "rx_end", !.avail = FALSE]
          /\ UNCHANGED <<rx, rxFifo>>
     ELSE /\ rxBuf' = [rxBuf EXCEPT ![rxIn] = Head(rxFifo)]
          /\ rxIn' = Wrap(rxIn + 1)
          /\ rxFifo' = Tail(rxFifo)
          /\ isr' = [isr EXCEPT !.avail = rxFifo' # <<>>]
          /\ UNCHANGED rxOut
  /\ UNCHANGED <<tx, irqEnable, dog, control, txFifo, pie, prog>>

IsrReceiveStop ==
  /\ isr.pc = "rx" /\ RxFull
  /\ isr' = [isr EXCEPT !.pc = "rx_end"]
  /\ UNCHANGED <<rx, tx, irqEnable, dog, core, pie, prog>>

(* Characters are left and the buffer is full: no more receive interrupts. *)
IsrReceiveEnd ==
  /\ isr.pc = "rx_end"
  /\ IF isr.avail
     THEN irqEnable' = irqEnable \ {"RE"} /\ control' = irqEnable'
     ELSE UNCHANGED enable
  /\ isr' = [isr EXCEPT !.pc = IF isr.space > 0 THEN "tx" ELSE "control",
                        !.avail = FALSE]
  /\ UNCHANGED <<rx, tx, dog, rxFifo, txFifo, pie, prog>>

IsrSend ==
  /\ isr.pc = "tx" /\ isr.space > 0 /\ txOut # txIn
  /\ txFifo' = Append(txFifo, txBuf[txOut])
  /\ txBuf' = [txBuf EXCEPT ![txOut] = Free]
  /\ txOut' = Wrap(txOut + 1)
  /\ isr' = [isr EXCEPT !.space = @ - 1]
  /\ UNCHANGED <<rx, txIn, irqEnable, dog, control, rxFifo, pie, prog>>

(* Room is left and nothing to send: no more transmit interrupts.          *)
IsrSendEnd ==
  /\ isr.pc = "tx" /\ (isr.space = 0 \/ txOut = txIn)
  /\ IF isr.space > 0
     THEN irqEnable' = irqEnable \ {"WE"} /\ control' = irqEnable'
     ELSE UNCHANGED enable
  /\ isr' = [isr EXCEPT !.pc = "control", !.space = 0]
  /\ UNCHANGED <<rx, tx, dog, rxFifo, txFifo, pie, prog>>

Isr == IsrEnter \/ IsrControl \/ IsrReceive \/ IsrReceiveStop \/ IsrReceiveEnd
       \/ IsrSend \/ IsrSendEnd

-------------------------------------------------------------------------------
(* The program.  It moves only while the interrupt routine does not run.   *)
At(pc) == call.pc = pc /\ isr.pc = "off"
Goto(pc) == call' = [call EXCEPT !.pc = pc]
Quiet == UNCHANGED <<rx, tx, irqEnable, dog, core, pie, isr>>

Begin(op, pc) ==
  /\ At("idle")
  /\ \E n \in 1..MaxCall, nb \in BOOLEAN :
       call' = [op |-> op, pc |-> pc, left |-> n, moved |-> FALSE, nonblock |-> nb, seen |-> 0]
  /\ Quiet /\ UNCHANGED <<chunk, tmp>>
StartRead  == Begin("read", "rd.load")
StartWrite == Begin("write", "wr.load")
StartClose ==
  /\ At("idle")
  /\ \E nb \in BOOLEAN : call' = [NoCall EXCEPT !.op = "close", !.pc = "close", !.nonblock = nb]
  /\ Quiet /\ UNCHANGED <<chunk, tmp>>

(* TIOCSTIMEOUT; without a watchdog it is refused.                         *)
SetTimeout ==
  /\ At("idle") /\ timeout # IntMax
  /\ \E t \in Timeouts : timeout' = IF t >= 2 /\ t < IntMax THEN t ELSE IntMax - 1
  /\ UNCHANGED <<rx, tx, irqEnable, hostInactive, alarmOn, core, pie, isr, prog>>

(* read.  What lies between rx_out and rx_in, or the end of the buffer.    *)
Readable == IF rxIn >= rxOut THEN rxIn - rxOut ELSE BufLen - rxOut

ReadLoad ==
  /\ At("rd.load")
  /\ LET n == Lesser(Readable, call.left) IN
       /\ chunk' = [k \in 1..n |-> rxBuf[rxOut + k - 1]]
       /\ call' = [call EXCEPT !.seen = IF n = 0 THEN rxIn ELSE 0,
                             !.pc = IF n = 0 THEN "rd.empty" ELSE "rd.publish"]
  /\ Quiet /\ UNCHANGED tmp

(* The space is given back after the copy.                                 *)
ReadPublish ==
  /\ At("rd.publish")
  /\ rxOut' = Wrap(rxOut + Len(chunk))
  /\ rxBuf' = [s \in Slots |-> IF s \in rxOut..(rxOut + Len(chunk) - 1) THEN Free ELSE rxBuf[s]]
  /\ call' = [call EXCEPT !.left = @ - Len(chunk), !.moved = TRUE,
                          !.pc = IF call.left > Len(chunk) THEN "rd.load" ELSE "rd.empty"]
  /\ chunk' = <<>>
  /\ UNCHANGED <<rxIn, tx, irqEnable, dog, core, pie, isr, tmp>>

Return == call' = NoCall

LeaveDisabled ==                                   \* mutant of ReadEmpty
  /\ At("rd.empty")
  /\ IF call.moved \/ call.nonblock THEN Return ELSE Goto("rd.spin")
  /\ Quiet /\ UNCHANGED <<chunk, tmp>>

(* Anything read is returned; nothing to read ends a non-blocking call.    *)
ReadEmpty ==
  /\ At("rd.empty")
  /\ IF call.moved THEN Goto("off") ELSE IF call.nonblock THEN Return ELSE Goto("rd.spin")
  /\ Quiet /\ UNCHANGED <<chunk, tmp>>

ReadSpin ==
  /\ At("rd.spin") /\ (call.seen # rxIn \/ HostIsInactive)
  /\ Goto("rd.check")
  /\ Quiet /\ UNCHANGED <<chunk, tmp>>

(* rx_in is read again: data that came with the timeout is not lost.       *)
ReadCheck ==
  /\ At("rd.check")
  /\ IF call.seen = rxIn THEN Return ELSE Goto("rd.load")
  /\ Quiet /\ UNCHANGED <<chunk, tmp>>

FillWhole == IF txIn < txOut THEN txOut - 1 - txIn  \* mutant of Writable
             ELSE BufLen - txIn
(* write.  One slot stays free, so that a full buffer is not an empty one. *)
Writable == IF txIn < txOut THEN txOut - 1 - txIn
            ELSE IF txOut > 0 THEN BufLen - txIn
            ELSE BufLen - 1 - txIn

WriteLoad ==
  /\ At("wr.load")
  /\ LET n == Lesser(Writable, call.left) IN
       /\ \E c \in [1..n -> Printed] :
            /\ chunk' = c
            /\ txBuf' = [s \in Slots |-> IF s - txIn + 1 \in 1..n THEN c[s - txIn + 1] ELSE txBuf[s]]
       /\ call' = [call EXCEPT !.seen = IF n = 0 THEN txOut ELSE 0,
                               !.pc = IF n = 0 THEN "off" ELSE "wr.publish"]
  /\ UNCHANGED <<rx, txIn, txOut, irqEnable, dog, core, pie, isr, tmp>>

KickWhenShort ==                                   \* mutant of WritePublish
  /\ At("wr.publish")
  /\ txIn' = Wrap(txIn + Len(chunk))
  /\ call' = IF call.left > Len(chunk)
             THEN [call EXCEPT !.left = @ - Len(chunk), !.moved = TRUE, !.pc = "wr.load"]
             ELSE NoCall
  /\ chunk' = <<>>
  /\ UNCHANGED <<rx, txBuf, txOut, irqEnable, dog, core, pie, isr, tmp>>
WritePublish ==
  /\ At("wr.publish")
  /\ txIn' = Wrap(txIn + Len(chunk))
  /\ call' = [call EXCEPT !.left = @ - Len(chunk), !.moved = TRUE,
                          !.pc = IF call.left > Len(chunk) THEN "wr.load" ELSE "off"]
  /\ chunk' = <<>>
  /\ UNCHANGED <<rx, txBuf, txOut, irqEnable, dog, core, pie, isr, tmp>>

(* The end of both: an interrupt is enabled, with interrupts off meanwhile *)
(* because the interrupt routine changes the same copy of the enables.     *)
Wanted == IF call.op = "read" THEN "RE" ELSE "WE"

DisableAll ==
  /\ At("off")
  /\ pie' = FALSE /\ tmp' = irqEnable \cup {Wanted}
  /\ Goto("on")
  /\ UNCHANGED <<rx, tx, irqEnable, dog, core, isr, chunk>>

(* A read is over, a write when nothing is left or it may not wait.        *)
EnableAll ==
  /\ At("on")
  /\ irqEnable' = tmp /\ control' = tmp
  /\ pie' = TRUE /\ tmp' = {}
  /\ IF call.op = "read" \/ call.left = 0 \/ call.nonblock THEN Return ELSE Goto("wr.spin")
  /\ UNCHANGED <<rx, tx, dog, rxFifo, txFifo, isr, chunk>>

WaitForRoom ==                                     \* mutant of WriteSpin
  /\ At("wr.spin") /\ call.seen # txOut
  /\ Goto("wr.check")
  /\ Quiet /\ UNCHANGED <<chunk, tmp>>
WriteSpin ==
  /\ At("wr.spin") /\ (call.seen # txOut \/ HostIsInactive)
  /\ Goto("wr.check")
  /\ Quiet /\ UNCHANGED <<chunk, tmp>>

(* A second without activity is enough to give up here.                    *)
WriteCheck ==
  /\ At("wr.check")
  /\ IF hostInactive # 0 THEN Return ELSE Goto("wr.load")
  /\ Quiet /\ UNCHANGED <<chunk, tmp>>

Close ==
  /\ At("close") /\ (call.nonblock \/ txOut = txIn \/ HostIsInactive)
  /\ Return
  /\ Quiet /\ UNCHANGED <<chunk, tmp>>

Continue == ReadLoad \/ ReadPublish \/ ReadEmpty \/ ReadSpin \/ ReadCheck
            \/ WriteLoad \/ WritePublish \/ WriteSpin \/ WriteCheck
            \/ DisableAll \/ EnableAll \/ Close
Initialise == EnableReceive \/ StartWatchdog
Program == Initialise \/ StartRead \/ StartWrite \/ StartClose \/ SetTimeout \/ Continue

-------------------------------------------------------------------------------
(* The host, external: it sends and takes characters when it likes, or it  *)
(* never does.                                                             *)
HostSend ==
  /\ Len(rxFifo) < FifoDepth
  /\ \E v \in Typed : rxFifo' = Append(rxFifo, v)
  /\ UNCHANGED <<rx, tx, irqEnable, dog, control, txFifo, pie, isr, prog>>

HostTake ==
  /\ txFifo # <<>>
  /\ txFifo' = Tail(txFifo)
  /\ UNCHANGED <<rx, tx, irqEnable, dog, control, rxFifo, pie, isr, prog>>

Host == HostSend \/ HostTake

Next == Program \/ Isr \/ Timeout \/ Host
Spec == Init /\ [][Next]_vars

(* The processor runs on, and interrupts are taken in spite of the moments *)
(* when they are off.                                                      *)
FairSpec == Spec /\ WF_vars(Initialise \/ Continue) /\ SF_vars(Isr)

-------------------------------------------------------------------------------
TypeOK ==
  /\ {rxIn, rxOut, txIn, txOut} \subseteq Slots
  /\ rxBuf \in [Slots -> Typed \cup {Free}] /\ txBuf \in [Slots -> Printed \cup {Free}]
  /\ irqEnable \in Enables /\ control \in Enables /\ tmp \in Enables
  /\ hostInactive \in 0..(IntMax - 2) /\ timeout \in 2..IntMax
  /\ Len(rxFifo) <= FifoDepth /\ Len(txFifo) <= FifoDepth
  /\ isr.space \in 0..FifoDepth /\ call.left \in 0..MaxCall

(* init.c 102-197, read.c 148, write.c 127: what the host sends is read,   *)
(* and what the program writes reaches the host, in order and whole,       *)
(* however interrupts fall between the steps of a call.                    *)
Input  == INSTANCE ByteStream WITH Values <- Typed, queue <- RxHeld \o rxFifo, item <- chunk
Output == INSTANCE ByteStream WITH Values <- Printed, queue <- txFifo \o TxHeld, item <- chunk
ReceivedInOrder == Input!InputSpec
SentInOrder     == Output!OutputSpec

(* init.c 150-157 and read.c 187-194: receive interrupts are off only      *)
(* while the buffer is full or the read that emptied it is about to turn   *)
(* them on, so a character in the core always gets fetched.                *)
ReceivesUnlessFull ==
  isr.pc = "off" /\ Registered /\ "RE" \notin control =>
    RxFull \/ (call.op = "read" /\ call.moved)

(* init.c 186-193 and write.c 145-148: characters wait in the buffer only  *)
(* with transmit interrupts on, or with a write that will turn them on.    *)
SendsWhatWaits ==
  isr.pc = "off" /\ txIn # txOut /\ "WE" \notin control =>
    call.op = "write" /\ call.pc \in {"wr.load", "wr.publish", "off", "on"}

(* write.c 182-188: a write comes back when the host takes what is sent;   *)
(* with a watchdog that can expire also when the host falls silent, since  *)
(* the clock ticks on.                                                     *)
HostTakes  == []<><<HostTake>>_vars \/ []<>(txFifo = <<>>)
HostSilent == <>[][hostInactive' >= hostInactive]_vars /\ SF_vars(NotLooked)
Writing    == call.op = "write"
WriteReturns ==
  /\ HostTakes => (Writing ~> ~Writing)
  /\ HostSilent => (Writing /\ alarmOn /\ timeout < IntMax - 1 ~> ~Writing)
===============================================================================
