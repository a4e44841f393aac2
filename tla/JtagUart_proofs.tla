---------------------------- MODULE JtagUart_proofs ----------------------------
(***************************************************************************)
(* The driver for buffers and FIFOs of any length, calls of any size and   *)
(* any interleaving of program, interrupt routine, watchdog and host.      *)
(* First what the two ends of a circular buffer do to what it holds; then  *)
(* the types, the two streams, and the enables.                            *)
(***************************************************************************)
EXTENDS JtagUart, SequenceTheorems, TLAPS

LEMMA WrapOnce ==
  ASSUME NEW n \in Nat, n < 2 * BufLen
  PROVE  Wrap(n) = IF n < BufLen THEN n ELSE n - BufLen
BY BufLenAssumption DEF Wrap

LEMMA FillIs ==
  ASSUME NEW in \in Slots, NEW out \in Slots
  PROVE  /\ Fill(in, out) = IF in >= out THEN in - out ELSE in - out + BufLen
         /\ Fill(in, out) \in 0..(BufLen - 1)
BY BufLenAssumption DEF Fill, Slots

(* The k-th place from out on, and that different ones are different slots. *)
Place(out, k) == Wrap(out + k - 1)

LEMMA PlaceIs ==
  ASSUME NEW out \in Slots, NEW k \in 1..BufLen
  PROVE  /\ Place(out, k) = IF out + k - 1 < BufLen THEN out + k - 1 ELSE out + k - 1 - BufLen
         /\ Place(out, k) \in Slots
<1>1. out + k - 1 \in Nat /\ out + k - 1 < 2 * BufLen
  BY BufLenAssumption DEF Slots
<1> QED
  BY <1>1, WrapOnce, BufLenAssumption DEF Place, Slots

LEMMA HeldIs ==
  ASSUME NEW V, NEW buf \in [Slots -> V], NEW in \in Slots, NEW out \in Slots
  PROVE  /\ Held(buf, in, out) \in Seq(V)
         /\ Len(Held(buf, in, out)) = Fill(in, out)
         /\ \A k \in 1..Fill(in, out) :
              Place(out, k) \in Slots /\ Held(buf, in, out)[k] = buf[Place(out, k)]
<1>1. Fill(in, out) \in 0..(BufLen - 1)
  BY FillIs
<1>2. \A k \in 1..Fill(in, out) : Place(out, k) \in Slots
  BY <1>1, PlaceIs, BufLenAssumption
<1>3. Held(buf, in, out) = [k \in 1..Fill(in, out) |-> buf[Place(out, k)]]
  BY DEF Held, Place
<1>4. Held(buf, in, out) \in [1..Fill(in, out) -> V]
  BY <1>2, <1>3
<1> QED
  BY <1>1, <1>2, <1>3, <1>4

(* From out on, the buffer has the values of c; or two buffers have the    *)
(* same ones in some places.                                               *)
Shows(buf, out, c) == \A k \in 1..Len(c) : buf[Place(out, k)] = c[k]
Agree(buf, new, out, places) == \A k \in places : new[Place(out, k)] = buf[Place(out, k)]

(* Several values put in at once, in slots that follow each other.         *)
Fits(V, buf, in, out, c) ==
  /\ buf \in [Slots -> V] /\ in \in Slots /\ out \in Slots /\ c \in Seq(V)
  /\ Fill(in, out) + Len(c) < BufLen /\ Shows(buf, in, c)

LEMMA Put ==
  ASSUME NEW V, NEW buf, NEW in, NEW out, NEW c, Fits(V, buf, in, out, c)
  PROVE  /\ Wrap(in + Len(c)) \in Slots
         /\ Fill(Wrap(in + Len(c)), out) = Fill(in, out) + Len(c)
         /\ Held(buf, Wrap(in + Len(c)), out) = Held(buf, in, out) \o c
<1> DEFINE to == Wrap(in + Len(c))
           old == Held(buf, in, out)
           new == Held(buf, to, out)
<1> USE DEF Fits
<1>1. Len(c) \in Nat /\ Len(c) < BufLen /\ Fill(in, out) \in 0..(BufLen - 1)
  BY FillIs, BufLenAssumption, LenProperties
<1>2. to = (IF in + Len(c) < BufLen THEN in + Len(c) ELSE in + Len(c) - BufLen) /\ to \in Slots
  BY <1>1, WrapOnce, BufLenAssumption DEF Slots
<1>3. to \in Slots
  BY <1>2
<1> HIDE DEF to
<1>4. /\ Fill(in, out) = IF in >= out THEN in - out ELSE in - out + BufLen
      /\ Fill(to, out) = IF to >= out THEN to - out ELSE to - out + BufLen
  BY <1>2, FillIs
<1>5. Fill(to, out) = Fill(in, out) + Len(c)
  BY <1>1, <1>2, <1>4, BufLenAssumption DEF Slots
<1>6. /\ old \in Seq(V) /\ Len(old) = Fill(in, out)
      /\ \A k \in 1..Fill(in, out) : old[k] = buf[Place(out, k)]
  BY HeldIs
<1>7. /\ new \in Seq(V) /\ Len(new) = Fill(to, out)
      /\ \A k \in 1..Fill(to, out) : new[k] = buf[Place(out, k)]
  BY <1>3, HeldIs
<1> HIDE DEF old, new
<1>8. old \in Seq(V) /\ new \in Seq(V) /\ Len(old) = Fill(in, out) /\ Len(new) = Fill(to, out)
  BY <1>6, <1>7
<1>9. /\ old \o c \in Seq(V) /\ Len(old \o c) = Len(old) + Len(c)
      /\ \A k \in 1..(Len(old) + Len(c)) : (old \o c)[k] = IF k <= Len(old) THEN old[k] ELSE c[k - Len(old)]
  BY <1>8, ConcatProperties
<1>10. ASSUME NEW k \in 1..Len(new) PROVE new[k] = (old \o c)[k]
  <2>1. new[k] = buf[Place(out, k)]
    BY <1>7
  <2>2. CASE k <= Len(old)
    BY <1>1, <1>5, <1>8, <1>9, <1>6, <2>1, <2>2
  <2>3. CASE k > Len(old)
    <3>1. k - Len(old) \in 1..Len(c)
      BY <1>1, <1>5, <1>8, <2>3
    <3>2. k \in 1..BufLen /\ k - Len(old) \in 1..BufLen
      BY <1>1, <1>5, <1>8, <3>1, BufLenAssumption
    <3>3. /\ Place(out, k) = IF out + k - 1 < BufLen THEN out + k - 1 ELSE out + k - 1 - BufLen
          /\ Place(in, k - Len(old)) =
               IF in + (k - Len(old)) - 1 < BufLen THEN in + (k - Len(old)) - 1
               ELSE in + (k - Len(old)) - 1 - BufLen
      BY <3>2, PlaceIs
    <3>4. Place(out, k) = Place(in, k - Len(old))
      BY <1>1, <1>5, <1>8, <1>4, <2>3, <3>1, <3>3, BufLenAssumption, SMTT(30) DEF Slots
    <3> QED
      BY <1>1, <1>5, <1>8, <1>9, <2>1, <2>3, <3>1, <3>4 DEF Shows
  <2> QED
    BY <1>1, <1>5, <1>8, <2>2, <2>3
<1>11. new = old \o c
  BY <1>5, <1>8, <1>9, <1>10, SeqEqual
<1> QED
  BY <1>2, <1>5, <1>11 DEF to, old, new

(* Several values taken at once, from slots that follow each other.        *)
Drains(V, buf, new, in, out, c) ==
  /\ buf \in [Slots -> V] /\ new \in [Slots -> V] /\ in \in Slots /\ out \in Slots /\ c \in Seq(V)
  /\ Len(c) <= Fill(in, out)
  /\ Shows(buf, out, c) /\ Agree(buf, new, out, (Len(c) + 1)..Fill(in, out))

LEMMA Take ==
  ASSUME NEW V, NEW buf, NEW new, NEW in, NEW out, NEW c, Drains(V, buf, new, in, out, c)
  PROVE  /\ Wrap(out + Len(c)) \in Slots
         /\ Fill(in, Wrap(out + Len(c))) = Fill(in, out) - Len(c)
         /\ Held(buf, in, out) = c \o Held(new, in, Wrap(out + Len(c)))
<1> DEFINE to == Wrap(out + Len(c))
           old == Held(buf, in, out)
           rest == Held(new, in, to)
<1> USE DEF Drains
<1>1. Len(c) \in Nat /\ Len(c) < BufLen /\ Fill(in, out) \in 0..(BufLen - 1)
  BY FillIs, BufLenAssumption, LenProperties
<1>2. to = (IF out + Len(c) < BufLen THEN out + Len(c) ELSE out + Len(c) - BufLen) /\ to \in Slots
  BY <1>1, WrapOnce, BufLenAssumption DEF Slots
<1>3. to \in Slots
  BY <1>2
<1> HIDE DEF to
<1>4. /\ Fill(in, out) = IF in >= out THEN in - out ELSE in - out + BufLen
      /\ Fill(in, to) = IF in >= to THEN in - to ELSE in - to + BufLen
  BY <1>2, FillIs
<1>5. Fill(in, to) = Fill(in, out) - Len(c)
  BY <1>1, <1>2, <1>4, BufLenAssumption, SMTT(60) DEF Slots
<1>6. /\ old \in Seq(V) /\ Len(old) = Fill(in, out)
      /\ \A k \in 1..Fill(in, out) : old[k] = buf[Place(out, k)]
  BY HeldIs
<1>7. /\ rest \in Seq(V) /\ Len(rest) = Fill(in, to)
      /\ \A k \in 1..Fill(in, to) : rest[k] = new[Place(to, k)]
  BY <1>3, HeldIs
<1> HIDE DEF old, rest
<1>8. old \in Seq(V) /\ rest \in Seq(V) /\ Len(old) = Fill(in, out) /\ Len(rest) = Fill(in, to)
  BY <1>6, <1>7
<1>9. /\ c \o rest \in Seq(V) /\ Len(c \o rest) = Len(c) + Len(rest)
      /\ \A k \in 1..(Len(c) + Len(rest)) : (c \o rest)[k] = IF k <= Len(c) THEN c[k] ELSE rest[k - Len(c)]
  BY <1>8, ConcatProperties
<1>10. ASSUME NEW k \in 1..Len(old) PROVE old[k] = (c \o rest)[k]
  <2>1. old[k] = buf[Place(out, k)]
    BY <1>8, <1>6
  <2>2. CASE k <= Len(c)
    BY <1>1, <1>5, <1>8, <1>9, <2>1, <2>2 DEF Shows
  <2>3. CASE ~(k <= Len(c))
    <3>1. k - Len(c) \in 1..Fill(in, to)
      BY <1>1, <1>5, <1>8, <2>3
    <3>2. k \in 1..BufLen /\ k - Len(c) \in 1..BufLen
      BY <1>1, <1>5, <1>8, <3>1, BufLenAssumption
    <3>3. /\ Place(out, k) = IF out + k - 1 < BufLen THEN out + k - 1 ELSE out + k - 1 - BufLen
          /\ Place(to, k - Len(c)) =
               IF to + (k - Len(c)) - 1 < BufLen THEN to + (k - Len(c)) - 1
               ELSE to + (k - Len(c)) - 1 - BufLen
      BY <1>2, <3>2, PlaceIs
    <3>4. Place(out, k) = Place(to, k - Len(c))
      BY <1>1, <1>2, <1>5, <1>8, <2>3, <3>1, <3>2, <3>3, BufLenAssumption DEF Slots
    <3>5. rest[k - Len(c)] = new[Place(to, k - Len(c))]
      BY <1>7, <3>1
    <3>6. new[Place(out, k)] = buf[Place(out, k)]
      BY <1>1, <1>8, <2>3 DEF Agree
    <3>7. (c \o rest)[k] = rest[k - Len(c)]
      <4>1. k \in 1..(Len(c) + Len(rest)) /\ ~(k <= Len(c))
        BY <1>1, <1>5, <1>8, <2>3
      <4> QED
        BY <1>9, <4>1
    <3> QED
      BY <2>1, <3>4, <3>5, <3>6, <3>7
  <2> QED
    BY <2>2, <2>3
<1>11. Len(old) = Len(c \o rest)
  BY <1>1, <1>5, <1>8, <1>9
<1>12. old = c \o rest
  BY <1>8, <1>9, <1>10, <1>11, SeqEqual
<1> QED
  BY <1>2, <1>5, <1>12 DEF to, old, rest

LEMMA NextSlot ==
  ASSUME NEW n \in Slots
  PROVE  Wrap(n + 1) = (IF n + 1 < BufLen THEN n + 1 ELSE n + 1 - BufLen) /\ Wrap(n + 1) \in Slots
<1>1. n + 1 \in Nat /\ n + 1 < 2 * BufLen
  BY BufLenAssumption DEF Slots
<1> QED
  BY <1>1, WrapOnce, BufLenAssumption DEF Slots

LEMMA Room ==
  ASSUME NEW in \in Slots, NEW out \in Slots, Wrap(in + 1) # out
  PROVE  Fill(in, out) + 1 < BufLen
<1>1. Wrap(in + 1) = IF in + 1 < BufLen THEN in + 1 ELSE in + 1 - BufLen
  BY NextSlot
<1>2. Fill(in, out) = IF in >= out THEN in - out ELSE in - out + BufLen
  BY FillIs
<1> QED
  BY <1>1, <1>2, BufLenAssumption DEF Slots
-------------------------------------------------------------------------------
(* The invariant.  Where each thread of control is, and what it may assume. *)
Items == Typed \cup Printed \cup {Free}

Places == {"idle", "init", "register", "close", "rd.load", "rd.publish", "rd.empty", "rd.spin",
           "rd.check", "wr.load", "wr.publish", "wr.spin", "wr.check", "off", "on"}

Rings ==
  /\ rxIn \in Slots /\ rxOut \in Slots /\ txIn \in Slots /\ txOut \in Slots
  /\ rxBuf \in [Slots -> Typed \cup {Free}] /\ txBuf \in [Slots -> Printed \cup {Free}]

Fifos ==
  /\ rxFifo \in Seq(Typed) /\ txFifo \in Seq(Items)
  /\ Len(rxFifo) <= FifoDepth /\ Len(txFifo) + isr.space <= FifoDepth

Registers ==
  /\ irqEnable \in Enables /\ control \in Enables /\ tmp \in Enables
  /\ hostInactive \in 0..(IntMax - 2) /\ timeout \in 2..IntMax
  /\ alarmOn \in BOOLEAN /\ pie \in BOOLEAN

Routines == [pc : {"off", "control", "rx", "rx_end", "tx"}, space : 0..FifoDepth, avail : BOOLEAN]
Calls == [op : {"none", "read", "write", "close"}, pc : Places, left : 0..MaxCall,
          moved : BOOLEAN, nonblock : BOOLEAN, seen : Slots]

Threads == isr \in Routines /\ call \in Calls /\ chunk \in Seq(Items)

Types == Rings /\ Fifos /\ Registers /\ Threads

(* The interrupt routine and the program keep out of each other's way.     *)
Flow ==
  /\ pie <=> isr.pc = "off" /\ call.pc # "on"
  /\ isr.pc # "off" => call.pc \notin {"init", "register", "on"}
  /\ call.pc \in {"rd.load", "rd.publish", "rd.empty", "rd.spin", "rd.check"} => call.op = "read"
  /\ call.pc \in {"wr.load", "wr.publish", "wr.spin", "wr.check"} => call.op = "write"
  /\ call.pc \in {"off", "on"} => call.op \in {"read", "write"}
  /\ call.pc \in {"idle", "init", "register"} => call.op = "none"
  /\ call.pc \in {"rd.spin", "rd.check"} => ~call.moved
  /\ call.pc = "close" => call.op = "close"

(* What has been copied and not yet accounted for in an index.             *)
Copied ==
  /\ call.pc = "rd.publish" =>
       /\ Len(chunk) > 0 /\ Len(chunk) <= call.left /\ rxOut + Len(chunk) <= BufLen
       /\ Len(chunk) <= Fill(rxIn, rxOut) /\ Shows(rxBuf, rxOut, chunk)
  /\ call.pc = "wr.publish" =>
       /\ Len(chunk) > 0 /\ Len(chunk) <= call.left /\ txIn + Len(chunk) <= BufLen
       /\ Fill(txIn, txOut) + Len(chunk) < BufLen /\ Shows(txBuf, txIn, chunk)

(* The enables: the copy is the register, and what is off has a reason.     *)
Enabling ==
  /\ irqEnable = control
  /\ call.pc = "on" => tmp = irqEnable \cup {Wanted}
  /\ call.pc = "init" => control = {}
  /\ call.pc = "register" => "RE" \in control
  /\ isr.pc \in {"rx", "rx_end"} => "RE" \in control
  /\ isr.pc = "rx_end" /\ isr.avail => RxFull
  /\ Registered /\ "RE" \notin control => RxFull \/ (call.op = "read" /\ call.moved)
  /\ txIn # txOut /\ "WE" \notin control =>
       call.op = "write" /\ call.pc \in {"wr.load", "wr.publish", "off", "on"}

IInv == Types /\ Flow /\ Copied /\ Enabling

LEMMA Constants ==
  /\ BufLen \in Nat /\ BufLen > 1 /\ FifoDepth \in Nat /\ FifoDepth > 0
  /\ MaxCall \in Nat /\ MaxCall > 0 /\ IntMax \in Nat /\ IntMax > 3
  /\ Timeouts \subseteq 0..IntMax /\ Slots = 0..(BufLen - 1) /\ 0 \in Slots
BY BufLenAssumption, SizeAssumption, TimeAssumption DEF Slots

LEMMA InitIInv == Init => IInv
<1> SUFFICES ASSUME Init PROVE IInv
  OBVIOUS
<1>1. Rings
  BY Constants DEF Init, Rings
<1>3. Fifos
  BY Constants DEF Init, Fifos, IsrOff
<1>4. Registers
  <2>1. 0 \in 0..(IntMax - 2) /\ 2 \in 2..IntMax
    BY Constants
  <2> QED
    BY <2>1 DEF Init, Registers, Enables
<1>5. Threads
  <2>1. 0 \in 0..FifoDepth /\ 0 \in 0..MaxCall /\ 0 \in Slots
    BY Constants
  <2>2. isr = [pc |-> "off", space |-> 0, avail |-> FALSE]
    BY DEF Init, IsrOff
  <2>3. call = [op |-> "none", pc |-> "init", left |-> 0, moved |-> FALSE, nonblock |-> FALSE, seen |-> 0]
    BY DEF Init, NoCall
  <2>4. chunk \in Seq(Items)
    BY DEF Init
  <2> QED
    BY <2>1, <2>2, <2>3, <2>4 DEF Threads, Places, Routines, Calls
<1>2. Flow /\ Copied /\ Enabling
  BY DEF Init, Flow, Copied, Enabling, Registered, IsrOff, NoCall
<1> QED
  BY <1>1, <1>2, <1>3, <1>4, <1>5 DEF IInv, Types

(* The interrupt routine.                                                  *)
LEMMA IsrTypes == ASSUME Types, Isr PROVE Types'
<1> USE Constants
<1>1. CASE IsrEnter
  <2>2. Threads' /\ isr'.space = isr.space
    BY <1>1 DEF IsrEnter, Types, Threads, Routines, Calls, prog
  <2>1. Rings' /\ Fifos' /\ Registers'
    BY <1>1, <2>2 DEF IsrEnter, Types, Rings, Fifos, Registers, rx, tx, dog, core, prog
  <2> QED
    BY <2>1, <2>2 DEF Types
<1>2. CASE IsrControl
  <2>1. Rings' /\ Registers'
    BY <1>2 DEF IsrControl, Types, Rings, Registers, rx, tx, dog, core, prog
  <2>2. isr' \in Routines
    <3>1. CASE isr' # IsrOff
      <4>1. Wi => FifoDepth - Len(txFifo) \in 0..FifoDepth
        BY DEF Wi, Types, Fifos
      <4>2. Ri \in BOOLEAN
        BY DEF Ri
      <4>3. /\ isr'.pc \in {"rx", "tx"} /\ isr'.avail = Ri /\ isr'.space \in 0..FifoDepth
            /\ isr' = [pc |-> isr'.pc, avail |-> isr'.avail, space |-> isr'.space]
        BY <1>2, <3>1, <4>1 DEF IsrControl
      <4> QED
        BY <4>2, <4>3 DEF Routines
    <3>2. CASE isr' = IsrOff
      BY <3>2 DEF IsrOff, Routines
    <3> QED
      BY <3>1, <3>2
  <2>3. Fifos'
    BY <1>2 DEF IsrControl, Types, Fifos, Threads, Routines, core, IsrOff, Ri, Wi
  <2> QED
    BY <1>2, <2>1, <2>2, <2>3 DEF IsrControl, Types, Threads, Routines, Calls, prog
<1>3. CASE IsrReceive
  <2>1. rxFifo # <<>> => /\ Head(rxFifo) \in Typed /\ Tail(rxFifo) \in Seq(Typed)
                         /\ Len(Tail(rxFifo)) = Len(rxFifo) - 1
    BY HeadTailProperties DEF Types, Fifos
  <2>2. Wrap(rxIn + 1) \in Slots
    BY NextSlot DEF Types, Rings
  <2>3. Rings'
    BY <1>3, <2>1, <2>2 DEF IsrReceive, Types, Rings, rx, tx
  <2>4. Threads' /\ isr'.space = isr.space
    BY <1>3 DEF IsrReceive, Types, Threads, Routines, Calls, prog
  <2>5. Fifos'
    <3>1. txFifo' = txFifo /\ (rxFifo' = rxFifo \/ (rxFifo # <<>> /\ rxFifo' = Tail(rxFifo)))
      BY <1>3 DEF IsrReceive
    <3> QED
      BY <2>1, <2>4, <3>1 DEF Types, Fifos
  <2>6. Registers'
    BY <1>3 DEF IsrReceive, Types, Registers, dog, prog
  <2> QED
    BY <2>3, <2>4, <2>5, <2>6 DEF Types
<1>4. CASE IsrReceiveStop
  <2>1. Threads' /\ isr'.space = isr.space
    BY <1>4 DEF IsrReceiveStop, Types, Threads, Routines, Calls, prog
  <2> QED
    BY <1>4, <2>1 DEF IsrReceiveStop, Types, Rings, Fifos, Registers, rx, tx, dog, core, prog
<1>5. CASE IsrReceiveEnd
  <2>1. Threads' /\ isr'.space = isr.space
    BY <1>5 DEF IsrReceiveEnd, Types, Threads, Routines, Calls, prog
  <2> QED
    BY <1>5, <2>1 DEF IsrReceiveEnd, Types, Rings, Fifos, Registers, rx, tx, dog, prog, enable, Enables
<1>6. CASE IsrSend
  <2>1. Wrap(txOut + 1) \in Slots
    BY NextSlot DEF Types, Rings
  <2>2. txBuf[txOut] \in Items
    BY DEF Types, Rings, Items
  <2>3. Rings' /\ Registers'
    BY <1>6, <2>1 DEF IsrSend, Types, Rings, Registers, rx, dog, prog
  <2>4. Threads' /\ isr'.space = isr.space - 1
    <3>1. isr.space - 1 \in 0..FifoDepth
      BY <1>6 DEF IsrSend, Types, Threads, Routines, Calls
    <3>2. isr' = [isr EXCEPT !.space = isr.space - 1]
      BY <1>6 DEF IsrSend
    <3> QED
      BY <1>6, <3>1, <3>2 DEF IsrSend, Types, Threads, Routines, Calls, prog
  <2>5. txFifo' \in Seq(Items) /\ Len(txFifo') = Len(txFifo) + 1
    BY <1>6, <2>2 DEF IsrSend, Types, Fifos
  <2>6. Fifos'
    BY <1>6, <2>4, <2>5 DEF IsrSend, Types, Fifos, Threads, Routines
  <2> QED
    BY <2>3, <2>4, <2>6 DEF Types
<1>7. CASE IsrSendEnd
  <2>1. Threads' /\ isr'.space = 0
    <3>1. 0 \in 0..FifoDepth /\ isr' = [isr EXCEPT !.pc = "control", !.space = 0]
      BY <1>7 DEF IsrSendEnd
    <3> QED
      BY <1>7, <3>1 DEF IsrSendEnd, Types, Threads, Routines, Calls, prog
  <2>2. Fifos'
    BY <1>7, <2>1 DEF IsrSendEnd, Types, Fifos, Threads, Routines
  <2> QED
    BY <1>7, <2>1, <2>2 DEF IsrSendEnd, Types, Rings, Registers, rx, tx, dog, prog, enable, Enables
<1> QED
  BY <1>1, <1>2, <1>3, <1>4, <1>5, <1>6, <1>7 DEF Isr

LEMMA OutsideTypes == ASSUME Types, Timeout \/ Host \/ Initialise PROVE Types'
<1> USE Constants
<1>1. CASE Timeout
  <2>1. Registers'
    BY <1>1 DEF Timeout, Looked, NotLooked, Types, Registers, core, prog
  <2> QED
    BY <1>1, <2>1 DEF Timeout, Looked, NotLooked, Types, Rings, Fifos, Threads, rx, tx, core, prog
<1>2. CASE HostSend
  BY <1>2 DEF HostSend, Types, Rings, Fifos, Registers, Threads, rx, tx, dog, prog
<1>3. CASE HostTake
  <2>1. Tail(txFifo) \in Seq(Items) /\ Len(Tail(txFifo)) = Len(txFifo) - 1
    BY <1>3, HeadTailProperties DEF HostTake, Types, Fifos
  <2>2. Fifos'
    BY <1>3, <2>1 DEF HostTake, Types, Fifos, Threads, Routines
  <2> QED
    BY <1>3, <2>2 DEF HostTake, Types, Rings, Registers, Threads, rx, tx, dog, prog
<1>4. CASE EnableReceive
  <2>1. Threads'
    BY <1>4 DEF EnableReceive, Types, Threads, Routines, Calls, Places
  <2> QED
    BY <1>4, <2>1 DEF EnableReceive, Types, Rings, Fifos, Registers, rx, tx, dog, Enables
<1>5. CASE StartWatchdog
  <2>1. Threads'
    BY <1>5 DEF StartWatchdog, Types, Threads, Routines, Calls, Places, NoCall
  <2> QED
    BY <1>5, <2>1 DEF StartWatchdog, Types, Rings, Fifos, Registers, rx, tx, core
<1> QED
  BY <1>1, <1>2, <1>3, <1>4, <1>5 DEF Host, Initialise

(* The program.  A step of a call that moves nothing.                      *)
LEMMA QuietTypes ==
  ASSUME Types, Quiet, tmp' = tmp, call' \in Calls, chunk' \in Seq(Items)
  PROVE  Types'
BY DEF Quiet, Types, Rings, Fifos, Registers, Threads, rx, tx, dog, core

LEMMA CallsAre ==
  ASSUME Types
  PROVE  /\ NoCall \in Calls
         /\ \A pc \in Places : [call EXCEPT !.pc = pc] \in Calls
<1>1. NoCall \in Calls
  BY Constants DEF Calls, NoCall, Places
<1>2. call \in Calls
  BY DEF Types, Threads
<1>3. ASSUME NEW pc \in Places PROVE [call EXCEPT !.pc = pc] \in Calls
  BY <1>2 DEF Calls
<1> QED
  BY <1>1, <1>3

(* What a read copies in one go.                                           *)
LEMMA ReadLoadStep ==
  ASSUME Types, ReadLoad
  PROVE  /\ chunk' \in Seq(Items) /\ call' \in Calls
         /\ call'.pc \in {"rd.empty", "rd.publish"}
         /\ call'.pc = "rd.publish" =>
              /\ Len(chunk') > 0 /\ Len(chunk') <= call'.left /\ rxOut + Len(chunk') <= BufLen
              /\ Len(chunk') <= Fill(rxIn, rxOut) /\ Shows(rxBuf, rxOut, chunk')
<1> USE Constants
<1> DEFINE n == Lesser(Readable, call.left)
<1>1. call \in Calls /\ call.left \in Nat /\ rxIn \in Slots /\ rxOut \in Slots
  BY DEF Types, Rings, Threads, Calls
<1>2. Fill(rxIn, rxOut) = IF rxIn >= rxOut THEN rxIn - rxOut ELSE rxIn - rxOut + BufLen
  BY <1>1, FillIs
<1>3. n \in Nat /\ n <= call.left /\ rxOut + n <= BufLen /\ n <= Fill(rxIn, rxOut)
  BY <1>1, <1>2 DEF Lesser, Readable
<1>4. /\ chunk' = [k \in 1..n |-> rxBuf[rxOut + k - 1]]
      /\ call' = [call EXCEPT !.seen = IF n = 0 THEN rxIn ELSE 0,
                             !.pc = IF n = 0 THEN "rd.empty" ELSE "rd.publish"]
  BY DEF ReadLoad
<1> HIDE DEF n
<1>5. \A k \in 1..n : rxOut + k - 1 \in Slots /\ Place(rxOut, k) = rxOut + k - 1
  <2> SUFFICES ASSUME NEW k \in 1..n
               PROVE  rxOut + k - 1 \in Slots /\ Place(rxOut, k) = rxOut + k - 1
    OBVIOUS
  <2>1. k \in 1..BufLen /\ rxOut + k - 1 < BufLen /\ rxOut + k - 1 \in Slots
    BY <1>1, <1>3
  <2> QED
    BY <1>1, <2>1, PlaceIs
<1>6. \A k \in 1..n : rxBuf[rxOut + k - 1] \in Items
  BY <1>5 DEF Types, Rings, Items
<1>7. chunk' \in Seq(Items) /\ Len(chunk') = n /\ \A k \in 1..n : chunk'[k] = rxBuf[rxOut + k - 1]
  BY <1>3, <1>4, <1>6
<1>8. /\ call' \in Calls /\ call'.left = call.left
      /\ call'.pc = IF n = 0 THEN "rd.empty" ELSE "rd.publish"
  BY <1>1, <1>4 DEF Calls, Places
<1>9. Shows(rxBuf, rxOut, chunk')
  BY <1>5, <1>7 DEF Shows
<1> QED
  BY <1>3, <1>7, <1>8, <1>9

(* What a write copies in one go, beyond what the buffer holds.            *)
LEMMA WriteLoadStep ==
  ASSUME Types, WriteLoad
  PROVE  /\ chunk' \in Seq(Items) /\ call' \in Calls
         /\ txBuf' \in [Slots -> Printed \cup {Free}]
         /\ Held(txBuf', txIn, txOut) = Held(txBuf, txIn, txOut)
         /\ call'.pc \in {"off", "wr.publish"}
         /\ call'.pc = "wr.publish" =>
              /\ Len(chunk') > 0 /\ Len(chunk') <= call'.left /\ txIn + Len(chunk') <= BufLen
              /\ Fill(txIn, txOut) + Len(chunk') < BufLen /\ Shows(txBuf', txIn, chunk')
<1> USE Constants
<1> DEFINE n == Lesser(Writable, call.left)
<1>1. call \in Calls /\ call.left \in Nat /\ txIn \in Slots /\ txOut \in Slots
  BY DEF Types, Rings, Threads, Calls
<1>2. Fill(txIn, txOut) = IF txIn >= txOut THEN txIn - txOut ELSE txIn - txOut + BufLen
  BY <1>1, FillIs
<1>3. n \in Nat /\ n <= call.left /\ txIn + n <= BufLen /\ Fill(txIn, txOut) + n < BufLen
  BY <1>1, <1>2 DEF Lesser, Writable
<1>4. /\ chunk' \in [1..n -> Printed]
      /\ txBuf' = [s \in Slots |-> IF s - txIn + 1 \in 1..n THEN chunk'[s - txIn + 1] ELSE txBuf[s]]
      /\ call' = [call EXCEPT !.seen = IF n = 0 THEN txOut ELSE 0,
                               !.pc = IF n = 0 THEN "off" ELSE "wr.publish"]
  BY DEF WriteLoad
<1> HIDE DEF n
<1>5. chunk' \in Seq(Items) /\ Len(chunk') = n
  BY <1>3, <1>4 DEF Items
<1>6. txBuf' \in [Slots -> Printed \cup {Free}]
  BY <1>4 DEF Types, Rings
<1>7. /\ call' \in Calls /\ call'.left = call.left
      /\ call'.pc = IF n = 0 THEN "off" ELSE "wr.publish"
  BY <1>1, <1>4 DEF Calls, Places
<1>8. Shows(txBuf', txIn, chunk')
  <2> SUFFICES ASSUME NEW k \in 1..n PROVE txBuf'[Place(txIn, k)] = chunk'[k]
    BY <1>5 DEF Shows
  <2>1. k \in 1..BufLen /\ txIn + k - 1 < BufLen /\ txIn + k - 1 \in Slots
    BY <1>1, <1>3
  <2>2. Place(txIn, k) = txIn + k - 1
    BY <1>1, <2>1, PlaceIs
  <2>3. (txIn + k - 1) - txIn + 1 = k
    BY <1>1, <1>3
  <2> QED
    BY <1>4, <2>1, <2>2, <2>3
<1>9. Agree(txBuf, txBuf', txOut, 1..Fill(txIn, txOut))
  <2> SUFFICES ASSUME NEW k \in 1..Fill(txIn, txOut)
               PROVE  txBuf'[Place(txOut, k)] = txBuf[Place(txOut, k)]
    BY DEF Agree
  <2>1. k \in 1..BufLen
    BY <1>1, <1>2
  <2>2. /\ Place(txOut, k) = IF txOut + k - 1 < BufLen THEN txOut + k - 1 ELSE txOut + k - 1 - BufLen
        /\ Place(txOut, k) \in Slots
    BY <1>1, <2>1, PlaceIs
  <2>3. ~(Place(txOut, k) - txIn + 1 \in 1..n)
    BY <1>1, <1>2, <1>3, <2>2
  <2> QED
    BY <1>4, <2>2, <2>3
<1>10. Held(txBuf', txIn, txOut) = Held(txBuf, txIn, txOut)
  BY <1>9 DEF Held, Place, Agree
<1> QED
  BY <1>3, <1>5, <1>6, <1>7, <1>8, <1>10

LEMMA PublishTypes ==
  ASSUME IInv, ReadPublish \/ WritePublish
  PROVE  Types'
<1> USE Constants
<1>1. Len(chunk) \in Nat /\ Len(chunk) <= call.left /\ call \in Calls /\ <<>> \in Seq(Items)
  BY DEF IInv, Types, Threads, Copied, ReadPublish, WritePublish, At
<1>2. CASE ReadPublish
  <2>1. Wrap(rxOut + Len(chunk)) \in Slots
    <3>1. rxOut \in Slots /\ rxOut + Len(chunk) <= BufLen
      BY <1>2 DEF IInv, Types, Rings, Copied, ReadPublish, At
    <3> QED
      BY <1>1, <3>1, WrapOnce
  <2>2. call' \in Calls
    <3>1. call.left - Len(chunk) \in 0..MaxCall
      BY <1>1 DEF Calls
    <3>2. \E pc \in Places :
            call' = [call EXCEPT !.left = call.left - Len(chunk), !.moved = TRUE, !.pc = pc]
      BY <1>2 DEF ReadPublish, Places
    <3> QED
      BY <1>1, <3>1, <3>2 DEF Calls
  <2>3. Rings'
    BY <1>2, <2>1 DEF IInv, Types, Rings, ReadPublish, tx
  <2>4. Fifos' /\ Registers' /\ isr' = isr
    BY <1>2 DEF IInv, Types, Fifos, Registers, ReadPublish, dog, core
  <2> QED
    BY <1>1, <1>2, <2>2, <2>3, <2>4 DEF IInv, Types, Threads, ReadPublish
<1>3. CASE WritePublish
  <2>1. Wrap(txIn + Len(chunk)) \in Slots
    <3>1. txIn \in Slots /\ txIn + Len(chunk) <= BufLen
      BY <1>3 DEF IInv, Types, Rings, Copied, WritePublish, At
    <3> QED
      BY <1>1, <3>1, WrapOnce
  <2>2. call' \in Calls
    <3>1. call.left - Len(chunk) \in 0..MaxCall
      BY <1>1 DEF Calls
    <3>2. \E pc \in Places :
            call' = [call EXCEPT !.left = call.left - Len(chunk), !.moved = TRUE, !.pc = pc]
      BY <1>3 DEF WritePublish, Places
    <3> QED
      BY <1>1, <3>1, <3>2 DEF Calls
  <2>3. Rings'
    BY <1>3, <2>1 DEF IInv, Types, Rings, WritePublish, rx
  <2>4. Fifos' /\ Registers' /\ isr' = isr
    BY <1>3 DEF IInv, Types, Fifos, Registers, WritePublish, dog, core
  <2> QED
    BY <1>1, <1>3, <2>2, <2>3, <2>4 DEF IInv, Types, Threads, WritePublish
<1> QED
  BY <1>2, <1>3

(* The steps of the program that leave buffers and enables alone.          *)
Looking == \/ StartRead \/ StartWrite \/ StartClose \/ ReadLoad \/ ReadEmpty \/ ReadSpin
           \/ ReadCheck \/ WriteSpin \/ WriteCheck \/ Close

LEMMA LookingTypes == ASSUME Types, Looking PROVE Types' /\ Quiet
<1>1. CASE ReadLoad
  BY <1>1, ReadLoadStep, QuietTypes DEF ReadLoad
<1>2. CASE ~ReadLoad
  <2>1. Quiet /\ tmp' = tmp /\ chunk' = chunk
    BY <1>2 DEF Looking, StartRead, StartWrite, StartClose, Begin, ReadEmpty, ReadSpin, ReadCheck,
                WriteSpin, WriteCheck, Close
  <2>2. call' \in Calls
    <3>1. CASE StartRead \/ StartWrite
      <4>1. PICK n \in 1..MaxCall, nb \in BOOLEAN, op \in {"read", "write"}, pc \in {"rd.load", "wr.load"} :
              call' = [op |-> op, pc |-> pc, left |-> n, moved |-> FALSE, nonblock |-> nb, seen |-> 0]
        BY <3>1 DEF StartRead, StartWrite, Begin
      <4> QED
        BY <4>1, Constants DEF Calls, Places
    <3>2. CASE StartClose
      <4>1. PICK nb \in BOOLEAN : call' = [NoCall EXCEPT !.op = "close", !.pc = "close", !.nonblock = nb]
        BY <3>2 DEF StartClose
      <4>2. NoCall \in Calls
        BY CallsAre
      <4> QED
        BY <4>1, <4>2 DEF Calls, Places
    <3>3. CASE ReadEmpty \/ ReadSpin \/ ReadCheck \/ WriteSpin \/ WriteCheck \/ Close
      <4>1. call' = NoCall \/ \E pc \in Places : call' = [call EXCEPT !.pc = pc]
        BY <3>3 DEF ReadEmpty, ReadSpin, ReadCheck, WriteSpin, WriteCheck, Close, Return, Goto, Places
      <4> QED
        BY <4>1, CallsAre
    <3> QED
      BY <1>2, <3>1, <3>2, <3>3 DEF Looking
  <2> QED
    BY <2>1, <2>2, QuietTypes DEF Types, Threads
<1> QED
  BY <1>1, <1>2

LEMMA ProgramTypes ==
  ASSUME IInv, SetTimeout \/ Continue
  PROVE  Types'
<1> USE Constants DEF IInv
<1>1. CASE SetTimeout
  <2>1. Registers'
    BY <1>1 DEF SetTimeout, Types, Registers, core, prog
  <2> QED
    BY <1>1, <2>1 DEF SetTimeout, Types, Rings, Fifos, Threads, rx, tx, core, prog
<1>2. CASE WriteLoad
  <2>1. Rings' /\ Threads'
    BY <1>2, WriteLoadStep DEF WriteLoad, Types, Rings, Threads, rx
  <2> QED
    BY <1>2, <2>1 DEF WriteLoad, Types, Fifos, Registers, dog, core
<1>3. CASE DisableAll
  <2>1. Threads'
    BY <1>3, CallsAre DEF DisableAll, Goto, Types, Threads, Places
  <2> QED
    BY <1>3, <2>1 DEF DisableAll, Wanted, Types, Rings, Fifos, Registers, rx, tx, dog, core, Enables
<1>4. CASE EnableAll
  <2>1. Threads'
    BY <1>4, CallsAre DEF EnableAll, Goto, Return, Types, Threads, Places
  <2> QED
    BY <1>4, <2>1 DEF EnableAll, Types, Rings, Fifos, Registers, rx, tx, dog, Enables
<1> QED
  BY <1>1, <1>2, <1>3, <1>4, PublishTypes, LookingTypes DEF Continue, Looking

LEMMA NextTypes == ASSUME IInv, [Next]_vars PROVE Types'
<1>1. CASE UNCHANGED vars
  BY <1>1 DEF IInv, Types, Rings, Fifos, Registers, Threads, vars, rx, tx, dog, core, prog
<1> QED
  BY <1>1, IsrTypes, OutsideTypes, ProgramTypes, LookingTypes DEF IInv, Next, Program, Looking

(* Where a step of a call leads, and what it keeps of the call.            *)
Went(pc) == /\ call'.pc = pc /\ call'.op = call.op /\ call'.moved = call.moved
            /\ call'.left = call.left /\ call'.nonblock = call.nonblock
Ended == call'.pc = "idle" /\ call'.op = "none" /\ ~call'.moved

LEMMA GotoIs == ASSUME call \in Calls, NEW pc \in Places, Goto(pc) PROVE Went(pc)
BY DEF Goto, Went, Calls

LEMMA ReturnIs == ASSUME Return PROVE Ended
BY DEF Return, Ended, NoCall

LEMMA ReadMoves ==
  ASSUME Types
  PROVE  /\ ReadLoad => call.pc = "rd.load" /\ (Went("rd.empty") \/ Went("rd.publish"))
         /\ ReadPublish => /\ call.pc = "rd.publish" /\ call'.pc \in {"rd.load", "rd.empty"}
                           /\ call'.op = call.op /\ call'.moved
         /\ ReadEmpty => /\ call.pc = "rd.empty"
                         /\ (call.moved /\ Went("off")) \/ (~call.moved /\ (Ended \/ Went("rd.spin")))
         /\ ReadSpin => call.pc = "rd.spin" /\ Went("rd.check")
         /\ ReadCheck => call.pc = "rd.check" /\ (Ended \/ Went("rd.load"))
<1>1. call \in Calls
  BY DEF Types, Threads
<1>2. ReadLoad => call.pc = "rd.load" /\ (Went("rd.empty") \/ Went("rd.publish"))
  BY <1>1 DEF ReadLoad, At, Went, Calls
<1>3. ReadPublish => /\ call.pc = "rd.publish" /\ call'.pc \in {"rd.load", "rd.empty"}
                     /\ call'.op = call.op /\ call'.moved
  BY <1>1 DEF ReadPublish, At, Calls
<1>4. ReadEmpty => /\ call.pc = "rd.empty"
                   /\ (call.moved /\ Went("off")) \/ (~call.moved /\ (Ended \/ Went("rd.spin")))
  BY <1>1, GotoIs, ReturnIs DEF ReadEmpty, At, Calls, Places
<1>5. ReadSpin => call.pc = "rd.spin" /\ Went("rd.check")
  BY <1>1, GotoIs DEF ReadSpin, At, Places
<1>6. ReadCheck => call.pc = "rd.check" /\ (Ended \/ Went("rd.load"))
  BY <1>1, GotoIs, ReturnIs DEF ReadCheck, At, Places
<1> QED
  BY <1>2, <1>3, <1>4, <1>5, <1>6

LEMMA WriteMoves ==
  ASSUME Types
  PROVE  /\ WriteLoad => call.pc = "wr.load" /\ (Went("off") \/ Went("wr.publish"))
         /\ WritePublish => /\ call.pc = "wr.publish" /\ call'.pc \in {"wr.load", "off"}
                            /\ call'.op = call.op
         /\ DisableAll => call.pc = "off" /\ Went("on")
         /\ EnableAll => call.pc = "on" /\ (Ended \/ (call.op # "read" /\ Went("wr.spin")))
         /\ WriteSpin => call.pc = "wr.spin" /\ Went("wr.check")
         /\ WriteCheck => call.pc = "wr.check" /\ (Ended \/ Went("wr.load"))
         /\ Close => call.pc = "close" /\ Ended
<1>1. call \in Calls
  BY DEF Types, Threads
<1>2. WriteLoad => call.pc = "wr.load" /\ (Went("off") \/ Went("wr.publish"))
  BY <1>1 DEF WriteLoad, At, Went, Calls
<1>3. WritePublish => /\ call.pc = "wr.publish" /\ call'.pc \in {"wr.load", "off"}
                      /\ call'.op = call.op
  BY <1>1 DEF WritePublish, At, Calls
<1>4. DisableAll => call.pc = "off" /\ Went("on")
  BY <1>1, GotoIs DEF DisableAll, At, Places
<1>5. EnableAll => call.pc = "on" /\ (Ended \/ (call.op # "read" /\ Went("wr.spin")))
  BY <1>1, GotoIs, ReturnIs DEF EnableAll, At, Places
<1>6. WriteSpin => call.pc = "wr.spin" /\ Went("wr.check")
  BY <1>1, GotoIs DEF WriteSpin, At, Places
<1>7. WriteCheck => call.pc = "wr.check" /\ (Ended \/ Went("wr.load"))
  BY <1>1, GotoIs, ReturnIs DEF WriteCheck, At, Places
<1>8. Close => call.pc = "close" /\ Ended
  BY ReturnIs DEF Close, At
<1> QED
  BY <1>2, <1>3, <1>4, <1>5, <1>6, <1>7, <1>8

LEMMA StartMoves ==
  /\ StartRead => /\ At("idle") /\ call'.pc = "rd.load" /\ call'.op = "read" /\ ~call'.moved
  /\ StartWrite => /\ At("idle") /\ call'.pc = "wr.load" /\ call'.op = "write" /\ ~call'.moved
  /\ StartClose => /\ At("idle") /\ call'.pc = "close" /\ call'.op = "close" /\ ~call'.moved
<1>1. ASSUME NEW op, NEW pc, Begin(op, pc)
      PROVE  At("idle") /\ call'.pc = pc /\ call'.op = op /\ ~call'.moved
  BY <1>1 DEF Begin
<1>2. ASSUME StartClose
      PROVE  At("idle") /\ call'.pc = "close" /\ call'.op = "close" /\ ~call'.moved
  <2>1. At("idle") /\ \E nb \in BOOLEAN : call' = [NoCall EXCEPT !.op = "close", !.pc = "close", !.nonblock = nb]
    BY <1>2 DEF StartClose
  <2>2. \A nb : LET c == [NoCall EXCEPT !.op = "close", !.pc = "close", !.nonblock = nb]
                IN  c.pc = "close" /\ c.op = "close" /\ c.moved = FALSE
    BY DEF NoCall
  <2> QED
    BY <2>1, <2>2
<1> QED
  BY <1>1, <1>2 DEF StartRead, StartWrite

(* The program moves only while the interrupt routine is off, and it alone *)
(* moves the call.                                                         *)
LEMMA TurnsAre ==
  /\ Continue \/ StartRead \/ StartWrite \/ StartClose => isr.pc = "off" /\ isr' = isr
  /\ Isr => call' = call /\ chunk' = chunk /\ tmp' = tmp
  /\ Timeout \/ Host \/ SetTimeout => call' = call /\ chunk' = chunk /\ isr' = isr /\ pie' = pie /\ tmp' = tmp
<1>1. ReadLoad \/ ReadEmpty \/ ReadSpin \/ ReadCheck \/ WriteSpin \/ WriteCheck \/ Close
        => isr.pc = "off" /\ isr' = isr
  BY DEF ReadLoad, ReadEmpty, ReadSpin, ReadCheck, WriteSpin, WriteCheck, Close, At, Quiet
<1>2. ReadPublish \/ WriteLoad \/ WritePublish \/ DisableAll \/ EnableAll
        => isr.pc = "off" /\ isr' = isr
  BY DEF ReadPublish, WriteLoad, WritePublish, DisableAll, EnableAll, At
<1>3. StartRead \/ StartWrite \/ StartClose => isr.pc = "off" /\ isr' = isr
  BY DEF StartRead, StartWrite, StartClose, Begin, At, Quiet
<1>4. Isr => call' = call /\ chunk' = chunk /\ tmp' = tmp
  BY DEF Isr, IsrEnter, IsrControl, IsrReceive, IsrReceiveStop, IsrReceiveEnd, IsrSend, IsrSendEnd, prog
<1>5. Timeout \/ Host \/ SetTimeout => call' = call /\ chunk' = chunk /\ isr' = isr /\ pie' = pie /\ tmp' = tmp
  BY DEF Timeout, Looked, NotLooked, Host, HostSend, HostTake, SetTimeout, core, prog
<1> QED
  BY <1>1, <1>2, <1>3, <1>4, <1>5 DEF Continue

(* Where the threads are.                                                  *)
LEMMA IsrFlow ==
  ASSUME Types, Flow, Isr
  PROVE  /\ call.pc \notin {"init", "register", "on"}
         /\ pie' <=> isr'.pc = "off"
<1>1. isr \in Routines
  BY DEF Types, Threads
<1>2. CASE IsrEnter
  BY <1>1, <1>2 DEF IsrEnter, Registered, Flow, Routines
<1>3. CASE IsrControl
  BY <1>1, <1>3 DEF IsrControl, Flow, IsrOff
<1>4. CASE IsrReceive \/ IsrReceiveStop
  <2>1. isr.pc # "off" /\ pie' = pie
    BY <1>4 DEF IsrReceive, IsrReceiveStop
  <2>2. isr'.pc # "off"
    BY <1>1, <1>4 DEF IsrReceive, IsrReceiveStop, Routines
  <2> QED
    BY <2>1, <2>2 DEF Flow
<1>5. CASE IsrReceiveEnd \/ IsrSendEnd
  <2>1. isr.pc # "off" /\ pie' = pie
    BY <1>5 DEF IsrReceiveEnd, IsrSendEnd
  <2>2. isr'.pc # "off"
    BY <1>1, <1>5 DEF IsrReceiveEnd, IsrSendEnd, Routines
  <2> QED
    BY <2>1, <2>2 DEF Flow
<1>6. CASE IsrSend
  BY <1>1, <1>6 DEF IsrSend, Flow, Routines
<1> QED
  BY <1>2, <1>3, <1>4, <1>5, <1>6 DEF Isr

LEMMA NextFlow == ASSUME IInv, [Next]_vars PROVE Flow'
<1>1. Types /\ Flow
  BY DEF IInv
<1>2. CASE Isr
  BY <1>1, <1>2, IsrFlow, TurnsAre DEF Flow
<1>3. CASE Timeout \/ Host \/ SetTimeout
  BY <1>1, <1>3, TurnsAre DEF Flow
<1>4. CASE UNCHANGED vars
  BY <1>1, <1>4 DEF Flow, vars, prog
<1>5. CASE Initialise
  <2>1. /\ isr' = isr /\ pie' = pie /\ isr.pc = "off" /\ call.pc # "on"
        /\ call'.pc \in {"register", "idle"} /\ call'.op = "none"
    BY <1>1, <1>5 DEF Initialise, EnableReceive, StartWatchdog, NoCall, Types, Threads, Calls, Flow
  <2> QED
    BY <1>1, <2>1 DEF Flow
<1>6. CASE StartRead \/ StartWrite \/ StartClose
  <2>1. pie' = pie
    BY <1>6 DEF StartRead, StartWrite, StartClose, Begin, Quiet
  <2> QED
    BY <1>1, <1>6, <2>1, StartMoves, TurnsAre DEF Flow, At
<1>7. CASE ReadLoad \/ ReadPublish \/ ReadEmpty \/ ReadSpin \/ ReadCheck
  <2>1. pie' = pie /\ isr.pc = "off" /\ isr' = isr
    BY <1>7, TurnsAre DEF Continue, ReadLoad, ReadPublish, ReadEmpty, ReadSpin, ReadCheck, Quiet
  <2> QED
    BY <1>1, <1>7, <2>1, ReadMoves DEF Flow, Went, Ended
<1>8. CASE WriteLoad \/ WritePublish \/ WriteSpin \/ WriteCheck \/ Close
  <2>1. pie' = pie /\ isr.pc = "off" /\ isr' = isr
    BY <1>8, TurnsAre DEF Continue, WriteLoad, WritePublish, WriteSpin, WriteCheck, Close, Quiet
  <2> QED
    BY <1>1, <1>8, <2>1, WriteMoves DEF Flow, Went, Ended
<1>9. CASE DisableAll \/ EnableAll
  <2>1. (DisableAll => ~pie') /\ (EnableAll => pie') /\ isr.pc = "off" /\ isr' = isr
    BY <1>9, TurnsAre DEF Continue, DisableAll, EnableAll
  <2> QED
    BY <1>1, <1>9, <2>1, WriteMoves DEF Flow, Went, Ended
<1> QED
  BY <1>2, <1>3, <1>4, <1>5, <1>6, <1>7, <1>8, <1>9 DEF Next, Program, Continue
-------------------------------------------------------------------------------
(* The enables.                                                            *)
LEMMA IsrEnabling == ASSUME IInv, Isr PROVE Enabling'
<1> USE DEF IInv
<1>1. isr \in Routines /\ call' = call /\ tmp' = tmp
  BY TurnsAre DEF Types, Threads
<1>2. Registered' = Registered /\ Wanted' = Wanted
  BY <1>1 DEF Registered, Wanted
<1>3. CASE IsrEnter
  <2>1. UNCHANGED <<rxIn, rxOut, txIn, txOut, irqEnable, control>> /\ isr'.pc = "control"
    BY <1>1, <1>3 DEF IsrEnter, rx, tx, core, Routines
  <2> QED
    BY <1>1, <1>2, <2>1 DEF Enabling, RxFull
<1>4. CASE IsrControl
  <2>1. /\ UNCHANGED <<rxIn, rxOut, txIn, txOut, irqEnable, control>>
        /\ isr'.pc \in {"rx", "tx", "off"} /\ (isr'.pc = "rx" => "RE" \in control)
    BY <1>1, <1>4 DEF IsrControl, rx, tx, core, IsrOff, Ri
  <2> QED
    BY <1>1, <1>2, <2>1 DEF Enabling, RxFull
<1>5. CASE IsrReceive
  <2>1. /\ UNCHANGED <<txIn, txOut, irqEnable, control>> /\ isr.pc = "rx"
        /\ isr'.pc \in {"rx", "rx_end"} /\ (isr'.pc = "rx_end" => ~isr'.avail)
    BY <1>1, <1>5 DEF IsrReceive, tx, Routines
  <2> QED
    BY <1>1, <1>2, <2>1 DEF Enabling
<1>6. CASE IsrReceiveStop
  <2>1. /\ UNCHANGED <<rxIn, rxOut, txIn, txOut, irqEnable, control>> /\ isr.pc = "rx"
        /\ isr'.pc = "rx_end" /\ RxFull
    BY <1>1, <1>6 DEF IsrReceiveStop, rx, tx, core, Routines
  <2> QED
    BY <1>1, <1>2, <2>1 DEF Enabling, RxFull
<1>7. CASE IsrReceiveEnd
  <2>1. /\ UNCHANGED <<rxIn, rxOut, txIn, txOut>> /\ isr.pc = "rx_end"
        /\ isr'.pc \in {"tx", "control"}
        /\ IF isr.avail THEN irqEnable' = irqEnable \ {"RE"} /\ control' = irqEnable'
           ELSE irqEnable' = irqEnable /\ control' = control
    BY <1>1, <1>7 DEF IsrReceiveEnd, rx, tx, enable, Routines
  <2>2. ("RE" \notin control' => RxFull \/ "RE" \notin control) /\ ("WE" \notin control' => "WE" \notin control)
    BY <2>1 DEF Enabling
  <2>3. call.pc \notin {"init", "register", "on"}
    BY <2>1 DEF Flow
  <2> QED
    BY <1>1, <1>2, <2>1, <2>2, <2>3 DEF Enabling, RxFull
<1>8. CASE IsrSend
  <2>1. /\ UNCHANGED <<rxIn, rxOut, txIn, irqEnable, control>> /\ isr.pc = "tx" /\ isr'.pc = "tx"
        /\ txIn # txOut
    BY <1>1, <1>8 DEF IsrSend, rx, Routines
  <2> QED
    BY <1>1, <1>2, <2>1 DEF Enabling, RxFull
<1>9. CASE IsrSendEnd
  <2>1. /\ UNCHANGED <<rxIn, rxOut, txIn, txOut>> /\ isr.pc = "tx" /\ isr'.pc = "control"
        /\ IF isr.space > 0 THEN irqEnable' = irqEnable \ {"WE"} /\ control' = irqEnable' /\ txIn = txOut
           ELSE irqEnable' = irqEnable /\ control' = control
    <3>1. isr.space > 0 => txIn = txOut
      BY <1>1, <1>9 DEF IsrSendEnd, Routines
    <3> QED
      BY <1>1, <1>9, <3>1 DEF IsrSendEnd, rx, tx, enable, Routines
  <2>2. "RE" \notin control' => "RE" \notin control
    BY <2>1 DEF Enabling
  <2>3. call.pc # "on"
    BY <2>1 DEF Flow
  <2> QED
    BY <1>1, <1>2, <2>1, <2>2, <2>3 DEF Enabling, RxFull
<1> QED
  BY <1>3, <1>4, <1>5, <1>6, <1>7, <1>8, <1>9 DEF Isr

LEMMA ProgramEnabling == ASSUME IInv, Continue PROVE Enabling'
<1> USE DEF IInv
<1>1. isr.pc = "off" /\ isr' = isr
  BY TurnsAre
<1>2. Registered
  BY ReadMoves, WriteMoves DEF Continue, Registered
<1>3. CASE ReadLoad \/ ReadEmpty \/ ReadSpin \/ ReadCheck \/ WriteSpin \/ WriteCheck \/ Close \/ WriteLoad
  <2>1. UNCHANGED <<rxIn, rxOut, txIn, txOut, irqEnable, control>>
    BY <1>3 DEF ReadLoad, ReadEmpty, ReadSpin, ReadCheck, WriteSpin, WriteCheck, Close, WriteLoad,
                Quiet, rx, tx, core
  <2>2. CASE ReadLoad \/ ReadEmpty \/ ReadSpin \/ ReadCheck
    <3>1. /\ call.op = "read" /\ call'.pc \notin {"on", "init", "register"}
          /\ (call'.op = "read" /\ call'.moved = call.moved) \/ ~call.moved
      BY <2>2, ReadMoves DEF Went, Ended, Flow
    <3> QED
      BY <1>1, <1>2, <2>1, <3>1 DEF Enabling, RxFull
  <2>3. CASE WriteSpin \/ WriteCheck \/ Close \/ WriteLoad
    <3>1. /\ call.op # "read" /\ call'.pc \notin {"on", "init", "register"}
          /\ (call.pc = "wr.load" => call'.op = "write" /\ call'.pc \in {"wr.publish", "off"})
          /\ call.pc \notin {"wr.publish", "off", "on"}
      BY <2>3, WriteMoves DEF Went, Ended, Flow
    <3> QED
      BY <1>1, <1>2, <2>1, <3>1 DEF Enabling, RxFull
  <2> QED
    BY <1>3, <2>2, <2>3
<1>4. CASE ReadPublish
  <2>1. /\ UNCHANGED <<txIn, txOut, irqEnable, control>>
        /\ call.op = "read" /\ call'.op = "read" /\ call'.moved
        /\ call'.pc \in {"rd.load", "rd.empty"}
    BY <1>4, ReadMoves DEF ReadPublish, tx, core, Flow
  <2> QED
    BY <1>1, <1>2, <2>1 DEF Enabling
<1>5. CASE WritePublish
  <2>1. /\ UNCHANGED <<rxIn, rxOut, irqEnable, control>>
        /\ call.op = "write" /\ call'.op = "write" /\ call'.pc \in {"wr.load", "off"}
    BY <1>5, WriteMoves DEF WritePublish, rx, core, Flow
  <2> QED
    BY <1>1, <1>2, <2>1 DEF Enabling, RxFull
<1>6. CASE DisableAll
  <2>1. /\ UNCHANGED <<rxIn, rxOut, txIn, txOut, irqEnable, control>>
        /\ call.pc = "off" /\ Went("on") /\ tmp' = irqEnable \cup {Wanted} /\ call.op \in {"read", "write"}
    BY <1>6, WriteMoves DEF DisableAll, rx, tx, core, Flow
  <2>2. Wanted' = Wanted
    BY <2>1 DEF Wanted, Went
  <2> QED
    BY <1>1, <1>2, <2>1, <2>2 DEF Enabling, RxFull, Went
<1>7. CASE EnableAll
  <2>1. /\ UNCHANGED <<rxIn, rxOut, txIn, txOut>> /\ irqEnable' = tmp /\ control' = tmp
        /\ call.pc = "on" /\ call.op \in {"read", "write"} /\ tmp = irqEnable \cup {Wanted}
    BY <1>7, WriteMoves DEF EnableAll, rx, tx, Flow, Enabling
  <2>2. call'.pc \in {"idle", "wr.spin"}
    BY <1>7, WriteMoves DEF Went, Ended
  <2>3. "RE" \notin control' => "RE" \notin control /\ call.op # "read"
    BY <2>1 DEF Wanted, Enabling
  <2>4. "WE" \notin control' => "WE" \notin control /\ call.op # "write"
    BY <2>1 DEF Wanted, Enabling
  <2> QED
    BY <1>1, <1>2, <2>1, <2>2, <2>3, <2>4 DEF Enabling, RxFull
<1> QED
  BY <1>3, <1>4, <1>5, <1>6, <1>7 DEF Continue

LEMMA NextEnabling == ASSUME IInv, [Next]_vars PROVE Enabling'
<1> USE DEF IInv
<1>1. CASE UNCHANGED vars
  BY <1>1 DEF vars, rx, tx, core, prog, Enabling, Registered, RxFull, Wanted
<1>2. CASE Timeout \/ Host \/ SetTimeout
  <2>1. UNCHANGED <<rxIn, rxOut, txIn, txOut, irqEnable, control>>
    BY <1>2 DEF Timeout, Looked, NotLooked, Host, HostSend, HostTake, SetTimeout, rx, tx, core, Enabling
  <2> QED
    BY <1>2, <2>1, TurnsAre DEF Enabling, Registered, RxFull, Wanted
<1>3. CASE EnableReceive
  <2>1. UNCHANGED <<rxIn, rxOut, txIn, txOut, isr>> /\ call.pc = "init" /\ control = {} /\ irqEnable' = {"RE"} /\ control' = {"RE"}
    BY <1>3 DEF EnableReceive, rx, tx, Enabling
  <2>2. call'.pc = "register" /\ txIn = txOut
    BY <1>3, <2>1 DEF EnableReceive, Enabling, Types, Threads, Calls
  <2> QED
    BY <2>1, <2>2 DEF Enabling, RxFull
<1>4. CASE StartWatchdog
  <2>1. UNCHANGED <<rxIn, rxOut, txIn, txOut, isr, irqEnable, control>> /\ call.pc = "register" /\ Ended
    BY <1>4 DEF StartWatchdog, rx, tx, core, NoCall, Ended
  <2> QED
    BY <2>1 DEF Enabling, RxFull, Ended
<1>5. CASE StartRead \/ StartWrite \/ StartClose
  <2>1. UNCHANGED <<rxIn, rxOut, txIn, txOut, isr, irqEnable, control>>
    BY <1>5 DEF StartRead, StartWrite, StartClose, Begin, Quiet, rx, tx, core
  <2>2. call.pc = "idle" /\ call.op = "none" /\ call'.pc \notin {"on", "init", "register"}
    BY <1>5, StartMoves DEF At, Flow
  <2> QED
    BY <2>1, <2>2 DEF Enabling, Registered, RxFull
<1> QED
  BY <1>1, <1>2, <1>3, <1>4, <1>5, IsrEnabling, ProgramEnabling DEF Next, Program, Initialise
-------------------------------------------------------------------------------
(* One character in, and one out: what it does to what is held, and that   *)
(* the program's copy is elsewhere.                                        *)
LEMMA SlotsApart ==
  ASSUME NEW a \in Slots, NEW b \in Slots, NEW k \in 1..Fill(b, a)
  PROVE  Place(a, k) # b
<1>1. /\ Fill(b, a) = IF b >= a THEN b - a ELSE b - a + BufLen
      /\ Fill(b, a) \in 0..(BufLen - 1)
  BY FillIs
<1>2. k \in 1..BufLen
  BY <1>1, BufLenAssumption
<1>3. Place(a, k) = IF a + k - 1 < BufLen THEN a + k - 1 ELSE a + k - 1 - BufLen
  BY <1>2, PlaceIs
<1> QED
  BY <1>1, <1>2, <1>3, BufLenAssumption DEF Slots

Stored(buf, new, s, v) == new = [buf EXCEPT ![s] = v]

LEMMA PutOne ==
  ASSUME NEW V, NEW buf \in [Slots -> V], NEW in \in Slots, NEW out \in Slots, NEW v \in V,
         Wrap(in + 1) # out,
         NEW new, Stored(buf, new, in, v)
  PROVE  /\ Fill(Wrap(in + 1), out) = Fill(in, out) + 1
         /\ Held(new, Wrap(in + 1), out) = Held(buf, in, out) \o <<v>>
         /\ Agree(buf, new, out, 1..Fill(in, out))
<1> DEFINE c == <<v>>
<1>1. new \in [Slots -> V] /\ c \in Seq(V) /\ Len(c) = 1
  BY DEF Stored
<1>2. Agree(buf, new, out, 1..Fill(in, out))
  BY SlotsApart DEF Agree, Stored
<1>3. Shows(new, in, c)
  <2>1. Place(in, 1) = in
    BY PlaceIs, BufLenAssumption DEF Slots
  <2> QED
    BY <2>1 DEF Shows, Stored
<1>4. Fill(in, out) + Len(c) < BufLen
  BY <1>1, Room
<1>5. Held(new, in, out) = Held(buf, in, out)
  BY <1>2 DEF Held, Place, Agree
<1> HIDE DEF c
<1>6. /\ Wrap(in + Len(c)) \in Slots
      /\ Fill(Wrap(in + Len(c)), out) = Fill(in, out) + Len(c)
      /\ Held(new, Wrap(in + Len(c)), out) = Held(new, in, out) \o c
  <2>1. Fits(V, new, in, out, c)
    BY <1>1, <1>3, <1>4 DEF Fits
  <2> QED
    BY <2>1, Put
<1> QED
  BY <1>1, <1>2, <1>5, <1>6 DEF c

Emptied(V, buf, new, in, out) ==
  /\ buf \in [Slots -> V] /\ in \in Slots /\ out \in Slots /\ in # out
  /\ Free \in V /\ Stored(buf, new, out, Free)

LEMMA TakeOne ==
  ASSUME NEW V, NEW buf, NEW new, NEW in, NEW out, Emptied(V, buf, new, in, out)
  PROVE  /\ Fill(in, Wrap(out + 1)) = Fill(in, out) - 1
         /\ Held(buf, in, out) = <<buf[out]>> \o Held(new, in, Wrap(out + 1))
<1> USE DEF Emptied
<1> DEFINE c == <<buf[out]>>
<1>1. new \in [Slots -> V] /\ c \in Seq(V) /\ Len(c) = 1
  BY DEF Stored
<1>2. /\ Fill(in, out) = IF in >= out THEN in - out ELSE in - out + BufLen
      /\ Fill(in, out) \in 0..(BufLen - 1)
  BY FillIs
<1>3. Fill(in, out) >= 1
  BY <1>2, BufLenAssumption DEF Slots
<1>4. Agree(buf, new, out, (Len(c) + 1)..Fill(in, out))
  <2> SUFFICES ASSUME NEW k \in 2..Fill(in, out)
               PROVE  new[Place(out, k)] = buf[Place(out, k)]
    BY <1>1 DEF Agree
  <2>1. k \in 1..BufLen
    BY <1>2, BufLenAssumption
  <2>2. /\ Place(out, k) = IF out + k - 1 < BufLen THEN out + k - 1 ELSE out + k - 1 - BufLen
        /\ Place(out, k) \in Slots
    BY <2>1, PlaceIs
  <2>3. Place(out, k) # out
    BY <1>2, <2>2, BufLenAssumption DEF Slots
  <2> QED
    BY <2>2, <2>3 DEF Stored
<1>5. Shows(buf, out, c)
  <2>1. Place(out, 1) = out
    BY PlaceIs, BufLenAssumption DEF Slots
  <2> QED
    BY <1>1, <2>1 DEF Shows
<1>6. Len(c) <= Fill(in, out)
  BY <1>1, <1>2, <1>3
<1> HIDE DEF c
<1>7. /\ Wrap(out + Len(c)) \in Slots
      /\ Fill(in, Wrap(out + Len(c))) = Fill(in, out) - Len(c)
      /\ Held(buf, in, out) = c \o Held(new, in, Wrap(out + Len(c)))
  <2>1. Drains(V, buf, new, in, out, c)
    BY <1>1, <1>4, <1>5, <1>6 DEF Drains
  <2> QED
    BY <2>1, Take
<1> QED
  BY <1>1, <1>7 DEF c

LEMMA ReceiveOne ==
  ASSUME Types, IsrReceive, rxFifo # <<>>
  PROVE  /\ Fill(rxIn', rxOut) = Fill(rxIn, rxOut) + 1
         /\ Held(rxBuf', rxIn', rxOut) = RxHeld \o <<Head(rxFifo)>>
         /\ Agree(rxBuf, rxBuf', rxOut, 1..Fill(rxIn, rxOut))
<1> DEFINE new == [rxBuf EXCEPT ![rxIn] = Head(rxFifo)]
<1>1. /\ rxIn \in Slots /\ rxOut \in Slots /\ rxBuf \in [Slots -> Typed \cup {Free}]
      /\ Head(rxFifo) \in Typed \cup {Free}
  BY HeadTailProperties DEF Types, Rings, Fifos
<1>2. rxBuf' = new /\ rxIn' = Wrap(rxIn + 1) /\ Wrap(rxIn + 1) # rxOut
  BY DEF IsrReceive, RxFull
<1>3. /\ Fill(Wrap(rxIn + 1), rxOut) = Fill(rxIn, rxOut) + 1
      /\ Held(new, Wrap(rxIn + 1), rxOut) = Held(rxBuf, rxIn, rxOut) \o <<Head(rxFifo)>>
      /\ Agree(rxBuf, new, rxOut, 1..Fill(rxIn, rxOut))
  BY <1>1, <1>2, PutOne DEF Stored
<1> QED
  BY <1>2, <1>3 DEF RxHeld

LEMMA SendOne ==
  ASSUME Types, IsrSend
  PROVE  /\ Fill(txIn, txOut') = Fill(txIn, txOut) - 1
         /\ TxHeld = <<txBuf[txOut]>> \o Held(txBuf', txIn, txOut')
<1> DEFINE new == [txBuf EXCEPT ![txOut] = Free]
<1>1. /\ txIn \in Slots /\ txOut \in Slots /\ txBuf \in [Slots -> Printed \cup {Free}]
      /\ Free \in Printed \cup {Free}
  BY DEF Types, Rings
<1>2. txBuf' = new /\ txOut' = Wrap(txOut + 1) /\ txIn # txOut
  BY DEF IsrSend
<1>3. /\ Fill(txIn, Wrap(txOut + 1)) = Fill(txIn, txOut) - 1
      /\ Held(txBuf, txIn, txOut) = <<txBuf[txOut]>> \o Held(new, txIn, Wrap(txOut + 1))
  <2>1. Emptied(Printed \cup {Free}, txBuf, new, txIn, txOut)
    BY <1>1, <1>2 DEF Emptied, Stored
  <2> HIDE DEF new
  <2> QED
    BY <2>1, TakeOne
<1> QED
  BY <1>2, <1>3 DEF TxHeld

(* What the program has copied stays as it is until it moves the index.    *)
LEMMA IsrCopied == ASSUME IInv, Isr PROVE Copied'
<1> USE DEF IInv
<1>1. call' = call /\ chunk' = chunk /\ chunk \in Seq(Items) /\ Len(chunk) \in Nat
  BY TurnsAre DEF Types, Threads
<1>2. CASE IsrReceive /\ rxFifo # <<>>
  <2>1. UNCHANGED <<rxOut, txBuf, txIn, txOut>>
    BY <1>2 DEF IsrReceive, tx
  <2>2. /\ Fill(rxIn', rxOut) = Fill(rxIn, rxOut) + 1
        /\ Agree(rxBuf, rxBuf', rxOut, 1..Fill(rxIn, rxOut))
    BY <1>2, ReceiveOne
  <2>3. Fill(rxIn, rxOut) \in Nat
    BY FillIs DEF Types, Rings
  <2>4. call.pc = "rd.publish" => Shows(rxBuf', rxOut, chunk)
    BY <1>1, <2>2, <2>3 DEF Copied, Shows, Agree
  <2> QED
    BY <1>1, <2>1, <2>2, <2>3, <2>4 DEF Copied
<1>3. CASE IsrSend
  <2>1. UNCHANGED <<rxBuf, rxIn, rxOut, txIn>> /\ txBuf' = [txBuf EXCEPT ![txOut] = Free]
    BY <1>3 DEF IsrSend, rx
  <2>2. Fill(txIn, txOut') = Fill(txIn, txOut) - 1 /\ Fill(txIn, txOut) \in 0..(BufLen - 1)
    BY <1>3, SendOne, FillIs DEF Types, Rings
  <2>3. call.pc = "wr.publish" => Shows(txBuf', txIn, chunk)
    <3> SUFFICES ASSUME call.pc = "wr.publish", NEW k \in 1..Len(chunk)
                 PROVE  txBuf'[Place(txIn, k)] = txBuf[Place(txIn, k)]
      BY DEF Copied, Shows
    <3>1. txIn \in Slots /\ txOut \in Slots /\ txIn # txOut
      BY <1>3 DEF Types, Rings, IsrSend
    <3>2. /\ Fill(txIn, txOut) + Len(chunk) < BufLen
          /\ Fill(txIn, txOut) = IF txIn >= txOut THEN txIn - txOut ELSE txIn - txOut + BufLen
          /\ Fill(txOut, txIn) = IF txOut >= txIn THEN txOut - txIn ELSE txOut - txIn + BufLen
      BY <3>1, FillIs DEF Copied
    <3>3. k \in 1..Fill(txOut, txIn)
      BY <1>1, <3>1, <3>2, BufLenAssumption DEF Slots
    <3>4. Place(txIn, k) # txOut
      BY <3>1, <3>3, SlotsApart
    <3> QED
      BY <2>1, <3>4 DEF Types, Rings
  <2> QED
    BY <1>1, <2>1, <2>2, <2>3, BufLenAssumption DEF Copied
<1>4. CASE ~IsrSend /\ ~(IsrReceive /\ rxFifo # <<>>)
  <2>1. UNCHANGED <<rx, tx>>
    BY <1>4 DEF Isr, IsrEnter, IsrControl, IsrReceive, IsrReceiveStop, IsrReceiveEnd, IsrSendEnd
  <2> QED
    BY <1>1, <2>1 DEF Copied, rx, tx
<1> QED
  BY <1>2, <1>3, <1>4

LEMMA NextCopied == ASSUME IInv, [Next]_vars PROVE Copied'
<1> USE DEF IInv
<1>1. CASE ReadLoad
  <2>1. UNCHANGED <<rx, tx>>
    BY <1>1 DEF ReadLoad, Quiet
  <2> QED
    BY <1>1, <2>1, ReadLoadStep DEF Copied, rx, tx
<1>2. CASE WriteLoad
  <2>1. UNCHANGED <<rx, txIn, txOut>>
    BY <1>2 DEF WriteLoad
  <2> QED
    BY <1>2, <2>1, WriteLoadStep DEF Copied, rx
<1>3. CASE UNCHANGED vars
  BY <1>3 DEF vars, rx, tx, prog, Copied
<1>4. CASE Timeout \/ Host \/ SetTimeout
  <2>1. UNCHANGED <<rx, tx>>
    BY <1>4 DEF Timeout, Looked, NotLooked, Host, HostSend, HostTake, SetTimeout
  <2> QED
    BY <1>4, <2>1, TurnsAre DEF Copied, rx, tx
<1>5. CASE Continue /\ ~ReadLoad /\ ~WriteLoad
  BY <1>5, ReadMoves, WriteMoves DEF Continue, Copied, Went, Ended
<1>6. CASE StartRead \/ StartWrite \/ StartClose
  BY <1>6, StartMoves DEF Copied
<1>7. CASE Initialise
  <2>1. call'.pc \in {"register", "idle"}
    BY <1>7 DEF Initialise, EnableReceive, StartWatchdog, NoCall, Types, Threads, Calls
  <2> QED
    BY <2>1 DEF Copied
<1> QED
  BY <1>1, <1>2, <1>3, <1>4, <1>5, <1>6, <1>7, IsrCopied DEF Next, Program, Continue

LEMMA StepIInv == IInv /\ [Next]_vars => IInv'
BY NextTypes, NextFlow, NextCopied, NextEnabling DEF IInv

(* Spec keeps the invariant.                                               *)
THEOREM Invariance == Spec => []IInv
<1>1. Init => IInv
  BY InitIInv
<1>2. IInv /\ [Next]_vars => IInv'
  BY StepIInv
<1> QED
  BY <1>1, <1>2, PTL DEF Spec

(* read.c 99-191 and write.c 86-133: indices stay inside the buffers, and  *)
(* a FIFO is never written beyond its depth, on the space an old read of   *)
(* the control register showed.                                            *)
THEOREM TypeCorrect == Spec => []TypeOK
<1>1. IInv => TypeOK
  <2> SUFFICES ASSUME Types PROVE TypeOK
    BY DEF IInv
  <2>1. isr.space \in 0..FifoDepth /\ call.left \in 0..MaxCall
    BY DEF Types, Threads, Routines, Calls
  <2>2. Len(rxFifo) <= FifoDepth /\ Len(txFifo) <= FifoDepth
    <3>1. Len(txFifo) \in Nat
      BY DEF Types, Fifos
    <3> QED
      BY <2>1, <3>1, Constants DEF Types, Fifos
  <2> QED
    BY <2>1, <2>2 DEF Types, Rings, Registers, TypeOK
<1> QED
  BY <1>1, Invariance, PTL

(* init.c 150-157, read.c 187-194: whatever the lengths, receive interrupts *)
(* are off only with a full buffer or a read about to turn them on.        *)
THEOREM FetchedUnlessFull == Spec => []ReceivesUnlessFull
<1>1. IInv => ReceivesUnlessFull
  BY DEF IInv, Enabling, ReceivesUnlessFull
<1> QED
  BY <1>1, Invariance, PTL

(* init.c 186-193, write.c 145-148: and characters wait without transmit   *)
(* interrupts only under a write that will turn them on.                   *)
THEOREM WaitingIsSent == Spec => []SendsWhatWaits
<1>1. IInv => SendsWhatWaits
  BY DEF IInv, Enabling, SendsWhatWaits
<1> QED
  BY <1>1, Invariance, PTL
-------------------------------------------------------------------------------
(* The streams.                                                            *)
LEMMA QueuesAre ==
  ASSUME Types
  PROVE  /\ RxHeld \in Seq(Items) /\ TxHeld \in Seq(Items)
         /\ rxFifo \in Seq(Items) /\ txFifo \in Seq(Items)
         /\ rxBuf \in [Slots -> Items] /\ txBuf \in [Slots -> Items]
<1>1. rxBuf \in [Slots -> Items] /\ txBuf \in [Slots -> Items]
  BY DEF Types, Rings, Items
<1>2. RxHeld \in Seq(Items) /\ TxHeld \in Seq(Items)
  BY <1>1, HeldIs DEF Types, Rings, RxHeld, TxHeld
<1>3. rxFifo \in Seq(Items) /\ txFifo \in Seq(Items)
  BY DEF Types, Fifos, Items
<1> QED
  BY <1>1, <1>2, <1>3

LEMMA AppendAfter ==
  ASSUME NEW V, NEW s \in Seq(V), NEW t \in Seq(V), NEW v \in V
  PROVE  s \o Append(t, v) = Append(s \o t, v)
<1>1. Append(t, v) = t \o <<v>> /\ Append(s \o t, v) = (s \o t) \o <<v>>
  BY AppendIsConcat
<1> QED
  BY <1>1, ConcatAssociative

LEMMA HeadFirst ==
  ASSUME NEW V, NEW s \in Seq(V), s # <<>>
  PROVE  Head(s) \in V /\ Tail(s) \in Seq(V) /\ s = <<Head(s)>> \o Tail(s)
OBVIOUS

LEMMA TailOfConcat ==
  ASSUME NEW V, NEW s \in Seq(V), NEW t \in Seq(V), s # <<>>
  PROVE  s \o t # <<>> /\ Tail(s \o t) = Tail(s) \o t
OBVIOUS

(* A read takes the oldest characters, and only those.                     *)
LEMMA ReadTakes ==
  ASSUME IInv, ReadPublish
  PROVE  chunk # <<>> /\ RxHeld = chunk \o RxHeld'
<1>1. /\ rxIn \in Slots /\ rxOut \in Slots /\ chunk \in Seq(Items) /\ Len(chunk) \in Nat
      /\ Len(chunk) > 0 /\ rxOut + Len(chunk) <= BufLen
      /\ Len(chunk) <= Fill(rxIn, rxOut) /\ Shows(rxBuf, rxOut, chunk)
  BY DEF IInv, Types, Rings, Threads, Copied, ReadPublish, At
<1>2. rxBuf \in [Slots -> Items]
  BY QueuesAre DEF IInv
<1> DEFINE new == [s \in Slots |-> IF s \in rxOut..(rxOut + Len(chunk) - 1) THEN Free ELSE rxBuf[s]]
<1>3. rxBuf' = new /\ rxOut' = Wrap(rxOut + Len(chunk)) /\ rxIn' = rxIn
  BY DEF ReadPublish
<1>4. new \in [Slots -> Items]
  BY <1>2 DEF Items
<1>5. Agree(rxBuf, new, rxOut, (Len(chunk) + 1)..Fill(rxIn, rxOut))
  <2> SUFFICES ASSUME NEW k \in (Len(chunk) + 1)..Fill(rxIn, rxOut)
               PROVE  new[Place(rxOut, k)] = rxBuf[Place(rxOut, k)]
    BY DEF Agree
  <2>1. Fill(rxIn, rxOut) \in 0..(BufLen - 1)
    BY <1>1, FillIs
  <2>2. k \in 1..BufLen /\ k > Len(chunk)
    BY <1>1, <2>1, BufLenAssumption
  <2>3. /\ Place(rxOut, k) = IF rxOut + k - 1 < BufLen THEN rxOut + k - 1 ELSE rxOut + k - 1 - BufLen
        /\ Place(rxOut, k) \in Slots
    BY <1>1, <2>2, PlaceIs
  <2>4. Place(rxOut, k) \notin rxOut..(rxOut + Len(chunk) - 1)
    BY <1>1, <2>2, <2>3, BufLenAssumption DEF Slots
  <2> QED
    BY <2>3, <2>4
<1> HIDE DEF new
<1>6. Drains(Items, rxBuf, new, rxIn, rxOut, chunk)
  BY <1>1, <1>2, <1>4, <1>5 DEF Drains
<1>7. Held(rxBuf, rxIn, rxOut) = chunk \o Held(new, rxIn, Wrap(rxOut + Len(chunk)))
  BY <1>6, Take
<1>8. chunk # <<>>
  BY <1>1
<1> QED
  BY <1>3, <1>7, <1>8 DEF RxHeld

(* A write adds its characters behind the others.                          *)
LEMMA WritePuts ==
  ASSUME IInv, WritePublish
  PROVE  chunk # <<>> /\ TxHeld' = TxHeld \o chunk
<1>1. /\ txIn \in Slots /\ txOut \in Slots /\ chunk \in Seq(Items) /\ Len(chunk) > 0
      /\ Fill(txIn, txOut) + Len(chunk) < BufLen /\ Shows(txBuf, txIn, chunk)
  BY DEF IInv, Types, Rings, Threads, Copied, WritePublish, At
<1>2. Fits(Items, txBuf, txIn, txOut, chunk)
  BY <1>1, QueuesAre DEF Fits, IInv
<1>3. Held(txBuf, Wrap(txIn + Len(chunk)), txOut) = Held(txBuf, txIn, txOut) \o chunk
  BY <1>2, Put
<1>4. txBuf' = txBuf /\ txIn' = Wrap(txIn + Len(chunk)) /\ txOut' = txOut
  BY DEF WritePublish
<1>5. chunk # <<>>
  BY <1>1
<1> QED
  BY <1>3, <1>4, <1>5 DEF TxHeld

(* Every other step leaves a queue as it is.                               *)
LEMMA Elsewhere ==
  ASSUME IInv, [Next]_vars
  PROVE  /\ ~ReadPublish /\ ~IsrReceive => RxHeld' = RxHeld
         /\ ~HostSend /\ ~IsrReceive => rxFifo' = rxFifo
         /\ ~WritePublish /\ ~IsrSend => TxHeld' = TxHeld
         /\ ~HostTake /\ ~IsrSend => txFifo' = txFifo
<1>1. ~ReadPublish /\ ~IsrReceive => rx' = rx
  BY DEF Next, vars, Program, Initialise, EnableReceive, StartWatchdog, StartRead, StartWrite,
         StartClose, Begin, SetTimeout, Continue, ReadLoad, ReadEmpty, ReadSpin, ReadCheck, WriteLoad,
         WritePublish, WriteSpin, WriteCheck, DisableAll, EnableAll, Close, Quiet, Isr, IsrEnter,
         IsrControl, IsrReceiveStop, IsrReceiveEnd, IsrSend, IsrSendEnd, Timeout, Looked, NotLooked,
         Host, HostSend, HostTake
<1>2. ~HostSend /\ ~IsrReceive => rxFifo' = rxFifo
  BY DEF Next, vars, Program, Initialise, EnableReceive, StartWatchdog, StartRead, StartWrite,
         StartClose, Begin, SetTimeout, Continue, ReadLoad, ReadPublish, ReadEmpty, ReadSpin, ReadCheck,
         WriteLoad, WritePublish, WriteSpin, WriteCheck, DisableAll, EnableAll, Close, Quiet, Isr,
         IsrEnter, IsrControl, IsrReceiveStop, IsrReceiveEnd, IsrSend, IsrSendEnd, Timeout, Looked,
         NotLooked, Host, HostTake, core
<1>3. ~WritePublish /\ ~IsrSend /\ ~WriteLoad => tx' = tx
  BY DEF Next, vars, Program, Initialise, EnableReceive, StartWatchdog, StartRead, StartWrite,
         StartClose, Begin, SetTimeout, Continue, ReadLoad, ReadPublish, ReadEmpty, ReadSpin, ReadCheck,
         WriteSpin, WriteCheck, DisableAll, EnableAll, Close, Quiet, Isr, IsrEnter, IsrControl,
         IsrReceive, IsrReceiveStop, IsrReceiveEnd, IsrSendEnd, Timeout, Looked, NotLooked,
         Host, HostSend, HostTake
<1>4. WriteLoad => TxHeld' = TxHeld
  <2> SUFFICES ASSUME WriteLoad PROVE TxHeld' = TxHeld
    OBVIOUS
  <2>1. txIn' = txIn /\ txOut' = txOut
    BY DEF WriteLoad
  <2> QED
    BY <2>1, WriteLoadStep DEF TxHeld, IInv
<1>5. ~HostTake /\ ~IsrSend => txFifo' = txFifo
  BY DEF Next, vars, Program, Initialise, EnableReceive, StartWatchdog, StartRead, StartWrite,
         StartClose, Begin, SetTimeout, Continue, ReadLoad, ReadPublish, ReadEmpty, ReadSpin, ReadCheck,
         WriteLoad, WritePublish, WriteSpin, WriteCheck, DisableAll, EnableAll, Close, Quiet, Isr,
         IsrEnter, IsrControl, IsrReceive, IsrReceiveStop, IsrReceiveEnd, IsrSendEnd, Timeout, Looked,
         NotLooked, Host, HostSend, core
<1> QED
  BY <1>1, <1>2, <1>3, <1>4, <1>5 DEF rx, tx, RxHeld, TxHeld

LEMMA InputStep ==
  IInv /\ [Next]_vars => [Input!Arrive \/ Input!Receive]_(RxHeld \o rxFifo)
<1> SUFFICES ASSUME IInv, [Next]_vars
             PROVE  \/ Input!Arrive \/ Input!Receive
                    \/ (RxHeld \o rxFifo)' = RxHeld \o rxFifo
  OBVIOUS
<1>1. RxHeld \in Seq(Items) /\ rxFifo \in Seq(Items) /\ chunk \in Seq(Items)
  BY QueuesAre DEF IInv, Types, Threads
<1>2. RxHeld' \in Seq(Items)
  <2>1. Types'
    BY StepIInv DEF IInv
  <2> QED
    BY <2>1, HeldIs DEF Types, Rings, RxHeld, Items
<1>3. CASE HostSend
  <2>1. RxHeld' = RxHeld
    BY <1>3 DEF HostSend, rx, RxHeld
  <2>2. PICK v \in Typed : rxFifo' = Append(rxFifo, v)
    BY <1>3 DEF HostSend
  <2>3. RxHeld \o Append(rxFifo, v) = Append(RxHeld \o rxFifo, v)
    BY <1>1, AppendAfter DEF Items
  <2>4. Input!Arrive
    BY <2>1, <2>2, <2>3 DEF Input!Arrive
  <2> QED
    BY <2>4
<1>4. CASE IsrReceive /\ rxFifo = <<>>
  BY <1>4 DEF IsrReceive, rx, RxHeld
<1>5. CASE IsrReceive /\ rxFifo # <<>>
  <2>1. RxHeld' = RxHeld \o <<Head(rxFifo)>>
    <3>1. rxOut' = rxOut
      BY <1>5 DEF IsrReceive
    <3>2. Held(rxBuf', rxIn', rxOut) = RxHeld \o <<Head(rxFifo)>>
      BY <1>5, ReceiveOne DEF IInv
    <3> QED
      BY <3>1, <3>2 DEF RxHeld
  <2>2. rxFifo' = Tail(rxFifo)
    BY <1>5 DEF IsrReceive
  <2>3. Head(rxFifo) \in Items /\ Tail(rxFifo) \in Seq(Items) /\ rxFifo = <<Head(rxFifo)>> \o Tail(rxFifo)
    BY <1>1, <1>5, HeadFirst
  <2>4. (RxHeld \o <<Head(rxFifo)>>) \o Tail(rxFifo) = RxHeld \o (<<Head(rxFifo)>> \o Tail(rxFifo))
    BY <1>1, <2>3, ConcatAssociative
  <2> QED
    BY <2>1, <2>2, <2>3, <2>4
<1>6. CASE ReadPublish
  <2>1. chunk # <<>> /\ RxHeld = chunk \o RxHeld'
    BY <1>6, ReadTakes
  <2>2. rxFifo' = rxFifo
    BY <1>6 DEF ReadPublish, core
  <2>3. (chunk \o RxHeld') \o rxFifo = chunk \o (RxHeld' \o rxFifo)
    BY <1>1, <1>2, ConcatAssociative
  <2>4. Input!Receive
    BY <2>1, <2>2, <2>3 DEF Input!Receive
  <2> QED
    BY <2>4
<1>7. CASE ~HostSend /\ ~IsrReceive /\ ~ReadPublish
  BY <1>7, Elsewhere
<1> QED
  BY <1>3, <1>4, <1>5, <1>6, <1>7

LEMMA OutputStep ==
  IInv /\ [Next]_vars => [Output!Send \/ Output!Depart]_(txFifo \o TxHeld)
<1> SUFFICES ASSUME IInv, [Next]_vars
             PROVE  \/ Output!Send \/ Output!Depart
                    \/ (txFifo \o TxHeld)' = txFifo \o TxHeld
  OBVIOUS
<1>1. TxHeld \in Seq(Items) /\ txFifo \in Seq(Items) /\ chunk \in Seq(Items)
  BY QueuesAre DEF IInv, Types, Threads
<1>2. TxHeld' \in Seq(Items)
  <2>1. Types'
    BY StepIInv DEF IInv
  <2> QED
    BY <2>1, HeldIs DEF Types, Rings, TxHeld, Items
<1>3. CASE HostTake
  <2>1. TxHeld' = TxHeld /\ txFifo # <<>> /\ txFifo' = Tail(txFifo)
    BY <1>3 DEF HostTake, tx, TxHeld
  <2>2. txFifo \o TxHeld # <<>> /\ Tail(txFifo \o TxHeld) = Tail(txFifo) \o TxHeld
    BY <1>1, <2>1, TailOfConcat
  <2>3. Output!Depart
    BY <2>1, <2>2 DEF Output!Depart
  <2> QED
    BY <2>3
<1>4. CASE IsrSend
  <2>1. TxHeld = <<txBuf[txOut]>> \o TxHeld'
    <3>1. txIn' = txIn
      BY <1>4 DEF IsrSend
    <3>2. TxHeld = <<txBuf[txOut]>> \o Held(txBuf', txIn, txOut')
      BY <1>4, SendOne DEF IInv
    <3> QED
      BY <3>1, <3>2 DEF TxHeld
  <2>2. txFifo' = Append(txFifo, txBuf[txOut]) /\ txBuf[txOut] \in Items
    BY <1>4, QueuesAre DEF IsrSend, IInv, Types, Rings
  <2>3. Append(txFifo, txBuf[txOut]) = txFifo \o <<txBuf[txOut]>>
    BY <1>1, <2>2, AppendIsConcat
  <2>4. (txFifo \o <<txBuf[txOut]>>) \o TxHeld' = txFifo \o (<<txBuf[txOut]>> \o TxHeld')
    BY <1>1, <1>2, <2>2, ConcatAssociative
  <2> QED
    BY <2>1, <2>2, <2>3, <2>4
<1>5. CASE WritePublish
  <2>1. chunk # <<>> /\ TxHeld' = TxHeld \o chunk
    BY <1>5, WritePuts
  <2>2. txFifo' = txFifo
    BY <1>5 DEF WritePublish, core
  <2>3. (txFifo \o TxHeld) \o chunk = txFifo \o (TxHeld \o chunk)
    BY <1>1, ConcatAssociative
  <2>4. Output!Send
    BY <2>1, <2>2, <2>3 DEF Output!Send
  <2> QED
    BY <2>4
<1>6. CASE ~HostTake /\ ~IsrSend /\ ~WritePublish
  BY <1>6, Elsewhere
<1> QED
  BY <1>3, <1>4, <1>5, <1>6

(* init.c 102-197 and read.c 148: for every length of buffer and FIFO the  *)
(* program reads what the host sent, in order, none lost and none twice.   *)
THEOREM InputIsStream == Spec => ReceivedInOrder
<1>1. Init => RxHeld \o rxFifo = <<>>
  <2> SUFFICES ASSUME Init PROVE RxHeld \o rxFifo = <<>>
    OBVIOUS
  <2>1. RxHeld = <<>>
    BY BufLenAssumption DEF Init, RxHeld, Held, Fill
  <2> QED
    BY <2>1 DEF Init
<1>2. IInv /\ [Next]_vars => [Input!Arrive \/ Input!Receive]_(RxHeld \o rxFifo)
  BY InputStep
<1> QED
  BY <1>1, <1>2, Invariance, PTL DEF Spec, ReceivedInOrder, Input!InputSpec

(* write.c 127 and init.c 162-183: and the host takes what it wrote.       *)
THEOREM OutputIsStream == Spec => SentInOrder
<1>1. Init => txFifo \o TxHeld = <<>>
  <2> SUFFICES ASSUME Init PROVE txFifo \o TxHeld = <<>>
    OBVIOUS
  <2>1. TxHeld = <<>>
    BY BufLenAssumption DEF Init, TxHeld, Held, Fill
  <2> QED
    BY <2>1 DEF Init
<1>2. IInv /\ [Next]_vars => [Output!Send \/ Output!Depart]_(txFifo \o TxHeld)
  BY OutputStep
<1> QED
  BY <1>1, <1>2, Invariance, PTL DEF Spec, SentInOrder, Output!OutputSpec
===============================================================================
