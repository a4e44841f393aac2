------------------------------ MODULE KeyExchange ------------------------------
(***************************************************************************)
(* The key exchange: main.c and Key_Receiver.sv joined by the parallel     *)
(* ports.  The processor's stores appear at once in the port registers; a  *)
(* load of to_sw_sig returns what the input port sampled one clock ago.    *)
(***************************************************************************)
EXTENDS KeySender, KeyReceiver

CONSTANT Gap    \* clocks that pass at least between two accesses

(* A store reaches to_sw_sig in one clock and readdata in the next; the    *)
(* processor takes several clocks for each instruction.                    *)
ASSUME GapAssumption == Gap \in Nat /\ Gap >= 2

ASSUME TypedAssumption ==
  \A t \in Typed : /\ t[1] \in [0..(RowLen - 1) -> Char]
                    /\ t[2] \in [0..(ColLen - 1) -> Char]
                    /\ t[3] \in [0..(DiagLen - 1) -> Char]

VARIABLES readdata,   \* the input port's copy of to_sw_sig
          since       \* clocks since the last access, counted up to Gap

exchangeVars == <<svars, rvars, readdata, since>>

ExchangeInit == SInit /\ RInit /\ readdata = 0 /\ since = 0

HwClock ==
  /\ Receive(to_hw_sig, to_hw_port)
  /\ readdata' = to_sw_sig
  /\ since' = IF since < Gap THEN since + 1 ELSE since
  /\ UNCHANGED svars

SwAccess ==
  /\ since = Gap
  /\ Access(readdata)
  /\ since' = 0
  /\ UNCHANGED <<rvars, readdata>>

Reset ==
  /\ Restart
  /\ since' = 0
  /\ UNCHANGED <<rvars, readdata>>

ExchangeNext == HwClock \/ SwAccess \/ Reset

ExchangeSpec == ExchangeInit /\ [][ExchangeNext]_exchangeVars

(* The clock runs and the processor executes; the dialogue may wait for    *)
(* ever for the user, and nobody has to press Reset.                       *)
FairExchange == ExchangeSpec /\ WF_exchangeVars(HwClock) /\ WF_exchangeVars(SwAccess /\ pc # "prompt")

-------------------------------------------------------------------------------
ExchangeTypeOK ==
  /\ ReceiverTypeOK
  /\ pc \in {"clear_sig", "clear_port", "prompt", "hello", "say_hello", "put_port",
             "put_sig", "look", "next_sig", "await_next", "rewind", "say_rewind",
             "command_port", "command_sig", "await_command", "end"}
  /\ group \in {"row", "column", "diagonal"} /\ i \in 0..KeyLen(group)
  /\ row_key \in [0..(RowLen - 1) -> Char] /\ column_key \in [0..(ColLen - 1) -> Char]
  /\ diaognal_key \in [0..(DiagLen - 1) -> Char]
  /\ command \in {"none", "E", "D", "other"}
  /\ to_hw_sig \in 0..10 /\ to_hw_port \in Char
  /\ readdata \in 0..10 /\ since \in 0..Gap

(* When the session ends the two keys and the command are in the hardware  *)
(* as they were typed, whatever sessions were cut short before.            *)
KeysDelivered ==
  pc = "end" => /\ row_shift = row_key
                /\ column_shift = column_key
                /\ Command = (IF command = "E" THEN 1 ELSE 0)

(* A byte is taken only while the port shows it: the receiver's position   *)
(* is the sender's whenever a store can happen.                            *)
SamePosition ==
  to_hw_sig \in {2, 5} => counter = i /\ to_hw_port = Key(group)[i]

(* How many bytes of a key have arrived, read off the handshake.           *)
RowGot ==
  IF to_sw_sig <= 1 THEN 0
  ELSE IF to_sw_sig = 2 THEN counter + 1 ELSE IF to_sw_sig = 3 THEN counter ELSE RowLen
ColumnGot ==
  IF to_sw_sig <= 4 THEN 0
  ELSE IF to_sw_sig = 5 THEN counter + 1 ELSE IF to_sw_sig = 6 THEN counter ELSE ColLen

Row    == INSTANCE ByteTransfer WITH N <- RowLen, src <- row_key, dst <- row_shift,
                                     got <- RowGot
Column == INSTANCE ByteTransfer WITH N <- ColLen, src <- column_key,
                                     dst <- column_shift, got <- ColumnGot

(* Each of the two keys goes over as ByteTransfer says.                    *)
TransfersRow    == Row!Spec
TransfersColumn == Column!Spec
KeysTransferred == TransfersRow /\ TransfersColumn

(* A session that has begun ends, unless Reset is pressed during it: no    *)
(* answer is missed for good.                                              *)
SessionEnds == pc = "hello" ~> pc \in {"end", "clear_sig"}

-------------------------------------------------------------------------------
(* main.c line 47 prompts for three characters of Key 3 and Key_Receiver   *)
(* has a place for each: at the end of a session all three have arrived.   *)
DiagonalDelivered == pc = "end" => diagonal_shift = diaognal_key
===============================================================================
