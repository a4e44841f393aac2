------------------------------ MODULE KeyReceiver ------------------------------
(***************************************************************************)
(* Key_Receiver.sv: the hardware end of the key exchange.  One step is one *)
(* rising edge of Clk; what it does is chosen by to_hw_sig, the signal     *)
(* register the processor writes, and it answers in to_sw_sig.  A key      *)
(* register is a function of its byte positions.  The processor writes no  *)
(* signal but 0..10, and the module does nothing on any other.             *)
(***************************************************************************)
EXTENDS KeySizes

CONSTANT Char     \* what a byte of a key may be

ASSUME CharAssumption == {0, 1} \subseteq Char /\ Char \subseteq Nat

VARIABLES counter, to_sw_sig, row_shift, column_shift, diagonal_shift, Command

rvars == <<counter, to_sw_sig, row_shift, column_shift, diagonal_shift, Command>>
keys  == <<row_shift, column_shift, diagonal_shift>>

RInit ==
  /\ counter = 0 /\ to_sw_sig = 0
  /\ row_shift = [i \in 0..(RowLen - 1) |-> 0]
  /\ column_shift = [i \in 0..(ColLen - 1) |-> 0]
  /\ diagonal_shift = [i \in 0..(DiagLen - 1) |-> 0]
  /\ Command = 0

(* The case on counter: a position outside the register stores nothing.    *)
Stored(key, port) == IF counter \in DOMAIN key THEN [key EXCEPT ![counter] = port] ELSE key

Idle(sig) ==
  /\ sig = 0
  /\ to_sw_sig' = 0 /\ counter' = 0
  /\ UNCHANGED <<keys, Command>>

Hello(sig) ==
  /\ sig = 1
  /\ to_sw_sig' = 1
  /\ UNCHANGED <<counter, keys, Command>>

StoreRow(sig, port) ==
  /\ sig = 2
  /\ row_shift' = Stored(row_shift, port)
  /\ to_sw_sig' = 2
  /\ UNCHANGED <<counter, column_shift, diagonal_shift, Command>>

StoreColumn(sig, port) ==
  /\ sig = 5
  /\ column_shift' = Stored(column_shift, port)
  /\ to_sw_sig' = 5
  /\ UNCHANGED <<counter, row_shift, diagonal_shift, Command>>

StoreDiagonal(sig, port) ==
  /\ sig = 8
  /\ diagonal_shift' = Stored(diagonal_shift, port)
  /\ to_sw_sig' = 8
  /\ UNCHANGED <<counter, row_shift, column_shift, Command>>

(* The counter moves on the first clock of the signal only.                *)
EveryClock(sig, by) == counter' = (counter + by) % 32        \* mutant of Bump
Bump(sig, by) ==
  counter' = IF to_sw_sig # sig THEN (counter + by) % 32 ELSE counter

Advance(sig) ==
  /\ sig \in {3, 6}
  /\ Bump(sig, 1)
  /\ to_sw_sig' = sig
  /\ UNCHANGED <<keys, Command>>

AdvanceDiagonal(sig) ==
  /\ sig = 9
  /\ Bump(sig, 8)
  /\ to_sw_sig' = sig
  /\ UNCHANGED <<keys, Command>>

NoAnswer(sig) ==                                             \* mutant of Rewind
  /\ sig \in {4, 7}
  /\ counter' = 0
  /\ UNCHANGED <<to_sw_sig, keys, Command>>
KeepCounter(sig) ==                                          \* mutant of Rewind
  /\ sig \in {4, 7}
  /\ to_sw_sig' = sig
  /\ UNCHANGED <<counter, keys, Command>>
Rewind(sig) ==
  /\ sig \in {4, 7}
  /\ counter' = 0
  /\ to_sw_sig' = sig
  /\ UNCHANGED <<keys, Command>>

TakeCommand(sig, port) ==
  /\ sig = 10
  /\ Command' = port % 2
  /\ to_sw_sig' = 10
  /\ UNCHANGED <<counter, keys>>

Receive(sig, port) ==
  \/ Idle(sig) \/ Hello(sig) \/ Rewind(sig) \/ Advance(sig) \/ AdvanceDiagonal(sig)
  \/ StoreRow(sig, port) \/ StoreColumn(sig, port) \/ StoreDiagonal(sig, port)
  \/ TakeCommand(sig, port)

ReceiverTypeOK ==
  /\ counter \in Nat /\ counter < 32 /\ to_sw_sig \in 0..10 /\ Command \in {0, 1}
  /\ row_shift \in [0..(RowLen - 1) -> Char]
  /\ column_shift \in [0..(ColLen - 1) -> Char]
  /\ diagonal_shift \in [0..(DiagLen - 1) -> Char]
===============================================================================
