--------------------------- MODULE KeyExchange_proofs ---------------------------
(***************************************************************************)
(* Proofs about the key exchange for keys of every length below 32, every  *)
(* alphabet and every processor at least Gap >= 2 clocks apart between its *)
(* accesses.  IInv says, for each place in main.c, which signal is out,    *)
(* which answers may still be standing, and where the receiver's counter   *)
(* is.                                                                     *)
(***************************************************************************)
EXTENDS KeyExchange, TLAPS

(* One clock after a store the answer is the signal (and signal 0 has      *)
(* cleared the counter); one more clock later the processor can see it.    *)
Settled ==
  /\ since >= 1 => to_sw_sig = to_hw_sig /\ (to_hw_sig = 0 => counter = 0)
  /\ since >= 2 => readdata = to_sw_sig

base == PutSig(group)

IdleInv ==
  /\ pc \in {"clear_sig", "clear_port", "prompt", "say_hello"} => to_hw_sig = 0
  /\ pc \in {"clear_port", "prompt", "say_hello"} => to_sw_sig = 0 /\ counter = 0
  /\ pc \in {"hello", "say_hello"} => group = "row" /\ i = 0
  /\ pc = "hello" => /\ to_hw_sig \in {0, 1} /\ to_sw_sig \in 0..to_hw_sig
                     /\ counter = 0

PutInv ==
  /\ pc \in {"put_port", "put_sig"} =>
       /\ i < KeyLen(group)
       /\ to_hw_sig = (IF i = 0 THEN base - 1 ELSE base + 1) /\ to_sw_sig = to_hw_sig
       /\ group # "diagonal" => counter = i
  /\ pc \in {"put_sig", "look", "next_sig"} => to_hw_port = Key(group)[i]
  /\ pc \in {"look", "next_sig"} =>
       /\ i < KeyLen(group) /\ to_hw_sig = base
       /\ to_sw_sig \in {base, IF i = 0 THEN base - 1 ELSE base + 1}
       /\ pc = "next_sig" => to_sw_sig = base
       /\ group # "diagonal" => counter = i
  /\ pc = "await_next" =>
       /\ i < KeyLen(group) /\ to_hw_sig = base + 1 /\ to_sw_sig \in {base, base + 1}
       /\ group # "diagonal" => counter = (IF to_sw_sig = base THEN i ELSE i + 1)

RewindInv ==
  pc \in {"rewind", "say_rewind"} =>
    /\ group # "diagonal" /\ i = KeyLen(group)
    /\ to_hw_sig \in {base + 1, base + 2} /\ to_sw_sig \in {base + 1, to_hw_sig}
    /\ pc = "say_rewind" => to_hw_sig = base + 1
    /\ counter = (IF to_sw_sig = base + 1 THEN KeyLen(group) ELSE 0)

CommandInv ==
  /\ pc \in {"command_port", "command_sig"} => to_hw_sig = 9 /\ to_sw_sig = 9
  /\ pc \in {"await_command", "end"} => to_hw_sig = 10 /\ to_sw_sig \in {9, 10}
  /\ pc = "end" => to_sw_sig = 10
  /\ pc \in {"command_sig", "await_command", "end"} =>
       to_hw_port = (IF command = "E" THEN 1 ELSE 0)
  /\ pc \in {"await_command", "end"} /\ to_sw_sig = 10 => Command = to_hw_port

ArrivedInv ==
  /\ \A p \in 0..(RowLen - 1) : p < RowGot => row_shift[p] = row_key[p]
  /\ \A p \in 0..(ColLen - 1) : p < ColumnGot => column_shift[p] = column_key[p]

IInv == ExchangeTypeOK /\ Settled /\ IdleInv /\ PutInv /\ RewindInv /\ CommandInv /\ ArrivedInv

-------------------------------------------------------------------------------
LEMMA InitIInv == ExchangeInit => IInv
<1> SUFFICES ASSUME ExchangeInit PROVE IInv
  OBVIOUS
<1> USE LenAssumption, CharAssumption, GapAssumption, TypedAssumption
        DEF ExchangeInit, SInit, RInit
<1>1. ExchangeTypeOK
  BY DEF ExchangeTypeOK, ReceiverTypeOK, KeyLen
<1>2. Settled /\ IdleInv /\ PutInv /\ RewindInv /\ CommandInv /\ ArrivedInv
  BY DEF Settled, IdleInv, PutInv, RewindInv, CommandInv, ArrivedInv, RowGot, ColumnGot
<1> QED
  BY <1>1, <1>2 DEF IInv

(* What a clock of the receiver does to the answer and to its counter.     *)
LEMMA ReceiveAnswers ==
  ASSUME ExchangeTypeOK, NEW port \in Nat, Receive(to_hw_sig, port)
  PROVE  /\ to_sw_sig' = to_hw_sig
         /\ counter' = IF to_hw_sig \in {0, 4, 7} THEN 0
                       ELSE IF to_hw_sig \in {3, 6} /\ to_sw_sig # to_hw_sig
                            THEN (counter + 1) % 32
                       ELSE IF to_hw_sig = 9 /\ to_sw_sig # 9 THEN (counter + 8) % 32
                       ELSE counter
BY DEF Receive, Idle, Hello, StoreRow, StoreColumn, StoreDiagonal, Bump, Advance,
       AdvanceDiagonal, Rewind, TakeCommand

LEMMA ReceiveKeys ==
  ASSUME ExchangeTypeOK, NEW port \in Char, Receive(to_hw_sig, port)
  PROVE  /\ row_shift' = IF to_hw_sig = 2 THEN Stored(row_shift, port) ELSE row_shift
         /\ column_shift' = IF to_hw_sig = 5 THEN Stored(column_shift, port)
                            ELSE column_shift
         /\ diagonal_shift' = IF to_hw_sig = 8 THEN Stored(diagonal_shift, port)
                              ELSE diagonal_shift
         /\ Command' = IF to_hw_sig = 10 THEN port % 2 ELSE Command
BY DEF Receive, Idle, Hello, StoreRow, StoreColumn, StoreDiagonal, Advance,
       AdvanceDiagonal, Rewind, TakeCommand, keys

(* Where the exchange stands when a byte is taken or the counter moves.    *)
LEMMA Standing ==
  ASSUME IInv
  PROVE  /\ to_hw_sig = 2 => /\ group = "row" /\ counter = i /\ i < RowLen
                             /\ to_hw_port = row_key[i]
                             /\ to_sw_sig \in {1, 2, 3} /\ (to_sw_sig = 1 => i = 0)
         /\ to_hw_sig = 5 => /\ group = "column" /\ counter = i /\ i < ColLen
                             /\ to_hw_port = column_key[i]
                             /\ to_sw_sig \in {4, 5, 6} /\ (to_sw_sig = 4 => i = 0)
         /\ to_hw_sig = 3 => to_sw_sig \in {2, 3} /\ counter < 31 + to_sw_sig - 2
         /\ to_hw_sig = 6 => to_sw_sig \in {5, 6} /\ counter < 31 + to_sw_sig - 5
         /\ to_hw_sig >= 4 => to_sw_sig >= 4 \/ (to_sw_sig = 3 /\ counter = RowLen)
         /\ to_hw_sig >= 7 => to_sw_sig >= 7 \/ (to_sw_sig = 6 /\ counter = ColLen)
<1> USE LenAssumption
<1>1. /\ to_hw_sig \in 0..10 /\ to_sw_sig \in 0..10 /\ counter \in Nat /\ i \in Nat
      /\ group \in {"row", "column", "diagonal"}
      /\ pc \in {"clear_sig", "clear_port", "prompt", "hello", "say_hello", "put_port",
                 "put_sig", "look", "next_sig", "await_next", "rewind", "say_rewind",
                 "command_port", "command_sig", "await_command", "end"}
  BY DEF IInv, ExchangeTypeOK, ReceiverTypeOK, KeyLen
<1>2. CASE pc \in {"clear_sig", "clear_port", "prompt", "hello", "say_hello"}
  BY <1>1, <1>2 DEF IInv, IdleInv
<1>3. CASE pc \in {"put_port", "put_sig"}
  BY <1>1, <1>3 DEF IInv, PutInv, base, PutSig, KeyLen
<1>4. CASE pc \in {"look", "next_sig"}
  BY <1>1, <1>4 DEF IInv, PutInv, base, PutSig, KeyLen, Key
<1>5. CASE pc = "await_next"
  BY <1>1, <1>5 DEF IInv, PutInv, base, PutSig, KeyLen
<1>6. CASE pc \in {"rewind", "say_rewind"}
  BY <1>1, <1>6 DEF IInv, RewindInv, base, PutSig, KeyLen
<1>7. CASE pc \in {"command_port", "command_sig", "await_command", "end"}
  BY <1>1, <1>7 DEF IInv, CommandInv
<1> QED
  BY <1>1, <1>2, <1>3, <1>4, <1>5, <1>6, <1>7

LEMMA HwStep == ASSUME IInv, HwClock PROVE IInv'
<1> USE LenAssumption, CharAssumption, GapAssumption
<1>1. /\ UNCHANGED <<pc, group, i, row_key, column_key, diaognal_key, command,
                     to_hw_sig, to_hw_port>>
      /\ readdata' = to_sw_sig
      /\ since' = IF since < Gap THEN since + 1 ELSE since
  BY DEF HwClock, svars, typed, ports
<1>2. /\ to_hw_sig \in 0..10 /\ to_sw_sig \in 0..10 /\ to_hw_port \in Char
      /\ counter \in Nat /\ counter < 32 /\ i \in Nat /\ since \in 0..Gap
      /\ group \in {"row", "column", "diagonal"}
  BY DEF IInv, ExchangeTypeOK, ReceiverTypeOK, KeyLen
<1>3. /\ to_sw_sig' = to_hw_sig
      /\ counter' = IF to_hw_sig \in {0, 4, 7} THEN 0
                    ELSE IF to_hw_sig \in {3, 6} /\ to_sw_sig # to_hw_sig
                         THEN (counter + 1) % 32
                    ELSE IF to_hw_sig = 9 /\ to_sw_sig # 9 THEN (counter + 8) % 32
                    ELSE counter
  BY <1>2, ReceiveAnswers DEF HwClock, IInv
<1>4. /\ row_shift' = IF to_hw_sig = 2 THEN Stored(row_shift, to_hw_port) ELSE row_shift
      /\ column_shift' = IF to_hw_sig = 5 THEN Stored(column_shift, to_hw_port)
                         ELSE column_shift
      /\ diagonal_shift' = IF to_hw_sig = 8 THEN Stored(diagonal_shift, to_hw_port)
                           ELSE diagonal_shift
      /\ Command' = IF to_hw_sig = 10 THEN to_hw_port % 2 ELSE Command
  BY <1>2, ReceiveKeys DEF HwClock, IInv
<1>5. ExchangeTypeOK'
  <2>1. ReceiverTypeOK'
    BY <1>2, <1>3, <1>4 DEF IInv, ExchangeTypeOK, ReceiverTypeOK, Stored
  <2> QED
    BY <1>1, <1>2, <2>1 DEF IInv, ExchangeTypeOK, KeyLen
<1>6. Settled'
  BY <1>1, <1>2, <1>3 DEF IInv, Settled
<1>7. IdleInv'
  BY <1>1, <1>2, <1>3 DEF IInv, IdleInv
<1>9. PutInv'
  <2>1. CASE group = "row"
    BY <1>1, <1>2, <1>3, <2>1 DEF IInv, PutInv, Key, KeyLen, base, PutSig
  <2>2. CASE group = "column"
    BY <1>1, <1>2, <1>3, <2>2 DEF IInv, PutInv, Key, KeyLen, base, PutSig
  <2>3. CASE group = "diagonal"
    BY <1>1, <1>2, <1>3, <2>3 DEF IInv, PutInv, Key, KeyLen, base, PutSig
  <2> QED
    BY <1>2, <2>1, <2>2, <2>3
<1>10. RewindInv'
  <2>1. CASE group = "row"
    BY <1>1, <1>2, <1>3, <2>1 DEF IInv, RewindInv, KeyLen, base, PutSig
  <2>2. CASE group = "column"
    BY <1>1, <1>2, <1>3, <2>2 DEF IInv, RewindInv, KeyLen, base, PutSig
  <2>3. CASE group = "diagonal"
    BY <1>1, <1>2, <1>3, <2>3 DEF IInv, RewindInv
  <2> QED
    BY <1>2, <2>1, <2>2, <2>3
<1>11. CommandInv'
  BY <1>1, <1>2, <1>3, <1>4 DEF IInv, CommandInv
<1>12. ArrivedInv'
  <2>1. /\ row_shift \in [0..(RowLen - 1) -> Char]
        /\ column_shift \in [0..(ColLen - 1) -> Char]
    BY DEF IInv, ExchangeTypeOK, ReceiverTypeOK
  <2>2. ASSUME NEW p \in 0..(RowLen - 1), p < RowGot' PROVE row_shift'[p] = row_key[p]
    <3>1. CASE to_hw_sig = 2
      <4>1. counter' = counter /\ p <= counter /\ counter \in 0..(RowLen - 1)
        BY <1>2, <1>3, <2>2, <3>1, Standing DEF RowGot
      <4>2. row_shift' = [row_shift EXCEPT ![counter] = row_key[counter]]
        BY <1>4, <2>1, <3>1, <4>1, Standing DEF Stored
      <4>3. p < counter => p < RowGot
        BY <1>2, <3>1, <4>1, Standing DEF RowGot
      <4> QED
        BY <1>2, <2>1, <4>1, <4>2, <4>3 DEF IInv, ArrivedInv
    <3>2. CASE to_hw_sig # 2
      <4>1. p < RowGot
        BY <1>2, <1>3, <2>2, <3>2, Standing DEF RowGot
      <4> QED
        BY <1>4, <3>2, <4>1 DEF IInv, ArrivedInv
    <3> QED
      BY <3>1, <3>2
  <2>3. ASSUME NEW p \in 0..(ColLen - 1), p < ColumnGot'
        PROVE  column_shift'[p] = column_key[p]
    <3>1. CASE to_hw_sig = 5
      <4>1. counter' = counter /\ p <= counter /\ counter \in 0..(ColLen - 1)
        BY <1>2, <1>3, <2>3, <3>1, Standing DEF ColumnGot
      <4>2. column_shift' = [column_shift EXCEPT ![counter] = column_key[counter]]
        BY <1>4, <2>1, <3>1, <4>1, Standing DEF Stored
      <4>3. p < counter => p < ColumnGot
        BY <1>2, <3>1, <4>1, Standing DEF ColumnGot
      <4> QED
        BY <1>2, <2>1, <4>1, <4>2, <4>3 DEF IInv, ArrivedInv
    <3>2. CASE to_hw_sig # 5
      <4>1. p < ColumnGot
        BY <1>2, <1>3, <2>3, <3>2, Standing DEF ColumnGot
      <4> QED
        BY <1>4, <3>2, <4>1 DEF IInv, ArrivedInv
    <3> QED
      BY <3>1, <3>2
  <2> QED
    BY <1>1, <2>2, <2>3 DEF ArrivedInv
<1> QED
  BY <1>5, <1>6, <1>7, <1>9, <1>10, <1>11, <1>12 DEF IInv

(* An access of the processor is made when the answer to the last one is   *)
(* in, so it reads the receiver's own answer to the signal now out.        *)
LEMMA SwPlaces == ASSUME IInv, SwAccess PROVE IdleInv' /\ PutInv' /\ RewindInv' /\ CommandInv'
<1> DEFINE Places == IdleInv /\ PutInv /\ RewindInv /\ CommandInv
<1> USE LenAssumption DEF IdleInv, PutInv, RewindInv, CommandInv, base, PutSig, Key, KeyLen
<1>1. /\ readdata = to_hw_sig /\ to_sw_sig = to_hw_sig /\ (to_hw_sig = 0 => counter = 0)
      /\ to_sw_sig' = to_sw_sig /\ counter' = counter /\ Command' = Command
  BY GapAssumption DEF IInv, Settled, SwAccess, rvars
<1>2. /\ to_hw_sig \in 0..10 /\ counter \in Nat /\ i \in Nat
      /\ group \in {"row", "column", "diagonal"}
  BY DEF IInv, ExchangeTypeOK, ReceiverTypeOK
<1>3. Places
  BY DEF IInv
<1>4. CASE ClearSig
  BY <1>1, <1>2, <1>3, <1>4 DEF ClearSig, Store, ports, typed
<1>5. CASE ClearPort
  BY <1>1, <1>2, <1>3, <1>5 DEF ClearPort, ports, typed
<1>6. CASE Prompt
  BY <1>1, <1>2, <1>3, <1>6 DEF Prompt, ports, typed
<1>7. CASE SayHello(readdata)
  BY <1>1, <1>2, <1>3, <1>7 DEF SayHello, Await, Store, ports, typed
<1>8. CASE PutPort
  BY <1>1, <1>2, <1>3, <1>8 DEF PutPort, ports, typed
<1>9. CASE PutSigStep
  BY <1>1, <1>2, <1>3, <1>9 DEF PutSigStep, Store, ports, typed
<1>10. CASE Look(readdata)
  BY <1>1, <1>2, <1>3, <1>10 DEF Look, ports, typed
<1>11. CASE NextSig
  BY <1>1, <1>2, <1>3, <1>11 DEF NextSig, Store, ports, typed
<1>12. CASE AwaitNext(readdata)
  BY <1>1, <1>2, <1>3, <1>12 DEF AwaitNext, ports, typed
<1>13. CASE AwaitRewind(readdata)
  BY <1>1, <1>2, <1>3, <1>13 DEF AwaitRewind, Rewound, Store, ports, typed
<1>14. CASE CommandPort
  BY <1>1, <1>2, <1>3, <1>14 DEF CommandPort, ports, typed
<1>15. CASE CommandSig
  BY <1>1, <1>2, <1>3, <1>15 DEF CommandSig, Store, ports, typed
<1>16. CASE AwaitCommand(readdata)
  BY <1>1, <1>2, <1>3, <1>16 DEF AwaitCommand, ports, typed
<1>17. CASE EndSession
  BY <1>1, <1>2, <1>3, <1>17 DEF EndSession, Store, ports, typed
<1> QED
  BY <1>4, <1>5, <1>6, <1>7, <1>8, <1>9, <1>10, <1>11, <1>12, <1>13, <1>14, <1>15, <1>16, <1>17 DEF SwAccess, Access

LEMMA SwStep == ASSUME IInv, SwAccess PROVE IInv'
<1> USE LenAssumption, CharAssumption, GapAssumption
<1>1. /\ UNCHANGED <<rvars, readdata>> /\ since' = 0 /\ Access(readdata)
      /\ to_sw_sig = to_hw_sig /\ readdata = to_hw_sig
  BY DEF IInv, Settled, SwAccess
<1>2. UNCHANGED <<counter, to_sw_sig, row_shift, column_shift, diagonal_shift, Command,
                  readdata>>
  BY <1>1 DEF rvars
<1>3. ExchangeTypeOK'
  <2>1. ReceiverTypeOK' /\ readdata' \in 0..10 /\ since' \in 0..Gap
    BY <1>1, <1>2 DEF IInv, ExchangeTypeOK, ReceiverTypeOK
  <2>2. /\ row_key' \in [0..(RowLen - 1) -> Char]
        /\ column_key' \in [0..(ColLen - 1) -> Char]
        /\ diaognal_key' \in [0..(DiagLen - 1) -> Char]
        /\ command' \in {"none", "E", "D", "other"}
    BY <1>1, TypedAssumption
       DEF IInv, ExchangeTypeOK, Access, ClearSig, ClearPort, Prompt, SayHello, Await, Store,
           PutPort, PutSigStep, Look, NextSig, AwaitNext, AwaitRewind, Rewound,
           CommandPort, CommandSig, AwaitCommand, EndSession, typed
  <2>3. /\ pc' \in {"clear_sig", "clear_port", "prompt", "hello", "say_hello", "put_port",
                    "put_sig", "look", "next_sig", "await_next", "rewind", "say_rewind",
                    "command_port", "command_sig", "await_command", "end"}
    BY <1>1 DEF IInv, ExchangeTypeOK, Access, ClearSig, ClearPort, Prompt, SayHello, Await, Store,
           PutPort, PutSigStep, Look, NextSig, AwaitNext, AwaitRewind, Rewound,
           CommandPort, CommandSig, AwaitCommand, EndSession
  <2>4. to_hw_sig' = to_hw_sig \/ to_hw_sig' \in 0..10
    BY <1>1 DEF IInv, ExchangeTypeOK, Access, ClearSig, ClearPort, Prompt, SayHello, Await, Store,
           PutPort, PutSigStep, Look, NextSig, AwaitNext, AwaitRewind, Rewound,
           CommandPort, CommandSig, AwaitCommand, EndSession, ports, PutSig
  <2>5. group' \in {"row", "column", "diagonal"} /\ i' \in 0..KeyLen(group')
    <3>1. /\ group \in {"row", "column", "diagonal"} /\ i \in 0..KeyLen(group)
          /\ pc = "await_next" => i < KeyLen(group)
          /\ pc = "rewind" => group # "diagonal"
      BY DEF IInv, ExchangeTypeOK, PutInv, RewindInv
    <3>2. CASE Prompt
      BY <3>2 DEF Prompt, KeyLen
    <3>3. CASE AwaitNext(readdata)
      BY <3>1, <3>3 DEF AwaitNext, KeyLen
    <3>4. CASE AwaitRewind(readdata)
      BY <3>1, <3>4 DEF AwaitRewind, Rewound, Store, KeyLen
    <3>5. CASE UNCHANGED <<group, i>>
      BY <3>1, <3>5 DEF KeyLen
    <3> QED
      BY <1>1, <3>2, <3>3, <3>4, <3>5
         DEF Access, ClearSig, ClearPort, SayHello, Await, Store, PutPort, PutSigStep, Look,
             NextSig, CommandPort, CommandSig, AwaitCommand, EndSession
  <2>6. to_hw_port' \in Char
    <3>1. pc = "put_port" => Key(group)[i] \in Char
      <4>1. ASSUME pc = "put_port"
            PROVE  i \in 0..(KeyLen(group) - 1) /\ KeyLen(group) \in Nat
        BY <4>1 DEF IInv, ExchangeTypeOK, PutInv, KeyLen
      <4>2. /\ group = "row" => Key(group) \in [0..(KeyLen(group) - 1) -> Char]
            /\ group = "column" => Key(group) \in [0..(KeyLen(group) - 1) -> Char]
            /\ group = "diagonal" => Key(group) \in [0..(KeyLen(group) - 1) -> Char]
            /\ group \in {"row", "column", "diagonal"}
        BY DEF IInv, ExchangeTypeOK, Key, KeyLen
      <4> QED
        BY <4>1, <4>2
    <3>2. \/ to_hw_port' = to_hw_port \/ to_hw_port' \in {0, 1}
          \/ pc = "put_port" /\ to_hw_port' = Key(group)[i]
      BY <1>1 DEF Access, ClearSig, ClearPort, Prompt, SayHello, Await,
           Store, PutPort, PutSigStep, Look, NextSig, AwaitNext, AwaitRewind, Rewound,
           CommandPort, CommandSig, AwaitCommand, EndSession, ports
    <3> QED
      BY <3>1, <3>2 DEF IInv, ExchangeTypeOK
  <2> QED
    BY <2>1, <2>2, <2>3, <2>4, <2>5, <2>6 DEF IInv, ExchangeTypeOK, KeyLen
<1>4. Settled'
  BY <1>1 DEF Settled
<1>5. ArrivedInv'
  <2>1. UNCHANGED <<row_key, column_key>> \/ (RowGot' = 0 /\ ColumnGot' = 0)
    BY <1>1, <1>2 DEF IInv, IdleInv, RowGot, ColumnGot, Access, ClearSig, ClearPort, Prompt,
           SayHello, Await, Store, PutPort, PutSigStep, Look, NextSig, AwaitNext,
           AwaitRewind, Rewound, CommandPort, CommandSig, AwaitCommand, EndSession, typed
  <2>2. RowGot' = RowGot /\ ColumnGot' = ColumnGot
    BY <1>2 DEF RowGot, ColumnGot
  <2> QED
    BY <1>2, <2>1, <2>2 DEF IInv, ArrivedInv
<1> QED
  BY <1>3, <1>4, <1>5, SwPlaces DEF IInv

(* Reset moves only the processor's own registers.                         *)
LEMMA ResetStep == ASSUME IInv, Reset PROVE IInv'
<1> USE LenAssumption, CharAssumption, GapAssumption
<1>1. /\ UNCHANGED <<counter, to_sw_sig, row_shift, column_shift, diagonal_shift, Command,
                     readdata, group, i, row_key, column_key, diaognal_key, command>>
      /\ pc' = "clear_sig" /\ to_hw_sig' = 0 /\ to_hw_port' = 0 /\ since' = 0
  BY DEF Reset, Restart, rvars, typed
<1>2. ExchangeTypeOK'
  BY <1>1 DEF IInv, ExchangeTypeOK, ReceiverTypeOK, KeyLen
<1>3. Settled' /\ IdleInv' /\ PutInv' /\ RewindInv' /\ CommandInv'
  BY <1>1 DEF Settled, IdleInv, PutInv, RewindInv, CommandInv
<1>4. ArrivedInv'
  BY <1>1 DEF IInv, ArrivedInv, RowGot, ColumnGot
<1> QED
  BY <1>2, <1>3, <1>4 DEF IInv

LEMMA NextIInv == IInv /\ [ExchangeNext]_exchangeVars => IInv'
<1> SUFFICES ASSUME IInv, [ExchangeNext]_exchangeVars PROVE IInv'
  OBVIOUS
<1>1. CASE UNCHANGED exchangeVars
  BY <1>1 DEF exchangeVars, svars, rvars, typed, ports, IInv, ExchangeTypeOK, ReceiverTypeOK, Settled,
              IdleInv, PutInv, RewindInv, CommandInv, ArrivedInv, base, RowGot, ColumnGot,
              Key, KeyLen, PutSig
<1> QED
  BY <1>1, HwStep, SwStep, ResetStep DEF ExchangeNext

(* The inductive invariant holds in every state of the exchange.           *)
THEOREM ExchangeInvariant == ExchangeSpec => []IInv
<1> QED
  BY InitIInv, NextIInv, PTL DEF ExchangeSpec

(* Every variable of main.c and Key_Receiver.sv stays in its range.        *)
THEOREM TypeCorrect == ExchangeSpec => []ExchangeTypeOK
<1>1. IInv => ExchangeTypeOK
  BY DEF IInv
<1> QED
  BY <1>1, ExchangeInvariant, PTL

(* Key_Receiver.sv stores at the position main.c is sending.               *)
THEOREM Positions == ExchangeSpec => []SamePosition
<1>1. IInv => SamePosition
  BY Standing DEF SamePosition, Key
<1> QED
  BY <1>1, ExchangeInvariant, PTL

(* At the end of main.c's loop the row key, the column key and the command *)
(* are in the hardware registers as they were typed.                       *)
THEOREM Delivered == ExchangeSpec => []KeysDelivered
<1>1. ASSUME IInv, pc = "end"
      PROVE  /\ row_shift = row_key /\ column_shift = column_key
             /\ Command = (IF command = "E" THEN 1 ELSE 0)
  <2>1. to_sw_sig = 10 /\ Command = (IF command = "E" THEN 1 ELSE 0)
    BY <1>1 DEF IInv, CommandInv
  <2>2. RowGot = RowLen /\ ColumnGot = ColLen
    BY <2>1 DEF RowGot, ColumnGot
  <2>3. /\ row_shift \in [0..(RowLen - 1) -> Char] /\ row_key \in [0..(RowLen - 1) -> Char]
        /\ column_shift \in [0..(ColLen - 1) -> Char]
        /\ column_key \in [0..(ColLen - 1) -> Char]
    BY <1>1 DEF IInv, ExchangeTypeOK, ReceiverTypeOK
  <2>4. /\ \A p \in 0..(RowLen - 1) : row_shift[p] = row_key[p]
        /\ \A p \in 0..(ColLen - 1) : column_shift[p] = column_key[p]
    BY <1>1, <2>2, LenAssumption DEF IInv, ArrivedInv
  <2>5. /\ row_shift = [p \in 0..(RowLen - 1) |-> row_shift[p]]
        /\ row_key = [p \in 0..(RowLen - 1) |-> row_key[p]]
        /\ column_shift = [p \in 0..(ColLen - 1) |-> column_shift[p]]
        /\ column_key = [p \in 0..(ColLen - 1) |-> column_key[p]]
    BY <2>3
  <2>6. row_shift = row_key /\ column_shift = column_key
    BY <2>4, <2>5, Zenon
  <2> QED
    BY <2>1, <2>6
<1>2. IInv => KeysDelivered
  BY <1>1 DEF KeysDelivered
<1> QED
  BY <1>2, ExchangeInvariant, PTL

-------------------------------------------------------------------------------
LEMMA SwKeys ==
  ASSUME IInv, SwAccess
  PROVE  /\ UNCHANGED <<row_shift, column_shift, RowGot, ColumnGot>>
         /\ UNCHANGED <<row_key, column_key>> \/ (RowGot' = 0 /\ ColumnGot' = 0)
<1>1. UNCHANGED <<row_shift, column_shift, RowGot, ColumnGot>>
  BY DEF SwAccess, rvars, RowGot, ColumnGot
<1>2. pc = "prompt" => RowGot = 0 /\ ColumnGot = 0
  BY DEF IInv, IdleInv, RowGot, ColumnGot
<1>3. UNCHANGED <<row_key, column_key>> \/ pc = "prompt"
  BY DEF SwAccess, Access, ClearSig, ClearPort, Prompt, SayHello, Await, Store, PutPort,
         PutSigStep, Look, NextSig, AwaitNext, AwaitRewind, Rewound, CommandPort,
         CommandSig, AwaitCommand, EndSession, typed
<1> QED
  BY <1>1, <1>2, <1>3

LEMMA RowHwStep ==
  ASSUME IInv, HwClock PROVE Row!Put \/ Row!Begin \/ UNCHANGED <<row_key, row_shift, RowGot>>
<1> USE LenAssumption
<1>1. /\ row_key' = row_key
      /\ to_hw_sig \in 0..10 /\ to_sw_sig \in 0..10 /\ counter \in Nat
      /\ row_shift \in [0..(RowLen - 1) -> Char] /\ to_hw_port \in Char
  BY DEF IInv, ExchangeTypeOK, ReceiverTypeOK, HwClock, svars, typed
<1>2. /\ to_sw_sig' = to_hw_sig
      /\ counter' = IF to_hw_sig \in {0, 4, 7} THEN 0
                    ELSE IF to_hw_sig \in {3, 6} /\ to_sw_sig # to_hw_sig
                         THEN (counter + 1) % 32
                    ELSE IF to_hw_sig = 9 /\ to_sw_sig # 9 THEN (counter + 8) % 32
                    ELSE counter
      /\ row_shift' = IF to_hw_sig = 2 THEN Stored(row_shift, to_hw_port) ELSE row_shift
  BY <1>1, ReceiveAnswers, ReceiveKeys, CharAssumption DEF HwClock, IInv
<1>3. CASE to_hw_sig = 2
  <2>1. /\ counter \in 0..(RowLen - 1) /\ to_sw_sig \in {1, 2, 3}
        /\ RowGot = (IF to_sw_sig = 2 THEN counter + 1 ELSE counter)
        /\ RowGot' = counter + 1
    BY <1>1, <1>2, <1>3, Standing DEF RowGot
  <2>2. row_shift' = [row_shift EXCEPT ![counter] = row_key[counter]]
    BY <1>1, <1>2, <1>3, <2>1, Standing DEF Stored
  <2>3. CASE to_sw_sig = 2
    <3>1. row_shift[counter] = row_key[counter]
      BY <2>1, <2>3 DEF IInv, ArrivedInv
    <3>2. /\ row_shift = [p \in 0..(RowLen - 1) |-> row_shift[p]]
          /\ row_shift' = [p \in 0..(RowLen - 1) |-> row_shift'[p]]
          /\ \A p \in 0..(RowLen - 1) : row_shift'[p] = row_shift[p]
      BY <1>1, <2>1, <2>2, <3>1
    <3>3. row_shift' = row_shift
      BY <3>2, Zenon
    <3>4. RowGot' = RowGot
      BY <2>1, <2>3
    <3> QED
      BY <1>1, <3>3, <3>4
  <2>4. CASE to_sw_sig # 2
    BY <1>1, <2>1, <2>2, <2>4 DEF Row!Put
  <2> QED
    BY <2>3, <2>4
<1>4. CASE to_hw_sig # 2
  <2>1. row_shift' = row_shift
    BY <1>2, <1>4
  <2>2. to_hw_sig < 2 => RowGot' = 0
    BY <1>1, <1>2 DEF RowGot
  <2>3. to_hw_sig = 3 => RowGot' = RowGot
    <3>1. to_hw_sig = 3 => /\ to_sw_sig \in {2, 3}
                          /\ counter' = IF to_sw_sig = 2 THEN counter + 1 ELSE counter
      BY <1>1, <1>2, Standing
    <3> QED
      BY <1>2, <3>1 DEF RowGot
  <2>4. to_hw_sig > 3 => RowGot' = RowLen /\ RowGot = RowLen
    BY <1>1, <1>2, Standing DEF RowGot
  <2> QED
    BY <1>1, <1>4, <2>1, <2>2, <2>3, <2>4 DEF Row!Begin
<1> QED
  BY <1>3, <1>4

LEMMA ColumnHwStep ==
  ASSUME IInv, HwClock PROVE Column!Put \/ Column!Begin \/ UNCHANGED <<column_key, column_shift, ColumnGot>>
<1> USE LenAssumption
<1>1. /\ column_key' = column_key
      /\ to_hw_sig \in 0..10 /\ to_sw_sig \in 0..10 /\ counter \in Nat
      /\ column_shift \in [0..(ColLen - 1) -> Char] /\ to_hw_port \in Char
  BY DEF IInv, ExchangeTypeOK, ReceiverTypeOK, HwClock, svars, typed
<1>2. /\ to_sw_sig' = to_hw_sig
      /\ counter' = IF to_hw_sig \in {0, 4, 7} THEN 0
                    ELSE IF to_hw_sig \in {3, 6} /\ to_sw_sig # to_hw_sig
                         THEN (counter + 1) % 32
                    ELSE IF to_hw_sig = 9 /\ to_sw_sig # 9 THEN (counter + 8) % 32
                    ELSE counter
      /\ column_shift' = IF to_hw_sig = 5 THEN Stored(column_shift, to_hw_port) ELSE column_shift
  BY <1>1, ReceiveAnswers, ReceiveKeys, CharAssumption DEF HwClock, IInv
<1>3. CASE to_hw_sig = 5
  <2>1. /\ counter \in 0..(ColLen - 1) /\ to_sw_sig \in {4, 5, 6}
        /\ ColumnGot = (IF to_sw_sig = 5 THEN counter + 1 ELSE counter)
        /\ ColumnGot' = counter + 1
    BY <1>1, <1>2, <1>3, Standing DEF ColumnGot
  <2>2. column_shift' = [column_shift EXCEPT ![counter] = column_key[counter]]
    BY <1>1, <1>2, <1>3, <2>1, Standing DEF Stored
  <2>3. CASE to_sw_sig = 5
    <3>1. column_shift[counter] = column_key[counter]
      BY <2>1, <2>3 DEF IInv, ArrivedInv
    <3>2. /\ column_shift = [p \in 0..(ColLen - 1) |-> column_shift[p]]
          /\ column_shift' = [p \in 0..(ColLen - 1) |-> column_shift'[p]]
          /\ \A p \in 0..(ColLen - 1) : column_shift'[p] = column_shift[p]
      BY <1>1, <2>1, <2>2, <3>1
    <3>3. column_shift' = column_shift
      BY <3>2, Zenon
    <3>4. ColumnGot' = ColumnGot
      BY <2>1, <2>3
    <3> QED
      BY <1>1, <3>3, <3>4
  <2>4. CASE to_sw_sig # 5
    BY <1>1, <2>1, <2>2, <2>4 DEF Column!Put
  <2> QED
    BY <2>3, <2>4
<1>4. CASE to_hw_sig # 5
  <2>1. column_shift' = column_shift
    BY <1>2, <1>4
  <2>2. to_hw_sig < 5 => ColumnGot' = 0
    BY <1>1, <1>2 DEF ColumnGot
  <2>3. to_hw_sig = 6 => ColumnGot' = ColumnGot
    <3>1. to_hw_sig = 6 => /\ to_sw_sig \in {5, 6}
                          /\ counter' = IF to_sw_sig = 5 THEN counter + 1 ELSE counter
      BY <1>1, <1>2, Standing
    <3> QED
      BY <1>2, <3>1 DEF ColumnGot
  <2>4. to_hw_sig > 6 => ColumnGot' = ColLen /\ ColumnGot = ColLen
    BY <1>1, <1>2, Standing DEF ColumnGot
  <2> QED
    BY <1>1, <1>4, <2>1, <2>2, <2>3, <2>4 DEF Column!Begin
<1> QED
  BY <1>3, <1>4

(* The row key goes from main.c to Key_Receiver.sv as ByteTransfer says: *)
(* every byte once, in its turn and in its place.                          *)
THEOREM RowTransfer == ExchangeSpec => TransfersRow
<1> USE LenAssumption
<1>1. ExchangeInit => Row!Init
  BY DEF ExchangeInit, RInit, Row!Init, RowGot
<1>2. ASSUME IInv, [ExchangeNext]_exchangeVars PROVE [Row!Put \/ Row!Begin]_<<row_key, row_shift, RowGot>>
  <2>1. CASE HwClock
    BY <1>2, <2>1, RowHwStep
  <2>2. CASE SwAccess
    BY <1>2, <2>2, SwKeys DEF Row!Begin
  <2>3. CASE Reset \/ UNCHANGED exchangeVars
    BY <2>3 DEF Reset, Restart, exchangeVars, svars, rvars, typed, RowGot
  <2> QED
    BY <1>2, <2>1, <2>2, <2>3 DEF ExchangeNext
<1> QED
  BY <1>1, <1>2, ExchangeInvariant, PTL DEF ExchangeSpec, TransfersRow, Row!Spec, Row!tvars

(* The column key goes from main.c to Key_Receiver.sv as ByteTransfer says: *)
(* every byte once, in its turn and in its place.                          *)
THEOREM ColumnTransfer == ExchangeSpec => TransfersColumn
<1> USE LenAssumption
<1>1. ExchangeInit => Column!Init
  BY DEF ExchangeInit, RInit, Column!Init, ColumnGot
<1>2. ASSUME IInv, [ExchangeNext]_exchangeVars PROVE [Column!Put \/ Column!Begin]_<<column_key, column_shift, ColumnGot>>
  <2>1. CASE HwClock
    BY <1>2, <2>1, ColumnHwStep
  <2>2. CASE SwAccess
    BY <1>2, <2>2, SwKeys DEF Column!Begin
  <2>3. CASE Reset \/ UNCHANGED exchangeVars
    BY <2>3 DEF Reset, Restart, exchangeVars, svars, rvars, typed, ColumnGot
  <2> QED
    BY <1>2, <2>1, <2>2, <2>3 DEF ExchangeNext
<1> QED
  BY <1>1, <1>2, ExchangeInvariant, PTL DEF ExchangeSpec, TransfersColumn, Column!Spec, Column!tvars

(* Both keys go over as ByteTransfer says (main.c lines 65 to 89).         *)
THEOREM BothTransfers == ExchangeSpec => KeysTransferred
BY RowTransfer, ColumnTransfer, PTL DEF KeysTransferred
===============================================================================
