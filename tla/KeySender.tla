------------------------------- MODULE KeySender -------------------------------
(***************************************************************************)
(* software/IOmodule/main.c: the Nios II end of the key exchange.  A step  *)
(* is one load or store of a parallel-port register, the points where the  *)
(* hardware may come in between, or the terminal dialogue, taken as one.   *)
(* seen is what a load of to_sw_sig returns.  Printing is left out, and so *)
(* are SEED and garbage, which are read and never used.                    *)
(***************************************************************************)
EXTENDS KeySizes

CONSTANT Typed      \* the contents the three key arrays may take

VARIABLES pc,                       \* the next access
          group, i,                 \* the key being sent, and the position
          row_key, column_key, diaognal_key, command,
          to_hw_sig, to_hw_port     \* the two output registers

ports  == <<to_hw_sig, to_hw_port>>
typed  == <<row_key, column_key, diaognal_key, command>>
svars  == <<pc, group, i, typed, ports>>

KeyLen(g) == IF g = "row" THEN RowLen ELSE IF g = "column" THEN ColLen ELSE DiagLen
PutSig(g) == IF g = "row" THEN 2 ELSE IF g = "column" THEN 5 ELSE 8
Key(g)    == IF g = "row" THEN row_key ELSE IF g = "column" THEN column_key
             ELSE diaognal_key

SInit ==
  /\ pc = "clear_sig" /\ group = "row" /\ i = 0
  /\ \E t \in Typed : row_key = t[1] /\ column_key = t[2] /\ diaognal_key = t[3]
  /\ command = "none"
  /\ to_hw_sig = 0 /\ to_hw_port = 0

Store(at, sig, next) ==
  /\ pc = at /\ pc' = next
  /\ to_hw_sig' = sig
  /\ UNCHANGED <<group, i, typed, to_hw_port>>

(* The top of the loop, and the same two stores before it.                 *)
ClearSig  == Store("clear_sig", 0, "clear_port")
ClearPort ==
  /\ pc = "clear_port" /\ pc' = "prompt"
  /\ to_hw_port' = 0
  /\ UNCHANGED <<group, i, typed, to_hw_sig>>

(* The dialogue.  A short answer leaves the rest of its array as it was,   *)
(* so the arrays take any value of Typed.                                  *)
Prompt ==
  /\ pc = "prompt"
  /\ \E t \in Typed : row_key' = t[1] /\ column_key' = t[2] /\ diaognal_key' = t[3]
  /\ command' \in {"E", "D", "other"}
  /\ pc' = IF command' = "other" THEN "clear_sig" ELSE "hello"
  /\ group' = "row" /\ i' = 0
  /\ UNCHANGED ports

(* while (sig not acknowledged) store sig again.                           *)
Await(load, store, sig, next, seen) ==
  \/ /\ pc = load
     /\ pc' = IF seen = sig THEN next ELSE store
     /\ UNCHANGED <<group, i, typed, ports>>
  \/ Store(store, sig, load)

SayHello(seen) == Await("hello", "say_hello", 1, "put_port", seen)

(* One byte: the port, then the signal; a single look for its answer; then *)
(* a wait for the answer to the signal that follows.                       *)
PutPort ==
  /\ pc = "put_port" /\ pc' = "put_sig"
  /\ to_hw_port' = Key(group)[i]
  /\ UNCHANGED <<group, i, typed, to_hw_sig>>

PutSigStep == Store("put_sig", PutSig(group), "look")

Look(seen) ==
  /\ pc = "look"
  /\ pc' = IF seen = PutSig(group) THEN "next_sig" ELSE "await_next"
  /\ UNCHANGED <<group, i, typed, ports>>

NextSig == Store("next_sig", PutSig(group) + 1, "await_next")

AwaitNext(seen) ==
  /\ pc = "await_next"
  /\ \/ /\ seen # PutSig(group) + 1
        /\ UNCHANGED <<pc, i>>
     \/ /\ seen = PutSig(group) + 1
        /\ i' = i + 1
        /\ pc' = IF i + 1 < KeyLen(group) THEN "put_port"
                 ELSE IF group = "diagonal" THEN "command_port" ELSE "rewind"
  /\ UNCHANGED <<group, typed, ports>>

(* Between two keys the receiver's counter is set back.                    *)
Rewound(seen) ==
  /\ pc = "rewind" /\ seen = PutSig(group) + 2
  /\ pc' = "put_port" /\ i' = 0
  /\ group' = IF group = "row" THEN "column" ELSE "diagonal"
  /\ UNCHANGED <<typed, ports>>
AwaitRewind(seen) ==
  \/ Rewound(seen)
  \/ /\ pc = "rewind" /\ seen # PutSig(group) + 2
     /\ pc' = "say_rewind"
     /\ UNCHANGED <<group, i, typed, ports>>
  \/ Store("say_rewind", PutSig(group) + 2, "rewind")

CommandPort ==
  /\ pc = "command_port" /\ pc' = "command_sig"
  /\ to_hw_port' = IF command = "E" THEN 1 ELSE 0
  /\ UNCHANGED <<group, i, typed, to_hw_sig>>
CommandSig == Store("command_sig", 10, "await_command")
AwaitCommand(seen) ==
  /\ pc = "await_command"
  /\ pc' = IF seen = 10 THEN "end" ELSE "await_command"
  /\ UNCHANGED <<group, i, typed, ports>>
EndSession == Store("end", 0, "clear_sig")

Access(seen) ==
  \/ ClearSig \/ ClearPort \/ Prompt \/ SayHello(seen)
  \/ PutPort \/ PutSigStep \/ Look(seen) \/ NextSig \/ AwaitNext(seen)
  \/ AwaitRewind(seen) \/ CommandPort \/ CommandSig \/ AwaitCommand(seen) \/ EndSession

(* Reset restarts the processor and clears its ports; memory is kept.      *)
Restart ==
  /\ pc' = "clear_sig"
  /\ to_hw_sig' = 0 /\ to_hw_port' = 0
  /\ UNCHANGED <<group, i, typed>>
===============================================================================
