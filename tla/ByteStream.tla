------------------------------- MODULE ByteStream -------------------------------
(***************************************************************************)
(* What a serial line promises the program: characters come out in the     *)
(* order they went in, none lost, none twice.  item is what the program    *)
(* is handing over at this moment; queue is what is on its way.            *)
(***************************************************************************)
EXTENDS Sequences

CONSTANT Values
VARIABLES queue, item

(* The far end's two operations.                                           *)
Arrive == \E v \in Values : queue' = Append(queue, v)
Depart == queue # <<>> /\ queue' = Tail(queue)

(* The program's: several characters at once.                              *)
Receive == item # <<>> /\ queue = item \o queue'
Send    == item # <<>> /\ queue' = queue \o item

InputSpec  == queue = <<>> /\ [][Arrive \/ Receive]_queue
OutputSpec == queue = <<>> /\ [][Send \/ Depart]_queue
===============================================================================
