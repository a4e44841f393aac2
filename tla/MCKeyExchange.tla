----------------------------- MODULE MCKeyExchange -----------------------------
(***************************************************************************)
(* Instances of KeyExchange for TLC.  Characters are 0 (what memory and    *)
(* registers start with) and two letters; a key is all of one letter or    *)
(* alternates, which tells every position from its neighbours.             *)
(***************************************************************************)
EXTENDS KeyExchange

All(n, c) == [p \in 0..(n - 1) |-> c]
Alternating(n) == [p \in 0..(n - 1) |-> 1 + (p % 2)]

MCTyped == {<<All(RowLen, 1), All(ColLen, 2), All(DiagLen, 1)>>,
            <<Alternating(RowLen), Alternating(ColLen), Alternating(DiagLen)>>}
===============================================================================
