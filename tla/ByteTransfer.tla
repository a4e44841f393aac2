------------------------------ MODULE ByteTransfer ------------------------------
(***************************************************************************)
(* What the transfer of one key promises: its bytes arrive one by one, in  *)
(* order, each in its own place, and none is touched before its turn.      *)
(***************************************************************************)
EXTENDS Integers

CONSTANT N           \* the number of bytes
VARIABLES src,       \* the key as it was typed
          dst,       \* the key register
          got        \* how many bytes of this session have arrived

tvars == <<src, dst, got>>

Init == got = 0

Put == /\ got < N
       /\ dst' = [dst EXCEPT ![got] = src[got]]
       /\ got' = got + 1
       /\ UNCHANGED src

(* A new session, before it an abandoned or a complete one; the register   *)
(* keeps what it holds, and only now may the key be typed again.           *)
Begin == /\ got' = 0
         /\ UNCHANGED dst

Spec == Init /\ [][Put \/ Begin]_tvars
===============================================================================
