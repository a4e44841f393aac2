------------------------------- MODULE MCJtagUart -------------------------------
(***************************************************************************)
(* JtagUart for TLC: buffers of three slots, FIFOs of one character.       *)
(***************************************************************************)
EXTENDS JtagUart
===============================================================================
