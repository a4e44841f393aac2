------------------------------- MODULE KeySizes -------------------------------
(***************************************************************************)
(* The sizes both ends of the key exchange are written for: the bytes of   *)
(* the row, column and diagonal key (8, 10 and 3 in the source).           *)
(***************************************************************************)
EXTENDS Integers

CONSTANTS RowLen, ColLen, DiagLen

ASSUME LenAssumption ==
  \A n \in {RowLen, ColLen, DiagLen} : n \in Nat /\ 1 <= n /\ n < 32
===============================================================================
