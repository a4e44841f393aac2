------------------------------- MODULE SCCBTable -------------------------------
(***************************************************************************)
(* The case table of FIN in SCCB_master.sv, entry 0 first: for each value  *)
(* of SCCB_COUNTER the register address and the byte to write to it.       *)
(***************************************************************************)
EXTENDS Integers, Sequences

HexByte(n) == [i \in 0..7 |-> (n \div 2^i) % 2]

CaseTable == <<
  <<\h12, \h80>>, <<\h12, \h80>>, <<\h12, \h04>>, <<\h11, \h00>>,
  <<\h0c, \h00>>, <<\h3e, \h00>>, <<\h8c, \h00>>, <<\h04, \h00>>,
  <<\h40, \h10>>, <<\h3a, \h04>>, <<\h14, \h38>>, <<\h4f, \h40>>,
  <<\h50, \h34>>, <<\h51, \h0c>>, <<\h52, \h17>>, <<\h53, \h29>>,
  <<\h54, \h40>>, <<\h58, \h1e>>, <<\h3d, \hc0>>, <<\h11, \h00>>,
  <<\h17, \h11>>, <<\h18, \h61>>, <<\h32, \ha4>>, <<\h19, \h03>>,
  <<\h1a, \h7b>>, <<\h03, \h0a>>, <<\h0e, \h61>>, <<\h0f, \h4b>>,
  <<\h16, \h02>>, <<\h1e, \h37>>, <<\h21, \h02>>, <<\h22, \h91>>,
  <<\h29, \h07>>, <<\h33, \h0b>>, <<\h35, \h0b>>, <<\h37, \h1d>>,
  <<\h38, \h71>>, <<\h39, \h2a>>, <<\h3c, \h78>>, <<\h4d, \h40>>,
  <<\h4e, \h20>>, <<\h69, \h00>>, <<\h6b, \h4a>>, <<\h74, \h10>>,
  <<\h8d, \h4f>>, <<\h8e, \h00>>, <<\h8f, \h00>>, <<\h90, \h00>>,
  <<\h91, \h00>>, <<\h96, \h00>>, <<\h9a, \h00>>, <<\hb0, \h84>>,
  <<\hb1, \h0c>>, <<\hb2, \h0e>>, <<\hb3, \h82>>, <<\hb8, \h0a>>,
  <<\h72, \h11>>, <<\h73, \hf1>>, <<\h3e, \h19>>, <<\h12, \h14>>
>>

TableLast == Len(CaseTable) - 1

TableEntry ==
  [k \in 0..TableLast |-> [sub |-> HexByte(CaseTable[k + 1][1]),
                           data |-> HexByte(CaseTable[k + 1][2])]]

(* RESET_ADDR/RESET_DATA and the two bus addresses HALT loads.             *)
HaltEntry  == [sub |-> HexByte(\h12), data |-> HexByte(\h80)]
AddressForWrite == HexByte(\h42)
AddressForRead  == HexByte(\h43)
===============================================================================
