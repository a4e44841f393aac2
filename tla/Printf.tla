--------------------------------- MODULE Printf --------------------------------
(***************************************************************************)
(* The two small printf functions of the HAL, alt_printf and               *)
(* alt_log_private_printf.  A format is given character by character;      *)
(* "text" stands for any character without a meaning.  What a conversion   *)
(* printed last is kept, with the conversion, in piece.                    *)
(***************************************************************************)
EXTENDS Integers, Sequences

CONSTANTS Bits,        \* of unsigned long
          Values,      \* arguments, as bit patterns
          Strings,
          MaxWidth     \* bound on the widths and precisions in a format

Power(b, n) == LET power[i \in 0..n] == IF i = 0 THEN 1 ELSE b * power[i - 1] IN power[n]

Words == 0..(Power(2, Bits) - 1)
ASSUME PrintAssumption ==
  /\ Bits \in Nat \ {0} /\ Bits % 4 = 0 /\ Values \subseteq Words
  /\ \A s \in Strings : s \in Seq({s[i] : i \in DOMAIN s})
  /\ MaxWidth \in Nat

VARIABLES state, fmt,      \* of the format: where in it, and the fields of a conversion
          piece

printVars == <<state, fmt, piece>>

NoPiece  == [type |-> "none"]
Fresh == [zero |-> FALSE, before |-> -1, after |-> -1, base |-> 10, signed |-> TRUE,
          upper |-> FALSE]

Lower == <<"0", "1", "2", "3", "4", "5", "6", "7", "8", "9", "a", "b", "c", "d", "e", "f">>
Upper == [Lower EXCEPT ![11] = "A", ![12] = "B", ![13] = "C", ![14] = "D", ![15] = "E", ![16] = "F"]
Decimal == {Lower[i] : i \in 1..10}
ValueOf(c) == CHOOSE d \in 0..15 : c \in {Lower[d + 1], Upper[d + 1]}

-------------------------------------------------------------------------------
(* alt_log_private_printf: the digits of v, from the biggest power of the  *)
(* base that fits.                                                         *)
Rep(c, n) == [i \in 1..(IF n > 0 THEN n ELSE 0) |-> c]        \* alt_log_repchar

DigitCount(v, base) == LET digits[x \in Words] == IF x \div base = 0 THEN 1 ELSE 1 + digits[x \div base]
                       IN digits[v]
Digits(v, base, upper) ==
  LET n == DigitCount(v, base)
  IN [i \in 1..n |-> (IF upper THEN Upper ELSE Lower)[1 + ((v \div Power(base, n - i)) % base)]]

Negative(f, v) == f.signed /\ v >= Power(2, Bits - 1)
Stripped(f, v) == IF Negative(f, v) THEN Power(2, Bits) - v ELSE v

SignAfter(f, v) ==                                            \* mutant of IntegerPrint
  LET s == IF Negative(f, v) THEN <<"-">> ELSE <<>>
      d == Digits(Stripped(f, v), f.base, f.upper)
  IN Rep(IF f.zero THEN "0" ELSE " ", f.before - Len(d) - Len(s)) \o s \o d
IntegerPrint(f, v) ==
  LET s == IF Negative(f, v) THEN <<"-">> ELSE <<>>
      d == Digits(Stripped(f, v), f.base, f.upper)
      n == f.before - Len(d) - Len(s)
  IN IF f.zero THEN s \o Rep("0", n) \o d ELSE Rep(" ", n) \o s \o d

Base(letter) == CASE letter = "o" -> 8 [] letter \in {"x", "X"} -> 16 [] OTHER -> 10

LogChars(c) ==
  /\ state = "chars"
  /\ IF c = "%" THEN state' = "first" /\ fmt' = Fresh /\ piece' = NoPiece
     ELSE piece' = [type |-> "plain", char |-> c, text |-> <<c>>] /\ UNCHANGED <<state, fmt>>

(* The first may be a zero or another "%"; the rest is as for the others.  *)
LogFirst(c) ==
  /\ state = "first" /\ c \in {"0", "%"}
  /\ IF c = "0" THEN state' = "other" /\ fmt' = [fmt EXCEPT !.zero = TRUE] /\ UNCHANGED piece
     ELSE state' = "chars" /\ piece' = [type |-> "plain", char |-> c, text |-> <<c>>] /\ UNCHANGED fmt

Other(c) == state = "other" \/ (state = "first" /\ c \notin {"0", "%"})

Tens(n, c) == IF n < 0 THEN ValueOf(c) ELSE 10 * n + ValueOf(c)
LogWidth(c) ==
  /\ Other(c) /\ c \in {".", "l"} \cup Decimal
  /\ state' = "other" /\ UNCHANGED piece
  /\ fmt' = IF c = "." THEN [fmt EXCEPT !.after = 0]
            ELSE IF c = "l" THEN fmt
            ELSE IF fmt.after < 0 THEN [fmt EXCEPT !.before = Tens(@, c)]
            ELSE [fmt EXCEPT !.after = 10 * @ + ValueOf(c)]
  /\ fmt'.before <= MaxWidth /\ fmt'.after <= MaxWidth

LogInteger(c, v) ==
  /\ Other(c) /\ c \in {"d", "i", "u", "o", "x", "X"}
  /\ LET f == [fmt EXCEPT !.signed = c \in {"d", "i"}, !.base = Base(c), !.upper = c = "X"] IN
     piece' = [type |-> "integer", f |-> f, value |-> v, text |-> IntegerPrint(f, v)]
  /\ state' = "chars" /\ fmt' = Fresh

LogString(c, s) ==
  /\ Other(c) /\ c \in {"c", "s"} /\ (c = "c" => Len(s) = 1)
  /\ piece' = [type |-> "string", width |-> fmt.before, value |-> s,
               text |-> Rep(" ", fmt.before - Len(s)) \o s]
  /\ state' = "chars" /\ fmt' = Fresh

(* Any other letter ends the conversion and prints nothing.                *)
LogUnknown(c) == /\ Other(c) /\ c \in {"text", "%"}
                 /\ state' = "chars" /\ fmt' = Fresh /\ UNCHANGED piece

-------------------------------------------------------------------------------
(* alt_printf: no widths, and numbers as hexadecimal only, a digit for     *)
(* every four bits from the first that is not zero.                        *)
FirstShift(v) == CHOOSE s \in 0..((Bits \div 4) - 1) :
  v \div Power(16, s) # 0 /\ \A t \in (s + 1)..((Bits \div 4) - 1) : v \div Power(16, t) = 0
HexDigits(v) ==
  IF v = 0 THEN <<"0">>
  ELSE LET n == FirstShift(v) + 1 IN [i \in 1..n |-> Lower[1 + ((v \div Power(16, n - i)) % 16)]]

Escape(c) ==
  /\ state = "chars" /\ c = "%"
  /\ state' = "escape" /\ fmt' = Fresh /\ piece' = NoPiece

Escaped(c) ==
  /\ state = "escape" /\ state' = "chars" /\ UNCHANGED fmt
  /\ \/ c = "%" /\ piece' = [type |-> "plain", char |-> c, text |-> <<c>>]
     \/ c \in {"c", "s"} /\ \E s \in Strings : /\ c = "c" => Len(s) = 1
          /\ piece' = [type |-> "string", width |-> -1, value |-> s, text |-> s]
     \/ c = "x" /\ \E v \in Values :
          piece' = [type |-> "integer", f |-> [Fresh EXCEPT !.base = 16, !.signed = FALSE],
                    value |-> v, text |-> HexDigits(v)]
     \/ c \notin {"%", "c", "s", "x"} /\ UNCHANGED piece

(* The string ends: whatever was begun is dropped.                         *)
EndOfFormat == state # "chars" /\ state' = "chars" /\ fmt' = Fresh /\ UNCHANGED piece

-------------------------------------------------------------------------------
Chars == {"%", ".", "l", "d", "u", "o", "x", "X", "c", "s", "text", "0", "2", "9"}

PrintInit ==
  /\ state = "chars" /\ fmt = Fresh /\ piece = NoPiece

PrintNext ==
  \/ EndOfFormat
  \/ \E c \in Chars :
       \/ LogChars(c) \/ LogFirst(c) \/ LogWidth(c) \/ LogUnknown(c)
       \/ \E v \in Values : LogInteger(c, v)
       \/ \E s \in Strings : LogString(c, s)
       \/ Escape(c) \/ Escaped(c)

PrintSpec == PrintInit /\ [][PrintNext]_printVars

-------------------------------------------------------------------------------
Number(digits, base) ==
  LET upTo[i \in 0..Len(digits)] == IF i = 0 THEN 0 ELSE base * upTo[i - 1] + ValueOf(digits[i])
  IN upTo[Len(digits)]

(* The text is right aligned in the width, with the sign before zeros and  *)
(* after blanks, and the shortest digits that are the value.               *)
IntegerRight(p) ==
  LET sign  == p.f.signed /\ p.value >= Power(2, Bits - 1)
      magnitude == IF sign THEN Power(2, Bits) - p.value ELSE p.value
      fill  == IF p.f.zero THEN "0" ELSE " "
  IN \E n \in 1..Len(p.text) :
       LET head == SubSeq(p.text, 1, Len(p.text) - n)
           tail == SubSeq(p.text, Len(p.text) - n + 1, Len(p.text))
           signs == {i \in 1..Len(head) : head[i] = "-"}
       IN /\ \A i \in 1..n : tail[i] \in {(IF p.f.upper THEN Upper ELSE Lower)[d] : d \in 1..p.f.base}
          /\ Number(tail, p.f.base) = magnitude /\ (n > 1 => tail[1] # "0")
          /\ signs = IF ~sign THEN {} ELSE IF p.f.zero THEN {1} ELSE {Len(head)}
          /\ \A i \in (1..Len(head)) \ signs : head[i] = fill
          /\ Len(p.text) > n + (IF sign THEN 1 ELSE 0) => Len(p.text) = p.f.before
          /\ Len(p.text) >= p.f.before

(* alt_log_printf.c 113-341, alt_printf.c 48-127: a number that is printed *)
(* can be read back, whatever its size, sign, base and width, and nothing  *)
(* else of the text is changed.                                            *)
ReadsBack ==
  CASE piece.type = "integer" -> IntegerRight(piece)
    [] piece.type = "string"  ->
         LET n == Len(piece.text) - Len(piece.value) IN
         /\ n = IF piece.width > Len(piece.value) THEN piece.width - Len(piece.value) ELSE 0
         /\ piece.text = Rep(" ", n) \o piece.value
    [] piece.type = "plain"   -> piece.text = <<piece.char>>
    [] OTHER -> TRUE
===============================================================================
