------------------------------- MODULE Encryptor -------------------------------
(***************************************************************************)
(* encryptor.sv: three xorshift generators whose low bits encrypt the      *)
(* right plane of the picture.  A word of 32 bits is the set of the        *)
(* positions that are 1.  One step is one edge of the gated clock.         *)
(***************************************************************************)
EXTENDS Integers

CONSTANT Edges     \* edges of the clock that are looked at

ASSUME EdgesAssumption == Edges \in Nat

VARIABLES R_prev, G_prev, B_prev,
          edge     \* how many edges there were

generatorVars == <<R_prev, G_prev, B_prev, edge>>

Bits == 0..31
Word == SUBSET Bits

Xor(a, b)   == (a \ b) \cup (b \ a)
Left(a, k)  == {b \in Bits : b - k \in a}      \* a << k
Right(a, k) == {b \in Bits : b + k \in a}      \* a >> k

Xor1(a) == Xor(a, Left(a, 13))
Xor2(a) == Xor(a, Right(a, 7))
Xor3(a) == Xor(a, Left(a, 5))
Shifted(a) == Xor3(Xor2(Xor1(a)))

(* A word of zero, which is what the registers power up with, is replaced  *)
(* by the generator's own seed.                                            *)
NoSeed(prev, seed) == Shifted(prev)                          \* mutant of Step
Step(prev, seed) == IF prev = {} THEN seed ELSE Shifted(prev)

Seed33 == {0, 5}
Seed63 == {0, 1, 2, 3, 4, 5}
Seed11 == {0, 1, 3}

GeneratorInit == R_prev = {} /\ G_prev = {} /\ B_prev = {} /\ edge = 0

Clock ==
  /\ edge < Edges /\ edge' = edge + 1
  /\ R_prev' = Step(R_prev, Seed33)
  /\ G_prev' = Step(G_prev, Seed63)
  /\ B_prev' = Step(B_prev, Seed11)

GeneratorSpec == GeneratorInit /\ [][Clock]_generatorVars

-------------------------------------------------------------------------------
GeneratorTypeOK == R_prev \in Word /\ G_prev \in Word /\ B_prev \in Word /\ edge \in 0..Edges

(* A generator that was seeded never falls back to zero, so it is never    *)
(* seeded again in the middle of the picture.                              *)
NeverZero == edge > 0 => R_prev # {} /\ G_prev # {} /\ B_prev # {}

(* The three colours are never encrypted with the same word.               *)
ThreeStreams ==
  edge > 0 => R_prev # G_prev /\ R_prev # B_prev /\ G_prev # B_prev
===============================================================================
