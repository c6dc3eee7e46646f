------------------------------ MODULE TreeKey ------------------------------
(***************************************************************************)
(* CPP/btconf.h: the number that the tree keeps for a key of the engine.   *)
(* A key is a string of BPT_MOVE_STEP chars, signed as the compiler has    *)
(* them; each is shifted in by BPT_MOVE_STEP bits, the width of a char.    *)
(***************************************************************************)
EXTENDS Integers, SequencesExt

CONSTANT BPT_MOVE_STEP   \* 8 in btconf.h

ASSUME KeyAssumption == BPT_MOVE_STEP \in Nat \ {0}

Base == 2 ^ BPT_MOVE_STEP     \* chars
HalfChar == Base \div 2
Char == -HalfChar .. HalfChar - 1

\* Fault: the negative chars are added to 127.
Digit_Plus(c) == IF c >= 0 THEN c ELSE HalfChar - 1 + c
Digit(c)      == IF c >= 0 THEN c ELSE HalfChar - 1 - c

\* Fault: the last char is the most significant.
Number_LittleEndian(s) ==
  LET k[i \in 0 .. Len(s)] == IF i = 0 THEN 0 ELSE k[i - 1] * Base + Digit(s[Len(s) + 1 - i])
  IN  k[Len(s)]

\* key_t(const char *): k after i chars
Number(s) ==
  LET k[i \in 0 .. Len(s)] == IF i = 0 THEN 0 ELSE k[i - 1] * Base + Digit(s[i])
  IN  k[Len(s)]

-----------------------------------------------------------------------------
(* include/polar_string.h: the order of the engine's keys *)

Byte(c) == c % Base
\* Where memcmp decides
Differing(s, t) == {i \in DOMAIN s \intersect DOMAIN t : s[i] # t[i]}

\* PolarString::compare
Compare(s, t) ==
  IF Differing(s, t) # {}
  THEN LET i == Min(Differing(s, t)) IN Byte(s[i]) - Byte(t[i])
  ELSE Len(s) - Len(t)
=============================================================================
