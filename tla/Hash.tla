-------------------------------- MODULE Hash --------------------------------
(***************************************************************************)
(* CPP/Hash.cc and the bucket computation of CPP/value_resources.cc: from  *)
(* the 32-bit value that std::hash leaves after the cast to int to the     *)
(* index of the value file.  C integers have two traps here: -INT_MIN does *)
(* not exist, and % takes the sign of its left operand.                    *)
(***************************************************************************)
EXTENDS Integers

CONSTANTS
  HalfRange,              \* 2^31 in the program: int is -HalfRange..HalfRange-1
  WRITE_RESOURCES_NUMBER  \* the number of value files, 64 in conf.h

ASSUME HashAssumption ==
  /\ HalfRange \in Nat \ {0}
  /\ WRITE_RESOURCES_NUMBER \in Nat \ {0}
  /\ HalfRange % WRITE_RESOURCES_NUMBER = 0     \* 2^31 = 64 * 2^25

CInt    == -HalfRange .. HalfRange - 1
Buckets == 0 .. WRITE_RESOURCES_NUMBER - 1

\* Unary minus on an int.  Overflow is undefined behaviour; both the wrapped
\* value and the mask the shipped build computes give the same remainder.
Negate(x) == IF x = -HalfRange THEN x ELSE -x

\* Hash::hash(std::string &)
HashInt(raw) == IF raw >= 0 THEN raw ELSE Negate(raw)

\* C's a % b for b > 0: the remainder has the sign of a.
CRem(a, b) == IF a >= 0 THEN a % b ELSE -((-a) % b)

\* Hash::hash(key, KEY_SIZE) % WRITE_RESOURCES_NUMBER
BucketOf(raw) == CRem(HashInt(raw), WRITE_RESOURCES_NUMBER)
=============================================================================
