--------------------------- MODULE BPlusTreeKeys ---------------------------
(***************************************************************************)
(* The tree as the engine's keys see it: strings, which TreeKey turns into *)
(* the numbers that BPlusTree stores and compares.                         *)
(***************************************************************************)
EXTENDS BPlusTreeRemove, BPlusTreeRange, TreeKey

CONSTANT Strings   \* the keys of the engine

ASSUME StringsAssumption ==
  /\ Strings \subseteq [1 .. BPT_MOVE_STEP -> Char]
  /\ Keys = {Number(s) : s \in Strings}

NumberOf == [s \in Strings |-> Number(s)]
StringOf == [n \in Keys |-> CHOOSE s \in Strings : NumberOf[s] = n]

\* What search finds for each string; while an operation writes, what it will
\* find then.
Shown ==
  LET found == IF Idle THEN [n \in Keys |-> Search(n)] ELSE dict
  IN  [s \in Strings |-> found[NumberOf[s]]]

\* The tree is the map of strings that Index takes it for: what an operation
\* does to one key of the engine, it does to no other.
StringMap == INSTANCE IndexMap WITH Keys <- Strings, map <- Shown
ImplementsStringMap == StringMap!Spec

\* The leaves hold the keys in the order of PolarString::compare, except that
\* two keys which differ first in bytes that are both 0x80 or more stand the
\* other way round.
High(s, t) == LET i == Min(Differing(s, t)) IN s[i] < 0 /\ t[i] < 0
Precedes(s, t) == s # t /\ IF High(s, t) THEN Compare(s, t) > 0 ELSE Compare(s, t) < 0
KeysInOrder ==
  Idle =>
    LET leaves == Leaves
        stored == FlattenSeq([i \in 1 .. Len(leaves) |-> block[leaves[i]].kids])
    IN IsSorted([i \in 1 .. Len(stored) |-> StringOf[stored[i].key]], Precedes)
=============================================================================
