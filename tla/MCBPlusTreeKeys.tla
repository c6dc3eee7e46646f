-------------------------- MODULE MCBPlusTreeKeys --------------------------
(* TLC instance of BPlusTreeKeys: keys of two chars of two bits, -1 and -2  *)
(* being the bytes 3 and 2.                                                 *)
EXTENDS BPlusTreeKeys

\* Seven keys at once are the least that make a third leaf of order 4: in
\* ascending order they fill the leaves 2 + 2 + 3.
InOrder   == <<<<0, 1>>, <<1, 0>>, <<1, 1>>, <<1, -1>>, <<1, -2>>, <<-1, 0>>, <<-2, 0>>>>
Ascending == [i \in 1 .. 7 |-> Number(InOrder[i])]
Eight     == {InOrder[i] : i \in 1 .. 7} \union {<<0, -1>>}
EightKeys == {Number(s) : s \in Eight}
Removed   == {Ascending[i] : i \in {1, 3, 5, 6}}
OneKey    == {Number(<<1, -1>>)}
=============================================================================
