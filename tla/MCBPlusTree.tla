---------------------------- MODULE MCBPlusTree ----------------------------
(***************************************************************************)
(* TLC instances of the tree.  A Script builds a tree, then the callers do *)
(* what the other constants let them, in every order.                      *)
(***************************************************************************)
EXTENDS BPlusTreeRemove

None == {}

\* An order in which 125 inserts fill every node of a tree of order 5 with
\* two levels of internal nodes.  Any further key splits a leaf, the node
\* above it and the root; the free keys do so at each place of the two.
Full == <<
  2, 202, 240, 242, 250, 248, 200, 192, 246, 244, 232, 190, 152, 230,
  222, 198, 150, 142, 196, 194, 182, 140, 102, 180, 172, 148, 100, 92,
  146, 144, 132, 90, 52, 130, 122, 238, 220, 212, 236, 234, 228, 210,
  208, 226, 224, 218, 206, 204, 216, 214, 98, 50, 42, 96, 94, 82, 40,
  32, 80, 72, 188, 170, 162, 186, 184, 178, 160, 158, 176, 174, 168,
  156, 154, 166, 164, 48, 30, 22, 46, 44, 38, 20, 12, 36, 34, 138, 120,
  112, 136, 134, 128, 110, 108, 126, 124, 118, 106, 104, 116, 114, 28,
  10, 8, 26, 24, 18, 6, 4, 16, 14, 88, 70, 62, 86, 84, 78, 60, 58, 76,
  74, 68, 56, 54, 66, 64 >>
FullKeys == {Full[i] : i \in 1 .. Len(Full)} \union {5, 65, 125, 185, 245}

\* Order 4, two nodes of three leaves each below the root: removals make
\* either node lend, borrow or be merged, and leaves borrow across the two.
Pair     == <<10, 20, 30, 40, 50, 60, 70, 80, 90, 100, 110, 120, 5, 15, 75, 85>>
PairKeys == {Pair[i] : i \in 1 .. Len(Pair)}
Some     == PairKeys \ {5, 10, 40, 70, 75, 110}

\* Order 6, two nodes of four leaves each below the root.
Down     == [i \in 1 .. 22 |-> 230 - 10 * i]
Lent     == Down \o <<211, 212, 213, 214>>
LentKeys == {Lent[i] : i \in 1 .. Len(Lent)}
Right    == {140, 150, 160, 170, 180, 190, 200}
=============================================================================
