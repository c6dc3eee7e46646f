-------------------------- MODULE BPlusTreeRemove --------------------------
(***************************************************************************)
(* CPP/bt.cc: remove, with borrowing and merging, beside the operations of *)
(* BPlusTree.  A leaf or node that gets too small borrows from a sibling   *)
(* or is merged with one; the merge takes a key from the parent, one level *)
(* after the other (up is that key).  Blocks are not reused.               *)
(***************************************************************************)
EXTENDS BPlusTree

CONSTANT Removable   \* the keys the callers remove

ASSUME RemoveAssumption == Removable \subseteq Keys

Half  == BP_ORDER \div 2
Size(off) == Len(block[off].kids)

\* What remains when the left, or the right, of two siblings lends a child.
LendLast(off)  == Whole(off, [block[off] EXCEPT !.kids = Front(@)])
LendFirst(off) == Whole(off, [block[off] EXCEPT !.kids = Tail(@)])

\* Fault: the node after the merged one is not told.
MergeInto_NoPrev(off, gone, kids, m) ==
  <<Meta(m), Whole(off, [block[off] EXCEPT !.next = block[gone].next, !.kids = kids])>>
\* merge_leafs or merge_keys, node_remove and the write of the left node:
\* kids are the two nodes' children, off and gone their offsets, m the new
\* meta block.
MergeInto(off, gone, kids, m) ==
  LET after == block[gone].next IN
  (IF after # 0 THEN <<Header(after, "prev", block[gone].prev)>> ELSE << >>)
  \o <<Meta(m), Whole(off, [block[off] EXCEPT !.next = after, !.kids = kids])>>

\* Fault: only the parent is told, not the node above it.
ChangeParentChild_Once(p, o, n) ==
  LET w == UpperBound(block[p].kids, o)
  IN  <<Whole(p, [block[p] EXCEPT !.kids[w].key = n])>>
\* change_parent_child: the separator on the path of key o, and the unused
\* last keys below it, become n.
ChangeParentChild(p, o, n) ==
  LET above[q \in DOMAIN block \union {0}] ==
        IF q = 0 THEN << >>
        ELSE LET w == UpperBound(block[q].kids, o)
             IN  <<Whole(q, [block[q] EXCEPT !.kids[w].key = n])>>
                 \o IF w = Size(q) THEN above[block[q].parent] ELSE << >>
  IN  above[p]

-----------------------------------------------------------------------------
(* remove *)

\* borrow_key of a leaf; kids are its records without the removed one
BorrowLeft(off, kids) ==
  LET prev == block[block[off].prev] IN
  /\ todo' = ChangeParentChild(prev.parent, prev.kids[1].key, Last(prev.kids).key)
             \o <<LendLast(block[off].prev),
                  Whole(off, [block[off] EXCEPT !.kids = <<Last(prev.kids)>> \o kids])>>
  /\ up' = NoKey
  /\ UNCHANGED meta
BorrowRight(off, kids) ==
  LET next == block[block[off].next] IN
  /\ todo' = ChangeParentChild(block[off].parent, kids[1].key, next.kids[2].key)
             \o <<LendFirst(block[off].next),
                  Whole(off, [block[off] EXCEPT !.kids = Append(kids, next.kids[1])])>>
  /\ up' = NoKey
  /\ UNCHANGED meta

\* The last child of a parent is merged into its left sibling, any other
\* takes in its right sibling.
MergeLeaf(k, parent, off, kids) ==
  LET leaf == block[off]
      m    == [meta EXCEPT !.leaf_node_num = @ - 1]
      left == UpperBound(block[parent].kids, k) = Size(parent)
  IN
  /\ meta' = m
  /\ todo' = IF left
             THEN MergeInto(leaf.prev, off, block[leaf.prev].kids \o kids, m)
             ELSE MergeInto(off, leaf.next, kids \o block[leaf.next].kids, m)
  /\ up' = [op |-> "remove", at |-> parent,
            key |-> IF left THEN block[leaf.prev].kids[1].key ELSE kids[1].key]

\* Fault: a sibling lends although it is only half full.
CanLend_Any(off) == off # 0
CanLend(off) == off # 0 /\ Size(off) # Half

RemoveKey(k) ==
  LET parent == SearchIndex(k)
      off    == SearchLeaf(k)
      leaf   == block[off]
      kids   == RemoveAt(leaf.kids, LowerBound(leaf.kids, k))
      enough == Len(kids) >= (IF meta.leaf_node_num = 1 THEN 0 ELSE Half)
  IN
  /\ Idle
  /\ Holds(leaf.kids, k)               \* otherwise remove returns -1
  /\ dict' = [dict EXCEPT ![k] = Absent]
  /\ \/ /\ enough
        /\ todo' = <<Whole(off, [leaf EXCEPT !.kids = kids])>>
        /\ up' = NoKey
        /\ UNCHANGED meta
     \/ ~enough /\ CanLend(leaf.prev) /\ BorrowLeft(off, kids)
     \/ ~enough /\ ~CanLend(leaf.prev) /\ CanLend(leaf.next) /\ BorrowRight(off, kids)
     \/ ~enough /\ ~CanLend(leaf.prev) /\ ~CanLend(leaf.next) /\ MergeLeaf(k, parent, off, kids)
  /\ UNCHANGED <<block, saved, played>>

-----------------------------------------------------------------------------
(* remove_from_index: one level of it *)

\* The key and the child to its right go; of the last key, which is unused,
\* the key and the child to its left.
WithoutKey(kids, k) ==
  LET i == UpperBound(kids, k) IN
  IF i = Len(kids) THEN Front(kids)
  ELSE RemoveAt([kids EXCEPT ![i + 1].to = kids[i].to], i)

\* The root's only child becomes the root.
Collapse(kids) ==
  LET m == [meta EXCEPT !.internal_node_num = @ - 1, !.height = @ - 1,
                        !.root_offset = kids[1].to]
  IN
  /\ meta' = m
  /\ todo' = <<Meta(m)>>
  /\ up' = NoKey

\* borrow_key of an internal node.  The separator between the two siblings
\* is replaced; from the left, the borrower's first key is overwritten with
\* the old one.
IndexBorrowLeft(off, kids) ==
  LET node  == block[off]
      prev  == block[node.prev]
      above == block[prev.parent]
      w     == UpperBound(above.kids, prev.kids[1].key)
      lent  == Last(prev.kids)
      kids2 == <<lent>> \o [kids EXCEPT ![1].key = above.kids[w].key]
  IN
  /\ todo' = <<Whole(prev.parent, [above EXCEPT !.kids[w].key = prev.kids[Len(prev.kids) - 1].key])>>
             \o Reset(<<lent>>, off)
             \o <<LendLast(node.prev), Whole(off, [node EXCEPT !.kids = kids2])>>
  /\ up' = NoKey
  /\ UNCHANGED meta
\* Fault: the separator between the two is left as it is.
IndexBorrowRight_KeepKey(off, kids) ==
  LET node == block[off]
      lent == block[node.next].kids[1]
  IN
  /\ todo' = Reset(<<lent>>, off)
             \o <<LendFirst(node.next), Whole(off, [node EXCEPT !.kids = Append(kids, lent)])>>
  /\ up' = NoKey
  /\ UNCHANGED meta
IndexBorrowRight(off, kids) ==
  LET node  == block[off]
      lent  == block[node.next].kids[1]
      above == block[node.parent]
      w     == LowerBound(Front(above.kids), Last(kids).key)
  IN
  /\ todo' = <<Whole(node.parent, [above EXCEPT !.kids[w].key = lent.key])>>
             \o Reset(<<lent>>, off)
             \o <<LendFirst(node.next), Whole(off, [node EXCEPT !.kids = Append(kids, lent)])>>
  /\ up' = NoKey
  /\ UNCHANGED meta

\* merge_keys: the left node's unused last key becomes a separator.
MergeIndex(off, kids) ==
  LET node == block[off]
      m    == [meta EXCEPT !.internal_node_num = @ - 1]
      left == off = Last(block[node.parent].kids).to
  IN
  /\ meta' = m
  /\ todo' = IF left
             THEN Reset(kids, node.prev)
                  \o MergeInto(node.prev, off, block[node.prev].kids \o kids, m)
             ELSE Reset(block[node.next].kids, off)
                  \o MergeInto(off, node.next, kids \o block[node.next].kids, m)
  /\ up' = [op |-> "remove", at |-> node.parent, key |-> node.kids[1].key]

RemoveFromIndex ==
  LET off    == up.at
      node   == block[off]
      kids   == WithoutKey(node.kids, up.key)
      root   == off = meta.root_offset
      above  == block[node.parent].kids
      single == root /\ Len(kids) = 1 /\ meta.internal_node_num # 1
      enough == Len(kids) >= IF root THEN 1 ELSE Half
      left   == off # above[1].to /\ CanLend(node.prev)
      right  == off # Last(above).to /\ CanLend(node.next)
  IN
  /\ todo = << >> /\ up.op = "remove"
  /\ \/ single /\ Collapse(kids)
     \/ /\ ~single /\ enough
        /\ todo' = <<Whole(off, [node EXCEPT !.kids = kids])>>
        /\ up' = NoKey
        /\ UNCHANGED meta
     \/ ~enough /\ left /\ IndexBorrowLeft(off, kids)
     \/ ~enough /\ ~left /\ right /\ IndexBorrowRight(off, kids)
     \/ ~enough /\ ~left /\ ~right /\ MergeIndex(off, kids)
  /\ UNCHANGED <<block, saved, dict, played>>

-----------------------------------------------------------------------------
RemoveNext ==
  \/ Next
  \/ Free /\ \E k \in Removable : RemoveKey(k)
  \/ RemoveFromIndex

RemoveSpec == Init /\ [][RemoveNext]_vars

-----------------------------------------------------------------------------
\* Merged nodes leave the tree: what is in it has the fill that remove,
\* remove_from_index and borrow_key assert (bt.cc:160, 308, 401, 454), and
\* its nodes are as many as the meta block says.
TreeSized ==
  Idle => LET levels == Levels IN
    /\ \A h \in DOMAIN levels : \A off \in ToSet(levels[h]) :
         /\ Size(off) <= BP_ORDER
         /\ off # meta.root_offset /\ meta.leaf_node_num > 1 => Size(off) >= Half
    /\ saved = meta
    /\ meta.leaf_node_num = Len(levels[meta.height + 1])
    /\ meta.internal_node_num =
         FoldSeq(LAMBDA row, n : Len(row) + n, 0, SubSeq(levels, 1, meta.height))

\* The unused last key of an internal node is the separator after the node,
\* wherever that is further up: merge_keys and borrow_key make it a
\* separator again.
LastKeysKept ==
  Idle => LET levels == Levels IN
    \A h \in 1 .. meta.height - 1 : \A off \in ToSet(levels[h]) :
      LET kids == block[off].kids IN
      \A i \in 1 .. Len(kids) :
        i < Len(kids) \/ off # Last(levels[h]) => Last(block[kids[i].to].kids).key = kids[i].key
=============================================================================
