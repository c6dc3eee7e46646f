----------------------------- MODULE BPlusTree -----------------------------
(***************************************************************************)
(* CPP/bt.cc, bt.h: the B+ tree in a file, the part Index uses: insert,    *)
(* update, search.  An operation reads blocks (map), and writes blocks one *)
(* after the other (unmap: open, seek, write, close), so the file goes     *)
(* through states that are no tree; todo holds the writes still to come    *)
(* and up the key that is on its way to the parent.  Nobody looks at the   *)
(* file in between: Index holds index_lock over every operation.           *)
(*                                                                         *)
(* Offsets count blocks, 0 is the meta block and "no block".  A node's     *)
(* kids are a sequence of [key, to]: to is a child's offset in an internal *)
(* node and the value in a leaf; the last key of an internal node is       *)
(* stored but never compared.                                              *)
(***************************************************************************)
EXTENDS Integers, Sequences, FiniteSets, SequencesExt

CONSTANTS
  BP_ORDER,   \* children per node, 25 in btconf.h
  Keys,       \* integers: keycmp compares numbers
  Vals,
  Junk,       \* a key nobody assigned (a default key_t)
  Absent,     \* "search did not find it"
  \* what the callers do
  Script,     \* the keys the first inserts use; afterwards any key
  MaxSlot,    \* bound: after Script, no insert from this block number on
  NewVals,    \* the values that inserts use
  Updatable   \* the keys that are updated

\* With 3 children insert_key_to_index would read the unused last key.
ASSUME TreeAssumption ==
  /\ BP_ORDER \in Nat /\ BP_ORDER >= 4
  /\ Keys \subseteq Int /\ Junk \in Int
  /\ Absent \notin Vals
  /\ Script \in Seq(Keys) /\ MaxSlot \in Nat
  /\ NewVals \subseteq Vals /\ Updatable \subseteq Keys

VARIABLES
  block,   \* the file: offset -> [parent, next, prev, kids]
  saved,   \* the file: the meta block
  meta,    \* the meta block in memory
  todo,    \* writes of the running operation still to be made
  up,      \* what an internal node has yet to be told, or NoKey
  dict,    \* history: what the completed operations put in
  played   \* how much of Script has been played

vars == <<block, saved, meta, todo, up, dict, played>>

NoKey == [op |-> "none"]
Idle  == todo = << >> /\ up = NoKey

-----------------------------------------------------------------------------
(* Searching: upper_bound and lower_bound on sorted keys *)

\* upper_bound over the keys of an internal node but the last
UpperBound(kids, k) == 1 + Cardinality({i \in 1 .. Len(kids) - 1 : kids[i].key <= k})
\* lower_bound over the records of a leaf
LowerBound(kids, k) == 1 + Cardinality({i \in 1 .. Len(kids) : kids[i].key < k})

ChildFor(off, k) == block[off].kids[UpperBound(block[off].kids, k)].to

\* search_index: the lowest internal node on k's path
SearchIndex(k) ==
  LET node[h \in 1 .. meta.height] ==
        IF h = 1 THEN meta.root_offset ELSE ChildFor(node[h - 1], k)
  IN  node[meta.height]
SearchLeaf(k) == ChildFor(SearchIndex(k), k)

Holds(kids, k) == LowerBound(kids, k) <= Len(kids) /\ kids[LowerBound(kids, k)].key = k

\* search: what it stores through its pointer when it returns 0
Search(k) == LET kids == block[SearchLeaf(k)].kids
             IN  IF Holds(kids, k) THEN kids[LowerBound(kids, k)].to ELSE Absent

-----------------------------------------------------------------------------
(* Writing *)

Whole(off, node)  == [kind |-> "block", at |-> off, node |-> node]
Header(off, f, p) == [kind |-> f, at |-> off, to |-> p]
Meta(m)           == [kind |-> "meta", meta |-> m]

\* Fault: moved children keep their parent.
Reset_None(kids, p) == << >>
\* reset_index_children_parent
Reset(kids, p) == [i \in 1 .. Len(kids) |-> Header(kids[i].to, "parent", p)]

\* unmap: the next write of the operation reaches the file.  A prev that goes
\* to a block which a kill has kept out of the file is dropped: the code puts
\* a header of which nothing else is set there, and no path leads to it.
Unmap ==
  /\ todo # << >>
  /\ todo' = Tail(todo)
  /\ LET w == Head(todo) IN
     /\ saved' = IF w.kind = "meta" THEN w.meta ELSE saved
     /\ block' = CASE w.kind = "meta"   -> block
                   [] w.kind = "block"  -> [o \in DOMAIN block \union {w.at} |-> IF o = w.at THEN w.node ELSE block[o]]
                   [] w.kind = "parent" -> [block EXCEPT ![w.at].parent = w.to]
                   [] w.kind = "prev"   -> [block EXCEPT ![w.at].prev = w.to]
  /\ UNCHANGED <<meta, up, dict, played>>

\* Fault: the block after the new one is not told; meta is not saved.
NodeCreate_NoPrev(node, m) == <<Meta(m)>>
NodeCreate_NoMeta(node, m) ==
  IF node.next # 0 THEN <<Header(node.next, "prev", meta.slot)>> ELSE << >>

\* node_create: the block number of the new sibling, and the writes it makes
NodeCreate(node, m) ==
  (IF node.next # 0 THEN <<Header(node.next, "prev", meta.slot)>> ELSE << >>) \o <<Meta(m)>>

-----------------------------------------------------------------------------
(* insert *)

\* insert_record_no_split, and insert_key_to_index_no_split, which puts the
\* new child to the right of its key
WithRecord(kids, k, v) == InsertAt(kids, LowerBound(kids, k), [key |-> k, to |-> v])
WithKey(kids, k, child) ==
  LET i == UpperBound(kids, k) IN
  [InsertAt(kids, i, [key |-> k, to |-> kids[i].to]) EXCEPT ![i + 1].to = child]

InsertNoSplit(k, v, off) ==
  /\ todo' = <<Whole(off, [block[off] EXCEPT !.kids = WithRecord(@, k, v)])>>
  /\ up' = NoKey
  /\ UNCHANGED meta

InsertSplit(k, v, parent, off) ==
  LET leaf  == block[off]
      half  == Len(leaf.kids) \div 2
      right == k > leaf.kids[half + 1].key
      point == IF right THEN half + 1 ELSE half
      low   == SubSeq(leaf.kids, 1, point)
      high  == SubSeq(leaf.kids, point + 1, Len(leaf.kids))
      low2  == IF right THEN low ELSE WithRecord(low, k, v)
      high2 == IF right THEN WithRecord(high, k, v) ELSE high
      m     == [meta EXCEPT !.slot = @ + 1, !.leaf_node_num = @ + 1]
  IN
  /\ meta' = m
  /\ todo' = NodeCreate(leaf, m)
             \o <<Whole(off, [leaf EXCEPT !.next = meta.slot, !.kids = low2]),
                  Whole(meta.slot, [leaf EXCEPT !.prev = off, !.kids = high2])>>
  /\ up' = [op |-> "insert", at |-> parent, key |-> high2[1].key, old |-> off, after |-> meta.slot]

Insert(k, v) ==
  LET parent == SearchIndex(k)
      off    == SearchLeaf(k)
  IN
  /\ Idle
  /\ ~Holds(block[off].kids, k)         \* otherwise insert returns 1
  /\ dict' = [dict EXCEPT ![k] = v]
  /\ played' = IF played < Len(Script) THEN played + 1 ELSE played
  /\ IF Len(block[off].kids) = BP_ORDER
     THEN InsertSplit(k, v, parent, off)
     ELSE InsertNoSplit(k, v, off)
  /\ UNCHANGED <<block, saved>>

-----------------------------------------------------------------------------
(* insert_key_to_index: one level of it *)

NewRoot ==
  LET kids == <<[key |-> up.key, to |-> up.old], [key |-> Junk, to |-> up.after]>>
      m    == [meta EXCEPT !.slot = @ + 1, !.internal_node_num = @ + 1,
                           !.height = @ + 1, !.root_offset = meta.slot]
  IN
  /\ meta' = m
  /\ todo' = <<Meta(m),
               Whole(meta.slot, [parent |-> 0, next |-> 0, prev |-> 0, kids |-> kids])>>
             \o Reset(kids, meta.slot)
  /\ up' = NoKey

IndexNoSplit ==
  /\ todo' = <<Whole(up.at, [block[up.at] EXCEPT !.kids = WithKey(@, up.key, up.after)])>>
  /\ up' = NoKey
  /\ UNCHANGED meta

\* Does the key go into the right half, and which key moves up.
PlaceRight(kids, k)  == k > kids[(Len(kids) - 1) \div 2 + 1].key
\* Fault: the case "insert 48 into |42|45| 6|  |" of bt.cc is forgotten.
MiddlePoint_Right(kids, k) ==
  LET half == (Len(kids) - 1) \div 2 IN IF PlaceRight(kids, k) THEN half + 1 ELSE half
MiddlePoint(kids, k) ==
  LET half == (Len(kids) - 1) \div 2 IN
  IF PlaceRight(kids, k) /\ k >= kids[half + 2].key THEN half + 1 ELSE half

\* The writes of a split; Fault: the children are moved before the nodes are
\* saved.
SaveSplit_ResetFirst(off, low, high) ==
  Reset(high.kids, meta.slot) \o <<Whole(off, low), Whole(meta.slot, high)>>
SaveSplit(off, low, high) ==
  <<Whole(off, low), Whole(meta.slot, high)>> \o Reset(high.kids, meta.slot)

\* The middle key moves up; its copy stays behind as the unused last key.
IndexSplit ==
  LET node  == block[up.at]
      right == PlaceRight(node.kids, up.key)
      point == MiddlePoint(node.kids, up.key)
      low   == SubSeq(node.kids, 1, point + 1)
      high  == SubSeq(node.kids, point + 2, Len(node.kids))
      low2  == IF right THEN low ELSE WithKey(low, up.key, up.after)
      high2 == IF right THEN WithKey(high, up.key, up.after) ELSE high
      m     == [meta EXCEPT !.slot = @ + 1, !.internal_node_num = @ + 1]
  IN
  /\ meta' = m
  /\ todo' = NodeCreate(node, m)
             \o SaveSplit(up.at, [node EXCEPT !.next = meta.slot, !.kids = low2],
                                 [node EXCEPT !.prev = up.at, !.kids = high2])
  /\ up' = [op |-> "insert", at |-> node.parent, key |-> node.kids[point + 1].key,
            old |-> up.at, after |-> meta.slot]

\* Fault: a full node takes one more.
InsertKeyToIndex_Overfull ==
  /\ todo = << >> /\ up.op = "insert"
  /\ \/ up.at = 0 /\ NewRoot
     \/ up.at # 0 /\ IndexNoSplit
  /\ UNCHANGED <<block, saved, dict, played>>

InsertKeyToIndex ==
  /\ todo = << >> /\ up.op = "insert"
  /\ \/ up.at = 0 /\ NewRoot
     \/ up.at # 0 /\ Len(block[up.at].kids) < BP_ORDER /\ IndexNoSplit
     \/ up.at # 0 /\ Len(block[up.at].kids) = BP_ORDER /\ IndexSplit
  /\ UNCHANGED <<block, saved, dict, played>>

-----------------------------------------------------------------------------
\* Fault: the record is removed, then inserted with its new value.
Update_Twice(k, v) ==
  LET off  == SearchLeaf(k)
      kids == block[off].kids
  IN
  /\ Idle
  /\ Holds(kids, k)
  /\ kids[LowerBound(kids, k)].to # v
  /\ todo' = <<Whole(off, [block[off] EXCEPT !.kids = RemoveAt(@, LowerBound(kids, k))]),
               Whole(off, [block[off] EXCEPT !.kids[LowerBound(kids, k)].to = v])>>
  /\ dict' = [dict EXCEPT ![k] = v]
  /\ UNCHANGED <<block, saved, meta, up, played>>

Update(k, v) ==
  LET off  == SearchLeaf(k)
      kids == block[off].kids
  IN
  /\ Idle
  /\ Holds(kids, k)                     \* otherwise update returns 1 or -1
  /\ kids[LowerBound(kids, k)].to # v
  /\ todo' = <<Whole(off, [block[off] EXCEPT !.kids[LowerBound(kids, k)].to = v])>>
  /\ dict' = [dict EXCEPT ![k] = v]
  /\ UNCHANGED <<block, saved, meta, up, played>>

\* The tree is closed, or the process killed, between two operations, and
\* opened again: the constructor reads meta from the file.
Reopen ==
  /\ Idle
  /\ meta' = saved
  /\ UNCHANGED <<block, saved, todo, up, dict, played>>

\* The default meta block; Fault: slot is not set to OFFSET_BLOCK.
FirstMeta_NoSlot == [internal_node_num |-> 1, leaf_node_num |-> 1, height |-> 1, slot |-> 0,
                     root_offset |-> 1, leaf_offset |-> 2]
FirstMeta == [internal_node_num |-> 1, leaf_node_num |-> 1, height |-> 1, slot |-> 3,
              root_offset |-> 1, leaf_offset |-> 2]

\* init_from_empty: an internal root over one empty leaf
FirstRoot == [parent |-> 0, next |-> 0, prev |-> 0, kids |-> <<[key |-> Junk, to |-> 2]>>]
FirstLeaf == [parent |-> 1, next |-> 0, prev |-> 0, kids |-> << >>]
Init ==
  /\ block = <<FirstRoot, FirstLeaf>>      \* blocks 1 and 2
  /\ meta = FirstMeta /\ saved = FirstMeta
  /\ todo = << >> /\ up = NoKey
  /\ dict = [k \in Keys |-> Absent]
  /\ played = 0

\* The caller's first inserts play Script.
Free     == played = Len(Script)
NextKeys == IF Free THEN Keys ELSE {Script[played + 1]}

Next ==
  \/ (Free => meta.slot < MaxSlot) /\ \E k \in NextKeys, v \in NewVals : Insert(k, v)
  \/ Free /\ \E k \in Updatable, v \in Vals : Update(k, v)
  \/ Unmap \/ InsertKeyToIndex \/ Reopen

Spec == Init /\ [][Next]_vars

-----------------------------------------------------------------------------
TypeOK ==
  LET Kids == [key : Int, to : Int \union Vals]
      Nodes == [parent : Nat, next : Nat, prev : Nat, kids : Seq(Kids)]
      Metas == [internal_node_num : Nat, leaf_node_num : Nat, height : Nat, slot : Nat,
                root_offset : Nat, leaf_offset : Nat]
  IN
  /\ DOMAIN block \subseteq Nat \ {0} /\ \A o \in DOMAIN block : block[o] \in Nodes
  /\ meta \in Metas /\ saved \in Metas
  /\ \A i \in 1 .. Len(todo) : todo[i].kind \in {"block", "meta", "parent", "prev"}
  /\ \/ up = NoKey
     \/ up \in [op : {"insert"}, at : Nat, key : Int, old : Nat, after : Nat]
     \/ up \in [op : {"remove"}, at : Nat, key : Int]
  /\ dict \in [Keys -> Vals \union {Absent}]
  /\ played \in 0 .. Len(Script)

\* The offsets of one level of the tree, left to right; level meta.height + 1
\* is the leaves.
Levels ==
  LET row[h \in 1 .. meta.height + 1] ==
        IF h = 1 THEN <<meta.root_offset>>
        ELSE FlattenSeq([i \in 1 .. Len(row[h - 1]) |->
               [j \in 1 .. Len(block[row[h - 1][i]].kids) |-> block[row[h - 1][i]].kids[j].to]])
  IN  row
Leaves == Levels[meta.height + 1]

\* Walking a level by next, from its first node, meets exactly the nodes the
\* level above points to, in order, and prev leads back: search_range and
\* remove find their neighbours by these fields.  leaf_offset is where the
\* walk over the leaves starts.
ChainsRight ==
  Idle => LET levels == Levels IN
    /\ \A h \in DOMAIN levels : LET row == levels[h] IN
         \A i \in DOMAIN row :
           /\ block[row[i]].next = IF i = Len(row) THEN 0 ELSE row[i + 1]
           /\ block[row[i]].prev = IF i = 1 THEN 0 ELSE row[i - 1]
    /\ levels[meta.height + 1][1] = meta.leaf_offset

\* parent, which insert_key_to_index follows upwards, is the node that
\* points here.
ParentsRight ==
  Idle => LET levels == Levels IN
    /\ block[meta.root_offset].parent = 0
    /\ \A h \in 1 .. meta.height : \A off \in ToSet(levels[h]) :
         \A kid \in ToSet(block[off].kids) : block[kid.to].parent = off

\* Between operations the file alone is the tree (meta is saved), every
\* allocated block is in it and in the tree, and the counts are right.
Accounted ==
  Idle =>
    /\ saved = meta
    /\ DOMAIN block = 1 .. meta.slot - 1
    /\ meta.leaf_node_num = Len(Leaves)
    /\ meta.leaf_node_num + meta.internal_node_num = meta.slot - 1

\* The fill that the asserts of remove, remove_from_index and borrow_key
\* take for granted (bt.cc:160, 308, 401, 454).
MinFill ==
  Idle =>
    \A o \in DOMAIN block :
      LET n == Len(block[o].kids) IN
      /\ n <= BP_ORDER
      /\ o # meta.root_offset /\ meta.leaf_node_num > 1 => n >= BP_ORDER \div 2

\* At the end of every operation search finds each key with its last value,
\* and no other key.
SearchFinds == Idle => \A k \in Keys : Search(k) = dict[k]
=============================================================================
