-------------------------- MODULE BPlusTreeProofs --------------------------
(***************************************************************************)
(* Proofs about BPlusTree, for every order from 4 on and all keys: the     *)
(* file, with the writes still to be made, is a search tree that holds     *)
(* what the operations put in, and each level of it a row of nodes that    *)
(* next and prev run along (TreeInvariant).  From that: search finds every *)
(* key with its last value and no other (SearchRight), no node but the     *)
(* root is less than half full or over-full (FillRight), parent is the     *)
(* node that points here (ParentRight), next and prev are the neighbours   *)
(* in the row (ChainRight), and the counts are right (AccountRight).       *)
(*                                                                         *)
(* The invariant describes the tree by level: path[h][k] is the node of    *)
(* level h on the way to k.  A split changes path from the separator on; a *)
(* key that the parent has not got yet is up.  The sequences of kids come  *)
(* in by the lemmas about UpperBound, LowerBound, WithRecord and WithKey,  *)
(* and a split is adding to a node and cutting it in two.                  *)
(***************************************************************************)
EXTENDS BPlusTree, DataFacts, FiniteSetTheorems, TLAPS

-----------------------------------------------------------------------------
(* The shape of the tree.  n blocks are allocated; lv counts levels from   *)
(* the leaves, H is the root's; path[h][k] is the node of level h that     *)
(* search meets on its way to k; u is what the parent of u.old has yet to  *)
(* be told: keys from u.key on are in u.after.                             *)

Kid == [key : Int, to : Int \union Vals]
Ups == {NoKey} \union [op : {"insert"}, at : Nat, key : Int, old : Nat, after : Nat]

\* Position i of an internal node is where the search for k goes on.
At(s, k, i) == i \in 1 .. Len(s) /\ \A j \in 1 .. Len(s) - 1 : s[j].key <= k <=> j < i
\* Where k really is, when a parent points to c.
Goes(u, c, k) == IF u.op = "insert" /\ c = u.old /\ k >= u.key THEN u.after ELSE c

Typed(kids, above, path, lv, n, H) ==
  /\ n \in Nat /\ H \in Nat \ {0}
  /\ kids \in [1 .. n -> Seq(Kid)] /\ above \in [1 .. n -> Nat]
  /\ lv \in [1 .. n -> 0 .. H] /\ path \in [Nat -> [Int -> Nat]]

Paths(kids, path, lv, n, H, root, u) ==
  /\ root \in 1 .. n /\ lv[root] = H
  /\ \A h \in 0 .. H, k \in Int : path[h][k] \in 1 .. n /\ lv[path[h][k]] = h
  /\ \A k \in Int : path[H][k] = Goes(u, root, k)
  /\ \A h \in 1 .. H, k \in Int :
       \E i \in 1 .. Len(kids[path[h][k]]) :
         At(kids[path[h][k]], k, i) /\ path[h - 1][k] = Goes(u, kids[path[h][k]][i].to, k)
  /\ \A o \in 1 .. n : \E k \in Int : path[lv[o]][k] = o

Kin(kids, above, lv, n, root, u) ==
  /\ above[root] = 0
  /\ \A o \in 1 .. n : lv[o] > 0 => \A i \in 1 .. Len(kids[o]) :
       /\ kids[o][i].to \in 1 .. n
       /\ lv[kids[o][i].to] = lv[o] - 1
       /\ above[kids[o][i].to] = o
       /\ u.op = "insert" => kids[o][i].to # u.after
       /\ \A j \in 1 .. Len(kids[o]) : kids[o][j].to = kids[o][i].to => j = i

Separators(kids, path, lv, n) ==
  \A o \in 1 .. n : lv[o] > 0 => \A i \in 1 .. Len(kids[o]) - 1 :
    /\ path[lv[o]][kids[o][i].key] = o
    /\ \A j \in 1 .. Len(kids[o]) - 1 : i < j => kids[o][i].key < kids[o][j].key

Records(kids, path, lv, n, d) ==
  /\ \A o \in 1 .. n : lv[o] = 0 => \A i \in 1 .. Len(kids[o]) :
       /\ kids[o][i].key \in Keys /\ path[0][kids[o][i].key] = o
       /\ d[kids[o][i].key] = kids[o][i].to /\ kids[o][i].to \in Vals
       /\ \A j \in 1 .. Len(kids[o]) : i < j => kids[o][i].key < kids[o][j].key
  /\ \A k \in Keys : d[k] # Absent => \E i \in 1 .. Len(kids[path[0][k]]) : kids[path[0][k]][i].key = k

Waits(above, path, lv, n, root, u) ==
  /\ u \in Ups
  /\ u.op = "insert" =>
    /\ u.old \in 1 .. n /\ u.after \in 1 .. n /\ u.old # u.after /\ root # u.after
    /\ lv[u.old] = lv[u.after]
    /\ above[u.old] = u.at /\ above[u.after] = u.at
    /\ path[lv[u.old]][u.key] = u.after
    /\ \A k \in Int : /\ path[lv[u.old]][k] = u.old => k < u.key
                      /\ path[lv[u.old]][k] = u.after => k >= u.key

Tree(kids, above, path, lv, n, H, root, u, d) ==
  /\ Typed(kids, above, path, lv, n, H)
  /\ Paths(kids, path, lv, n, H, root, u)
  /\ Kin(kids, above, lv, n, root, u)
  /\ Separators(kids, path, lv, n)
  /\ Records(kids, path, lv, n, d)
  /\ Waits(above, path, lv, n, root, u)

\* How full the blocks are.
Filled(kids, n, root, u, leaves) ==
  /\ leaves \in Nat \ {0}
  /\ leaves = 1 => n = 2
  /\ u.op = "insert" => leaves > 1
  /\ \A o \in 1 .. n :
       /\ Len(kids[o]) <= BP_ORDER
       /\ (o # root \/ (u.op = "insert" /\ u.at = 0)) /\ leaves > 1 => Len(kids[o]) >= BP_ORDER \div 2

\* What the file will be once the writes in W are made: kids and above.
Pending(kids, above, n, file, m, disk, W) ==
  /\ DOMAIN file \subseteq 1 .. n
  /\ \A o \in 1 .. n :
       \/ \E w \in W : w.kind = "block" /\ w.at = o
       \/ /\ o \in DOMAIN file /\ file[o].kids = kids[o]
          /\ file[o].parent = above[o] \/ \E w \in W : w.kind = "parent" /\ w.at = o
  /\ \A w \in W :
       /\ w.kind = "block"  => /\ w.at \in 1 .. n
                               /\ w.node.kids = kids[w.at] /\ w.node.parent = above[w.at]
       /\ w.kind = "parent" => w.at \in 1 .. n /\ w.to = above[w.at]
       /\ w.kind = "meta"   => w.meta = m
  /\ disk = m \/ \E w \in W : w.kind = "meta"

-----------------------------------------------------------------------------
(* The rows of the tree.  A level is a row of nodes, from the least keys   *)
(* to the greatest; p is the path of the level, p[k] the node on the way   *)
(* to k.  next and prev are the neighbours in the row.                     *)

\* The keys of a node have no other node's keys between them.
Convex(p) == \A i, j, k \in Int : i <= j /\ j <= k /\ p[i] = p[k] => p[j] = p[i]
\* c is the next node after x, or 0 and there is none; c is the one before.
Follows(p, x, c) ==
  IF c = 0 THEN \A j, k \in Int : p[j] = x /\ j <= k => p[k] = x
  ELSE c # x /\ \E k \in Int : p[k] = x /\ p[k + 1] = c
Leads(p, x, c) ==
  IF c = 0 THEN \A j, k \in Int : p[k] = x /\ j <= k => p[j] = x
  ELSE c # x /\ \E k \in Int : p[k] = c /\ p[k + 1] = x

\* nexts and prevs are the neighbours, first is the first leaf.
Linked(nexts, prevs, path, lv, n, H, first) ==
  /\ nexts \in [1 .. n -> 0 .. n] /\ prevs \in [1 .. n -> 0 .. n]
  /\ first \in 1 .. n /\ lv[first] = 0 /\ prevs[first] = 0
  /\ \A h \in 0 .. H : Convex(path[h])
  /\ \A o \in 1 .. n : Follows(path[lv[o]], o, nexts[o]) /\ Leads(path[lv[o]], o, prevs[o])

\* What the file will be once the writes in W are made: nexts and prevs.
Carried(nexts, prevs, n, file, W) ==
  /\ \A o \in 1 .. n :
       \/ \E w \in W : w.kind = "block" /\ w.at = o
       \/ /\ o \in DOMAIN file /\ file[o].next = nexts[o]
          /\ file[o].prev = prevs[o] \/ \E w \in W : w.kind = "prev" /\ w.at = o
  /\ \A w \in W :
       /\ w.kind = "block" => w.node.next = nexts[w.at] /\ w.node.prev = prevs[w.at]
       /\ w.kind = "prev"  => w.to = prevs[w.at]

\* The counts of the meta block.
Level(lv, n, x) == {o \in 1 .. n : lv[o] = x}
Counted(lv, n, m) ==
  /\ Cardinality(Level(lv, n, 0)) = m.leaf_node_num
  /\ m.leaf_node_num + m.internal_node_num = n

Rowed(path, lv, n, H, m, file, W) ==
  /\ Counted(lv, n, m)
  /\ \E nexts, prevs : /\ Linked(nexts, prevs, path, lv, n, H, m.leaf_offset)
                       /\ Carried(nexts, prevs, n, file, W)

\* The file, the meta blocks, the writes to come and the key on its way up
\* are those of a tree that holds d.
Shape(kids, above, path, lv, file, disk, m, ws, u, d) ==
  /\ Tree(kids, above, path, lv, m.slot - 1, m.height, m.root_offset, u, d)
  /\ Filled(kids, m.slot - 1, m.root_offset, u, m.leaf_node_num)
  /\ Pending(kids, above, m.slot - 1, file, m, disk, ToSet(ws))
  /\ Rowed(path, lv, m.slot - 1, m.height, m, file, ToSet(ws))

Node  == [parent : Nat, next : Nat, prev : Nat, kids : Seq(Kid)]
Metas == [internal_node_num : Nat, leaf_node_num : Nat, height : Nat, slot : Nat,
          root_offset : Nat, leaf_offset : Nat]
Write == [kind : {"block"}, at : Nat \ {0}, node : Node] \union [kind : {"meta"}, meta : Metas]
         \union [kind : {"parent", "prev"}, at : Nat, to : Nat]

Types ==
  /\ DOMAIN block \subseteq Nat \ {0} /\ \A o \in DOMAIN block : block[o] \in Node
  /\ meta \in Metas /\ saved \in Metas
  /\ todo \in Seq(Write)
  /\ up \in Ups
  /\ dict \in [Keys -> Vals \union {Absent}]
  /\ played \in 0 .. Len(Script)

TreeInv ==
  /\ Types
  /\ \E kids, above, path, lv : Shape(kids, above, path, lv, block, saved, meta, todo, up, dict)

-----------------------------------------------------------------------------
(* Looking a key up in a node.                                             *)

\* A set that is closed downwards in 1 .. m is 1 .. its size.
LEMMA Downwards ==
  ASSUME NEW m \in Nat, NEW X \in SUBSET (1 .. m), \A i, j \in 1 .. m : i < j /\ j \in X => i \in X
  PROVE  Cardinality(X) \in 0 .. m /\ \A j \in 1 .. m : j \in X <=> j <= Cardinality(X)
<1>1. PICK c \in 0 .. m : \A j \in 1 .. m : j \in X <=> j <= c
  <2>1. CASE X = {}
    <3>1. \A j \in 1 .. m : j \in X <=> j <= 0
      BY <2>1
    <3> QED BY <3>1
  <2>2. CASE X # {}
    <3>1. X \in SUBSET (0 .. m)
      OBVIOUS
    <3>2. PICK c \in X : \A j \in X : j <= c
      BY <2>2, <3>1, GreatestNatural
    <3>3. c \in 1 .. m /\ c \in 0 .. m
      OBVIOUS
    <3>4. ASSUME NEW j \in 1 .. m PROVE j \in X <=> j <= c
      <4>1. j < c => j \in X
        BY <3>2, <3>3
      <4>2. j = c => j \in X
        BY <3>2
      <4>3. j \in Int /\ c \in Int
        BY <3>3
      <4> QED BY <3>2, <4>1, <4>2, <4>3
    <3> QED BY <3>3, <3>4
  <2> QED BY <2>1, <2>2
<1>2. X = 1 .. c
  <2>1. \A j \in X : j \in 1 .. m
    OBVIOUS
  <2>2. \A j \in 1 .. c : j \in 1 .. m /\ j <= c
    OBVIOUS
  <2>3. \A j \in 1 .. m : j <= c => j \in 1 .. c
    OBVIOUS
  <2> QED BY <1>1, <2>1, <2>2, <2>3
<1>3. Cardinality(1 .. c) = c
  <2>1. c \in Int /\ 1 \in Int /\ c >= 0
    OBVIOUS
  <2>2. Cardinality(1 .. c) = IF 1 > c THEN 0 ELSE c - 1 + 1
    BY <2>1, FS_Interval
  <2> QED BY <2>1, <2>2
<1> QED BY <1>1, <1>2, <1>3

\* The keys of a node are sorted: the last one of an internal node does not
\* count.
Sorted(s, m) == \A i, j \in 1 .. m : i < j => s[i].key < s[j].key

\* UpperBound is the one position where the search goes on.
LEMMA UpperBoundIs ==
  ASSUME NEW s \in Seq(Kid), Len(s) >= 1, Sorted(s, Len(s) - 1), NEW k \in Int
  PROVE  At(s, k, UpperBound(s, k))
<1> DEFINE m == Len(s) - 1
           X == {i \in 1 .. m : s[i].key <= k}
<1>1. m \in Nat /\ \A i \in 1 .. m : s[i].key \in Int
  <2>1. \A i \in 1 .. m : i \in 1 .. Len(s)
    OBVIOUS
  <2>2. \A i \in 1 .. Len(s) : s[i] \in Kid
    OBVIOUS
  <2> QED BY <2>1, <2>2 DEF Kid
<1>2. \A i, j \in 1 .. m : i < j => s[i].key < s[j].key
  BY DEF Sorted
<1> HIDE DEF m
<1>3. \A i, j \in 1 .. m : i < j /\ j \in X => i \in X
  BY <1>1, <1>2
<1>4. X \in SUBSET (1 .. m)
  OBVIOUS
<1>5. \A i \in 1 .. m : s[i].key <= k <=> i \in X
  OBVIOUS
<1> DEFINE c == Cardinality(X)
<1>6. UpperBound(s, k) = 1 + c
  BY DEF UpperBound, m
<1> HIDE DEF X
<1>7. c \in 0 .. m /\ \A j \in 1 .. m : j \in X <=> j <= c
  BY <1>1, <1>3, <1>4, Downwards
<1> HIDE DEF c
<1>8. \A j \in 1 .. m : s[j].key <= k <=> j < 1 + c
  BY <1>5, <1>7
<1>9. 1 + c \in 1 .. Len(s)
  BY <1>1, <1>7 DEF m
<1> QED BY <1>6, <1>8, <1>9 DEF At, m

\* There is only one such position.
LEMMA AtOne ==
  ASSUME NEW s \in Seq(Kid), NEW k \in Int, NEW i, NEW j, At(s, k, i), At(s, k, j)
  PROVE  i = j
<1>1. Len(s) \in Nat /\ i \in 1 .. Len(s) /\ j \in 1 .. Len(s)
  BY DEF At
<1>2. i < j => FALSE
  <2>1. i < j => i \in 1 .. Len(s) - 1
    BY <1>1
  <2> QED BY <1>1, <2>1 DEF At
<1>3. j < i => FALSE
  <2>1. j < i => j \in 1 .. Len(s) - 1
    BY <1>1
  <2> QED BY <1>1, <2>1 DEF At
<1> QED BY <1>1, <1>2, <1>3

\* A position where the search goes on is UpperBound.
LEMMA UpperOne ==
  ASSUME NEW s \in Seq(Kid), Sorted(s, Len(s) - 1), NEW k \in Int, NEW i, At(s, k, i)
  PROVE  UpperBound(s, k) = i
<1>1. Len(s) \in Nat /\ i \in 1 .. Len(s)
  BY DEF At
<1>2. Len(s) >= 1
  BY <1>1
<1>3. At(s, k, UpperBound(s, k))
  BY <1>2, UpperBoundIs
<1> QED BY <1>3, AtOne

\* LowerBound is the first position whose key is not smaller.
LEMMA LowerBoundIs ==
  ASSUME NEW s \in Seq(Kid), Sorted(s, Len(s)), NEW k \in Int
  PROVE  /\ LowerBound(s, k) \in 1 .. Len(s) + 1
         /\ \A j \in 1 .. Len(s) : s[j].key < k <=> j < LowerBound(s, k)
<1> DEFINE m == Len(s)
           X == {i \in 1 .. m : s[i].key < k}
<1>1. m \in Nat /\ \A i \in 1 .. m : s[i].key \in Int
  <2>1. \A i \in 1 .. Len(s) : s[i] \in Kid
    OBVIOUS
  <2>2. \A i \in 1 .. Len(s) : s[i].key \in Int
    BY <2>1 DEF Kid
  <2>3. m \in Nat
    OBVIOUS
  <2> QED BY <2>2, <2>3
<1>2. \A i, j \in 1 .. m : i < j => s[i].key < s[j].key
  BY DEF Sorted
<1> HIDE DEF m
<1>3. \A i, j \in 1 .. m : i < j /\ j \in X => i \in X
  BY <1>1, <1>2
<1>4. X \in SUBSET (1 .. m)
  OBVIOUS
<1>5. \A i \in 1 .. m : s[i].key < k <=> i \in X
  OBVIOUS
<1> DEFINE c == Cardinality(X)
<1>6. LowerBound(s, k) = 1 + c
  BY DEF LowerBound, m
<1> HIDE DEF X
<1>7. c \in 0 .. m /\ \A j \in 1 .. m : j \in X <=> j <= c
  BY <1>1, <1>3, <1>4, Downwards
<1> HIDE DEF c
<1>8. \A j \in 1 .. m : s[j].key < k <=> j < 1 + c
  BY <1>5, <1>7
<1>9. 1 + c \in 1 .. m + 1
  BY <1>1, <1>7
<1> QED BY <1>6, <1>8, <1>9 DEF m

\* Holds says whether the key is there, and where.
LEMMA HoldsIs ==
  ASSUME NEW s \in Seq(Kid), Sorted(s, Len(s)), NEW k \in Int
  PROVE  /\ Holds(s, k) <=> \E i \in 1 .. Len(s) : s[i].key = k
         /\ \A i \in 1 .. Len(s) : s[i].key = k => LowerBound(s, k) = i
<1> DEFINE b == LowerBound(s, k)
<1>1. b \in 1 .. Len(s) + 1 /\ \A j \in 1 .. Len(s) : s[j].key < k <=> j < b
  BY LowerBoundIs
<1>2. Len(s) \in Nat
  OBVIOUS
<1>3. ASSUME NEW i \in 1 .. Len(s), s[i].key = k PROVE b = i
  <2>1. ~ (i < b)
    BY <1>1, <1>3
  <2>2. b <= Len(s) /\ b \in 1 .. Len(s)
    BY <1>1, <1>2, <2>1
  <2>3. b < i => s[b].key < s[i].key
    BY <2>2 DEF Sorted
  <2>4. b < i => ~ (b < b) /\ (s[b].key < k <=> b < b)
    BY <1>1, <2>2
  <2> QED BY <1>1, <1>3, <2>1, <2>2, <2>3, <2>4
<1> HIDE DEF b
<1>4. Holds(s, k) <=> b <= Len(s) /\ s[b].key = k
  BY DEF Holds, b
<1>5. Holds(s, k) => b \in 1 .. Len(s) /\ s[b].key = k
  BY <1>1, <1>2, <1>4
<1>6. ASSUME NEW i \in 1 .. Len(s), s[i].key = k PROVE Holds(s, k)
  BY <1>3, <1>4, <1>6
<1> QED BY <1>3, <1>5, <1>6 DEF b

\* A record in its place: what insert_record_no_split makes of a leaf.
LEMMA WithRecordIs ==
  ASSUME NEW s \in Seq(Kid), Sorted(s, Len(s)), NEW k \in Int, NEW v \in Int \union Vals,
         \A i \in 1 .. Len(s) : s[i].key # k
  PROVE  LET b == LowerBound(s, k)
             t == WithRecord(s, k, v)
         IN  /\ b \in 1 .. Len(s) + 1
             /\ \A j \in 1 .. Len(s) : (s[j].key < k <=> j < b) /\ (k < s[j].key <=> b <= j)
             /\ t \in Seq(Kid) /\ Len(t) = Len(s) + 1
             /\ \A j \in 1 .. Len(s) + 1 :
                  t[j] = IF j < b THEN s[j] ELSE IF j = b THEN [key |-> k, to |-> v] ELSE s[j - 1]
             /\ Sorted(t, Len(t))
<1> DEFINE b == LowerBound(s, k)
           r == [key |-> k, to |-> v]
           t == WithRecord(s, k, v)
<1>1. b \in 1 .. Len(s) + 1 /\ \A j \in 1 .. Len(s) : s[j].key < k <=> j < b
  BY LowerBoundIs
<1>2. Len(s) \in Nat /\ \A j \in 1 .. Len(s) : s[j].key \in Int
  <2>1. \A i \in 1 .. Len(s) : s[i] \in Kid
    OBVIOUS
  <2> QED BY <2>1 DEF Kid
<1>3. r \in Kid /\ r.key = k
  BY DEF Kid
<1>4. t = InsertAt(s, b, r)
  BY DEF WithRecord
<1> HIDE DEF b, r, t
<1>5. /\ t \in Seq(Kid) /\ Len(t) = Len(s) + 1
      /\ \A j \in 1 .. Len(s) + 1 : t[j] = IF j < b THEN s[j] ELSE IF j = b THEN r ELSE s[j - 1]
  <2>1. s \in Seq(Kid) /\ b \in 1 .. Len(s) + 1 /\ r \in Kid
    BY <1>1, <1>3
  <2>2. /\ InsertAt(s, b, r) \in Seq(Kid) /\ Len(InsertAt(s, b, r)) = Len(s) + 1
        /\ \A j \in 1 .. Len(s) + 1 :
             InsertAt(s, b, r)[j] = IF j < b THEN s[j] ELSE IF j = b THEN r ELSE s[j - 1]
    BY <2>1, InsertAtProps
  <2> QED BY <1>4, <2>2
<1>6. \A j \in 1 .. Len(s) : k < s[j].key <=> b <= j
  BY <1>1, <1>2
<1>7. ASSUME NEW i \in 1 .. Len(s) + 1, NEW j \in 1 .. Len(s) + 1, i < j
      PROVE  t[i].key < t[j].key
  <2>1. \A x, y \in 1 .. Len(s) : x < y => s[x].key < s[y].key
    BY DEF Sorted
  <2>2. CASE j < b
    <3>1. t[i] = s[i] /\ t[j] = s[j] /\ i \in 1 .. Len(s) /\ j \in 1 .. Len(s)
      BY <1>1, <1>2, <1>5, <1>7, <2>2
    <3> QED BY <1>7, <2>1, <3>1
  <2>3. CASE j = b
    <3>1. t[i] = s[i] /\ t[j] = r /\ i \in 1 .. Len(s) /\ i < b
      BY <1>1, <1>2, <1>5, <1>7, <2>3
    <3> QED BY <1>1, <1>3, <3>1
  <2>4. CASE i = b
    <3>1. t[i] = r /\ t[j] = s[j - 1] /\ j - 1 \in 1 .. Len(s) /\ b <= j - 1
      BY <1>1, <1>2, <1>5, <1>7, <2>4
    <3> QED BY <1>3, <1>6, <3>1
  <2>5. CASE i < b /\ b < j
    <3>1. t[i] = s[i] /\ t[j] = s[j - 1] /\ i \in 1 .. Len(s) /\ j - 1 \in 1 .. Len(s) /\ b <= j - 1
      BY <1>1, <1>2, <1>5, <1>7, <2>5
    <3>2. s[i].key < k /\ k < s[j - 1].key
      BY <1>1, <1>6, <2>5, <3>1
    <3> QED BY <1>2, <3>1, <3>2
  <2>6. CASE b < i
    <3>1. t[i] = s[i - 1] /\ t[j] = s[j - 1] /\ i - 1 \in 1 .. Len(s) /\ j - 1 \in 1 .. Len(s) /\ i - 1 < j - 1
      BY <1>1, <1>2, <1>5, <1>7, <2>6
    <3> QED BY <2>1, <3>1
  <2>7. b \in Int /\ i \in Int /\ j \in Int
    BY <1>1
  <2> QED BY <1>7, <2>2, <2>3, <2>4, <2>5, <2>6, <2>7
<1> QED BY <1>1, <1>5, <1>6, <1>7 DEF Sorted, b, r, t

\* A key and a child in their place: what insert_key_to_index_no_split makes
\* of an internal node.
LEMMA WithKeyIs ==
  ASSUME NEW s \in Seq(Kid), NEW k \in Int, NEW c \in Int, NEW i \in 1 .. Len(s),
         UpperBound(s, k) = i
  PROVE  LET t == WithKey(s, k, c)
         IN  /\ t \in Seq(Kid) /\ Len(t) = Len(s) + 1
             /\ \A j \in 1 .. Len(s) + 1 :
                  t[j] = IF j < i THEN s[j]
                         ELSE IF j = i THEN [key |-> k, to |-> s[i].to]
                         ELSE IF j = i + 1 THEN [key |-> s[i].key, to |-> c]
                         ELSE s[j - 1]
<1> DEFINE r == [key |-> k, to |-> s[i].to]
           e == InsertAt(s, i, r)
           t == WithKey(s, k, c)
<1>1. \A j \in 1 .. Len(s) : s[j] \in Kid
  OBVIOUS
<1>2. r \in Kid /\ i \in 1 .. Len(s) + 1 /\ i + 1 \in 1 .. Len(s) + 1 /\ Len(s) \in Nat
  BY <1>1 DEF Kid
<1>3. t = [e EXCEPT ![i + 1].to = c]
  BY DEF WithKey
<1> HIDE DEF r, e, t
<1>4. /\ e \in Seq(Kid) /\ Len(e) = Len(s) + 1
      /\ \A j \in 1 .. Len(s) + 1 : e[j] = IF j < i THEN s[j] ELSE IF j = i THEN r ELSE s[j - 1]
  BY <1>2, InsertAtProps DEF e
<1>5. e = [j \in 1 .. Len(s) + 1 |-> e[j]]
  BY <1>4
<1>6. e[i + 1] = s[i]
  <2>1. e[i + 1] = s[(i + 1) - 1]
    BY <1>2, <1>4
  <2> QED BY <2>1, <1>2
<1> DEFINE f == [e[i + 1] EXCEPT !.to = c]
<1>7. f = [key |-> s[i].key, to |-> c] /\ f \in Kid
  BY <1>1, <1>6 DEF Kid
<1> HIDE DEF f
<1>8. t = [j \in 1 .. Len(s) + 1 |-> IF j = i + 1 THEN f ELSE e[j]]
  BY <1>2, <1>3, <1>5 DEF f
<1>9. \A j \in 1 .. Len(s) + 1 : e[j] \in Kid
  BY <1>4
<1>10. t \in Seq(Kid) /\ Len(t) = Len(s) + 1
  BY <1>2, <1>7, <1>8, <1>9
<1>11. ASSUME NEW j \in 1 .. Len(s) + 1
       PROVE  t[j] = IF j < i THEN s[j]
                     ELSE IF j = i THEN [key |-> k, to |-> s[i].to]
                     ELSE IF j = i + 1 THEN [key |-> s[i].key, to |-> c]
                     ELSE s[j - 1]
  <2>1. CASE j = i + 1
    BY <1>7, <1>8, <2>1
  <2>2. CASE j # i + 1
    <3>1. t[j] = e[j]
      BY <1>8, <2>2
    <3> QED BY <1>4, <2>2, <3>1 DEF r
  <2> QED BY <2>1, <2>2
<1> QED BY <1>10, <1>11 DEF t

\* What WithKey makes of s, the place of the key being i.
KeyAdded(t, s, i, k, c) ==
  /\ t \in Seq(Kid) /\ Len(t) = Len(s) + 1
  /\ \A j \in 1 .. Len(s) + 1 :
       t[j] = IF j < i THEN s[j]
              ELSE IF j = i THEN [key |-> k, to |-> s[i].to]
              ELSE IF j = i + 1 THEN [key |-> s[i].key, to |-> c]
              ELSE s[j - 1]

\* WithKeyIs, for all nodes.
LEMMA KeyIs ==
  \A s \in Seq(Kid), k \in Int, c \in Int : \A i \in 1 .. Len(s) :
    UpperBound(s, k) = i => KeyAdded(WithKey(s, k, c), s, i, k, c)
<1> SUFFICES ASSUME NEW s \in Seq(Kid), NEW k \in Int, NEW c \in Int, NEW i \in 1 .. Len(s),
                    UpperBound(s, k) = i
             PROVE  KeyAdded(WithKey(s, k, c), s, i, k, c)
  OBVIOUS
<1> QED BY WithKeyIs DEF KeyAdded

-----------------------------------------------------------------------------
(* What a tree is like: its nodes and the paths through it.                *)

\* The levels and the root.
LEMMA Bounds ==
  ASSUME NEW kids, NEW above, NEW path, NEW lv, NEW n, NEW H, NEW root, NEW u, NEW d,
         Tree(kids, above, path, lv, n, H, root, u, d)
  PROVE  n \in Nat /\ H \in Nat \ {0} /\ root \in 1 .. n /\ lv[root] = H /\ above[root] = 0
BY DEF Tree, Typed, Paths, Kin

\* Level h of a path is a node of that level.
LEMMA OnPath ==
  ASSUME NEW kids, NEW above, NEW path, NEW lv, NEW n, NEW H, NEW root, NEW u, NEW d,
         Tree(kids, above, path, lv, n, H, root, u, d)
  PROVE  \A h \in 0 .. H, k \in Int : path[h][k] \in 1 .. n /\ lv[path[h][k]] = h
BY DEF Tree, Paths

\* What a node is.
LEMMA NodeTypes ==
  ASSUME NEW kids, NEW above, NEW path, NEW lv, NEW n, NEW H, NEW root, NEW u, NEW d,
         Tree(kids, above, path, lv, n, H, root, u, d)
  PROVE  \A o \in 1 .. n : kids[o] \in Seq(Kid) /\ above[o] \in Nat /\ lv[o] \in 0 .. H
BY DEF Tree, Typed

\* The keys of an internal node are sorted, the last one left out.
LEMMA KeysSorted ==
  ASSUME NEW kids, NEW above, NEW path, NEW lv, NEW n, NEW H, NEW root, NEW u, NEW d,
         Tree(kids, above, path, lv, n, H, root, u, d)
  PROVE  \A o \in 1 .. n : lv[o] > 0 => Sorted(kids[o], Len(kids[o]) - 1)
BY DEF Tree, Separators, Sorted

\* The records of a leaf are sorted.
LEMMA RecordsSorted ==
  ASSUME NEW kids, NEW above, NEW path, NEW lv, NEW n, NEW H, NEW root, NEW u, NEW d,
         Tree(kids, above, path, lv, n, H, root, u, d)
  PROVE  \A o \in 1 .. n : lv[o] = 0 => Sorted(kids[o], Len(kids[o]))
BY DEF Tree, Records, Sorted

Downs(kids, path, H, u) ==
  \A h \in 1 .. H, k \in Int :
    /\ UpperBound(kids[path[h][k]], k) \in 1 .. Len(kids[path[h][k]])
    /\ At(kids[path[h][k]], k, UpperBound(kids[path[h][k]], k))
    /\ path[h - 1][k] = Goes(u, kids[path[h][k]][UpperBound(kids[path[h][k]], k)].to, k)

\* The next node of a path is the child at UpperBound, or the node its
\* parent has yet to be told of.
LEMMA MoveDown ==
  ASSUME NEW kids, NEW above, NEW path, NEW lv, NEW n, NEW H, NEW root, NEW u, NEW d,
         Tree(kids, above, path, lv, n, H, root, u, d)
  PROVE  Downs(kids, path, H, u)
<1> SUFFICES ASSUME NEW h \in 1 .. H, NEW k \in Int
             PROVE  /\ UpperBound(kids[path[h][k]], k) \in 1 .. Len(kids[path[h][k]])
                    /\ At(kids[path[h][k]], k, UpperBound(kids[path[h][k]], k))
                    /\ path[h - 1][k] = Goes(u, kids[path[h][k]][UpperBound(kids[path[h][k]], k)].to, k)
  BY DEF Downs
<1> DEFINE s == kids[path[h][k]]
<1>1. s \in Seq(Kid) /\ Sorted(s, Len(s) - 1)
  <2> DEFINE o == path[h][k]
  <2>1. n \in Nat /\ H \in Nat \ {0}
    BY Bounds
  <2>2. h \in 0 .. H
    BY <2>1
  <2>3. o \in 1 .. n /\ lv[o] = h
    BY <2>2, OnPath
  <2>4. lv[o] > 0
    BY <2>1, <2>3
  <2> HIDE DEF o
  <2>5. kids[o] \in Seq(Kid)
    BY <2>3, NodeTypes
  <2>6. Sorted(kids[o], Len(kids[o]) - 1)
    BY <2>3, <2>4, KeysSorted
  <2> QED BY <2>5, <2>6 DEF o
<1>2. PICK i \in 1 .. Len(s) : At(s, k, i) /\ path[h - 1][k] = Goes(u, s[i].to, k)
  BY DEF Tree, Paths
<1> HIDE DEF s
<1>3. i = UpperBound(s, k)
  BY <1>1, <1>2, UpperOne
<1>4. UpperBound(s, k) \in 1 .. Len(s) /\ At(s, k, UpperBound(s, k))
  BY <1>2, <1>3
<1>5. path[h - 1][k] = Goes(u, s[UpperBound(s, k)].to, k)
  BY <1>2, <1>3
<1> QED BY <1>4, <1>5 DEF s

\* The parent of a node of a path is the node before it.
LEMMA MoveUp ==
  ASSUME NEW kids, NEW above, NEW path, NEW lv, NEW n, NEW H, NEW root, NEW u, NEW d,
         Tree(kids, above, path, lv, n, H, root, u, d)
  PROVE  \A h \in 1 .. H, k \in Int : above[path[h - 1][k]] = path[h][k]
<1> SUFFICES ASSUME NEW h \in 1 .. H, NEW k \in Int PROVE above[path[h - 1][k]] = path[h][k]
  OBVIOUS
<1>0. /\ UpperBound(kids[path[h][k]], k) \in 1 .. Len(kids[path[h][k]])
      /\ path[h - 1][k] = Goes(u, kids[path[h][k]][UpperBound(kids[path[h][k]], k)].to, k)
  <2>1. Downs(kids, path, H, u)
    BY MoveDown
  <2> QED BY <2>1 DEF Downs
<1> DEFINE o == path[h][k]
           s == kids[o]
           i == UpperBound(s, k)
           c == s[i].to
<1>1. i \in 1 .. Len(s) /\ path[h - 1][k] = Goes(u, c, k)
  BY <1>0
<1>2. o \in 1 .. n /\ lv[o] > 0
  <2>1. h \in 0 .. H /\ h > 0
    BY Bounds
  <2> HIDE DEF s, i
  <2> QED BY <2>1, OnPath
<1> HIDE DEF o, i
<1>3. above[c] = o /\ (u.op = "insert" => c # u.after)
  <2>1. \A x \in 1 .. n : lv[x] > 0 => \A j \in 1 .. Len(kids[x]) :
          above[kids[x][j].to] = x /\ (u.op = "insert" => kids[x][j].to # u.after)
    BY DEF Tree, Kin
  <2> QED BY <1>1, <1>2, <2>1
<1>4. u.op = "insert" => above[u.after] = above[u.old]
  BY DEF Tree, Waits
<1> HIDE DEF c
<1> QED BY <1>1, <1>3, <1>4 DEF Goes, o

\* Every node is on some key's path.
LEMMA Reached ==
  ASSUME NEW kids, NEW above, NEW path, NEW lv, NEW n, NEW H, NEW root, NEW u, NEW d,
         Tree(kids, above, path, lv, n, H, root, u, d), NEW o \in 1 .. n
  PROVE  \E k \in Int : path[lv[o]][k] = o
BY DEF Tree, Paths

\* Where a new node waits for its parent to be told of it.
LEMMA Waiting ==
  ASSUME NEW kids, NEW above, NEW path, NEW lv, NEW n, NEW H, NEW root, NEW u, NEW d,
         Tree(kids, above, path, lv, n, H, root, u, d), u.op = "insert"
  PROVE  /\ u.at \in Nat /\ u.key \in Int /\ u.old \in 1 .. n /\ u.after \in 1 .. n
         /\ u.at = 0 => u.old = root
         /\ u.at # 0 => /\ u.at \in 1 .. n /\ lv[u.old] + 1 \in 1 .. H /\ lv[u.at] = lv[u.old] + 1
                        /\ root # u.old
                        /\ path[lv[u.at]][u.key] = u.at
<1>1. u \in Ups /\ Waits(above, path, lv, n, root, u)
  BY DEF Tree, Waits
<1>2. u.at \in Nat /\ u.key \in Int /\ u.old \in 1 .. n /\ u.after \in 1 .. n
  BY <1>1 DEF Ups, NoKey, Waits
<1>3. PICK k \in Int : path[lv[u.old]][k] = u.old
  BY <1>2, Reached
<1> DEFINE L == lv[u.old]
<1>4. L \in 0 .. H /\ lv[root] = H /\ above[root] = 0 /\ H \in Nat /\ n \in Nat
  <2>1. L \in 0 .. H
    BY <1>2, NodeTypes
  <2> QED BY <2>1, Bounds
<1>5. above[u.old] = u.at /\ above[u.after] = u.at /\ path[L][u.key] = u.after /\ u.old # u.after
  BY <1>1 DEF Waits
<1>6. \A x \in Int : path[H][x] = Goes(u, root, x)
  BY DEF Tree, Paths
<1>9. \A h \in 0 .. H, x \in Int : path[h][x] \in 1 .. n /\ lv[path[h][x]] = h
  BY OnPath
<1> HIDE DEF L
<1>7. CASE L = H
  <2>1. u.old = root
    BY <1>3, <1>5, <1>6, <1>7 DEF Goes, L
  <2> QED BY <1>2, <1>4, <1>5, <2>1
<1>8. CASE L # H
  <2>1. L + 1 \in 1 .. H /\ (L + 1) - 1 = L /\ L + 1 \in 0 .. H
    BY <1>4, <1>8
  <2>2. \A x \in Int : above[path[(L + 1) - 1][x]] = path[L + 1][x]
    BY <2>1, MoveUp
  <2>3. u.at = path[L + 1][k] /\ u.at = path[L + 1][u.key]
    BY <1>2, <1>3, <1>5, <2>1, <2>2 DEF L
  <2>4. u.at \in 1 .. n /\ lv[u.at] = L + 1
    <3>1. path[L + 1][k] \in 1 .. n /\ lv[path[L + 1][k]] = L + 1
      BY <1>9, <2>1
    <3> QED BY <2>3, <3>1
  <2>5. u.old # root
    BY <1>4, <1>8 DEF L
  <2>6. lv[u.old] + 1 \in 1 .. H /\ lv[u.at] = lv[u.old] + 1
    BY <2>1, <2>4 DEF L
  <2>7. u.at # 0
    BY <1>4, <2>4
  <2>8. path[lv[u.at]][u.key] = u.at
    BY <2>3, <2>4
  <2> QED BY <1>2, <2>4, <2>5, <2>6, <2>7, <2>8
<1> QED BY <1>7, <1>8

-----------------------------------------------------------------------------
(* The leaves.                                                             *)

\* Whatever happens to the leaves is a matter of their records only.
LEMMA LeafChange ==
  ASSUME NEW kids, NEW above, NEW path, NEW lv, NEW n, NEW H, NEW root, NEW u, NEW d,
         Tree(kids, above, path, lv, n, H, root, u, d),
         NEW kids2 \in [1 .. n -> Seq(Kid)], NEW d2,
         \A o \in 1 .. n : lv[o] > 0 => kids2[o] = kids[o],
         Records(kids2, path, lv, n, d2)
  PROVE  Tree(kids2, above, path, lv, n, H, root, u, d2)
<1>1. Typed(kids2, above, path, lv, n, H)
  BY DEF Tree, Typed
<1>2. Paths(kids2, path, lv, n, H, root, u)
  <2>1. Paths(kids, path, lv, n, H, root, u)
    BY DEF Tree
  <2>2. ASSUME NEW h \in 1 .. H, NEW k \in Int
        PROVE  kids2[path[h][k]] = kids[path[h][k]]
    <3>1. H \in Nat /\ h \in 0 .. H
      BY Bounds
    <3>2. path[h][k] \in 1 .. n /\ lv[path[h][k]] = h
      BY <2>1, <3>1 DEF Paths
    <3> QED BY <3>1, <3>2
  <2>3. ASSUME NEW h \in 1 .. H, NEW k \in Int
        PROVE  \E i \in 1 .. Len(kids2[path[h][k]]) :
                 At(kids2[path[h][k]], k, i) /\ path[h - 1][k] = Goes(u, kids2[path[h][k]][i].to, k)
    <3>1. \E i \in 1 .. Len(kids[path[h][k]]) :
            At(kids[path[h][k]], k, i) /\ path[h - 1][k] = Goes(u, kids[path[h][k]][i].to, k)
      BY <2>1 DEF Paths
    <3> QED BY <2>2, <3>1
  <2> QED BY <2>1, <2>3 DEF Paths
<1>3. Kin(kids2, above, lv, n, root, u)
  <2>1. Kin(kids, above, lv, n, root, u)
    BY DEF Tree
  <2> QED BY <2>1 DEF Kin
<1>4. Separators(kids2, path, lv, n)
  <2>1. Separators(kids, path, lv, n)
    BY DEF Tree
  <2> QED BY <2>1 DEF Separators
<1>5. Waits(above, path, lv, n, root, u)
  BY DEF Tree
<1> QED BY <1>1, <1>2, <1>3, <1>4, <1>5 DEF Tree

\* insert puts the record into the leaf that search would look into.
LEMMA AddRecord ==
  ASSUME NEW kids, NEW above, NEW path, NEW lv, NEW n, NEW H, NEW root, NEW u, NEW d,
         Tree(kids, above, path, lv, n, H, root, u, d), Keys \subseteq Int,
         NEW k \in Keys, NEW v \in Vals,
         \A i \in 1 .. Len(kids[path[0][k]]) : kids[path[0][k]][i].key # k
  PROVE  Tree([o \in 1 .. n |-> IF o = path[0][k] THEN WithRecord(kids[o], k, v) ELSE kids[o]],
              above, path, lv, n, H, root, u, [x \in Keys |-> IF x = k THEN v ELSE d[x]])
<1> DEFINE off == path[0][k]
           s == kids[off]
           b == LowerBound(s, k)
           t == WithRecord(s, k, v)
           kids2 == [o \in 1 .. n |-> IF o = off THEN WithRecord(kids[o], k, v) ELSE kids[o]]
           d2 == [x \in Keys |-> IF x = k THEN v ELSE d[x]]
<1>1. k \in Int /\ v \in Int \union Vals /\ 0 \in 0 .. H /\ n \in Nat
  BY Bounds
<1>2. off \in 1 .. n /\ lv[off] = 0
  BY <1>1, OnPath
<1>3. \A o \in 1 .. n : /\ kids[o] \in Seq(Kid)
                        /\ lv[o] = 0 => Sorted(kids[o], Len(kids[o]))
  BY NodeTypes, RecordsSorted
<1>4. s \in Seq(Kid) /\ Sorted(s, Len(s)) /\ \A i \in 1 .. Len(s) : s[i].key # k
  BY <1>2, <1>3
<1>5. Records(kids, path, lv, n, d)
  BY DEF Tree
<1> HIDE DEF s, off
<1>6. /\ b \in 1 .. Len(s) + 1
      /\ t \in Seq(Kid) /\ Len(t) = Len(s) + 1
      /\ \A j \in 1 .. Len(s) + 1 :
           t[j] = IF j < b THEN s[j] ELSE IF j = b THEN [key |-> k, to |-> v] ELSE s[j - 1]
      /\ Sorted(t, Len(t))
  BY <1>1, <1>4, WithRecordIs
<1> HIDE DEF b, t
<1>7. kids2 \in [1 .. n -> Seq(Kid)] /\ kids2[off] = t /\ \A o \in 1 .. n : o # off => kids2[o] = kids[o]
  BY <1>2, <1>3, <1>6 DEF t, s
<1>8. \A x \in Keys : d2[x] = IF x = k THEN v ELSE d[x]
  OBVIOUS
<1> HIDE DEF kids2, d2
<1>9. Records(kids2, path, lv, n, d2)
  <2>1. ASSUME NEW o \in 1 .. n, lv[o] = 0, NEW i \in 1 .. Len(kids2[o])
        PROVE  /\ kids2[o][i].key \in Keys /\ path[0][kids2[o][i].key] = o
               /\ d2[kids2[o][i].key] = kids2[o][i].to /\ kids2[o][i].to \in Vals
               /\ \A j \in 1 .. Len(kids2[o]) : i < j => kids2[o][i].key < kids2[o][j].key
    <3>1. CASE o # off
      <4>1. kids2[o] = kids[o]
        BY <1>7, <3>1
      <4>2. kids[o][i].key # k
        BY <1>5, <2>1, <3>1, <4>1 DEF Records, off
      <4>3. /\ kids[o][i].key \in Keys /\ path[0][kids[o][i].key] = o
            /\ d[kids[o][i].key] = kids[o][i].to /\ kids[o][i].to \in Vals
            /\ \A j \in 1 .. Len(kids[o]) : i < j => kids[o][i].key < kids[o][j].key
        BY <1>5, <2>1, <4>1 DEF Records
      <4>4. d2[kids[o][i].key] = kids[o][i].to
        BY <1>8, <4>2, <4>3
      <4> QED BY <4>1, <4>3, <4>4
    <3>2. CASE o = off
      <4>1. kids2[o] = t /\ i \in 1 .. Len(s) + 1
        BY <1>6, <1>7, <2>1, <3>2
      <4>2. \A j \in 1 .. Len(t) : i < j => t[i].key < t[j].key
        BY <1>6, <4>1 DEF Sorted
      <4>3. CASE i = b
        <5>1. t[i].key = k /\ t[i].to = v
          <6>1. t[i] = [key |-> k, to |-> v]
            BY <1>6, <4>1, <4>3
          <6> QED BY <6>1
        <5>2. d2[t[i].key] = t[i].to /\ t[i].key \in Keys /\ path[0][t[i].key] = off /\ t[i].to \in Vals
          BY <1>8, <5>1 DEF off
        <5> QED BY <3>2, <4>1, <4>2, <5>2
      <4>4. CASE i # b
        <5>1. PICK j \in 1 .. Len(s) : t[i] = s[j]
          <6>1. Len(s) \in Nat
            BY <1>4
          <6>2. i < b => i \in 1 .. Len(s) /\ t[i] = s[i]
            BY <1>6, <4>1, <6>1
          <6>3. b < i => i - 1 \in 1 .. Len(s) /\ t[i] = s[i - 1]
            BY <1>6, <4>1, <6>1
          <6> QED BY <1>6, <4>1, <4>4, <6>1, <6>2, <6>3
        <5>2. s[j].key \in Keys /\ path[0][s[j].key] = off /\ d[s[j].key] = s[j].to /\ s[j].to \in Vals
          BY <1>2, <1>5 DEF Records, s
        <5>3. s[j].key # k
          BY <1>4
        <5>4. d2[t[i].key] = t[i].to /\ t[i].key \in Keys /\ path[0][t[i].key] = off /\ t[i].to \in Vals
          BY <1>8, <5>1, <5>2, <5>3
        <5> QED BY <3>2, <4>1, <4>2, <5>4
      <4> QED BY <4>3, <4>4
    <3> QED BY <3>1, <3>2
  <2>2. ASSUME NEW x \in Keys, d2[x] # Absent
        PROVE  \E i \in 1 .. Len(kids2[path[0][x]]) : kids2[path[0][x]][i].key = x
    <3>1. CASE x = k
      <4>1. b \in 1 .. Len(t) /\ t[b].key = k
        BY <1>6
      <4> QED BY <1>7, <1>2, <3>1, <4>1 DEF off
    <3>2. CASE x # k
      <4>1. d[x] # Absent
        BY <1>8, <2>2, <3>2
      <4>2. PICK i \in 1 .. Len(kids[path[0][x]]) : kids[path[0][x]][i].key = x
        BY <1>5, <4>1 DEF Records
      <4>3. CASE path[0][x] = off
        <5>1. i \in 1 .. Len(s) /\ s[i].key = x /\ Len(s) \in Nat
          BY <1>4, <4>2, <4>3 DEF s
        <5>2. \E j \in 1 .. Len(t) : t[j] = s[i]
          <6>1. i < b => i \in 1 .. Len(t) /\ t[i] = s[i]
            BY <1>6, <5>1
          <6>2. ~ (i < b) => i + 1 \in 1 .. Len(s) + 1 /\ b < i + 1 /\ (i + 1) - 1 = i
            BY <1>6, <5>1
          <6>3. ~ (i < b) => i + 1 \in 1 .. Len(t) /\ t[i + 1] = s[i]
            BY <1>6, <6>2
          <6> QED BY <6>1, <6>3
        <5> QED BY <1>2, <1>7, <4>3, <5>1, <5>2
      <4>4. CASE path[0][x] # off
        <5>1. x \in Int
          OBVIOUS
        <5>2. path[0][x] \in 1 .. n
          BY <1>1, <5>1, OnPath
        <5> QED BY <1>7, <4>2, <4>4, <5>2
      <4> QED BY <4>3, <4>4
    <3> QED BY <3>1, <3>2
  <2> QED BY <2>1, <2>2 DEF Records
<1>10. \A o \in 1 .. n : lv[o] > 0 => kids2[o] = kids[o]
  BY <1>2, <1>7
<1>11. Tree(kids2, above, path, lv, n, H, root, u, d2)
  BY <1>7, <1>9, <1>10, LeafChange
<1> QED BY <1>11 DEF kids2, d2, off

\* update puts a new value into the record.
LEMMA NewValue ==
  ASSUME NEW kids, NEW above, NEW path, NEW lv, NEW n, NEW H, NEW root, NEW u, NEW d,
         Tree(kids, above, path, lv, n, H, root, u, d), Keys \subseteq Int,
         NEW k \in Keys, NEW v \in Vals,
         NEW p \in 1 .. Len(kids[path[0][k]]), kids[path[0][k]][p].key = k
  PROVE  Tree([o \in 1 .. n |-> IF o = path[0][k] THEN [kids[o] EXCEPT ![p].to = v] ELSE kids[o]],
              above, path, lv, n, H, root, u, [x \in Keys |-> IF x = k THEN v ELSE d[x]])
<1> DEFINE off == path[0][k]
           s == kids[off]
           t == [s EXCEPT ![p].to = v]
           kids2 == [o \in 1 .. n |-> IF o = off THEN [kids[o] EXCEPT ![p].to = v] ELSE kids[o]]
           d2 == [x \in Keys |-> IF x = k THEN v ELSE d[x]]
<1>1. k \in Int /\ v \in Int \union Vals /\ 0 \in 0 .. H /\ n \in Nat
  BY Bounds
<1>2. off \in 1 .. n /\ lv[off] = 0
  BY <1>1, OnPath
<1>3. \A o \in 1 .. n : /\ kids[o] \in Seq(Kid)
                        /\ \A i \in 1 .. Len(kids[o]) : kids[o][i] \in Kid
                        /\ lv[o] = 0 => Sorted(kids[o], Len(kids[o]))
  <2>1. \A o \in 1 .. n : kids[o] \in Seq(Kid)
    BY NodeTypes
  <2>2. \A o \in 1 .. n : \A i \in 1 .. Len(kids[o]) : kids[o][i] \in Kid
    BY <2>1
  <2>3. \A o \in 1 .. n : lv[o] = 0 => Sorted(kids[o], Len(kids[o]))
    BY RecordsSorted
  <2> QED BY <2>1, <2>2, <2>3
<1>4. /\ s \in Seq(Kid) /\ Sorted(s, Len(s)) /\ p \in 1 .. Len(s) /\ s[p].key = k
      /\ \A i \in 1 .. Len(s) : s[i] \in Kid
  BY <1>2, <1>3
<1>5. Records(kids, path, lv, n, d)
  BY DEF Tree
<1> HIDE DEF s, off
<1>6. /\ t \in Seq(Kid) /\ Len(t) = Len(s)
      /\ \A j \in 1 .. Len(s) : t[j] = IF j = p THEN [key |-> k, to |-> v] ELSE s[j]
  <2>1. [s[p] EXCEPT !.to = v] = [key |-> k, to |-> v] /\ [key |-> k, to |-> v] \in Kid
    BY <1>1, <1>4 DEF Kid
  <2>2. s = [j \in 1 .. Len(s) |-> s[j]]
    BY <1>4
  <2>3. t = [j \in 1 .. Len(s) |-> IF j = p THEN [s[p] EXCEPT !.to = v] ELSE s[j]]
    BY <1>4, <2>2
  <2>4. t = [j \in 1 .. Len(s) |-> IF j = p THEN [key |-> k, to |-> v] ELSE s[j]]
    BY <2>1, <2>3
  <2>5. Len(s) \in Nat
    BY <1>4
  <2> QED BY <1>4, <2>1, <2>4, <2>5
<1> HIDE DEF t
<1>7. kids2 \in [1 .. n -> Seq(Kid)] /\ kids2[off] = t /\ \A o \in 1 .. n : o # off => kids2[o] = kids[o]
  BY <1>2, <1>3, <1>6 DEF t, s
<1>8. \A x \in Keys : d2[x] = IF x = k THEN v ELSE d[x]
  OBVIOUS
<1> HIDE DEF kids2, d2
<1>12. \A j \in 1 .. Len(s) : t[j].key = s[j].key
  BY <1>4, <1>6
<1>9. Records(kids2, path, lv, n, d2)
  <2>1. ASSUME NEW o \in 1 .. n, lv[o] = 0, NEW i \in 1 .. Len(kids2[o])
        PROVE  /\ kids2[o][i].key \in Keys /\ path[0][kids2[o][i].key] = o
               /\ d2[kids2[o][i].key] = kids2[o][i].to /\ kids2[o][i].to \in Vals
               /\ \A j \in 1 .. Len(kids2[o]) : i < j => kids2[o][i].key < kids2[o][j].key
    <3>1. CASE o # off
      <4>1. kids2[o] = kids[o]
        BY <1>7, <3>1
      <4>2. kids[o][i].key # k
        BY <1>5, <2>1, <3>1, <4>1 DEF Records, off
      <4>3. /\ kids[o][i].key \in Keys /\ path[0][kids[o][i].key] = o
            /\ d[kids[o][i].key] = kids[o][i].to /\ kids[o][i].to \in Vals
            /\ \A j \in 1 .. Len(kids[o]) : i < j => kids[o][i].key < kids[o][j].key
        BY <1>5, <2>1, <4>1 DEF Records
      <4>4. d2[kids[o][i].key] = kids[o][i].to
        BY <1>8, <4>2, <4>3
      <4> QED BY <4>1, <4>3, <4>4
    <3>2. CASE o = off
      <4>1. kids2[o] = t /\ i \in 1 .. Len(s)
        BY <1>6, <1>7, <2>1, <3>2
      <4>2. \A j \in 1 .. Len(t) : i < j => t[i].key < t[j].key
        BY <1>4, <1>6, <1>12, <4>1 DEF Sorted
      <4>3. s[i].key \in Keys /\ path[0][s[i].key] = off /\ d[s[i].key] = s[i].to /\ s[i].to \in Vals
        <5>1. \A x \in 1 .. n : lv[x] = 0 => \A j \in 1 .. Len(kids[x]) :
                /\ kids[x][j].key \in Keys /\ path[0][kids[x][j].key] = x
                /\ d[kids[x][j].key] = kids[x][j].to /\ kids[x][j].to \in Vals
          BY <1>5 DEF Records
        <5>2. \A j \in 1 .. Len(kids[off]) :
                /\ kids[off][j].key \in Keys /\ path[0][kids[off][j].key] = off
                /\ d[kids[off][j].key] = kids[off][j].to /\ kids[off][j].to \in Vals
          BY <1>2, <5>1
        <5> QED BY <4>1, <5>2 DEF s
      <4>4. CASE i = p
        <5>1. t[i].key = k /\ t[i].to = v
          BY <1>6, <4>1, <4>4
        <5>2. d2[t[i].key] = t[i].to /\ t[i].key \in Keys /\ path[0][t[i].key] = off /\ t[i].to \in Vals
          BY <1>8, <5>1 DEF off
        <5> QED BY <3>2, <4>1, <4>2, <5>2
      <4>5. CASE i # p
        <5>1. t[i] = s[i]
          BY <1>6, <4>1, <4>5
        <5>2. s[i].key # k
          <6>1. i \in Int /\ p \in Int
            BY <1>4, <4>1
          <6>2. i < p => s[i].key < s[p].key
            BY <1>4, <4>1 DEF Sorted
          <6>3. p < i => s[p].key < s[i].key
            BY <1>4, <4>1 DEF Sorted
          <6> QED BY <1>1, <1>4, <4>5, <6>1, <6>2, <6>3
        <5>3. d2[t[i].key] = t[i].to /\ t[i].key \in Keys /\ path[0][t[i].key] = off /\ t[i].to \in Vals
          BY <1>8, <4>3, <5>1, <5>2
        <5> QED BY <3>2, <4>1, <4>2, <5>3
      <4> QED BY <4>4, <4>5
    <3> QED BY <3>1, <3>2
  <2>2. ASSUME NEW x \in Keys, d2[x] # Absent
        PROVE  \E i \in 1 .. Len(kids2[path[0][x]]) : kids2[path[0][x]][i].key = x
    <3>1. CASE x = k
      BY <1>2, <1>4, <1>6, <1>7, <1>12, <3>1 DEF off
    <3>2. CASE x # k
      <4>1. d[x] # Absent
        BY <1>8, <2>2, <3>2
      <4>2. PICK i \in 1 .. Len(kids[path[0][x]]) : kids[path[0][x]][i].key = x
        BY <1>5, <4>1 DEF Records
      <4>3. CASE path[0][x] = off
        BY <1>2, <1>6, <1>7, <1>12, <4>2, <4>3 DEF s
      <4>4. CASE path[0][x] # off
        <5>1. x \in Int
          OBVIOUS
        <5>2. path[0][x] \in 1 .. n
          BY <1>1, <5>1, OnPath
        <5> QED BY <1>7, <4>2, <4>4, <5>2
      <4> QED BY <4>3, <4>4
    <3> QED BY <3>1, <3>2
  <2> QED BY <2>1, <2>2 DEF Records
<1>10. \A o \in 1 .. n : lv[o] > 0 => kids2[o] = kids[o]
  BY <1>2, <1>7
<1>11. Tree(kids2, above, path, lv, n, H, root, u, d2)
  BY <1>7, <1>9, <1>10, LeafChange
<1> QED BY <1>11 DEF kids2, d2, off

\* A node's halves: the kids up to q, and the others.
LEMMA HalvesAre ==
  ASSUME NEW s \in Seq(Kid), NEW q \in 1 .. Len(s) - 1
  PROVE  LET low  == SubSeq(s, 1, q)
             high == SubSeq(s, q + 1, Len(s))
         IN  /\ low \in Seq(Kid) /\ Len(low) = q
             /\ high \in Seq(Kid) /\ Len(high) = Len(s) - q
             /\ \A j \in 1 .. q : low[j] = s[j]
             /\ \A j \in 1 .. Len(s) - q : high[j] = s[q + j] /\ q + j \in 1 .. Len(s)
<1> DEFINE low  == SubSeq(s, 1, q)
           high == SubSeq(s, q + 1, Len(s))
<1>1. Len(s) \in Nat /\ q \in Int /\ \A j \in 1 .. Len(s) : s[j] \in Kid
  OBVIOUS
<1>2. low \in Seq(Kid) /\ Len(low) = q /\ \A j \in 1 .. q : low[j] = s[j]
  BY <1>1, SubSeqProperties
<1>3. /\ high \in Seq(Kid) /\ Len(high) = Len(s) - q
      /\ \A j \in 1 .. Len(s) - q : high[j] = s[q + j]
  <2>1. Len(s) - (q + 1) + 1 = Len(s) - q /\ \A j \in 1 .. Len(s) - q : (q + 1) + j - 1 = q + j
    BY <1>1
  <2>2. q + 1 \in 1 .. Len(s) + 1 /\ Len(s) \in q .. Len(s)
    BY <1>1
  <2> QED BY <1>1, <2>1, <2>2, SubSeqProperties
<1>4. \A j \in 1 .. Len(s) - q : q + j \in 1 .. Len(s)
  BY <1>1
<1> QED BY <1>2, <1>3, <1>4

\* The search goes on in the half that the key at q says.
LEMMA HalfAt ==
  ASSUME NEW s \in Seq(Kid), NEW q \in 1 .. Len(s) - 1, NEW k \in Int, NEW i, At(s, k, i)
  PROVE  /\ k < s[q].key  => i \in 1 .. q /\ At(SubSeq(s, 1, q), k, i)
         /\ k >= s[q].key => i \in q + 1 .. Len(s) /\ At(SubSeq(s, q + 1, Len(s)), k, i - q)
<1> DEFINE low  == SubSeq(s, 1, q)
           high == SubSeq(s, q + 1, Len(s))
<1>1. /\ low \in Seq(Kid) /\ Len(low) = q
      /\ high \in Seq(Kid) /\ Len(high) = Len(s) - q
      /\ \A j \in 1 .. q : low[j] = s[j]
      /\ \A j \in 1 .. Len(s) - q : high[j] = s[q + j] /\ q + j \in 1 .. Len(s)
  BY HalvesAre
<1> HIDE DEF low, high
<1>2. /\ Len(s) \in Nat /\ q \in Int /\ i \in 1 .. Len(s)
      /\ \A j \in 1 .. Len(s) - 1 : s[j].key <= k <=> j < i
  BY DEF At
<1>3. s[q].key \in Int
  <2>1. s[q] \in Kid
    BY <1>2
  <2> QED BY <2>1 DEF Kid
<1>4. CASE k < s[q].key
  <2>1. i \in 1 .. q
    BY <1>2, <1>3, <1>4
  <2>2. \A j \in 1 .. q - 1 : low[j].key <= k <=> j < i
    BY <1>1, <1>2
  <2> QED BY <1>1, <1>3, <1>4, <2>1, <2>2 DEF At, low
<1>5. CASE k >= s[q].key
  <2>1. i \in q + 1 .. Len(s) /\ i - q \in 1 .. Len(s) - q
    BY <1>2, <1>3, <1>5
  <2>2. ASSUME NEW j \in 1 .. (Len(s) - q) - 1 PROVE high[j].key <= k <=> j < i - q
    <3>1. q + j \in 1 .. Len(s) - 1 /\ (q + j < i <=> j < i - q) /\ j \in 1 .. Len(s) - q
      BY <1>2
    <3> QED BY <1>1, <1>2, <3>1
  <2> QED BY <1>1, <1>3, <1>5, <2>1, <2>2 DEF At, high
<1> QED BY <1>3, <1>4, <1>5

-----------------------------------------------------------------------------
(* Splitting node o of n: its kids from q + 1 on go to a new node, n + 1,  *)
(* with the keys from sep on.                                              *)
Halved(kids, n, o, q) ==
  [x \in 1 .. n + 1 |-> IF x = n + 1 THEN SubSeq(kids[o], q + 1, Len(kids[o]))
                        ELSE IF x = o THEN SubSeq(kids[o], 1, q) ELSE kids[x]]
Adopted(kids, above, lv, n, o, q) ==
  [x \in 1 .. n + 1 |-> IF x = n + 1 THEN above[o]
                        ELSE IF lv[o] > 0 /\ \E i \in q + 1 .. Len(kids[o]) : kids[o][i].to = x THEN n + 1
                        ELSE above[x]]
Forked(path, lv, n, o, sep) ==
  [path EXCEPT ![lv[o]] = [k \in Int |-> IF path[lv[o]][k] = o /\ k >= sep THEN n + 1 ELSE path[lv[o]][k]]]
Widened(lv, n, o) == [x \in 1 .. n + 1 |-> IF x = n + 1 THEN lv[o] ELSE lv[x]]
Split(above, n, o, sep) ==
  [op |-> "insert", at |-> above[o], key |-> sep, old |-> o, after |-> n + 1]

\* The node o cut in two behind its q-th kid is a tree again, whose parent has
\* yet to be told of the new node n + 1.
LEMMA SplitNode ==
  ASSUME NEW kids, NEW above, NEW path, NEW lv, NEW n, NEW H, NEW root, NEW u, NEW d,
         Tree(kids, above, path, lv, n, H, root, u, d), u.op # "insert", Keys \subseteq Int,
         NEW o \in 1 .. n, NEW q \in 1 .. Len(kids[o]) - 1, NEW sep \in Int,
         lv[o] > 0 => q >= 2 /\ sep = kids[o][q].key,
         lv[o] = 0 => sep = kids[o][q + 1].key
  PROVE  Tree(Halved(kids, n, o, q), Adopted(kids, above, lv, n, o, q), Forked(path, lv, n, o, sep),
              Widened(lv, n, o), n + 1, H, root, Split(above, n, o, sep), d)
<1> DEFINE s  == kids[o]
           L  == lv[o]
           t  == n + 1
           k2 == Halved(kids, n, o, q)
           a2 == Adopted(kids, above, lv, n, o, q)
           p2 == Forked(path, lv, n, o, sep)
           l2 == Widened(lv, n, o)
           u2 == Split(above, n, o, sep)
           low  == SubSeq(s, 1, q)
           high == SubSeq(s, q + 1, Len(s))
           Moved(x) == \E i \in q + 1 .. Len(s) : s[i].to = x
\* What is known of the tree.
<1>1. /\ n \in Nat /\ H \in Nat \ {0} /\ root \in 1 .. n /\ lv[root] = H
      /\ \A x \in 1 .. n : /\ kids[x] \in Seq(Kid) /\ above[x] \in Nat /\ lv[x] \in 0 .. H
                           /\ \A i \in 1 .. Len(kids[x]) : kids[x][i] \in Kid /\ kids[x][i].key \in Int
      /\ \A h \in 0 .. H, k \in Int : path[h][k] \in 1 .. n /\ lv[path[h][k]] = h
  <2>1. n \in Nat /\ H \in Nat \ {0} /\ root \in 1 .. n /\ lv[root] = H
    BY Bounds
  <2>2. \A h \in 0 .. H, k \in Int : path[h][k] \in 1 .. n /\ lv[path[h][k]] = h
    BY OnPath
  <2>3. \A x \in 1 .. n : kids[x] \in Seq(Kid) /\ above[x] \in Nat /\ lv[x] \in 0 .. H
    BY NodeTypes
  <2>4. \A x \in 1 .. n : \A i \in 1 .. Len(kids[x]) : kids[x][i] \in Kid
    BY <2>3
  <2>5. \A x \in 1 .. n : \A i \in 1 .. Len(kids[x]) : kids[x][i].key \in Int
    BY <2>4 DEF Kid
  <2> QED BY <2>1, <2>2, <2>3, <2>4, <2>5
<1>40. \A h \in 0 .. H, k \in Int : path[h][k] \in 1 .. n /\ lv[path[h][k]] = h
  BY <1>1
<1>2. path \in [Nat -> [Int -> Nat]] /\ Typed(kids, above, path, lv, n, H)
  BY DEF Tree, Typed
<1>3. Paths(kids, path, lv, n, H, root, u)
  BY DEF Tree
<1>4. Kin(kids, above, lv, n, root, u)
  BY DEF Tree
<1>5. Separators(kids, path, lv, n)
  BY DEF Tree
<1>6. Records(kids, path, lv, n, d)
  BY DEF Tree
<1>7. \A c, k : Goes(u, c, k) = c
  BY DEF Goes
\* The two halves.
<1>8. s \in Seq(Kid) /\ Len(s) \in Nat /\ q \in Int /\ 1 <= q /\ q < Len(s)
  <2>1. s \in Seq(Kid)
    BY <1>1
  <2>2. Len(s) \in Nat
    BY <2>1
  <2> QED BY <2>1, <2>2
<1>41. Len(s) \in Nat /\ q \in Int /\ 1 <= q /\ q < Len(s)
  BY <1>8
<1>42. \A i \in 1 .. Len(s) : s[i].key \in Int
  BY <1>1
<1>43. /\ \A i \in 1 .. Len(s) - q : q + i \in 1 .. Len(s) /\ q < q + i
       /\ \A i, j \in 1 .. Len(s) - q : i < j => q + i < q + j
       /\ \A i \in q + 1 .. Len(s) : i - q \in 1 .. Len(s) - q /\ q + (i - q) = i
       /\ \A i \in 1 .. q : i \in 1 .. Len(s)
       /\ q + 1 \in 1 .. Len(s)
  <2> DEFINE m == Len(s)
  <2>1. m \in Nat /\ q \in Int /\ 1 <= q /\ q < m
    BY <1>41
  <2> HIDE DEF m
  <2>2. \A i \in 1 .. m - q : q + i \in 1 .. m /\ q < q + i
    BY <2>1
  <2>3. \A i, j \in 1 .. m - q : i < j => q + i < q + j
    BY <2>1
  <2>4. \A i \in q + 1 .. m : i - q \in 1 .. m - q /\ q + (i - q) = i
    BY <2>1
  <2>5. \A i \in 1 .. q : i \in 1 .. m
    BY <2>1
  <2>6. q + 1 \in 1 .. m
    BY <2>1
  <2> QED BY <2>2, <2>3, <2>4, <2>5, <2>6 DEF m
<1>33. L \in 0 .. H /\ L \in Nat /\ (L > 0 \/ L = 0)
  BY <1>1
<1>19. n \in Nat /\ t \in Nat /\ t \in 1 .. t /\ t \notin 1 .. n /\ o # t /\ 1 .. t = 1 .. n \union {t}
  <2>1. n \in Nat /\ 1 <= n
    BY <1>1
  <2> QED BY <2>1
<1>9. /\ low \in Seq(Kid) /\ Len(low) = q
      /\ high \in Seq(Kid) /\ Len(high) = Len(s) - q
      /\ \A j \in 1 .. q : low[j] = s[j]
      /\ \A j \in 1 .. Len(s) - q : high[j] = s[q + j] /\ q + j \in 1 .. Len(s)
  BY <1>8, HalvesAre
<1>10. /\ k2 \in [1 .. t -> Seq(Kid)] /\ k2[t] = high /\ k2[o] = low
       /\ \A x \in 1 .. n : x # o => k2[x] = kids[x]
  <2>1. k2 = [x \in 1 .. t |-> IF x = t THEN high ELSE IF x = o THEN low ELSE kids[x]]
    BY DEF Halved
  <2> HIDE DEF k2, low, high
  <2> HIDE DEF t
  <2>2. \A x \in 1 .. n : x # t /\ x \in 1 .. t
    BY <1>19
  <2> QED BY <1>1, <1>9, <1>19, <2>1, <2>2
<1>11. /\ a2 \in [1 .. t -> Nat] /\ a2[t] = above[o]
       /\ \A x \in 1 .. n : a2[x] = IF L > 0 /\ Moved(x) THEN t ELSE above[x]
  BY <1>1, <1>19, <1>33 DEF Adopted
<1>12. /\ p2 \in [Nat -> [Int -> Nat]]
       /\ \A h \in Nat : h # L => p2[h] = path[h]
       /\ \A k \in Int : p2[L][k] = IF path[L][k] = o /\ k >= sep THEN t ELSE path[L][k]
  BY <1>2, <1>19, <1>33 DEF Forked
<1>13. /\ l2 \in [1 .. t -> 0 .. H] /\ l2[t] = L /\ \A x \in 1 .. n : l2[x] = lv[x]
  BY <1>1, <1>19, <1>33 DEF Widened
<1>14. u2.op = "insert" /\ u2.at = above[o] /\ u2.key = sep /\ u2.old = o /\ u2.after = t
  BY DEF Split
<1>15. u2 \in Ups
  BY <1>1, <1>19 DEF Ups, Split
<1>16. \A h \in 0 .. H : h \in Nat
  BY <1>1
<1>17. L > 0 => q >= 2 /\ sep = s[q].key
  OBVIOUS
<1>18. L = 0 => sep = s[q + 1].key
  OBVIOUS
<1> HIDE DEF k2, a2, p2, l2, u2, low, high, t
<1>34. \A k \in Int : path[L][k] = o /\ k >= sep => p2[L][k] = t
  BY <1>12
<1>35. \A k \in Int : ~ (path[L][k] = o /\ k >= sep) => p2[L][k] = path[L][k]
  BY <1>12
<1>38. \A k \in Int : k < sep \/ k >= sep
  OBVIOUS
<1>36. \A h \in Nat : h # L => p2[h] = path[h]
  BY <1>12
<1>44. \A h \in Nat, k \in Int : path[h][k] # o => p2[h][k] = path[h][k]
  BY <1>35, <1>36
<1>20. ASSUME L > 0
       PROVE  /\ \A i \in 1 .. Len(s) : s[i].to \in 1 .. n /\ lv[s[i].to] = L - 1 /\ above[s[i].to] = o
              /\ \A i, j \in 1 .. Len(s) : s[i].to = s[j].to => i = j
              /\ ~ Moved(o)
              /\ \A i \in 1 .. Len(s) : Moved(s[i].to) <=> q < i
              /\ \A x \in 1 .. n : Moved(x) => lv[x] = L - 1 /\ above[x] = o
  <2>1. /\ \A i \in 1 .. Len(s) : s[i].to \in 1 .. n /\ lv[s[i].to] = L - 1 /\ above[s[i].to] = o
        /\ \A i, j \in 1 .. Len(s) : s[i].to = s[j].to => i = j
    BY <1>4, <1>20 DEF Kin
  <2>2. \A i \in q + 1 .. Len(s) : i \in 1 .. Len(s) /\ q < i
    BY <1>8
  <2>3. \A i \in 1 .. Len(s) : q < i => i \in q + 1 .. Len(s)
    BY <1>8
  <2>4. ~ Moved(o)
    BY <1>33, <2>1, <2>2
  <2>5. \A x \in 1 .. n : Moved(x) => lv[x] = L - 1 /\ above[x] = o
    BY <2>1, <2>2
  <2>6. \A i \in 1 .. Len(s) : Moved(s[i].to) <=> q < i
    BY <2>1, <2>2, <2>3
  <2> QED BY <2>1, <2>4, <2>5, <2>6
<1>21. Typed(k2, a2, p2, l2, t, H)
  BY <1>1, <1>10, <1>11, <1>12, <1>13, <1>19 DEF Typed
\* Where the keys of the node go.
<1>22. \A k \in Int : path[L][k] \in 1 .. n /\ lv[path[L][k]] = L
  BY <1>1
<1>23. \A h \in 0 .. H, k \in Int : /\ p2[h][k] \in 1 .. t /\ l2[p2[h][k]] = h
                                    /\ p2[h][k] # t => p2[h][k] = path[h][k]
  <2>1. ASSUME NEW h \in 0 .. H, NEW k \in Int, h # L
        PROVE  p2[h][k] \in 1 .. n /\ l2[p2[h][k]] = h /\ p2[h][k] = path[h][k]
    <3> DEFINE y == path[h][k]
    <3>1. y \in 1 .. n /\ lv[y] = h
      BY <1>1
    <3>2. p2[h][k] = y
      BY <1>16, <1>36, <2>1
    <3> HIDE DEF y
    <3>3. l2[y] = h
      BY <1>13, <3>1
    <3> QED BY <3>1, <3>2, <3>3 DEF y
  <2>2. ASSUME NEW k \in Int
        PROVE  p2[L][k] \in 1 .. t /\ l2[p2[L][k]] = L /\ (p2[L][k] # t => p2[L][k] = path[L][k])
    <3> DEFINE y == path[L][k]
    <3>1. y \in 1 .. n /\ lv[y] = L
      BY <1>22
    <3>2. p2[L][k] = y \/ p2[L][k] = t
      BY <1>34, <1>35
    <3> HIDE DEF y
    <3>3. l2[y] = L /\ l2[t] = L
      BY <1>13, <3>1
    <3>4. y \in 1 .. t /\ t \in 1 .. t
      BY <1>19, <3>1
    <3> QED BY <3>2, <3>3, <3>4 DEF y
  <2> QED BY <1>19, <2>1, <2>2
<1>24. /\ \E k \in Int : path[L][k] = o /\ k < sep
       /\ path[L][sep] = o
  <2>1. CASE L > 0
    <3>1. q - 1 \in 1 .. Len(s) - 1 /\ q \in 1 .. Len(s) - 1 /\ q - 1 < q
      BY <1>8, <1>17, <2>1
    <3>2. path[L][s[q - 1].key] = o /\ path[L][s[q].key] = o /\ s[q - 1].key < s[q].key
      BY <1>5, <2>1, <3>1 DEF Separators
    <3>3. s[q - 1].key \in Int
      <4>1. q - 1 \in 1 .. Len(s)
        BY <1>41, <3>1
      <4> QED BY <1>42, <4>1
    <3> QED BY <1>17, <2>1, <3>2, <3>3
  <2>2. CASE L = 0
    <3>1. q \in 1 .. Len(s) /\ q + 1 \in 1 .. Len(s) /\ q < q + 1
      BY <1>8
    <3>2. path[0][s[q].key] = o /\ path[0][s[q + 1].key] = o /\ s[q].key < s[q + 1].key
      BY <1>6, <2>2, <3>1 DEF Records
    <3>3. s[q].key \in Int
      BY <1>1, <3>1
    <3> QED BY <1>18, <2>2, <3>2, <3>3
  <2> QED BY <1>33, <2>1, <2>2
<1>25. L = H => o = root
  <2>1. \A k \in Int : path[H][k] = root
    BY <1>3, <1>7 DEF Paths
  <2> QED BY <1>24, <2>1
<1>26. \A h \in 1 .. H, k \in Int : p2[h - 1][k] = Goes(u2, path[h - 1][k], k)
  <2>1. ASSUME NEW h \in 1 .. H, NEW k \in Int PROVE p2[h - 1][k] = Goes(u2, path[h - 1][k], k)
    <3>1. h - 1 \in 0 .. H /\ h - 1 \in Nat
      BY <1>1
    <3>2. CASE h - 1 = L
      BY <1>12, <1>14, <3>2 DEF Goes
    <3>3. CASE h - 1 # L
      <4>1. path[h - 1][k] # o
        BY <1>40, <3>1, <3>3
      <4> QED BY <1>12, <1>14, <3>1, <3>3, <4>1 DEF Goes
    <3> QED BY <3>2, <3>3
  <2> QED BY <2>1
<1>27. Paths(k2, p2, l2, t, H, root, u2)
  <2>1. root \in 1 .. t /\ l2[root] = H
    BY <1>1, <1>13, <1>19
  <2>2. ASSUME NEW k \in Int PROVE p2[H][k] = Goes(u2, root, k)
    <3>1. path[H][k] = root
      BY <1>3, <1>7 DEF Paths
    <3>2. CASE L = H
      BY <1>12, <1>14, <1>25, <3>1, <3>2 DEF Goes
    <3>3. CASE L # H
      <4>1. root # o
        BY <1>1, <3>3
      <4> QED BY <1>1, <1>12, <1>14, <3>1, <3>3, <4>1 DEF Goes
    <3> QED BY <3>2, <3>3
  <2>3. ASSUME NEW h \in 1 .. H, NEW k \in Int
        PROVE  \E i \in 1 .. Len(k2[p2[h][k]]) :
                 At(k2[p2[h][k]], k, i) /\ p2[h - 1][k] = Goes(u2, k2[p2[h][k]][i].to, k)
    <3>1. h \in 0 .. H /\ h \in Nat /\ h > 0
      BY <1>1
    <3> DEFINE x == path[h][k]
    <3>2. x \in 1 .. n /\ lv[x] = h
      BY <1>1, <3>1
    <3>3. PICK i \in 1 .. Len(kids[x]) : At(kids[x], k, i) /\ path[h - 1][k] = kids[x][i].to
      <4>1. \E i \in 1 .. Len(kids[x]) : At(kids[x], k, i) /\ path[h - 1][k] = Goes(u, kids[x][i].to, k)
        BY <1>3 DEF Paths
      <4> HIDE DEF x
      <4> QED BY <1>7, <4>1
    <3>4. p2[h - 1][k] = Goes(u2, kids[x][i].to, k)
      BY <1>26, <3>3
    <3> HIDE DEF x
    <3>5. CASE x # o
      <4>1. p2[h][k] = x
        BY <1>33, <1>35, <1>36, <3>1, <3>5 DEF x
      <4>2. k2[x] = kids[x]
        BY <1>10, <3>2, <3>5
      <4> QED BY <3>3, <3>4, <4>1, <4>2
    <3>6. CASE x = o
      <4>1. h = L /\ L > 0 /\ i \in 1 .. Len(s) /\ At(s, k, i)
        BY <3>1, <3>2, <3>3, <3>6
      <4>2. sep = s[q].key
        BY <1>17, <4>1
      <4>3. CASE k < sep
        <5>1. p2[h][k] = o
          <6>1. path[L][k] = o /\ ~ (k >= sep)
            BY <3>6, <4>1, <4>3 DEF x
          <6>2. p2[L][k] = o
            BY <1>35, <6>1
          <6> QED BY <4>1, <6>2
        <5>2. i \in 1 .. q /\ At(low, k, i)
          BY <1>8, <4>1, <4>2, <4>3, HalfAt DEF low
        <5>3. low[i] = s[i] /\ Len(low) = q
          BY <1>9, <5>2
        <5>4. k2[p2[h][k]] = low
          BY <1>10, <5>1
        <5>5. p2[h - 1][k] = Goes(u2, low[i].to, k)
          BY <3>4, <3>6, <5>3
        <5> QED BY <5>2, <5>3, <5>4, <5>5
      <4>4. CASE k >= sep
        <5>1. p2[h][k] = t
          BY <1>34, <3>6, <4>1, <4>4 DEF x
        <5>2. i \in q + 1 .. Len(s) /\ At(high, k, i - q)
          BY <1>8, <4>1, <4>2, <4>4, HalfAt DEF high
        <5>3. i - q \in 1 .. Len(s) - q /\ q + (i - q) = i
          BY <1>43, <5>2
        <5>4. high[i - q] = s[i]
          BY <1>9, <5>3
        <5>5. k2[p2[h][k]] = high /\ Len(high) = Len(s) - q
          BY <1>9, <1>10, <5>1
        <5>6. p2[h - 1][k] = Goes(u2, high[i - q].to, k)
          BY <3>4, <3>6, <5>4
        <5> QED BY <5>2, <5>3, <5>5, <5>6
      <4> QED BY <1>8, <4>1, <4>2, <4>3, <4>4, <1>38
    <3> QED BY <3>5, <3>6
  <2>4. ASSUME NEW x \in 1 .. t PROVE \E k \in Int : p2[l2[x]][k] = x
    <3>1. CASE x = t
      <4>1. p2[L][sep] = t
        BY <1>24, <1>34
      <4> QED BY <1>13, <3>1, <4>1
    <3>2. CASE x = o
      <4>1. PICK k \in Int : path[L][k] = o /\ k < sep
        BY <1>24
      <4>2. p2[L][k] = o
        BY <1>35, <4>1
      <4> QED BY <1>13, <3>2, <4>2
    <3>3. CASE x # t /\ x # o
      <4>1. x \in 1 .. n
        BY <1>19, <3>3
      <4>2. PICK k \in Int : path[lv[x]][k] = x
        BY <4>1, Reached
      <4>3. lv[x] \in 0 .. H /\ lv[x] \in Nat
        BY <1>1, <4>1
      <4>4. p2[lv[x]][k] = x
        BY <1>33, <1>35, <1>36, <3>3, <4>2, <4>3
      <4> QED BY <1>13, <4>1, <4>4
    <3> QED BY <3>1, <3>2, <3>3
  <2> QED BY <1>23, <2>1, <2>2, <2>3, <2>4 DEF Paths
<1>28. Kin(k2, a2, l2, t, root, u2)
  <2>1. a2[root] = 0
    <3>1. above[root] = 0 /\ lv[root] = H
      BY Bounds
    <3>2. L > 0 => ~ Moved(root)
      <4>1. root \in 1 .. n /\ H # L - 1
        BY <1>1, <1>33
      <4> QED BY <1>20, <3>1, <4>1
    <3> QED BY <1>1, <1>11, <3>1, <3>2
  <2>2. ASSUME NEW x \in 1 .. t, l2[x] > 0, NEW i \in 1 .. Len(k2[x])
        PROVE  /\ k2[x][i].to \in 1 .. t
               /\ l2[k2[x][i].to] = l2[x] - 1
               /\ a2[k2[x][i].to] = x
               /\ u2.op = "insert" => k2[x][i].to # u2.after
               /\ \A j \in 1 .. Len(k2[x]) : k2[x][j].to = k2[x][i].to => j = i
    <3>1. CASE x # o /\ x # t
      <4>1. x \in 1 .. n /\ k2[x] = kids[x] /\ l2[x] = lv[x]
        BY <1>10, <1>13, <1>19, <3>1
      <4>2. /\ kids[x][i].to \in 1 .. n /\ lv[kids[x][i].to] = lv[x] - 1 /\ above[kids[x][i].to] = x
            /\ \A j \in 1 .. Len(kids[x]) : kids[x][j].to = kids[x][i].to => j = i
        BY <1>4, <2>2, <4>1 DEF Kin
      <4>3. L > 0 => ~ Moved(kids[x][i].to)
        BY <1>20, <3>1, <4>2
      <4> DEFINE c == kids[x][i].to
      <4>4. c \in 1 .. n /\ a2[c] = x /\ l2[c] = l2[x] - 1
        BY <1>11, <1>13, <4>1, <4>2, <4>3
      <4>5. k2[x][i].to = c
        BY <4>1
      <4> HIDE DEF c
      <4>6. c \in 1 .. t /\ c # t
        BY <1>19, <4>4
      <4> QED BY <1>14, <4>1, <4>2, <4>4, <4>5, <4>6 DEF c
    <3>2. CASE x = o
      <4>1. k2[x] = low /\ l2[x] = L /\ L > 0 /\ i \in 1 .. q /\ i \in 1 .. Len(s)
        BY <1>8, <1>9, <1>10, <1>13, <2>2, <3>2
      <4>2. s[i].to \in 1 .. n /\ lv[s[i].to] = L - 1 /\ above[s[i].to] = o /\ ~ Moved(s[i].to)
        BY <1>8, <1>20, <4>1
      <4>3. \A j \in 1 .. q : j \in 1 .. Len(s) /\ low[j] = s[j]
        BY <1>8, <1>9
      <4>4. \A j \in 1 .. q : low[j].to = low[i].to => j = i
        BY <1>20, <4>1, <4>3
      <4> DEFINE c == s[i].to
      <4>5. c \in 1 .. n /\ a2[c] = o /\ l2[c] = L - 1
        BY <1>11, <1>13, <4>2
      <4>6. k2[x][i].to = c
        BY <4>1, <4>3
      <4> HIDE DEF c
      <4>7. c \in 1 .. t /\ c # t
        BY <1>19, <4>5
      <4>8. \A j \in 1 .. Len(k2[x]) : k2[x][j].to = k2[x][i].to => j = i
        BY <1>9, <4>1, <4>4
      <4>9. a2[k2[x][i].to] = x /\ l2[k2[x][i].to] = l2[x] - 1
        BY <3>2, <4>1, <4>5, <4>6
      <4>10. k2[x][i].to \in 1 .. t /\ k2[x][i].to # u2.after
        BY <1>14, <4>6, <4>7
      <4> QED BY <4>8, <4>9, <4>10
    <3>3. CASE x = t
      <4>1. k2[x] = high /\ l2[x] = L /\ L > 0 /\ i \in 1 .. Len(s) - q
        BY <1>8, <1>9, <1>10, <1>13, <2>2, <3>3
      <4>2. q + i \in 1 .. Len(s) /\ q < q + i /\ high[i] = s[q + i]
        BY <1>9, <1>43, <4>1
      <4>3. s[q + i].to \in 1 .. n /\ lv[s[q + i].to] = L - 1 /\ Moved(s[q + i].to)
        BY <1>20, <4>1, <4>2
      <4>4. \A j \in 1 .. Len(s) - q : high[j].to = high[i].to => j = i
        <5>1. \A j \in 1 .. Len(s) - q : q + j \in 1 .. Len(s) /\ high[j] = s[q + j] /\ (q + j = q + i => j = i)
          BY <1>8, <1>9, <4>1
        <5> HIDE DEF s
        <5>2. ASSUME NEW j \in 1 .. Len(s) - q, high[j].to = high[i].to PROVE j = i
          <6>1. s[q + j].to = s[q + i].to
            BY <4>2, <5>1, <5>2
          <6>2. q + j = q + i
            BY <1>20, <4>1, <4>2, <5>1, <6>1
          <6> QED BY <5>1, <6>2
        <5> QED BY <5>2
      <4> DEFINE c == s[q + i].to
      <4>5. c \in 1 .. n /\ a2[c] = t /\ l2[c] = L - 1
        BY <1>11, <1>13, <4>1, <4>3
      <4>6. k2[x][i].to = c
        BY <4>1, <4>2
      <4> HIDE DEF c
      <4>7. c \in 1 .. t /\ c # t
        BY <1>19, <4>5
      <4>8. \A j \in 1 .. Len(k2[x]) : k2[x][j].to = k2[x][i].to => j = i
        BY <1>9, <4>1, <4>4
      <4> QED BY <1>14, <3>3, <4>1, <4>5, <4>6, <4>7, <4>8
    <3> QED BY <3>1, <3>2, <3>3
  <2> QED BY <2>1, <2>2 DEF Kin
<1>29. Separators(k2, p2, l2, t)
  <2>1. ASSUME NEW x \in 1 .. t, l2[x] > 0, NEW i \in 1 .. Len(k2[x]) - 1
        PROVE  /\ p2[l2[x]][k2[x][i].key] = x
               /\ \A j \in 1 .. Len(k2[x]) - 1 : i < j => k2[x][i].key < k2[x][j].key
    <3>1. CASE x # o /\ x # t
      <4>1. x \in 1 .. n /\ k2[x] = kids[x] /\ l2[x] = lv[x] /\ lv[x] \in Nat /\ Len(kids[x]) \in Nat
        <5>1. x \in 1 .. n
          BY <1>19, <3>1
        <5>2. kids[x] \in Seq(Kid) /\ lv[x] \in 0 .. H
          BY <1>1, <5>1
        <5>3. Len(kids[x]) \in Nat /\ lv[x] \in Nat
          BY <1>1, <5>2
        <5> QED BY <1>10, <1>13, <3>1, <5>1, <5>3
      <4>2. /\ path[lv[x]][kids[x][i].key] = x
            /\ \A j \in 1 .. Len(kids[x]) - 1 : i < j => kids[x][i].key < kids[x][j].key
        BY <1>5, <2>1, <4>1 DEF Separators
      <4>3. i \in 1 .. Len(kids[x])
        BY <4>1
      <4>4. kids[x][i].key \in Int
        BY <1>1, <4>1, <4>3
      <4>5. p2[lv[x]][kids[x][i].key] = x
        BY <1>33, <1>35, <1>36, <3>1, <4>1, <4>2, <4>4
      <4> QED BY <4>1, <4>2, <4>5
    <3>2. CASE x = o
      <4>1. k2[x] = low /\ l2[x] = L /\ L > 0 /\ i \in 1 .. q - 1
        BY <1>9, <1>10, <1>13, <2>1, <3>2
      <4>2. \A j \in 1 .. q : j \in 1 .. Len(s) - 1 /\ low[j] = s[j]
        BY <1>8, <1>9
      <4>3. i \in 1 .. q /\ i < q /\ q \in 1 .. q
        BY <1>8, <4>1
      <4>4. /\ path[L][s[i].key] = o
            /\ \A j \in 1 .. Len(s) - 1 : i < j => s[i].key < s[j].key
        BY <1>5, <4>1, <4>2, <4>3 DEF Separators
      <4>5. s[i].key < sep /\ s[i].key \in Int
        <5>1. q \in 1 .. Len(s) - 1 /\ i \in 1 .. Len(s)
          BY <1>8, <4>2, <4>3
        <5> QED BY <1>1, <1>17, <4>1, <4>3, <4>4, <5>1
      <4>6. p2[L][s[i].key] = o
        <5> DEFINE y == s[i].key
        <5>1. y \in Int /\ ~ (y >= sep) /\ path[L][y] = o
          BY <4>4, <4>5
        <5> HIDE DEF y
        <5>2. p2[L][y] = o
          BY <1>35, <5>1
        <5> QED BY <5>2 DEF y
      <4>7. \A j \in 1 .. q - 1 : i < j => low[i].key < low[j].key
        <5>1. \A j \in 1 .. q - 1 : j \in 1 .. q
          BY <1>8
        <5> HIDE DEF s
        <5> QED BY <4>2, <4>3, <4>4, <5>1
      <4> QED BY <1>9, <3>2, <4>1, <4>2, <4>3, <4>6, <4>7
    <3>3. CASE x = t
      <4>1. k2[x] = high /\ l2[x] = L /\ L > 0 /\ i \in 1 .. (Len(s) - q) - 1
        BY <1>9, <1>10, <1>13, <2>1, <3>3
      <4>2. \A j \in 1 .. (Len(s) - q) - 1 : q + j \in 1 .. Len(s) - 1 /\ high[j] = s[q + j]
        <5>1. \A j \in 1 .. (Len(s) - q) - 1 : j \in 1 .. Len(s) - q /\ q + j \in 1 .. Len(s) - 1
          <6> DEFINE m == Len(s)
          <6>1. m \in Nat /\ q \in Int /\ 1 <= q /\ q < m
            BY <1>41
          <6> HIDE DEF m
          <6>2. \A j \in 1 .. (m - q) - 1 : j \in 1 .. m - q /\ q + j \in 1 .. m - 1
            BY <6>1
          <6> QED BY <6>2 DEF m
        <5> QED BY <1>9, <5>1
      <4>3. q + i \in 1 .. Len(s) - 1 /\ q \in 1 .. Len(s) - 1 /\ q < q + i
        BY <1>8, <4>1
      <4>4. /\ path[L][s[q + i].key] = o
            /\ \A j \in 1 .. Len(s) - 1 : q + i < j => s[q + i].key < s[j].key
            /\ s[q].key < s[q + i].key
        BY <1>5, <4>1, <4>3 DEF Separators
      <4>5. s[q + i].key \in Int /\ s[q + i].key >= sep
        <5>1. q + i \in 1 .. Len(s) /\ q \in 1 .. Len(s)
          BY <1>8, <4>3
        <5>2. s[q + i].key \in Int /\ s[q].key \in Int
          BY <1>1, <5>1
        <5>3. sep = s[q].key
          BY <1>17, <4>1
        <5> HIDE DEF s
        <5> QED BY <4>4, <5>2, <5>3
      <4>6. p2[L][s[q + i].key] = t
        BY <1>34, <4>4, <4>5
      <4>7. ASSUME NEW j \in 1 .. (Len(s) - q) - 1, i < j PROVE high[i].key < high[j].key
        <5>1. q + i < q + j /\ q + j \in 1 .. Len(s) - 1
          BY <1>8, <4>1, <4>2, <4>7
        <5> QED BY <4>1, <4>2, <4>4, <5>1
      <4> QED BY <1>9, <3>3, <4>1, <4>2, <4>6, <4>7
    <3> QED BY <3>1, <3>2, <3>3
  <2> QED BY <2>1 DEF Separators
<1>30. Records(k2, p2, l2, t, d)
  <2>1. ASSUME NEW x \in 1 .. t, l2[x] = 0, NEW i \in 1 .. Len(k2[x])
        PROVE  /\ k2[x][i].key \in Keys /\ p2[0][k2[x][i].key] = x
               /\ d[k2[x][i].key] = k2[x][i].to /\ k2[x][i].to \in Vals
               /\ \A j \in 1 .. Len(k2[x]) : i < j => k2[x][i].key < k2[x][j].key
    <3>1. CASE x # o /\ x # t
      <4>1. x \in 1 .. n /\ k2[x] = kids[x] /\ lv[x] = 0
        BY <1>10, <1>13, <1>19, <2>1, <3>1
      <4>2. /\ kids[x][i].key \in Keys /\ path[0][kids[x][i].key] = x
            /\ d[kids[x][i].key] = kids[x][i].to /\ kids[x][i].to \in Vals
            /\ \A j \in 1 .. Len(kids[x]) : i < j => kids[x][i].key < kids[x][j].key
        BY <1>6, <2>1, <4>1 DEF Records
      <4>3. kids[x][i].key \in Int
        BY <4>2
      <4>4. p2[0][kids[x][i].key] = x
        BY <1>44, <3>1, <4>2, <4>3
      <4> QED BY <4>1, <4>2, <4>4
    <3>2. CASE x = o
      <4>1. k2[x] = low /\ L = 0 /\ i \in 1 .. q
        BY <1>9, <1>10, <1>13, <2>1, <3>2
      <4>2. \A j \in 1 .. q : j \in 1 .. Len(s) /\ low[j] = s[j]
        BY <1>8, <1>9
      <4>3. /\ s[i].key \in Keys /\ path[0][s[i].key] = o /\ d[s[i].key] = s[i].to /\ s[i].to \in Vals
            /\ \A j \in 1 .. Len(s) : i < j => s[i].key < s[j].key
        BY <1>6, <4>1, <4>2 DEF Records
      <4>4. s[i].key \in Int /\ s[i].key < sep
        <5>1. q + 1 \in 1 .. Len(s) /\ i < q + 1
          BY <1>8, <4>1
        <5> QED BY <1>18, <4>1, <4>3, <5>1
      <4>5. p2[0][s[i].key] = o
        BY <1>35, <4>1, <4>3, <4>4
      <4> QED BY <1>9, <3>2, <4>1, <4>2, <4>3, <4>5
    <3>3. CASE x = t
      <4>1. k2[x] = high /\ L = 0 /\ i \in 1 .. Len(s) - q
        BY <1>9, <1>10, <1>13, <2>1, <3>3
      <4>2. \A j \in 1 .. Len(s) - q : q + j \in 1 .. Len(s) /\ high[j] = s[q + j]
        BY <1>9
      <4>3. /\ s[q + i].key \in Keys /\ path[0][s[q + i].key] = o
            /\ d[s[q + i].key] = s[q + i].to /\ s[q + i].to \in Vals
            /\ \A j \in 1 .. Len(s) : q + i < j => s[q + i].key < s[j].key
        BY <1>6, <4>1, <4>2 DEF Records
      <4>4. s[q + i].key \in Int /\ s[q + i].key >= sep
        <5>1. q + 1 \in 1 .. Len(s) /\ (q + 1 < q + i \/ q + 1 = q + i) /\ q + i \in 1 .. Len(s)
          BY <1>8, <4>1, <4>2
        <5>2. q + 1 < q + i => s[q + 1].key < s[q + i].key
          BY <1>6, <4>1, <5>1 DEF Records
        <5>3. s[q + 1].key \in Int /\ s[q + i].key \in Int
          BY <1>42, <5>1
        <5>4. sep = s[q + 1].key
          BY <1>18, <4>1
        <5>5. q + 1 = q + i => s[q + i].key = sep
          BY <5>4
        <5>6. q + 1 < q + i => s[q + i].key > sep
          BY <5>2, <5>3, <5>4
        <5> HIDE DEF s
        <5> QED BY <5>1, <5>3, <5>5, <5>6
      <4>5. p2[0][s[q + i].key] = t
        BY <1>34, <4>1, <4>3, <4>4
      <4>6. ASSUME NEW j \in 1 .. Len(s) - q, i < j PROVE high[i].key < high[j].key
        <5>1. q + i < q + j /\ q + j \in 1 .. Len(s)
          BY <1>43, <4>1, <4>6
        <5> QED BY <4>1, <4>2, <4>3, <5>1
      <4>7. k2[x][i] = s[q + i] /\ Len(k2[x]) = Len(s) - q
        BY <1>9, <4>1, <4>2
      <4>8. \A j \in 1 .. Len(k2[x]) : i < j => k2[x][i].key < k2[x][j].key
        BY <1>9, <4>1, <4>6
      <4> HIDE DEF s
      <4> QED BY <3>3, <4>3, <4>5, <4>7, <4>8
    <3> QED BY <3>1, <3>2, <3>3
  <2>2. ASSUME NEW k \in Keys, d[k] # Absent
        PROVE  \E i \in 1 .. Len(k2[p2[0][k]]) : k2[p2[0][k]][i].key = k
    <3>1. PICK i \in 1 .. Len(kids[path[0][k]]) : kids[path[0][k]][i].key = k
      BY <1>6, <2>2 DEF Records
    <3>2. k \in Int /\ 0 \in 0 .. H
      BY <1>1
    <3>3. CASE path[0][k] # o
      <4>1. path[0][k] \in 1 .. n
        BY <1>1, <3>2
      <4>2. p2[0][k] = path[0][k]
        BY <1>33, <1>35, <1>36, <3>2, <3>3
      <4> QED BY <1>10, <3>1, <3>3, <4>1, <4>2
    <3>4. CASE path[0][k] = o
      <4>1. L = 0 /\ i \in 1 .. Len(s) /\ s[i].key = k
        BY <1>1, <3>1, <3>2, <3>4
      <4>2. sep = s[q + 1].key /\ q + 1 \in 1 .. Len(s)
        BY <1>8, <1>18, <4>1
      <4>3. /\ \A j \in 1 .. Len(s) : i < j => k < s[j].key
            /\ \A j \in 1 .. Len(s) : q + 1 < j => sep < s[j].key
        BY <1>6, <4>1, <4>2 DEF Records
      <4>4. CASE i <= q
        <5>1. k < sep
          BY <1>8, <4>1, <4>2, <4>3, <4>4
        <5>2. p2[0][k] = o
          BY <1>35, <3>2, <3>4, <4>1, <5>1
        <5>3. i \in 1 .. q
          BY <1>41, <4>1, <4>4
        <5>4. k2[p2[0][k]] = low /\ low[i] = s[i] /\ Len(low) = q
          BY <1>9, <1>10, <5>2, <5>3
        <5> QED BY <4>1, <5>3, <5>4
      <4>5. CASE q < i
        <5>1. k >= sep
          <6>1. i = q + 1 \/ q + 1 < i
            BY <1>41, <4>1, <4>5
          <6>2. i = q + 1 => k = sep
            BY <4>1, <4>2
          <6>3. q + 1 < i => sep < k
            BY <4>1, <4>3
          <6> QED BY <3>2, <6>1, <6>2, <6>3
        <5>2. p2[0][k] = t
          BY <1>34, <3>2, <3>4, <4>1, <5>1
        <5>3. i - q \in 1 .. Len(s) - q /\ q + (i - q) = i
          <6>1. i \in q + 1 .. Len(s)
            BY <1>41, <4>1, <4>5
          <6> QED BY <1>43, <6>1
        <5>4. high[i - q] = s[i]
          BY <1>9, <5>3
        <5> QED BY <1>9, <1>10, <4>1, <5>2, <5>3, <5>4
      <4> QED BY <1>8, <4>1, <4>4, <4>5
    <3> QED BY <3>3, <3>4
  <2> QED BY <2>1, <2>2 DEF Records
<1>31. Waits(a2, p2, l2, t, root, u2)
  <2>1. o \in 1 .. t /\ t \in 1 .. t /\ o # t /\ root # t /\ l2[o] = L /\ l2[t] = L
    BY <1>1, <1>13, <1>19
  <2>2. a2[o] = above[o] /\ a2[t] = above[o]
    BY <1>11, <1>20
  <2>3. p2[L][sep] = t
    BY <1>24, <1>34
  <2>4. \A k \in Int : (p2[L][k] = o => k < sep) /\ (p2[L][k] = t => k >= sep)
    <3>1. ASSUME NEW k \in Int PROVE (p2[L][k] = o => k < sep) /\ (p2[L][k] = t => k >= sep)
      <4>1. path[L][k] # t /\ k \in Int /\ sep \in Int
        BY <1>19, <1>22
      <4> QED BY <1>19, <1>34, <1>35, <4>1
    <3> QED BY <3>1
  <2> QED BY <1>14, <1>15, <2>1, <2>2, <2>3, <2>4 DEF Waits
<1>32. Tree(k2, a2, p2, l2, t, H, root, u2, d)
  BY <1>21, <1>27, <1>28, <1>29, <1>30, <1>31 DEF Tree
<1> QED BY <1>32 DEF k2, a2, p2, l2, u2, t

-----------------------------------------------------------------------------
(* Telling the parent of the new node.                                     *)

\* The search in a node that got key c and a child: left of the new key and
\* right of it as before, and its position cut in two.
LEMMA KeyAt ==
  ASSUME NEW s \in Seq(Kid), NEW c \in Int, NEW a \in Int, NEW i \in 1 .. Len(s), UpperBound(s, c) = i,
         At(s, c, i), NEW k \in Int, NEW p \in 1 .. Len(s), At(s, k, p)
  PROVE  LET t == WithKey(s, c, a) IN
         /\ p < i => At(t, k, p)
         /\ i < p => At(t, k, p + 1)
         /\ p = i /\ k < c => At(t, k, i)
         /\ p = i /\ c <= k => At(t, k, i + 1)
<1> DEFINE t == WithKey(s, c, a)
<1>1. /\ t \in Seq(Kid) /\ Len(t) = Len(s) + 1
      /\ \A j \in 1 .. Len(s) + 1 :
           t[j] = IF j < i THEN s[j]
                  ELSE IF j = i THEN [key |-> c, to |-> s[i].to]
                  ELSE IF j = i + 1 THEN [key |-> s[i].key, to |-> a]
                  ELSE s[j - 1]
  BY WithKeyIs
<1> HIDE DEF t
<1>2. Len(s) \in Nat /\ Len(t) - 1 = Len(s) /\ Len(t) \in Nat
  BY <1>1
<1>3. \A j \in 1 .. Len(s) : s[j].key \in Int
  <2>1. \A j \in 1 .. Len(s) : s[j] \in Kid
    OBVIOUS
  <2> QED BY <2>1 DEF Kid
<1>4. \A j \in 1 .. Len(s) : /\ j < i => t[j].key = s[j].key /\ j \in 1 .. Len(s) - 1
                             /\ j = i => t[j].key = c
                             /\ i < j => t[j].key = s[j - 1].key /\ j - 1 \in 1 .. Len(s) - 1
  <2>1. ASSUME NEW j \in 1 .. Len(s)
        PROVE  /\ j < i => t[j].key = s[j].key /\ j \in 1 .. Len(s) - 1
               /\ j = i => t[j].key = c
               /\ i < j => t[j].key = s[j - 1].key /\ j - 1 \in 1 .. Len(s) - 1
    <3>1. j \in 1 .. Len(s) + 1
      BY <1>2
    <3>2. CASE j < i
      <4>1. t[j] = s[j]
        BY <1>1, <3>1, <3>2
      <4> QED BY <1>2, <3>2, <4>1
    <3>3. CASE j = i
      <4>1. t[j] = [key |-> c, to |-> s[i].to]
        BY <1>1, <3>1, <3>3
      <4> QED BY <3>3, <4>1
    <3>4. CASE j = i + 1
      <4>1. t[j] = [key |-> s[i].key, to |-> a]
        BY <1>1, <3>1, <3>4
      <4>2. j - 1 = i /\ j - 1 \in 1 .. Len(s) - 1
        BY <1>2, <3>4
      <4> QED BY <3>4, <4>1, <4>2
    <3>5. CASE i + 1 < j
      <4>1. t[j] = s[j - 1]
        BY <1>1, <3>1, <3>5
      <4> QED BY <1>2, <3>5, <4>1
    <3> QED BY <1>2, <3>2, <3>3, <3>4, <3>5
  <2> QED BY <2>1
<1>5. /\ \A j \in 1 .. Len(s) - 1 : s[j].key <= k <=> j < p
      /\ \A j \in 1 .. Len(s) - 1 : s[j].key <= c <=> j < i
  BY DEF At
<1>6. ASSUME p < i PROVE At(t, k, p)
  <2>1. p \in 1 .. Len(s) - 1
    BY <1>2, <1>6
  <2>2. k < c
    BY <1>3, <1>5, <1>6, <2>1
  <2>3. ASSUME NEW j \in 1 .. Len(s) PROVE t[j].key <= k <=> j < p
    <3>1. CASE j < i
      BY <1>4, <1>5, <3>1
    <3>2. CASE j = i
      BY <1>4, <1>6, <2>2, <3>2
    <3>3. CASE i < j
      <4>1. t[j].key = s[j - 1].key /\ (s[j - 1].key <= k <=> j - 1 < p)
        BY <1>4, <1>5, <3>3
      <4>2. ~ (j - 1 < p) /\ ~ (j < p)
        BY <1>6, <3>3
      <4> QED BY <4>1, <4>2
    <3> QED BY <3>1, <3>2, <3>3
  <2> QED BY <1>2, <2>3 DEF At
<1>7. ASSUME i < p PROVE At(t, k, p + 1)
  <2>1. i \in 1 .. Len(s) - 1
    BY <1>2, <1>7
  <2>2. c < s[i].key /\ s[i].key <= k /\ s[i].key \in Int
    BY <1>3, <1>5, <1>7, <2>1
  <2>3. ASSUME NEW j \in 1 .. Len(s) PROVE t[j].key <= k <=> j < p + 1
    <3>1. CASE j < i
      <4>1. t[j].key = s[j].key /\ (s[j].key <= k <=> j < p)
        BY <1>4, <1>5, <3>1
      <4>2. j < p /\ j < p + 1
        BY <1>7, <3>1
      <4> QED BY <4>1, <4>2
    <3>2. CASE j = i
      BY <1>4, <1>7, <2>2, <3>2
    <3>3. CASE i < j
      <4>1. t[j].key = s[j - 1].key /\ (s[j - 1].key <= k <=> j - 1 < p)
        BY <1>4, <1>5, <3>3
      <4>2. j - 1 < p <=> j < p + 1
        OBVIOUS
      <4> QED BY <4>1, <4>2
    <3> QED BY <3>1, <3>2, <3>3
  <2>4. p + 1 \in 1 .. Len(t)
    BY <1>2
  <2> QED BY <1>2, <2>3, <2>4 DEF At
<1>8. ASSUME p = i, k < c PROVE At(t, k, i)
  <2>1. ASSUME NEW j \in 1 .. Len(s) PROVE t[j].key <= k <=> j < i
    BY <1>4, <1>5, <1>8
  <2> QED BY <1>2, <2>1 DEF At
<1>9. ASSUME p = i, c <= k PROVE At(t, k, i + 1)
  <2>1. ASSUME NEW j \in 1 .. Len(s) PROVE t[j].key <= k <=> j < i + 1
    BY <1>4, <1>5, <1>9
  <2>2. i + 1 \in 1 .. Len(t)
    BY <1>2
  <2> QED BY <1>2, <2>1, <2>2 DEF At
<1> QED BY <1>6, <1>7, <1>8, <1>9 DEF t

\* The place where the parent is told of the new node.
LEMMA Place ==
  ASSUME NEW kids, NEW above, NEW path, NEW lv, NEW n, NEW H, NEW root, NEW u, NEW d,
         Tree(kids, above, path, lv, n, H, root, u, d), u.op = "insert", u.at # 0
  PROVE  LET s == kids[u.at]
             i == UpperBound(s, u.key)
         IN  /\ i \in 1 .. Len(s) /\ At(s, u.key, i) /\ s[i].to = u.old
             /\ \A j \in 1 .. Len(s) - 1 : (j < i => s[j].key < u.key) /\ (i <= j => u.key < s[j].key)
<1> DEFINE o == u.at
           s == kids[o]
           L == lv[o]
           i == UpperBound(s, u.key)
<1>1. /\ u.key \in Int /\ u.old \in 1 .. n /\ u.after \in 1 .. n
      /\ o \in 1 .. n /\ L \in 1 .. H /\ L - 1 = lv[u.old] /\ path[L][u.key] = o
  <2>1. H \in Nat /\ \A x \in 1 .. n : lv[x] \in 0 .. H
    BY Bounds, NodeTypes
  <2>2. /\ u.key \in Int /\ u.old \in 1 .. n /\ u.after \in 1 .. n
        /\ o \in 1 .. n /\ L \in 1 .. H /\ L = lv[u.old] + 1 /\ path[L][u.key] = o
    BY Waiting
  <2>3. lv[u.old] \in 0 .. H
    BY <2>1, <2>2
  <2> QED BY <2>1, <2>2, <2>3
<1>2. Waits(above, path, lv, n, root, u)
  BY DEF Tree
<1>3. /\ s \in Seq(Kid) /\ Len(s) \in Nat /\ \A j \in 1 .. Len(s) : s[j].key \in Int
  <2>1. s \in Seq(Kid)
    BY <1>1, NodeTypes
  <2> HIDE DEF s
  <2>2. Len(s) \in Nat
    BY <2>1
  <2>3. \A j \in 1 .. Len(s) : s[j] \in Kid
    BY <2>1
  <2> QED BY <2>1, <2>2, <2>3 DEF Kid
<1>14. Downs(kids, path, H, u)
  BY MoveDown
<1> HIDE DEF L
<1>4. /\ i \in 1 .. Len(s) /\ At(s, u.key, i)
      /\ path[L - 1][u.key] = Goes(u, s[i].to, u.key) /\ s[i].to # u.after
  <2>1. /\ UpperBound(kids[path[L][u.key]], u.key) \in 1 .. Len(kids[path[L][u.key]])
        /\ At(kids[path[L][u.key]], u.key, UpperBound(kids[path[L][u.key]], u.key))
        /\ path[L - 1][u.key] = Goes(u, kids[path[L][u.key]][UpperBound(kids[path[L][u.key]], u.key)].to, u.key)
    <3> DEFINE k == u.key
    <3>1. L \in 1 .. H /\ k \in Int
      BY <1>1
    <3> HIDE DEF k, o
    <3>2. UpperBound(kids[path[L][k]], k) \in 1 .. Len(kids[path[L][k]])
      BY <3>1, <1>14 DEF Downs
    <3>3. At(kids[path[L][k]], k, UpperBound(kids[path[L][k]], k))
      BY <3>1, <1>14 DEF Downs
    <3>4. path[L - 1][k] = Goes(u, kids[path[L][k]][UpperBound(kids[path[L][k]], k)].to, k)
      BY <3>1, <1>14 DEF Downs
    <3> QED BY <3>2, <3>3, <3>4 DEF k
  <2>2. Kin(kids, above, lv, n, root, u) /\ lv[o] > 0
    BY <1>1 DEF Tree, L
  <2>3. i \in 1 .. Len(s)
    BY <1>1, <2>1
  <2>4. s[i].to # u.after
    BY <1>1, <2>2, <2>3 DEF Kin
  <2> QED BY <1>1, <2>1, <2>4
<1>5. path[L - 1][u.key] = u.after
  BY <1>1, <1>2 DEF Waits
<1>6. s[i].to = u.old
  BY <1>4, <1>5 DEF Goes
<1>7. PICK k \in Int : path[L - 1][k] = u.old
  BY <1>1, Reached
<1>8. k < u.key /\ above[u.old] = o
  BY <1>1, <1>2, <1>7 DEF Waits
<1>9. path[L][k] = o
  <2>1. above[path[L - 1][k]] = path[L][k]
    <3>1. L \in 1 .. H
      BY <1>1
    <3> QED BY <3>1, MoveUp
  <2> QED BY <1>7, <1>8, <2>1
<1> DEFINE p == UpperBound(s, k)
<1>10. /\ p \in 1 .. Len(s) /\ At(s, k, p)
       /\ path[L - 1][k] = Goes(u, s[p].to, k)
  <2>1. /\ UpperBound(kids[path[L][k]], k) \in 1 .. Len(kids[path[L][k]])
        /\ At(kids[path[L][k]], k, UpperBound(kids[path[L][k]], k))
        /\ path[L - 1][k] = Goes(u, kids[path[L][k]][UpperBound(kids[path[L][k]], k)].to, k)
    <3>1. L \in 1 .. H
      BY <1>1
    <3> HIDE DEF o
    <3>2. UpperBound(kids[path[L][k]], k) \in 1 .. Len(kids[path[L][k]])
      BY <3>1, <1>14 DEF Downs
    <3>3. At(kids[path[L][k]], k, UpperBound(kids[path[L][k]], k))
      BY <3>1, <1>14 DEF Downs
    <3>4. path[L - 1][k] = Goes(u, kids[path[L][k]][UpperBound(kids[path[L][k]], k)].to, k)
      BY <3>1, <1>14 DEF Downs
    <3> QED BY <3>2, <3>3, <3>4
  <2> QED BY <1>9, <2>1
<1> HIDE DEF i, p
<1>11. s[p].to = u.old
  BY <1>2, <1>7, <1>10 DEF Goes, Waits
<1>12. p = i
  <2>1. \A x \in 1 .. n : lv[x] > 0 => \A j, m \in 1 .. Len(kids[x]) :
          kids[x][m].to = kids[x][j].to => m = j
    BY DEF Tree, Kin
  <2>2. lv[o] > 0 /\ o \in 1 .. n
    BY <1>1 DEF L
  <2> HIDE DEF o
  <2>3. \A j, m \in 1 .. Len(s) : s[m].to = s[j].to => m = j
    BY <2>1, <2>2
  <2> HIDE DEF s
  <2> QED BY <1>4, <1>6, <1>10, <1>11, <2>3
<1>13. ASSUME NEW j \in 1 .. Len(s) - 1 PROVE (j < i => s[j].key < u.key) /\ (i <= j => u.key < s[j].key)
  <2>1. (s[j].key <= k <=> j < i) /\ (s[j].key <= u.key <=> j < i)
    BY <1>4, <1>10, <1>12 DEF At
  <2>2. s[j].key \in Int /\ j \in Int /\ i \in Int
    <3>1. j \in 1 .. Len(s)
      BY <1>3
    <3> QED BY <1>3, <1>4, <3>1
  <2>3. u.key \in Int /\ k < u.key
    BY <1>1, <1>8
  <2>4. j < i => s[j].key < u.key
    BY <2>1, <2>2, <2>3
  <2>5. i <= j => u.key < s[j].key
    BY <2>1, <2>2, <2>3
  <2> QED BY <2>4, <2>5
<1> QED BY <1>4, <1>6, <1>13 DEF i

\* insert_key_to_index with room: the parent is told, and nobody waits any
\* more.
LEMMA AddKey ==
  ASSUME NEW kids, NEW above, NEW path, NEW lv, NEW n, NEW H, NEW root, NEW u, NEW d,
         Tree(kids, above, path, lv, n, H, root, u, d), u.op = "insert", u.at # 0, Keys \subseteq Int
  PROVE  Tree([x \in 1 .. n |-> IF x = u.at THEN WithKey(kids[x], u.key, u.after) ELSE kids[x]],
              above, path, lv, n, H, root, NoKey, d)
<1> DEFINE o == u.at
           s == kids[o]
           L == lv[o]
           i == UpperBound(s, u.key)
           t == WithKey(s, u.key, u.after)
           k2 == [x \in 1 .. n |-> IF x = u.at THEN WithKey(kids[x], u.key, u.after) ELSE kids[x]]
<1>1. /\ u.key \in Int /\ u.old \in 1 .. n /\ u.after \in 1 .. n
      /\ o \in 1 .. n /\ L \in 1 .. H /\ L - 1 = lv[u.old] /\ path[L][u.key] = o
      /\ root # u.old
  <2>1. H \in Nat /\ \A x \in 1 .. n : lv[x] \in 0 .. H
    BY Bounds, NodeTypes
  <2>2. /\ u.key \in Int /\ u.old \in 1 .. n /\ u.after \in 1 .. n
        /\ o \in 1 .. n /\ L \in 1 .. H /\ L = lv[u.old] + 1 /\ path[L][u.key] = o
        /\ root # u.old
    BY Waiting
  <2>3. lv[u.old] \in 0 .. H
    BY <2>1, <2>2
  <2> QED BY <2>1, <2>2, <2>3
<1>2. n \in Nat /\ H \in Nat /\ L > 0
  BY <1>1, Bounds
<1>3. \A x \in 1 .. n : kids[x] \in Seq(Kid)
  BY NodeTypes
<1>4. s \in Seq(Kid) /\ Len(s) \in Nat
  <2>1. s \in Seq(Kid)
    BY <1>1, <1>3
  <2> QED BY <2>1
<1>5. /\ i \in 1 .. Len(s) /\ At(s, u.key, i) /\ s[i].to = u.old
      /\ \A j \in 1 .. Len(s) - 1 : (j < i => s[j].key < u.key) /\ (i <= j => u.key < s[j].key)
  BY Place
<1>6. u.after \in Int
  BY <1>1
<1>7. /\ t \in Seq(Kid) /\ Len(t) = Len(s) + 1
      /\ \A j \in 1 .. Len(s) + 1 :
           t[j] = IF j < i THEN s[j]
                  ELSE IF j = i THEN [key |-> u.key, to |-> s[i].to]
                  ELSE IF j = i + 1 THEN [key |-> s[i].key, to |-> u.after]
                  ELSE s[j - 1]
  <2> DEFINE c == u.key
             a == u.after
  <2>1. c \in Int /\ a \in Int /\ UpperBound(s, c) = i
    BY <1>1, <1>6
  <2> HIDE DEF s, i, c, a
  <2>2. KeyAdded(WithKey(s, c, a), s, i, c, a)
    BY <1>4, <1>5, <2>1, KeyIs
  <2> QED BY <2>2 DEF KeyAdded, c, a
<1>8. k2 \in [1 .. n -> Seq(Kid)] /\ k2[o] = t /\ \A x \in 1 .. n : x # o => k2[x] = kids[x]
  BY <1>1, <1>3, <1>7
<1>9. Waits(above, path, lv, n, root, u) /\ Kin(kids, above, lv, n, root, u)
      /\ Paths(kids, path, lv, n, H, root, u) /\ Typed(kids, above, path, lv, n, H)
      /\ Records(kids, path, lv, n, d) /\ Separators(kids, path, lv, n)
  BY DEF Tree
<1>10. NoKey.op # "insert" /\ NoKey \in Ups /\ \A c, k : Goes(NoKey, c, k) = c
  BY DEF NoKey, Goes, Ups
\* The new node's kids, one by one.
<1> HIDE DEF k2, t, i
<1>11. /\ \A j \in 1 .. Len(s) : j < i => t[j] = s[j] /\ j \in 1 .. Len(s) + 1
       /\ t[i].key = u.key /\ t[i].to = u.old /\ i \in 1 .. Len(s) + 1
       /\ t[i + 1].to = u.after /\ i + 1 \in 1 .. Len(s) + 1
       /\ \A j \in 1 .. Len(s) : i <= j => t[j + 1].key = s[j].key /\ j + 1 \in 1 .. Len(s) + 1
       /\ \A j \in 1 .. Len(s) : i < j => t[j + 1].to = s[j].to
  <2>1. i \in 1 .. Len(s) + 1 /\ i + 1 \in 1 .. Len(s) + 1
    BY <1>4, <1>5
  <2>2. t[i] = [key |-> u.key, to |-> u.old] /\ t[i + 1] = [key |-> s[i].key, to |-> u.after]
    <3>1. i \in Int /\ ~ (i < i) /\ ~ (i + 1 < i) /\ i + 1 # i
      BY <1>5
    <3>2. t[i] = [key |-> u.key, to |-> s[i].to]
      BY <1>7, <2>1, <3>1
    <3>3. t[i + 1] = [key |-> s[i].key, to |-> u.after]
      BY <1>7, <2>1, <3>1
    <3> QED BY <1>5, <3>2, <3>3
  <2>3. ASSUME NEW j \in 1 .. Len(s), j < i PROVE t[j] = s[j] /\ j \in 1 .. Len(s) + 1
    BY <1>4, <1>7, <2>3
  <2>4. ASSUME NEW j \in 1 .. Len(s), i < j PROVE t[j + 1] = s[j] /\ j + 1 \in 1 .. Len(s) + 1
    <3>1. j + 1 \in 1 .. Len(s) + 1 /\ ~ (j + 1 < i) /\ j + 1 # i /\ j + 1 # i + 1 /\ (j + 1) - 1 = j
      BY <1>4, <1>5, <2>4
    <3> QED BY <1>7, <3>1
  <2>5. ASSUME NEW j \in 1 .. Len(s), i <= j PROVE t[j + 1].key = s[j].key /\ j + 1 \in 1 .. Len(s) + 1
    <3>1. CASE i = j
      BY <2>1, <2>2, <3>1
    <3>2. CASE i # j
      BY <1>5, <2>4, <2>5, <3>2
    <3> QED BY <3>1, <3>2
  <2> QED BY <2>1, <2>2, <2>3, <2>4, <2>5
<1>12. \A j \in 1 .. Len(s) + 1 : \/ j \in 1 .. Len(s) /\ j < i
                                  \/ j = i
                                  \/ j = i + 1
                                  \/ j - 1 \in 1 .. Len(s) /\ i < j - 1
  BY <1>4, <1>5
<1>13. \A j \in 1 .. Len(s) : s[j].to \in 1 .. n /\ lv[s[j].to] = L - 1 /\ above[s[j].to] = o /\ s[j].to # u.after
  <2>1. \A x \in 1 .. n : lv[x] > 0 => \A j \in 1 .. Len(kids[x]) :
          /\ kids[x][j].to \in 1 .. n /\ lv[kids[x][j].to] = lv[x] - 1 /\ above[kids[x][j].to] = x
          /\ kids[x][j].to # u.after
    BY <1>9 DEF Kin
  <2> QED BY <1>1, <1>2, <2>1
<1>14. \A j, m \in 1 .. Len(s) : s[j].to = s[m].to => j = m
  <2>1. \A x \in 1 .. n : lv[x] > 0 => \A j, m \in 1 .. Len(kids[x]) :
          kids[x][j].to = kids[x][m].to => j = m
    BY <1>9 DEF Kin
  <2> QED BY <1>1, <1>2, <2>1
<1>15. /\ above[u.after] = o /\ lv[u.after] = L - 1 /\ u.old # u.after
       /\ above[u.old] = o
  BY <1>1, <1>9 DEF Waits
\* For each key the next step is where Goes said it would be.
<1>16. ASSUME NEW h \in 1 .. H, NEW k \in Int
       PROVE  \E p \in 1 .. Len(k2[path[h][k]]) :
                At(k2[path[h][k]], k, p) /\ path[h - 1][k] = k2[path[h][k]][p].to
  <2> DEFINE x == path[h][k]
  <2>1. PICK p \in 1 .. Len(kids[x]) : At(kids[x], k, p) /\ path[h - 1][k] = Goes(u, kids[x][p].to, k)
    BY <1>9 DEF Paths
  <2>2. x \in 1 .. n /\ lv[x] = h /\ h > 0
    <3>1. h \in 0 .. H /\ h > 0
      BY <1>2
    <3> QED BY <3>1, OnPath
  <2> HIDE DEF x
  <2>3. CASE x # o
    <3>1. kids[x][p].to # u.old
      <4>1. above[kids[x][p].to] = x
        BY <1>9, <2>1, <2>2 DEF Kin
      <4> QED BY <1>15, <2>3, <4>1
    <3>2. path[h - 1][k] = kids[x][p].to
      BY <2>1, <3>1 DEF Goes
    <3>3. k2[x] = kids[x]
      BY <1>8, <2>2, <2>3
    <3> QED BY <2>1, <3>2, <3>3 DEF x
  <2>4. CASE x = o
    <3>1. p \in 1 .. Len(s) /\ At(s, k, p) /\ path[h - 1][k] = Goes(u, s[p].to, k)
      BY <2>1, <2>4
    <3>2. /\ p < i => At(t, k, p)
          /\ i < p => At(t, k, p + 1)
          /\ p = i /\ k < u.key => At(t, k, i)
          /\ p = i /\ u.key <= k => At(t, k, i + 1)
      BY <1>1, <1>4, <1>5, <1>6, <3>1, KeyAt DEF t, i
    <3>3. CASE p # i
      <4>1. s[p].to # u.old
        BY <1>5, <1>14, <3>1, <3>3
      <4>2. path[h - 1][k] = s[p].to
        BY <3>1, <4>1 DEF Goes
      <4>3. CASE p < i
        <5>1. t[p] = s[p] /\ p \in 1 .. Len(t)
          BY <1>7, <1>11, <3>1, <4>3
        <5> QED BY <1>8, <2>4, <3>2, <4>2, <4>3, <5>1 DEF x
      <4>4. CASE i < p
        <5>1. t[p + 1].to = s[p].to /\ p + 1 \in 1 .. Len(t)
          BY <1>5, <1>7, <1>11, <3>1, <4>4
        <5> QED BY <1>8, <2>4, <3>2, <4>2, <4>4, <5>1 DEF x
      <4> QED BY <1>5, <3>1, <3>3, <4>3, <4>4
    <3>4. CASE p = i /\ k < u.key
      <4>1. path[h - 1][k] = u.old
        BY <1>1, <1>5, <3>1, <3>4 DEF Goes
      <4> QED BY <1>7, <1>8, <1>11, <2>4, <3>2, <3>4, <4>1 DEF x
    <3>5. CASE p = i /\ u.key <= k
      <4>1. path[h - 1][k] = u.after
        BY <1>1, <1>5, <3>1, <3>5 DEF Goes
      <4> QED BY <1>7, <1>8, <1>11, <2>4, <3>2, <3>5, <4>1 DEF x
    <3> QED BY <1>1, <3>3, <3>4, <3>5
  <2> QED BY <2>3, <2>4
<1>17. Paths(k2, path, lv, n, H, root, NoKey)
  <2>1. \A k \in Int : path[H][k] = root
    BY <1>1, <1>9 DEF Paths, Goes
  <2>2. ASSUME NEW h \in 1 .. H, NEW k \in Int
        PROVE  \E p \in 1 .. Len(k2[path[h][k]]) :
                 At(k2[path[h][k]], k, p) /\ path[h - 1][k] = Goes(NoKey, k2[path[h][k]][p].to, k)
    BY <1>10, <1>16
  <2>3. \A k \in Int : path[H][k] = Goes(NoKey, root, k)
    BY <1>10, <2>1
  <2> QED BY <1>9, <2>2, <2>3 DEF Paths
<1>18. Kin(k2, above, lv, n, root, NoKey)
  <2>1. ASSUME NEW x \in 1 .. n, lv[x] > 0, NEW j \in 1 .. Len(k2[x])
        PROVE  /\ k2[x][j].to \in 1 .. n
               /\ lv[k2[x][j].to] = lv[x] - 1
               /\ above[k2[x][j].to] = x
               /\ \A m \in 1 .. Len(k2[x]) : k2[x][m].to = k2[x][j].to => m = j
    <3>1. CASE x # o
      <4>1. k2[x] = kids[x]
        BY <1>8, <3>1
      <4>2. /\ kids[x][j].to \in 1 .. n /\ lv[kids[x][j].to] = lv[x] - 1 /\ above[kids[x][j].to] = x
            /\ \A m \in 1 .. Len(kids[x]) : kids[x][m].to = kids[x][j].to => m = j
        BY <1>9, <2>1, <4>1 DEF Kin
      <4> QED BY <4>1, <4>2
    <3>2. CASE x = o
      <4>1. k2[x] = t /\ j \in 1 .. Len(s) + 1
        BY <1>7, <1>8, <2>1, <3>2
      <4>2. t[j].to \in 1 .. n /\ lv[t[j].to] = L - 1 /\ above[t[j].to] = o
        <5>1. \/ \E m \in 1 .. Len(s) : t[j].to = s[m].to
              \/ t[j].to = u.after
          <6>1. CASE j \in 1 .. Len(s) /\ j < i
            BY <1>11, <6>1
          <6>2. CASE j = i
            BY <1>5, <1>11, <6>2
          <6>3. CASE j = i + 1
            BY <1>11, <6>3
          <6>4. CASE j - 1 \in 1 .. Len(s) /\ i < j - 1
            <7>1. t[(j - 1) + 1].to = s[j - 1].to /\ (j - 1) + 1 = j
              BY <1>4, <1>11, <4>1, <6>4
            <7> QED BY <6>4, <7>1
          <6> QED BY <1>12, <4>1, <6>1, <6>2, <6>3, <6>4
        <5> QED BY <1>1, <1>13, <1>15, <5>1
      <4>3. ASSUME NEW m \in 1 .. Len(s) + 1, t[m].to = t[j].to PROVE m = j
        <5> DEFINE From(y) == IF y < i THEN y ELSE IF y = i THEN i ELSE IF y = i + 1 THEN 0 ELSE y - 1
        <5>1. \A y \in 1 .. Len(s) + 1 :
                \/ y = i + 1 /\ t[y].to = u.after
                \/ y # i + 1 /\ From(y) \in 1 .. Len(s) /\ t[y].to = s[From(y)].to
          <6> SUFFICES ASSUME NEW y \in 1 .. Len(s) + 1
                       PROVE  \/ y = i + 1 /\ t[y].to = u.after
                              \/ y # i + 1 /\ From(y) \in 1 .. Len(s) /\ t[y].to = s[From(y)].to
            OBVIOUS
          <6>1. CASE y \in 1 .. Len(s) /\ y < i
            BY <1>5, <1>11, <6>1
          <6>2. CASE y = i
            BY <1>5, <1>11, <6>2
          <6>3. CASE y = i + 1
            BY <1>11, <6>3
          <6>4. CASE y - 1 \in 1 .. Len(s) /\ i < y - 1
            <7>1. t[(y - 1) + 1].to = s[y - 1].to /\ (y - 1) + 1 = y
              BY <1>4, <1>11, <6>4
            <7>2. From(y) = y - 1 /\ y # i + 1
              BY <1>4, <1>5, <6>4
            <7> QED BY <6>4, <7>1, <7>2
          <6> QED BY <1>12, <6>1, <6>2, <6>3, <6>4
        <5>2. \A y, z \in 1 .. Len(s) + 1 : y # i + 1 /\ z # i + 1 /\ From(y) = From(z) => y = z
          BY <1>4, <1>5
        <5> HIDE DEF From
        <5>3. CASE m = i + 1 \/ j = i + 1
          BY <1>13, <4>1, <4>3, <5>1, <5>3
        <5>4. CASE m # i + 1 /\ j # i + 1
          <6>1. From(m) \in 1 .. Len(s) /\ From(j) \in 1 .. Len(s) /\ s[From(m)].to = s[From(j)].to
            BY <4>1, <4>3, <5>1, <5>4
          <6>2. From(m) = From(j)
            BY <1>14, <6>1
          <6> QED BY <4>1, <5>2, <5>4, <6>2
        <5> QED BY <5>3, <5>4
      <4> QED BY <1>7, <3>2, <4>1, <4>2, <4>3
    <3> QED BY <3>1, <3>2
  <2>2. above[root] = 0
    BY <1>9 DEF Kin
  <2> QED BY <1>10, <2>1, <2>2 DEF Kin
<1>19. Separators(k2, path, lv, n)
  <2>1. ASSUME NEW x \in 1 .. n, lv[x] > 0, NEW j \in 1 .. Len(k2[x]) - 1
        PROVE  /\ path[lv[x]][k2[x][j].key] = x
               /\ \A m \in 1 .. Len(k2[x]) - 1 : j < m => k2[x][j].key < k2[x][m].key
    <3>1. CASE x # o
      BY <1>8, <1>9, <2>1, <3>1 DEF Separators
    <3>2. CASE x = o
      <4>1. k2[x] = t /\ Len(t) - 1 = Len(s) /\ j \in 1 .. Len(s)
        BY <1>4, <1>7, <1>8, <2>1, <3>2
      <4>2. \A y \in 1 .. Len(s) - 1 :
              path[L][s[y].key] = o /\ \A z \in 1 .. Len(s) - 1 : y < z => s[y].key < s[z].key
        BY <1>1, <1>2, <1>9 DEF Separators
      <4>3. \A y \in 1 .. Len(s) : \/ y < i /\ y \in 1 .. Len(s) - 1 /\ t[y].key = s[y].key
                                   \/ y = i /\ t[y].key = u.key
                                   \/ i < y /\ y - 1 \in 1 .. Len(s) - 1 /\ t[y].key = s[y - 1].key
        <5> SUFFICES ASSUME NEW y \in 1 .. Len(s)
                     PROVE  \/ y < i /\ y \in 1 .. Len(s) - 1 /\ t[y].key = s[y].key
                            \/ y = i /\ t[y].key = u.key
                            \/ i < y /\ y - 1 \in 1 .. Len(s) - 1 /\ t[y].key = s[y - 1].key
          OBVIOUS
        <5>1. CASE y < i
          BY <1>4, <1>5, <1>11, <5>1
        <5>2. CASE y = i
          BY <1>11, <5>2
        <5>3. CASE i < y
          <6>1. y - 1 \in 1 .. Len(s) /\ i <= y - 1 /\ (y - 1) + 1 = y /\ y - 1 \in 1 .. Len(s) - 1
            BY <1>4, <1>5, <5>3
          <6>2. t[(y - 1) + 1].key = s[y - 1].key
            BY <1>11, <6>1
          <6> QED BY <5>3, <6>1, <6>2
        <5> QED BY <1>5, <5>1, <5>2, <5>3
      <4>4. path[L][t[j].key] = o
        BY <1>1, <4>1, <4>2, <4>3
      <4>5. ASSUME NEW m \in 1 .. Len(s), j < m PROVE t[j].key < t[m].key
        <5>1. CASE m < i
          <6>1. j < i /\ m < i
            BY <1>5, <4>1, <4>5, <5>1
          <6>2. /\ j \in 1 .. Len(s) - 1 /\ t[j].key = s[j].key
                /\ m \in 1 .. Len(s) - 1 /\ t[m].key = s[m].key
            BY <1>5, <4>1, <4>3, <6>1
          <6> QED BY <4>2, <4>5, <6>2
        <5>2. CASE m = i
          <6>1. t[m].key = u.key
            BY <1>11, <5>2
          <6>2. j < i /\ j \in 1 .. Len(s) - 1 /\ t[j].key = s[j].key
            BY <1>5, <4>1, <4>3, <4>5, <5>2
          <6> QED BY <1>5, <6>1, <6>2
        <5>3. CASE i = j
          <6>2. i < m /\ m - 1 \in Int /\ i <= m - 1
            BY <1>5, <4>5, <5>3
          <6>1. t[j].key = u.key /\ t[m].key = s[m - 1].key /\ m - 1 \in 1 .. Len(s) - 1
            <7>1. t[m].key = s[m - 1].key /\ m - 1 \in 1 .. Len(s) - 1
              BY <1>5, <4>3, <6>2
            <7>2. t[j].key = u.key
              BY <1>11, <5>3
            <7> QED BY <7>1, <7>2
          <6> QED BY <1>5, <6>1, <6>2
        <5>4. CASE i < j
          <6>1. /\ t[j].key = s[j - 1].key /\ j - 1 \in 1 .. Len(s) - 1
                /\ t[m].key = s[m - 1].key /\ m - 1 \in 1 .. Len(s) - 1 /\ j - 1 < m - 1
            BY <1>5, <4>1, <4>3, <4>5, <5>4
          <6> QED BY <4>2, <6>1
        <5>5. CASE j < i /\ i < m
          <6>1. /\ t[j].key = s[j].key /\ j \in 1 .. Len(s) - 1
                /\ t[m].key = s[m - 1].key /\ m - 1 \in 1 .. Len(s) - 1 /\ j < m - 1
            <7>1. /\ t[j].key = s[j].key /\ j \in 1 .. Len(s) - 1
                  /\ t[m].key = s[m - 1].key /\ m - 1 \in 1 .. Len(s) - 1
              BY <1>5, <4>1, <4>3, <5>5
            <7>2. j < m - 1
              BY <1>5, <4>1, <5>5
            <7> QED BY <7>1, <7>2
          <6> QED BY <4>2, <6>1
        <5>6. i \in Int /\ j \in Int /\ m \in Int
          BY <1>5, <4>1
        <5> QED BY <4>5, <5>1, <5>2, <5>3, <5>4, <5>5, <5>6
      <4> QED BY <3>2, <4>1, <4>4, <4>5
    <3> QED BY <3>1, <3>2
  <2> QED BY <2>1 DEF Separators
<1>20. Records(k2, path, lv, n, d)
  <2>1. \A x \in 1 .. n : lv[x] = 0 => k2[x] = kids[x]
    BY <1>2, <1>8
  <2>2. \A k \in Keys : d[k] # Absent => \E p \in 1 .. Len(k2[path[0][k]]) : k2[path[0][k]][p].key = k
    <3> SUFFICES ASSUME NEW k \in Keys, d[k] # Absent
                 PROVE  \E p \in 1 .. Len(k2[path[0][k]]) : k2[path[0][k]][p].key = k
      OBVIOUS
    <3>1. \E p \in 1 .. Len(kids[path[0][k]]) : kids[path[0][k]][p].key = k
      BY <1>9 DEF Records
    <3>2. path[0][k] \in 1 .. n /\ lv[path[0][k]] = 0
      <4>1. k \in Int /\ 0 \in 0 .. H
        BY <1>2
      <4> QED BY <4>1, OnPath
    <3>3. k2[path[0][k]] = kids[path[0][k]]
      BY <2>1, <3>2
    <3> QED BY <3>1, <3>3
  <2> QED BY <1>9, <2>1, <2>2 DEF Records
<1>21. Typed(k2, above, path, lv, n, H)
  BY <1>8, <1>9 DEF Typed
<1>22. Waits(above, path, lv, n, root, NoKey)
  BY <1>10 DEF Waits
<1>23. Tree(k2, above, path, lv, n, H, root, NoKey, d)
  BY <1>17, <1>18, <1>19, <1>20, <1>21, <1>22 DEF Tree
<1> QED BY <1>23 DEF k2

-----------------------------------------------------------------------------
(* A new root, n + 1, over the old one and the node split from it.         *)
RootKids(kids, n, u) ==
  [x \in 1 .. n + 1 |-> IF x = n + 1 THEN <<[key |-> u.key, to |-> u.old], [key |-> Junk, to |-> u.after]>>
                        ELSE kids[x]]
RootAbove(above, n, u) ==
  [x \in 1 .. n + 1 |-> IF x = n + 1 THEN 0 ELSE IF x \in {u.old, u.after} THEN n + 1 ELSE above[x]]
RootPath(path, n, H) == [path EXCEPT ![H + 1] = [k \in Int |-> n + 1]]
RootLv(lv, n, H) == [x \in 1 .. n + 1 |-> IF x = n + 1 THEN H + 1 ELSE lv[x]]

\* A new root over the two halves of the old one: nobody waits any more.
LEMMA AddRoot ==
  ASSUME NEW kids, NEW above, NEW path, NEW lv, NEW n, NEW H, NEW root, NEW u, NEW d,
         Tree(kids, above, path, lv, n, H, root, u, d), u.op = "insert", u.at = 0,
         Keys \subseteq Int, Junk \in Int
  PROVE  Tree(RootKids(kids, n, u), RootAbove(above, n, u), RootPath(path, n, H), RootLv(lv, n, H),
              n + 1, H + 1, n + 1, NoKey, d)
<1> DEFINE t  == n + 1
           G  == H + 1
           k2 == RootKids(kids, n, u)
           a2 == RootAbove(above, n, u)
           p2 == RootPath(path, n, H)
           l2 == RootLv(lv, n, H)
           low  == [key |-> u.key, to |-> u.old]
           high == [key |-> Junk, to |-> u.after]
           s    == <<low, high>>
<1>1. /\ n \in Nat /\ H \in Nat \ {0} /\ root \in 1 .. n /\ lv[root] = H
      /\ \A x \in 1 .. n : kids[x] \in Seq(Kid) /\ above[x] \in Nat /\ lv[x] \in 0 .. H
  BY Bounds, NodeTypes
<1>2. \A h \in 0 .. H, k \in Int : path[h][k] \in 1 .. n /\ lv[path[h][k]] = h
  BY OnPath
<1>3. /\ Typed(kids, above, path, lv, n, H) /\ Paths(kids, path, lv, n, H, root, u)
      /\ Kin(kids, above, lv, n, root, u) /\ Separators(kids, path, lv, n)
      /\ Records(kids, path, lv, n, d) /\ Waits(above, path, lv, n, root, u)
  BY DEF Tree
<1>4. u.key \in Int /\ u.old \in 1 .. n /\ u.after \in 1 .. n /\ u.old = root
  BY Waiting
<1>5. /\ lv[u.old] = H /\ lv[u.after] = H /\ u.old # u.after
      /\ \A k \in Int : (path[H][k] = u.old => k < u.key) /\ (path[H][k] = u.after => k >= u.key)
      /\ path[H][u.key] = u.after
  BY <1>1, <1>3, <1>4 DEF Waits
<1>6. /\ t \in Nat /\ t \in 1 .. t /\ t \notin 1 .. n /\ 1 .. t = 1 .. n \union {t} /\ t # 0
      /\ G \in Nat \ {0} /\ G \notin 0 .. H /\ 0 .. G = 0 .. H \union {G} /\ 1 .. G = 1 .. H \union {G}
      /\ \A h \in 1 .. H : h # G /\ h \in Nat /\ h - 1 \in Nat /\ h - 1 # G /\ h \in 0 .. H /\ h - 1 \in 0 .. H
      /\ G - 1 = H /\ H # G
  BY <1>1
<1>7. /\ s \in Seq(Kid) /\ Len(s) = 2 /\ s[1] = low /\ s[2] = high
      /\ s[1].key = u.key /\ s[1].to = u.old /\ s[2].to = u.after
  <2>1. low \in Kid /\ high \in Kid
    BY <1>1, <1>4 DEF Kid
  <2> QED BY <2>1
<1>8. k2 \in [1 .. t -> Seq(Kid)] /\ k2[t] = s /\ \A x \in 1 .. n : k2[x] = kids[x]
  BY <1>1, <1>6, <1>7 DEF RootKids
<1>9. /\ a2 \in [1 .. t -> Nat] /\ a2[t] = 0 /\ a2[u.old] = t /\ a2[u.after] = t
      /\ \A x \in 1 .. n : x # u.old /\ x # u.after => a2[x] = above[x]
  BY <1>1, <1>4, <1>6 DEF RootAbove
<1>10. /\ p2 \in [Nat -> [Int -> Nat]] /\ \A k \in Int : p2[G][k] = t
       /\ \A h \in Nat : h # G => p2[h] = path[h]
  BY <1>3, <1>6 DEF RootPath, Typed
<1>11. l2 \in [1 .. t -> 0 .. G] /\ l2[t] = G /\ \A x \in 1 .. n : l2[x] = lv[x]
  BY <1>1, <1>6 DEF RootLv
<1>12. NoKey.op # "insert" /\ NoKey \in Ups /\ \A c, k : Goes(NoKey, c, k) = c
  BY DEF NoKey, Goes, Ups
<1>13. \A x \in 1 .. n : \A i : lv[x] > 0 /\ i \in 1 .. Len(kids[x]) =>
          kids[x][i].to # u.old /\ kids[x][i].to # u.after
  <2> SUFFICES ASSUME NEW x \in 1 .. n, NEW i \in 1 .. Len(kids[x]), lv[x] > 0
               PROVE  kids[x][i].to # u.old /\ kids[x][i].to # u.after
    OBVIOUS
  <2>1. lv[kids[x][i].to] = lv[x] - 1 /\ kids[x][i].to # u.after
    BY <1>3 DEF Kin
  <2>2. lv[x] \in 0 .. H
    BY <1>1
  <2> QED BY <1>1, <1>5, <2>1, <2>2
<1> HIDE DEF t, G, k2, a2, p2, l2, s, low, high
<1>14. Typed(k2, a2, p2, l2, t, G)
  BY <1>6, <1>8, <1>9, <1>10, <1>11 DEF Typed
<1>15. Paths(k2, p2, l2, t, G, t, NoKey)
  <2>1. t \in 1 .. t /\ l2[t] = G
    BY <1>6, <1>11
  <2>2. ASSUME NEW h \in 0 .. G, NEW k \in Int PROVE p2[h][k] \in 1 .. t /\ l2[p2[h][k]] = h
    <3>1. CASE h = G
      BY <1>6, <1>10, <1>11, <3>1
    <3>2. CASE h # G
      <4> DEFINE x == path[h][k]
      <4>1. h \in 0 .. H /\ h \in Nat
        BY <1>6, <3>2
      <4>2. x \in 1 .. n /\ lv[x] = h
        BY <1>2, <4>1
      <4>3. p2[h][k] = x
        BY <1>10, <3>2, <4>1
      <4> HIDE DEF x
      <4> QED BY <1>6, <1>11, <4>2, <4>3
    <3> QED BY <3>1, <3>2
  <2>3. \A k \in Int : p2[G][k] = Goes(NoKey, t, k)
    BY <1>10, <1>12
  <2>4. ASSUME NEW h \in 1 .. G, NEW k \in Int
        PROVE  \E i \in 1 .. Len(k2[p2[h][k]]) :
                 At(k2[p2[h][k]], k, i) /\ p2[h - 1][k] = Goes(NoKey, k2[p2[h][k]][i].to, k)
    <3>1. CASE h = G
      <4>1. p2[h][k] = t /\ k2[t] = s /\ p2[h - 1][k] = path[H][k]
        BY <1>1, <1>6, <1>8, <1>10, <3>1
      <4>2. path[H][k] = Goes(u, u.old, k)
        BY <1>3, <1>4 DEF Paths
      <4>3. CASE k < u.key
        <5>1. path[H][k] = s[1].to
          BY <1>4, <1>7, <4>2, <4>3 DEF Goes
        <5>2. At(s, k, 1)
          <6>1. 1 \in 1 .. 2 /\ \A j \in 1 .. 2 - 1 : j = 1
            OBVIOUS
          <6>2. \A j \in 1 .. Len(s) - 1 : s[j].key <= k <=> j < 1
            BY <1>4, <1>7, <4>3, <6>1
          <6> QED BY <1>7, <6>1, <6>2 DEF At
        <5>3. k2[p2[h][k]] = s /\ 1 \in 1 .. Len(s)
          BY <1>7, <4>1
        <5>4. p2[h - 1][k] = Goes(NoKey, s[1].to, k)
          BY <1>12, <4>1, <5>1
        <5> QED BY <5>2, <5>3, <5>4
      <4>4. CASE k >= u.key
        <5>1. path[H][k] = s[2].to
          BY <1>7, <4>2, <4>4 DEF Goes
        <5>2. At(s, k, 2)
          <6>1. 2 \in 1 .. 2 /\ \A j \in 1 .. 2 - 1 : j = 1
            OBVIOUS
          <6>2. \A j \in 1 .. Len(s) - 1 : s[j].key <= k <=> j < 2
            BY <1>4, <1>7, <4>4, <6>1
          <6> QED BY <1>7, <6>1, <6>2 DEF At
        <5>3. k2[p2[h][k]] = s /\ 2 \in 1 .. Len(s)
          BY <1>7, <4>1
        <5>4. p2[h - 1][k] = Goes(NoKey, s[2].to, k)
          BY <1>12, <4>1, <5>1
        <5> QED BY <5>2, <5>3, <5>4
      <4> QED BY <1>4, <4>3, <4>4
    <3>2. CASE h # G
      <4> DEFINE x == path[h][k]
      <4>1. h \in 1 .. H /\ h \in Nat /\ h - 1 \in Nat /\ h - 1 # G /\ h \in 0 .. H /\ h > 0
        BY <1>6, <3>2
      <4>2. x \in 1 .. n /\ lv[x] = h
        BY <1>2, <4>1
      <4>3. \E i \in 1 .. Len(kids[x]) : At(kids[x], k, i) /\ path[h - 1][k] = Goes(u, kids[x][i].to, k)
        BY <1>3, <4>1 DEF Paths
      <4>4. p2[h][k] = x /\ p2[h - 1][k] = path[h - 1][k]
        BY <1>10, <3>2, <4>1
      <4> HIDE DEF x
      <4>5. PICK i \in 1 .. Len(kids[x]) : At(kids[x], k, i) /\ path[h - 1][k] = Goes(u, kids[x][i].to, k)
        BY <4>3
      <4>6. Goes(u, kids[x][i].to, k) = kids[x][i].to
        BY <1>13, <4>1, <4>2 DEF Goes
      <4> QED BY <1>8, <1>12, <4>2, <4>4, <4>5, <4>6
    <3> QED BY <3>1, <3>2
  <2>5. ASSUME NEW x \in 1 .. t PROVE \E k \in Int : p2[l2[x]][k] = x
    <3>1. CASE x = t
      BY <1>10, <1>11, <3>1
    <3>2. CASE x # t
      <4>1. x \in 1 .. n
        BY <1>6, <3>2
      <4>2. PICK k \in Int : path[lv[x]][k] = x
        BY <4>1, Reached
      <4>3. lv[x] \in 0 .. H /\ lv[x] \in Nat /\ lv[x] # G
        BY <1>1, <1>6, <4>1
      <4> QED BY <1>10, <1>11, <4>1, <4>2, <4>3
    <3> QED BY <3>1, <3>2
  <2> QED BY <2>1, <2>2, <2>3, <2>4, <2>5 DEF Paths
<1>16. Kin(k2, a2, l2, t, t, NoKey)
  <2>1. ASSUME NEW x \in 1 .. t, l2[x] > 0, NEW i \in 1 .. Len(k2[x])
        PROVE  /\ k2[x][i].to \in 1 .. t
               /\ l2[k2[x][i].to] = l2[x] - 1
               /\ a2[k2[x][i].to] = x
               /\ \A j \in 1 .. Len(k2[x]) : k2[x][j].to = k2[x][i].to => j = i
    <3>1. CASE x = t
      <4>1. k2[x] = s /\ l2[x] = G
        BY <1>8, <1>11, <3>1
      <4>2. \A j \in 1 .. Len(s) : (j = 1 /\ s[j].to = u.old) \/ (j = 2 /\ s[j].to = u.after)
        BY <1>7
      <4>3. /\ l2[u.old] = H /\ l2[u.after] = H /\ u.old \in 1 .. t /\ u.after \in 1 .. t
        BY <1>4, <1>5, <1>6, <1>11
      <4>4. G - 1 = H /\ a2[u.old] = t /\ a2[u.after] = t /\ u.old # u.after
        BY <1>5, <1>6, <1>9
      <4>5. i \in 1 .. Len(s)
        BY <2>1, <4>1
      <4>6. s[i].to = u.old \/ s[i].to = u.after
        BY <4>2, <4>5
      <4>7. /\ s[i].to \in 1 .. t /\ l2[s[i].to] = G - 1 /\ a2[s[i].to] = t
        BY <4>3, <4>4, <4>6
      <4>8. \A j \in 1 .. Len(s) : s[j].to = s[i].to => j = i
        BY <4>2, <4>4, <4>5
      <4> HIDE DEF s
      <4> QED BY <3>1, <4>1, <4>7, <4>8
    <3>2. CASE x # t
      <4>1. x \in 1 .. n /\ k2[x] = kids[x] /\ l2[x] = lv[x]
        BY <1>6, <1>8, <1>11, <3>2
      <4>2. /\ kids[x][i].to \in 1 .. n /\ lv[kids[x][i].to] = lv[x] - 1 /\ above[kids[x][i].to] = x
            /\ \A j \in 1 .. Len(kids[x]) : kids[x][j].to = kids[x][i].to => j = i
        BY <1>3, <2>1, <4>1 DEF Kin
      <4>3. kids[x][i].to # u.old /\ kids[x][i].to # u.after
        BY <1>13, <2>1, <4>1
      <4> DEFINE c == kids[x][i].to
      <4>4. a2[c] = x /\ l2[c] = lv[x] - 1 /\ c \in 1 .. t
        BY <1>6, <1>9, <1>11, <4>2, <4>3
      <4> QED BY <4>1, <4>2, <4>4
    <3> QED BY <3>1, <3>2
  <2>2. a2[t] = 0
    BY <1>9
  <2> QED BY <1>12, <2>1, <2>2 DEF Kin
<1>17. Separators(k2, p2, l2, t)
  <2>1. ASSUME NEW x \in 1 .. t, l2[x] > 0, NEW i \in 1 .. Len(k2[x]) - 1
        PROVE  /\ p2[l2[x]][k2[x][i].key] = x
               /\ \A j \in 1 .. Len(k2[x]) - 1 : i < j => k2[x][i].key < k2[x][j].key
    <3>1. CASE x = t
      <4>1. k2[x] = s /\ l2[x] = G /\ i \in 1 .. 2 - 1
        BY <1>7, <1>8, <1>11, <2>1, <3>1
      <4>2. \A j \in 1 .. 2 - 1 : j = 1
        OBVIOUS
      <4>3. i = 1
        BY <4>1, <4>2
      <4>4. \A j \in 1 .. Len(k2[x]) - 1 : j = 1
        BY <1>7, <4>1, <4>2
      <4>5. p2[G][u.key] = t
        BY <1>4, <1>10
      <4> QED BY <1>7, <3>1, <4>1, <4>3, <4>4, <4>5
    <3>2. CASE x # t
      <4>1. x \in 1 .. n /\ k2[x] = kids[x] /\ l2[x] = lv[x]
        BY <1>6, <1>8, <1>11, <3>2
      <4>2. /\ path[lv[x]][kids[x][i].key] = x
            /\ \A j \in 1 .. Len(kids[x]) - 1 : i < j => kids[x][i].key < kids[x][j].key
        BY <1>3, <2>1, <4>1 DEF Separators
      <4>3. p2[lv[x]] = path[lv[x]]
        <5>1. lv[x] \in 0 .. H /\ lv[x] \in Nat /\ lv[x] # G
          BY <1>1, <1>6, <4>1
        <5> QED BY <1>10, <5>1
      <4> QED BY <4>1, <4>2, <4>3
    <3> QED BY <3>1, <3>2
  <2> QED BY <2>1 DEF Separators
<1>18. Records(k2, p2, l2, t, d)
  <2>1. p2[0] = path[0] /\ 0 # G /\ 0 \in 0 .. H
    <3>1. 0 \in Nat /\ 0 # G /\ 0 \in 0 .. H
      BY <1>1, <1>6
    <3> QED BY <1>10, <3>1
  <2>2. ASSUME NEW x \in 1 .. t, l2[x] = 0 PROVE x \in 1 .. n /\ k2[x] = kids[x] /\ lv[x] = 0
    BY <1>6, <1>8, <1>11, <2>1, <2>2
  <2>3. ASSUME NEW k \in Keys PROVE k2[p2[0][k]] = kids[path[0][k]]
    <3>1. k \in Int
      OBVIOUS
    <3> DEFINE x == path[0][k]
    <3>2. x \in 1 .. n
      BY <1>2, <2>1, <3>1
    <3>3. p2[0][k] = x
      BY <2>1
    <3> HIDE DEF x
    <3>4. k2[x] = kids[x]
      BY <1>8, <3>2
    <3> QED BY <3>3, <3>4 DEF x
  <2>4. ASSUME NEW x \in 1 .. t, l2[x] = 0
        PROVE  \A i \in 1 .. Len(k2[x]) :
                 /\ k2[x][i].key \in Keys /\ p2[0][k2[x][i].key] = x
                 /\ d[k2[x][i].key] = k2[x][i].to /\ k2[x][i].to \in Vals
                 /\ \A j \in 1 .. Len(k2[x]) : i < j => k2[x][i].key < k2[x][j].key
    <3>1. \A i \in 1 .. Len(kids[x]) :
            /\ kids[x][i].key \in Keys /\ path[0][kids[x][i].key] = x
            /\ d[kids[x][i].key] = kids[x][i].to /\ kids[x][i].to \in Vals
            /\ \A j \in 1 .. Len(kids[x]) : i < j => kids[x][i].key < kids[x][j].key
      BY <1>3, <2>2, <2>4 DEF Records
    <3> QED BY <2>1, <2>2, <2>4, <3>1
  <2>5. ASSUME NEW k \in Keys, d[k] # Absent
        PROVE  \E i \in 1 .. Len(k2[p2[0][k]]) : k2[p2[0][k]][i].key = k
    <3>1. \E i \in 1 .. Len(kids[path[0][k]]) : kids[path[0][k]][i].key = k
      BY <1>3, <2>5 DEF Records
    <3> QED BY <2>3, <3>1
  <2> QED BY <2>4, <2>5 DEF Records
<1>19. Waits(a2, p2, l2, t, t, NoKey)
  BY <1>12 DEF Waits
<1>20. Tree(k2, a2, p2, l2, t, G, t, NoKey, d)
  BY <1>14, <1>15, <1>16, <1>17, <1>18, <1>19 DEF Tree
<1> QED BY <1>20 DEF k2, a2, p2, l2, t, G

-----------------------------------------------------------------------------
(* The code splits a full node and then adds to one half: the same as      *)
(* adding to the node and splitting that.                                  *)

\* Elements from a to b, wherever they are.
LEMMA Piece ==
  ASSUME NEW s \in Seq(Kid), NEW a \in 1 .. Len(s) + 1, NEW b \in Nat, a <= b + 1, b <= Len(s)
  PROVE  /\ SubSeq(s, a, b) \in Seq(Kid) /\ Len(SubSeq(s, a, b)) = b - a + 1
         /\ \A j \in 1 .. b - a + 1 : SubSeq(s, a, b)[j] = s[a + j - 1] /\ a + j - 1 \in 1 .. Len(s)
<1>1. Len(s) \in Nat /\ a \in Nat
  OBVIOUS
<1>2. \A j \in a .. b : s[j] \in Kid
  <2>1. \A j \in a .. b : j \in 1 .. Len(s)
    BY <1>1
  <2> QED BY <2>1
<1>3. SubSeq(s, a, b) \in Seq(Kid) /\ Len(SubSeq(s, a, b)) = IF a <= b THEN b - a + 1 ELSE 0
  BY <1>1, <1>2, SubSeqProperties
<1>4. \A j \in 1 .. b - a + 1 : SubSeq(s, a, b)[j] = s[a + j - 1]
  BY <1>1, <1>2, SubSeqProperties
<1>5. \A j \in 1 .. b - a + 1 : a + j - 1 \in 1 .. Len(s)
  BY <1>1
<1> QED BY <1>1, <1>3, <1>4, <1>5

\* A position with the smaller keys before it, and no others, is LowerBound.
LEMMA LowerOne ==
  ASSUME NEW s \in Seq(Kid), Sorted(s, Len(s)), NEW k \in Int, NEW b \in 1 .. Len(s) + 1,
         \A j \in 1 .. Len(s) : s[j].key < k <=> j < b
  PROVE  LowerBound(s, k) = b
<1> DEFINE c == LowerBound(s, k)
<1>1. c \in 1 .. Len(s) + 1 /\ \A j \in 1 .. Len(s) : s[j].key < k <=> j < c
  BY LowerBoundIs
<1>2. Len(s) \in Nat
  OBVIOUS
<1> HIDE DEF c
<1>3. c < b => c \in 1 .. Len(s)
  BY <1>1, <1>2
<1>4. b < c => b \in 1 .. Len(s)
  BY <1>1, <1>2
<1>5. c \in Int /\ b \in Int
  BY <1>1
<1>6. ~ (c < b)
  BY <1>1, <1>3, <1>5
<1>7. ~ (b < c)
  BY <1>1, <1>4, <1>5
<1> QED BY <1>5, <1>6, <1>7 DEF c

\* A record that belongs into the first p places, or behind the last of them.
LEMMA RecordLow ==
  ASSUME NEW s \in Seq(Kid), Sorted(s, Len(s)), NEW k \in Int, NEW v \in Int \union Vals,
         \A i \in 1 .. Len(s) : s[i].key # k,
         NEW p \in 0 .. Len(s), LowerBound(s, k) <= p + 1
  PROVE  LET big == WithRecord(s, k, v) IN
         /\ WithRecord(SubSeq(s, 1, p), k, v) = SubSeq(big, 1, p + 1)
         /\ SubSeq(s, p + 1, Len(s)) = SubSeq(big, p + 2, Len(big))
<1> DEFINE b   == LowerBound(s, k)
           big == WithRecord(s, k, v)
           low == SubSeq(s, 1, p)
           t   == WithRecord(low, k, v)
<1>0. Sorted(s, Len(s)) /\ \A i \in 1 .. Len(s) : s[i].key # k
  OBVIOUS
<1>1. /\ b \in 1 .. Len(s) + 1
      /\ \A j \in 1 .. Len(s) : s[j].key < k <=> j < b
      /\ big \in Seq(Kid) /\ Len(big) = Len(s) + 1
      /\ \A j \in 1 .. Len(s) + 1 : big[j] = IF j < b THEN s[j] ELSE IF j = b THEN [key |-> k, to |-> v] ELSE s[j - 1]
  <2>1. b \in 1 .. Len(s) + 1 /\ \A j \in 1 .. Len(s) : s[j].key < k <=> j < b
    BY LowerBoundIs
  <2>2. /\ big \in Seq(Kid) /\ Len(big) = Len(s) + 1
        /\ \A j \in 1 .. Len(s) + 1 :
             big[j] = IF j < b THEN s[j] ELSE IF j = b THEN [key |-> k, to |-> v] ELSE s[j - 1]
    BY <1>0, WithRecordIs
  <2> QED BY <2>1, <2>2
<1>2. Len(s) \in Nat /\ p \in Nat /\ b <= p + 1 /\ p <= Len(s)
  OBVIOUS
<1>3. /\ low \in Seq(Kid) /\ Len(low) = p
      /\ \A j \in 1 .. p : low[j] = s[j] /\ j \in 1 .. Len(s)
  <2>1. /\ low \in Seq(Kid) /\ Len(low) = p - 1 + 1
        /\ \A j \in 1 .. p - 1 + 1 : low[j] = s[1 + j - 1] /\ 1 + j - 1 \in 1 .. Len(s)
    BY <1>2, Piece
  <2>2. p - 1 + 1 = p /\ \A j \in 1 .. p : 1 + j - 1 = j
    BY <1>2
  <2> QED BY <2>1, <2>2
<1> HIDE DEF b, big, low
<1>4. Sorted(low, Len(low))
  BY <1>3 DEF Sorted
<1>5. LowerBound(low, k) = b
  <2>1. b \in 1 .. Len(low) + 1 /\ \A j \in 1 .. Len(low) : low[j].key < k <=> j < b
    BY <1>1, <1>2, <1>3
  <2> QED BY <1>3, <1>4, <2>1, LowerOne
<1>6. /\ t \in Seq(Kid) /\ Len(t) = p + 1
      /\ \A j \in 1 .. p + 1 : t[j] = IF j < b THEN low[j] ELSE IF j = b THEN [key |-> k, to |-> v] ELSE low[j - 1]
  <2>1. \A i \in 1 .. Len(low) : low[i].key # k
    BY <1>3
  <2>2. /\ t \in Seq(Kid) /\ Len(t) = Len(low) + 1
        /\ \A j \in 1 .. Len(low) + 1 :
             t[j] = IF j < LowerBound(low, k) THEN low[j]
                    ELSE IF j = LowerBound(low, k) THEN [key |-> k, to |-> v] ELSE low[j - 1]
    <3>1. low \in Seq(Kid)
      BY <1>3
    <3> QED BY <1>4, <2>1, <3>1, WithRecordIs
  <2> HIDE DEF t
  <2> QED BY <1>3, <1>5, <2>2
<1> HIDE DEF t
<1>7. /\ SubSeq(big, 1, p + 1) \in Seq(Kid) /\ Len(SubSeq(big, 1, p + 1)) = p + 1
      /\ \A j \in 1 .. p + 1 : SubSeq(big, 1, p + 1)[j] = big[j] /\ j \in 1 .. Len(s) + 1
  <2>1. /\ SubSeq(big, 1, p + 1) \in Seq(Kid) /\ Len(SubSeq(big, 1, p + 1)) = (p + 1) - 1 + 1
        /\ \A j \in 1 .. (p + 1) - 1 + 1 : SubSeq(big, 1, p + 1)[j] = big[1 + j - 1] /\ 1 + j - 1 \in 1 .. Len(big)
    <3>1. 1 \in 1 .. Len(big) + 1 /\ p + 1 \in Nat /\ 1 <= (p + 1) + 1 /\ p + 1 <= Len(big)
      BY <1>1, <1>2
    <3> QED BY <1>1, <3>1, Piece
  <2>2. (p + 1) - 1 + 1 = p + 1 /\ \A j \in 1 .. p + 1 : 1 + j - 1 = j
    BY <1>2
  <2> QED BY <1>1, <2>1, <2>2
<1>8. t = SubSeq(big, 1, p + 1)
  <2>1. ASSUME NEW j \in 1 .. p + 1 PROVE t[j] = SubSeq(big, 1, p + 1)[j]
    <3>1. SubSeq(big, 1, p + 1)[j] = big[j] /\ j \in 1 .. Len(s) + 1
      BY <1>7
    <3>2. CASE j < b
      <4>1. j \in 1 .. p
        BY <1>1, <1>2, <3>2
      <4> QED BY <1>1, <1>3, <1>6, <3>1, <3>2, <4>1
    <3>3. CASE j = b
      <4>1. t[j] = [key |-> k, to |-> v] /\ big[j] = [key |-> k, to |-> v]
        BY <1>1, <1>6, <3>1, <3>3
      <4> QED BY <3>1, <4>1
    <3>4. CASE b < j
      <4>1. j - 1 \in 1 .. p
        BY <1>1, <1>2, <3>4
      <4>2. t[j] = low[j - 1] /\ big[j] = s[j - 1]
        BY <1>1, <1>6, <3>1, <3>4
      <4> QED BY <1>3, <3>1, <4>1, <4>2
    <3> QED BY <1>1, <3>2, <3>3, <3>4
  <2> QED BY <1>6, <1>7, <2>1, SameSeq
<1> DEFINE x == SubSeq(s, p + 1, Len(s))
           y == SubSeq(big, p + 2, Len(big))
<1>9. /\ x \in Seq(Kid) /\ Len(x) = Len(s) - p
      /\ \A j \in 1 .. Len(s) - p : x[j] = s[p + j]
  <2>1. /\ x \in Seq(Kid) /\ Len(x) = Len(s) - (p + 1) + 1
        /\ \A j \in 1 .. Len(s) - (p + 1) + 1 : x[j] = s[(p + 1) + j - 1]
    <3>1. p + 1 \in 1 .. Len(s) + 1 /\ Len(s) \in Nat /\ p + 1 <= Len(s) + 1 /\ Len(s) <= Len(s)
      BY <1>2
    <3> QED BY <3>1, Piece
  <2>2. Len(s) - (p + 1) + 1 = Len(s) - p /\ \A j \in 1 .. Len(s) - p : (p + 1) + j - 1 = p + j
    BY <1>2
  <2> QED BY <2>1, <2>2
<1>10. /\ y \in Seq(Kid) /\ Len(y) = Len(s) - p
       /\ \A j \in 1 .. Len(s) - p : y[j] = big[p + 1 + j] /\ p + 1 + j \in 1 .. Len(s) + 1
  <2>1. /\ y \in Seq(Kid) /\ Len(y) = Len(big) - (p + 2) + 1
        /\ \A j \in 1 .. Len(big) - (p + 2) + 1 : y[j] = big[(p + 2) + j - 1] /\ (p + 2) + j - 1 \in 1 .. Len(big)
    <3>1. p + 2 \in 1 .. Len(big) + 1 /\ Len(big) \in Nat /\ p + 2 <= Len(big) + 1 /\ Len(big) <= Len(big)
      BY <1>1, <1>2
    <3> QED BY <1>1, <3>1, Piece
  <2>2. Len(big) - (p + 2) + 1 = Len(s) - p /\ \A j \in 1 .. Len(s) - p : (p + 2) + j - 1 = p + 1 + j
    BY <1>1, <1>2
  <2> QED BY <1>1, <2>1, <2>2
<1> HIDE DEF x, y
<1>11. ASSUME NEW j \in 1 .. Len(s) - p PROVE x[j] = y[j]
  <2>1. p + 1 + j \in 1 .. Len(s) + 1 /\ ~ (p + 1 + j < b) /\ p + 1 + j # b /\ (p + 1 + j) - 1 = p + j
    BY <1>1, <1>2
  <2>2. big[p + 1 + j] = s[p + j]
    BY <1>1, <2>1
  <2> QED BY <1>9, <1>10, <2>2
<1>12. x = y
  BY <1>9, <1>10, <1>11, SameSeq
<1> QED BY <1>8, <1>12 DEF t, x, y, low, big

\* A record that belongs behind the first p places.
LEMMA RecordHigh ==
  ASSUME NEW s \in Seq(Kid), Sorted(s, Len(s)), NEW k \in Int, NEW v \in Int \union Vals,
         \A i \in 1 .. Len(s) : s[i].key # k,
         NEW p \in 0 .. Len(s), p < LowerBound(s, k)
  PROVE  LET big == WithRecord(s, k, v) IN
         /\ WithRecord(SubSeq(s, p + 1, Len(s)), k, v) = SubSeq(big, p + 1, Len(big))
         /\ SubSeq(s, 1, p) = SubSeq(big, 1, p)
<1> DEFINE b    == LowerBound(s, k)
           big  == WithRecord(s, k, v)
           m    == Len(s) - p
           high == SubSeq(s, p + 1, Len(s))
           t    == WithRecord(high, k, v)
<1>0. Sorted(s, Len(s)) /\ \A i \in 1 .. Len(s) : s[i].key # k
  OBVIOUS
<1>1. /\ b \in 1 .. Len(s) + 1
      /\ \A j \in 1 .. Len(s) : s[j].key < k <=> j < b
      /\ big \in Seq(Kid) /\ Len(big) = Len(s) + 1
      /\ \A j \in 1 .. Len(s) + 1 :
           big[j] = IF j < b THEN s[j] ELSE IF j = b THEN [key |-> k, to |-> v] ELSE s[j - 1]
  <2>1. b \in 1 .. Len(s) + 1 /\ \A j \in 1 .. Len(s) : s[j].key < k <=> j < b
    BY LowerBoundIs
  <2>2. /\ big \in Seq(Kid) /\ Len(big) = Len(s) + 1
        /\ \A j \in 1 .. Len(s) + 1 :
             big[j] = IF j < b THEN s[j] ELSE IF j = b THEN [key |-> k, to |-> v] ELSE s[j - 1]
    BY <1>0, WithRecordIs
  <2> QED BY <2>1, <2>2
<1>2. Len(s) \in Nat /\ p \in Nat /\ p < b /\ p <= Len(s) /\ m \in Nat
  OBVIOUS
<1>3. /\ high \in Seq(Kid) /\ Len(high) = m
      /\ \A j \in 1 .. m : high[j] = s[p + j] /\ p + j \in 1 .. Len(s)
  <2>1. /\ high \in Seq(Kid) /\ Len(high) = Len(s) - (p + 1) + 1
        /\ \A j \in 1 .. Len(s) - (p + 1) + 1 : high[j] = s[(p + 1) + j - 1] /\ (p + 1) + j - 1 \in 1 .. Len(s)
    <3>1. p + 1 \in 1 .. Len(s) + 1 /\ Len(s) \in Nat /\ p + 1 <= Len(s) + 1 /\ Len(s) <= Len(s)
      BY <1>2
    <3> QED BY <3>1, Piece
  <2>2. Len(s) - (p + 1) + 1 = m /\ \A j \in 1 .. m : (p + 1) + j - 1 = p + j
    BY <1>2
  <2> QED BY <2>1, <2>2
<1> HIDE DEF b, big, high, m
<1>4. Sorted(high, Len(high))
  <2>1. \A i, j \in 1 .. m : i < j => p + i < p + j
    BY <1>2
  <2> QED BY <1>0, <1>3, <2>1 DEF Sorted
<1>13. m = Len(s) - p
  BY DEF m
<1>5. LowerBound(high, k) = b - p
  <2>1. b - p \in 1 .. Len(high) + 1
    BY <1>1, <1>2, <1>3, <1>13
  <2>2. \A j \in 1 .. Len(high) : high[j].key < k <=> j < b - p
    <3>1. \A j \in 1 .. m : j < b - p <=> p + j < b
      BY <1>1, <1>2
    <3> QED BY <1>1, <1>3, <3>1
  <2> QED BY <1>3, <1>4, <2>1, <2>2, LowerOne
<1>6. /\ t \in Seq(Kid) /\ Len(t) = m + 1
      /\ \A j \in 1 .. m + 1 :
           t[j] = IF j < b - p THEN high[j] ELSE IF j = b - p THEN [key |-> k, to |-> v] ELSE high[j - 1]
  <2>1. \A i \in 1 .. Len(high) : high[i].key # k
    BY <1>0, <1>3
  <2>2. /\ t \in Seq(Kid) /\ Len(t) = Len(high) + 1
        /\ \A j \in 1 .. Len(high) + 1 :
             t[j] = IF j < LowerBound(high, k) THEN high[j]
                    ELSE IF j = LowerBound(high, k) THEN [key |-> k, to |-> v] ELSE high[j - 1]
    <3>1. high \in Seq(Kid)
      BY <1>3
    <3> QED BY <1>4, <2>1, <3>1, WithRecordIs
  <2> HIDE DEF t
  <2> QED BY <1>3, <1>5, <2>2
<1> DEFINE y == SubSeq(big, p + 1, Len(big))
<1> HIDE DEF t
<1>7. /\ y \in Seq(Kid) /\ Len(y) = m + 1
      /\ \A j \in 1 .. m + 1 : y[j] = big[p + j] /\ p + j \in 1 .. Len(s) + 1
  <2>1. /\ y \in Seq(Kid) /\ Len(y) = Len(big) - (p + 1) + 1
        /\ \A j \in 1 .. Len(big) - (p + 1) + 1 : y[j] = big[(p + 1) + j - 1] /\ (p + 1) + j - 1 \in 1 .. Len(big)
    <3>1. p + 1 \in 1 .. Len(big) + 1 /\ Len(big) \in Nat /\ p + 1 <= Len(big) + 1 /\ Len(big) <= Len(big)
      BY <1>1, <1>2
    <3> QED BY <1>1, <3>1, Piece
  <2>2. Len(big) - (p + 1) + 1 = m + 1 /\ \A j \in 1 .. m + 1 : (p + 1) + j - 1 = p + j
    BY <1>1, <1>2, <1>13
  <2> QED BY <1>1, <2>1, <2>2
<1> HIDE DEF y
<1>8. ASSUME NEW j \in 1 .. m + 1 PROVE t[j] = y[j]
  <2>1. y[j] = big[p + j] /\ p + j \in 1 .. Len(s) + 1
    BY <1>7
  <2>2. CASE j < b - p
    <3>1. p + j < b /\ j \in 1 .. m
      BY <1>1, <1>2, <1>13, <2>2
    <3> QED BY <1>1, <1>3, <1>6, <2>1, <2>2, <3>1
  <2>3. CASE j = b - p
    <3>1. p + j = b
      BY <1>1, <1>2, <2>3
    <3>2. t[j] = [key |-> k, to |-> v] /\ big[b] = [key |-> k, to |-> v]
      BY <1>1, <1>6, <2>3
    <3> QED BY <2>1, <3>1, <3>2
  <2>4. CASE b - p < j
    <3>1. j - 1 \in 1 .. m /\ b < p + j /\ p + (j - 1) = (p + j) - 1
      BY <1>1, <1>2, <2>4
    <3>2. t[j] = high[j - 1] /\ big[p + j] = s[(p + j) - 1]
      BY <1>1, <1>2, <1>6, <2>1, <2>4, <3>1
    <3> QED BY <1>3, <2>1, <3>1, <3>2
  <2> QED BY <1>1, <1>2, <2>2, <2>3, <2>4
<1>9. t = y
  BY <1>6, <1>7, <1>8, SameSeq
<1>10. SubSeq(s, 1, p) = SubSeq(big, 1, p)
  <2> DEFINE w == SubSeq(s, 1, p)
             z == SubSeq(big, 1, p)
  <2>1. /\ w \in Seq(Kid) /\ Len(w) = p - 1 + 1
        /\ \A j \in 1 .. p - 1 + 1 : w[j] = s[1 + j - 1]
    BY <1>2, Piece
  <2>2. /\ z \in Seq(Kid) /\ Len(z) = p - 1 + 1
        /\ \A j \in 1 .. p - 1 + 1 : z[j] = big[1 + j - 1]
    <3>1. 1 \in 1 .. Len(big) + 1 /\ p \in Nat /\ 1 <= p + 1 /\ p <= Len(big)
      BY <1>1, <1>2
    <3> QED BY <1>1, <3>1, Piece
  <2>3. p - 1 + 1 = p /\ \A j \in 1 .. p : 1 + j - 1 = j /\ j < b /\ j \in 1 .. Len(s) + 1
    BY <1>1, <1>2
  <2> HIDE DEF w, z
  <2>4. \A j \in 1 .. p : w[j] = z[j]
    BY SMTT(30), <1>1, <2>1, <2>2, <2>3
  <2>5. w = z
    BY <2>1, <2>2, <2>3, <2>4, SameSeq
  <2> QED BY <2>5 DEF w, z
<1> QED BY <1>9, <1>10 DEF t, y, high, big

\* The two ends of a node that got a key.
LEMMA KeyEnds ==
  ASSUME NEW s \in Seq(Kid), NEW k \in Int, NEW a \in Int, NEW i \in 1 .. Len(s),
         UpperBound(s, k) = i, NEW p \in 1 .. Len(s)
  PROVE  LET big == WithKey(s, k, a) IN
         /\ i <= p => SubSeq(s, p + 1, Len(s)) = SubSeq(big, p + 2, Len(big))
         /\ p < i  => SubSeq(s, 1, p) = SubSeq(big, 1, p)
<1> DEFINE big == WithKey(s, k, a)
<1>1. /\ big \in Seq(Kid) /\ Len(big) = Len(s) + 1
      /\ \A j \in 1 .. Len(s) + 1 :
           big[j] = IF j < i THEN s[j]
                    ELSE IF j = i THEN [key |-> k, to |-> s[i].to]
                    ELSE IF j = i + 1 THEN [key |-> s[i].key, to |-> a]
                    ELSE s[j - 1]
  <2>1. KeyAdded(WithKey(s, k, a), s, i, k, a)
    BY KeyIs
  <2> QED BY <2>1 DEF KeyAdded
<1>2. Len(s) \in Nat /\ p \in Nat /\ p <= Len(s) /\ 1 <= p
  OBVIOUS
<1> HIDE DEF big
<1>3. ASSUME i <= p PROVE SubSeq(s, p + 1, Len(s)) = SubSeq(big, p + 2, Len(big))
  <2> DEFINE x == SubSeq(s, p + 1, Len(s))
             y == SubSeq(big, p + 2, Len(big))
  <2>1. /\ x \in Seq(Kid) /\ Len(x) = Len(s) - p
        /\ \A j \in 1 .. Len(s) - p : x[j] = s[p + j]
    <3>1. /\ x \in Seq(Kid) /\ Len(x) = Len(s) - (p + 1) + 1
          /\ \A j \in 1 .. Len(s) - (p + 1) + 1 : x[j] = s[(p + 1) + j - 1]
      <4>1. p + 1 \in 1 .. Len(s) + 1 /\ Len(s) \in Nat /\ p + 1 <= Len(s) + 1 /\ Len(s) <= Len(s)
        BY <1>2
      <4> QED BY <4>1, Piece
    <3>2. Len(s) - (p + 1) + 1 = Len(s) - p /\ \A j \in 1 .. Len(s) - p : (p + 1) + j - 1 = p + j
      BY <1>2
    <3> QED BY <3>1, <3>2
  <2>2. /\ y \in Seq(Kid) /\ Len(y) = Len(s) - p
        /\ \A j \in 1 .. Len(s) - p : y[j] = big[p + 1 + j] /\ p + 1 + j \in 1 .. Len(s) + 1
    <3>1. /\ y \in Seq(Kid) /\ Len(y) = Len(big) - (p + 2) + 1
          /\ \A j \in 1 .. Len(big) - (p + 2) + 1 : y[j] = big[(p + 2) + j - 1] /\ (p + 2) + j - 1 \in 1 .. Len(big)
      <4>1. p + 2 \in 1 .. Len(big) + 1 /\ Len(big) \in Nat /\ p + 2 <= Len(big) + 1 /\ Len(big) <= Len(big)
        BY <1>1, <1>2
      <4> QED BY <1>1, <4>1, Piece
    <3>2. Len(big) - (p + 2) + 1 = Len(s) - p /\ \A j \in 1 .. Len(s) - p : (p + 2) + j - 1 = p + 1 + j
      BY <1>1, <1>2
    <3> QED BY <1>1, <3>1, <3>2
  <2> HIDE DEF x, y
  <2>3. ASSUME NEW j \in 1 .. Len(s) - p PROVE x[j] = y[j]
    <3>1. /\ p + 1 + j \in 1 .. Len(s) + 1 /\ ~ (p + 1 + j < i) /\ p + 1 + j # i /\ p + 1 + j # i + 1
          /\ (p + 1 + j) - 1 = p + j
      BY <1>2, <1>3
    <3>2. big[p + 1 + j] = s[p + j]
      BY <1>1, <3>1
    <3> QED BY <2>1, <2>2, <3>2
  <2>4. x = y
    BY <2>1, <2>2, <2>3, SameSeq
  <2> QED BY <2>4 DEF x, y
<1>4. ASSUME p < i PROVE SubSeq(s, 1, p) = SubSeq(big, 1, p)
  <2> DEFINE w == SubSeq(s, 1, p)
             z == SubSeq(big, 1, p)
  <2>1. /\ w \in Seq(Kid) /\ Len(w) = p - 1 + 1
        /\ \A j \in 1 .. p - 1 + 1 : w[j] = s[1 + j - 1]
    <3>1. 1 \in 1 .. Len(s) + 1 /\ p \in Nat /\ 1 <= p + 1 /\ p <= Len(s)
      BY <1>2
    <3> QED BY <3>1, Piece
  <2>2. /\ z \in Seq(Kid) /\ Len(z) = p - 1 + 1
        /\ \A j \in 1 .. p - 1 + 1 : z[j] = big[1 + j - 1]
    <3>1. 1 \in 1 .. Len(big) + 1 /\ p \in Nat /\ 1 <= p + 1 /\ p <= Len(big)
      BY <1>1, <1>2
    <3> QED BY <1>1, <3>1, Piece
  <2>3. p - 1 + 1 = p /\ \A j \in 1 .. p : 1 + j - 1 = j /\ j < i /\ j \in 1 .. Len(s) + 1
    BY <1>2, <1>4
  <2> HIDE DEF w, z
  <2>6. \A j \in 1 .. p : w[j] = s[j]
    BY <2>1, <2>3
  <2>7. \A j \in 1 .. p : z[j] = big[j]
    BY <2>2, <2>3
  <2>8. \A j \in 1 .. p : big[j] = s[j]
    BY <1>1, <2>3
  <2>4. \A j \in 1 .. p : w[j] = z[j]
    BY <2>6, <2>7, <2>8
  <2>5. w = z
    BY <2>1, <2>2, <2>3, <2>4, SameSeq
  <2> QED BY <2>5 DEF w, z
<1> QED BY <1>3, <1>4 DEF big

\* A key that belongs into the first p places.
LEMMA KeyLow ==
  ASSUME NEW s \in Seq(Kid), Sorted(s, Len(s) - 1), NEW k \in Int, NEW a \in Int,
         NEW i \in 1 .. Len(s), UpperBound(s, k) = i, NEW p \in 1 .. Len(s), i <= p
  PROVE  WithKey(SubSeq(s, 1, p), k, a) = SubSeq(WithKey(s, k, a), 1, p + 1)
<1> DEFINE big == WithKey(s, k, a)
<1>1. /\ big \in Seq(Kid) /\ Len(big) = Len(s) + 1
      /\ \A j \in 1 .. Len(s) + 1 :
           big[j] = IF j < i THEN s[j]
                    ELSE IF j = i THEN [key |-> k, to |-> s[i].to]
                    ELSE IF j = i + 1 THEN [key |-> s[i].key, to |-> a]
                    ELSE s[j - 1]
  <2>1. KeyAdded(WithKey(s, k, a), s, i, k, a)
    BY KeyIs
  <2> QED BY <2>1 DEF KeyAdded
<1> DEFINE low == SubSeq(s, 1, p)
           t   == WithKey(low, k, a)
           y   == SubSeq(big, 1, p + 1)
<1>2. Len(s) \in Nat /\ p \in Nat /\ p <= Len(s) /\ 1 <= p /\ i <= p /\ i \in 1 .. p
  OBVIOUS
<1>3. /\ low \in Seq(Kid) /\ Len(low) = p
      /\ \A j \in 1 .. p : low[j] = s[j] /\ j \in 1 .. Len(s)
  <2>1. /\ low \in Seq(Kid) /\ Len(low) = p - 1 + 1
        /\ \A j \in 1 .. p - 1 + 1 : low[j] = s[1 + j - 1] /\ 1 + j - 1 \in 1 .. Len(s)
    <3>1. 1 \in 1 .. Len(s) + 1 /\ p \in Nat /\ 1 <= p + 1 /\ p <= Len(s)
      BY <1>2
    <3> QED BY <3>1, Piece
  <2>2. p - 1 + 1 = p /\ \A j \in 1 .. p : 1 + j - 1 = j
    BY <1>2
  <2> QED BY <2>1, <2>2
<1>4. At(s, k, i) /\ Sorted(s, Len(s) - 1)
  <2>1. Len(s) >= 1
    BY <1>2
  <2> QED BY <2>1, UpperBoundIs
<1> HIDE DEF big, low
<1>5. UpperBound(low, k) = i
  <2>1. \A j \in 1 .. p - 1 : j \in 1 .. Len(s) - 1 /\ j \in 1 .. p
    BY <1>2
  <2>2. At(low, k, i)
    BY <1>2, <1>3, <1>4, <2>1 DEF At
  <2>3. Sorted(low, Len(low) - 1)
    BY <1>3, <1>4, <2>1 DEF Sorted
  <2> QED BY <1>3, <2>2, <2>3, UpperOne
<1>6. /\ t \in Seq(Kid) /\ Len(t) = p + 1
      /\ \A j \in 1 .. p + 1 :
           t[j] = IF j < i THEN low[j]
                  ELSE IF j = i THEN [key |-> k, to |-> low[i].to]
                  ELSE IF j = i + 1 THEN [key |-> low[i].key, to |-> a]
                  ELSE low[j - 1]
  <2>1. i \in 1 .. Len(low) /\ low \in Seq(Kid)
    BY <1>2, <1>3
  <2>2. /\ t \in Seq(Kid) /\ Len(t) = Len(low) + 1
        /\ \A j \in 1 .. Len(low) + 1 :
             t[j] = IF j < i THEN low[j]
                    ELSE IF j = i THEN [key |-> k, to |-> low[i].to]
                    ELSE IF j = i + 1 THEN [key |-> low[i].key, to |-> a]
                    ELSE low[j - 1]
    BY <1>5, <2>1, WithKeyIs
  <2> QED BY <1>3, <2>2
<1>7. /\ y \in Seq(Kid) /\ Len(y) = p + 1
      /\ \A j \in 1 .. p + 1 : y[j] = big[j] /\ j \in 1 .. Len(s) + 1
  <2>1. /\ y \in Seq(Kid) /\ Len(y) = (p + 1) - 1 + 1
        /\ \A j \in 1 .. (p + 1) - 1 + 1 : y[j] = big[1 + j - 1] /\ 1 + j - 1 \in 1 .. Len(big)
    <3>1. 1 \in 1 .. Len(big) + 1 /\ p + 1 \in Nat /\ 1 <= (p + 1) + 1 /\ p + 1 <= Len(big)
      BY <1>1, <1>2
    <3> QED BY <1>1, <3>1, Piece
  <2>2. (p + 1) - 1 + 1 = p + 1 /\ \A j \in 1 .. p + 1 : 1 + j - 1 = j
    BY <1>2
  <2> QED BY <1>1, <2>1, <2>2
<1> HIDE DEF t, y
<1>8. ASSUME NEW j \in 1 .. p + 1 PROVE t[j] = y[j]
  <2>1. y[j] = big[j] /\ j \in 1 .. Len(s) + 1
    BY <1>7
  <2>2. low[i] = s[i]
    BY <1>2, <1>3
  <2>3. CASE j < i
    <3>1. j \in 1 .. p
      BY <1>2, <2>3
    <3> QED BY <1>1, <1>3, <1>6, <2>1, <2>3, <3>1
  <2>4. CASE j = i
    <3>1. t[j] = [key |-> k, to |-> low[i].to] /\ big[j] = [key |-> k, to |-> s[i].to]
      BY <1>1, <1>6, <2>1, <2>4
    <3> QED BY <2>1, <2>2, <3>1
  <2>5. CASE j = i + 1
    <3>1. t[j] = [key |-> low[i].key, to |-> a]
      BY <1>2, <1>6, <2>5
    <3>3. big[j] = [key |-> s[i].key, to |-> a]
      BY <1>1, <1>2, <2>1, <2>5
    <3> QED BY <2>1, <2>2, <3>1, <3>3
  <2>6. CASE i + 1 < j
    <3>1. j - 1 \in 1 .. p
      BY <1>2, <2>6
    <3>2. t[j] = low[j - 1] /\ big[j] = s[j - 1]
      BY <1>1, <1>6, <2>1, <2>6
    <3> QED BY <1>3, <2>1, <3>1, <3>2
  <2> QED BY <1>2, <2>3, <2>4, <2>5, <2>6
<1>9. t = y
  BY <1>6, <1>7, <1>8, SameSeq
<1> QED BY <1>9 DEF t, y, low, big

\* A key that belongs behind the first p places.
LEMMA KeyHigh ==
  ASSUME NEW s \in Seq(Kid), Sorted(s, Len(s) - 1), NEW k \in Int, NEW a \in Int,
         NEW i \in 1 .. Len(s), UpperBound(s, k) = i, NEW p \in 1 .. Len(s), p < i
  PROVE  WithKey(SubSeq(s, p + 1, Len(s)), k, a) = SubSeq(WithKey(s, k, a), p + 1, Len(WithKey(s, k, a)))
<1> DEFINE big  == WithKey(s, k, a)
           m    == Len(s) - p
           e    == i - p
           high == SubSeq(s, p + 1, Len(s))
           t    == WithKey(high, k, a)
           y    == SubSeq(big, p + 1, Len(big))
<1>1. /\ big \in Seq(Kid) /\ Len(big) = Len(s) + 1
      /\ \A j \in 1 .. Len(s) + 1 :
           big[j] = IF j < i THEN s[j]
                    ELSE IF j = i THEN [key |-> k, to |-> s[i].to]
                    ELSE IF j = i + 1 THEN [key |-> s[i].key, to |-> a]
                    ELSE s[j - 1]
  <2>1. KeyAdded(WithKey(s, k, a), s, i, k, a)
    BY KeyIs
  <2> QED BY <2>1 DEF KeyAdded
<1>2. /\ Len(s) \in Nat /\ p \in Nat /\ p < Len(s) /\ 1 <= p /\ p < i /\ m \in Nat
      /\ e \in 1 .. m /\ p + e = i
  OBVIOUS
<1>13. m = Len(s) - p /\ e = i - p
  OBVIOUS
<1>3. /\ high \in Seq(Kid) /\ Len(high) = m
      /\ \A j \in 1 .. m : high[j] = s[p + j] /\ p + j \in 1 .. Len(s)
  <2>1. /\ high \in Seq(Kid) /\ Len(high) = Len(s) - (p + 1) + 1
        /\ \A j \in 1 .. Len(s) - (p + 1) + 1 : high[j] = s[(p + 1) + j - 1] /\ (p + 1) + j - 1 \in 1 .. Len(s)
    <3>1. p + 1 \in 1 .. Len(s) + 1 /\ Len(s) \in Nat /\ p + 1 <= Len(s) + 1 /\ Len(s) <= Len(s)
      BY <1>2
    <3> QED BY <3>1, Piece
  <2>2. Len(s) - (p + 1) + 1 = m /\ \A j \in 1 .. m : (p + 1) + j - 1 = p + j
    BY <1>2
  <2> QED BY <2>1, <2>2
<1>4. At(s, k, i) /\ Sorted(s, Len(s) - 1)
  <2>1. Len(s) >= 1
    BY <1>2
  <2> QED BY <2>1, UpperBoundIs
<1> HIDE DEF big, high, m, e
<1>5. UpperBound(high, k) = e
  <2>1. \A j \in 1 .. m - 1 : p + j \in 1 .. Len(s) - 1 /\ j \in 1 .. m /\ (p + j < i <=> j < e)
    BY <1>2, <1>13
  <2>2. \A j \in 1 .. m - 1 : high[j].key <= k <=> j < e
    <3>1. \A j \in 1 .. Len(s) - 1 : s[j].key <= k <=> j < i
      BY <1>4 DEF At
    <3> QED BY <1>3, <2>1, <3>1
  <2>3. At(high, k, e)
    BY <1>2, <1>3, <2>2 DEF At
  <2>4. Sorted(high, Len(high) - 1)
    <3>1. \A x, z \in 1 .. m - 1 : x < z => p + x < p + z
      BY <1>2
    <3> QED BY <1>3, <1>4, <2>1, <3>1 DEF Sorted
  <2> QED BY <1>3, <2>3, <2>4, UpperOne
<1>6. /\ t \in Seq(Kid) /\ Len(t) = m + 1
      /\ \A j \in 1 .. m + 1 :
           t[j] = IF j < e THEN high[j]
                  ELSE IF j = e THEN [key |-> k, to |-> high[e].to]
                  ELSE IF j = e + 1 THEN [key |-> high[e].key, to |-> a]
                  ELSE high[j - 1]
  <2>1. e \in 1 .. Len(high) /\ high \in Seq(Kid)
    BY <1>2, <1>3
  <2>2. /\ t \in Seq(Kid) /\ Len(t) = Len(high) + 1
        /\ \A j \in 1 .. Len(high) + 1 :
             t[j] = IF j < e THEN high[j]
                    ELSE IF j = e THEN [key |-> k, to |-> high[e].to]
                    ELSE IF j = e + 1 THEN [key |-> high[e].key, to |-> a]
                    ELSE high[j - 1]
    BY <1>5, <2>1, WithKeyIs
  <2> QED BY <1>3, <2>2
<1>7. /\ y \in Seq(Kid) /\ Len(y) = m + 1
      /\ \A j \in 1 .. m + 1 : y[j] = big[p + j] /\ p + j \in 1 .. Len(s) + 1
  <2>1. /\ y \in Seq(Kid) /\ Len(y) = Len(big) - (p + 1) + 1
        /\ \A j \in 1 .. Len(big) - (p + 1) + 1 : y[j] = big[(p + 1) + j - 1] /\ (p + 1) + j - 1 \in 1 .. Len(big)
    <3>1. p + 1 \in 1 .. Len(big) + 1 /\ Len(big) \in Nat /\ p + 1 <= Len(big) + 1 /\ Len(big) <= Len(big)
      BY <1>1, <1>2
    <3> QED BY <1>1, <3>1, Piece
  <2>2. Len(big) - (p + 1) + 1 = m + 1 /\ \A j \in 1 .. m + 1 : (p + 1) + j - 1 = p + j
    BY <1>1, <1>2, <1>13
  <2> QED BY <1>1, <2>1, <2>2
<1> HIDE DEF t, y
<1>8. ASSUME NEW j \in 1 .. m + 1 PROVE t[j] = y[j]
  <2>1. y[j] = big[p + j] /\ p + j \in 1 .. Len(s) + 1
    BY <1>7
  <2>2. high[e] = s[i]
    BY <1>2, <1>3
  <2>3. CASE j < e
    <3>1. j \in 1 .. m /\ p + j < i
      BY <1>2, <2>3
    <3> QED BY <1>1, <1>3, <1>6, <2>1, <2>3, <3>1
  <2>4. CASE j = e
    <3>1. t[j] = [key |-> k, to |-> high[e].to] /\ big[p + j] = [key |-> k, to |-> s[i].to]
      BY <1>1, <1>2, <1>6, <2>1, <2>4
    <3> QED BY <2>1, <2>2, <3>1
  <2>5. CASE j = e + 1
    <3>1. p + j = i + 1 /\ ~ (p + j < i) /\ p + j # i /\ ~ (j < e) /\ j # e
      BY <1>2, <2>5
    <3>2. t[j] = [key |-> high[e].key, to |-> a] /\ big[p + j] = [key |-> s[i].key, to |-> a]
      BY <1>1, <1>6, <2>1, <2>5, <3>1
    <3> QED BY <2>1, <2>2, <3>2
  <2>6. CASE e + 1 < j
    <3>1. j - 1 \in 1 .. m /\ i + 1 < p + j /\ p + (j - 1) = (p + j) - 1
      BY <1>2, <2>6
    <3>2. t[j] = high[j - 1] /\ big[p + j] = s[(p + j) - 1]
      BY <1>1, <1>2, <1>6, <2>1, <2>6, <3>1
    <3> QED BY <1>3, <2>1, <3>1, <3>2
  <2> QED BY <1>2, <2>3, <2>4, <2>5, <2>6
<1>9. t = y
  BY <1>6, <1>7, <1>8, SameSeq
<1> QED BY <1>9 DEF t, y, high, big

-----------------------------------------------------------------------------
(* search_index and search_leaf.                                           *)

\* Without a key on its way up, the next node of a path is the child itself.
LEMMA StepDown ==
  ASSUME NEW kids, NEW above, NEW path, NEW lv, NEW n, NEW H, NEW root, NEW u, NEW d,
         Tree(kids, above, path, lv, n, H, root, u, d), u.op # "insert"
  PROVE  \A h \in 1 .. H, k \in Int :
           path[h - 1][k] = kids[path[h][k]][UpperBound(kids[path[h][k]], k)].to
<1>1. Downs(kids, path, H, u)
  BY MoveDown
<1> QED BY <1>1 DEF Downs, Goes

\* The recursion of search_index on a path that is known.
Walk(H, root, k) ==
  LET node[h \in 1 .. H] == IF h = 1 THEN root ELSE ChildFor(node[h - 1], k)
  IN  node[H]

\* Walk, what search_index computes, goes down from the root.
LEMMA WalkDown ==
  ASSUME NEW H \in Nat \ {0}, NEW root, NEW k, NEW w, w[H] = root,
         \A h \in 1 .. H : ChildFor(w[h], k) = w[h - 1]
  PROVE  Walk(H, root, k) = w[1]
<1> DEFINE g == [h \in 1 .. H |-> w[H + 1 - h]]
<1>1. \A h \in 1 .. H : h # 1 => /\ h - 1 \in 1 .. H /\ H + 1 - (h - 1) \in 1 .. H
                                 /\ H + 1 - (h - 1) - 1 = H + 1 - h
  OBVIOUS
<1>2. 1 \in 1 .. H /\ H \in 1 .. H /\ H + 1 - 1 = H /\ H + 1 - H = 1
  OBVIOUS
<1>3. \A h \in 1 .. H : g[h] = IF h = 1 THEN root ELSE ChildFor(g[h - 1], k)
  <2>1. g[1] = root
    BY <1>2
  <2>2. ASSUME NEW h \in 1 .. H, h # 1 PROVE g[h] = ChildFor(g[h - 1], k)
    <3>1. g[h - 1] = w[H + 1 - (h - 1)] /\ g[h] = w[H + 1 - h]
      BY <1>1, <2>2
    <3>2. ChildFor(w[H + 1 - (h - 1)], k) = w[H + 1 - (h - 1) - 1]
      BY <1>1, <2>2
    <3> QED BY <1>1, <2>2, <3>1, <3>2
  <2> HIDE DEF g
  <2> QED BY <2>1, <2>2
<1>4. g = [h \in 1 .. H |-> IF h = 1 THEN root ELSE ChildFor(g[h - 1], k)]
  <2>1. [h \in 1 .. H |-> w[H + 1 - h]] = [h \in 1 .. H |-> IF h = 1 THEN root ELSE ChildFor(g[h - 1], k)]
    BY <1>3
  <2> QED BY <2>1
<1> HIDE DEF g
<1> DEFINE node == CHOOSE f : f = [h \in 1 .. H |-> IF h = 1 THEN root ELSE ChildFor(f[h - 1], k)]
<1>5. node = [h \in 1 .. H |-> IF h = 1 THEN root ELSE ChildFor(node[h - 1], k)]
  BY <1>4, Zenon
<1> HIDE DEF node
<1>6. \A h \in 1 .. H : node[h] = IF h = 1 THEN root ELSE ChildFor(node[h - 1], k)
  BY <1>5
<1> DEFINE S == {m \in Nat : m + 1 \in 1 .. H => node[m + 1] = w[H - m]}
<1>7. 0 \in S
  BY <1>2, <1>6
<1>8. ASSUME NEW m \in Nat, m \in S PROVE m + 1 \in S
  <2>1. SUFFICES ASSUME m + 1 + 1 \in 1 .. H PROVE node[m + 1 + 1] = w[H - (m + 1)]
    OBVIOUS
  <2>2. m + 1 \in 1 .. H /\ m + 1 + 1 # 1 /\ m + 1 + 1 - 1 = m + 1 /\ H - m \in 1 .. H /\ H - m - 1 = H - (m + 1)
    BY <2>1
  <2>3. node[m + 1] = w[H - m]
    BY <1>8, <2>2
  <2>4. node[m + 1 + 1] = ChildFor(node[m + 1], k)
    BY <1>6, <2>1, <2>2
  <2>5. ChildFor(w[H - m], k) = w[H - m - 1]
    BY <2>2
  <2> QED BY <2>2, <2>3, <2>4, <2>5
<1> HIDE DEF S
<1>9. Nat \subseteq S
  BY <1>7, <1>8, Induct
<1>10. node[H] = w[1]
  <2>1. H - 1 \in Nat /\ H - 1 + 1 = H /\ H \in 1 .. H /\ H - (H - 1) = 1
    OBVIOUS
  <2>2. H - 1 \in S
    BY <1>9, <2>1
  <2> QED BY <2>1, <2>2 DEF S
<1> QED BY <1>10 DEF node, Walk

\* search_index and search_leaf walk down the path of the key.
LEMMA SearchPath ==
  ASSUME NEW kids, NEW above, NEW path, NEW lv, NEW n, NEW d, NEW u,
         Tree(kids, above, path, lv, n, meta.height, meta.root_offset, u, d), u.op # "insert",
         \A o \in 1 .. n : block[o].kids = kids[o], NEW k \in Int
  PROVE  SearchIndex(k) = path[1][k] /\ SearchLeaf(k) = path[0][k]
<1>1. /\ \A h \in 1 .. meta.height : ChildFor(path[h][k], k) = path[h - 1][k]
      /\ path[meta.height][k] = meta.root_offset
      /\ meta.height \in Nat \ {0}
  <2> SUFFICES ASSUME NEW H, H = meta.height
               PROVE  /\ \A h \in 1 .. H : ChildFor(path[h][k], k) = path[h - 1][k]
                      /\ path[H][k] = meta.root_offset
                      /\ H \in Nat \ {0}
    OBVIOUS
  <2>1. Tree(kids, above, path, lv, n, H, meta.root_offset, u, d)
    OBVIOUS
  <2>2. H \in Nat \ {0}
    BY <2>1, Bounds
  <2>3. path[H][k] = meta.root_offset
    BY <2>1 DEF Tree, Paths, Goes
  <2>4. ASSUME NEW h \in 1 .. H PROVE ChildFor(path[h][k], k) = path[h - 1][k]
    <3>1. path[h - 1][k] = kids[path[h][k]][UpperBound(kids[path[h][k]], k)].to
      BY <2>1, StepDown
    <3>2. path[h][k] \in 1 .. n
      <4>1. h \in 0 .. H
        BY <2>2
      <4> QED BY <2>1, <4>1, OnPath
    <3>3. block[path[h][k]].kids = kids[path[h][k]]
      BY <3>2
    <3> QED BY <3>1, <3>3 DEF ChildFor
  <2> QED BY <2>2, <2>3, <2>4
<1> DEFINE w == [h \in Nat |-> path[h][k]]
<1>2. SearchIndex(k) = path[1][k]
  <2>1. w[meta.height] = meta.root_offset /\ \A h \in 1 .. meta.height : ChildFor(w[h], k) = w[h - 1]
    <3>1. \A h \in 1 .. meta.height : h \in Nat /\ h - 1 \in Nat
      BY <1>1
    <3> QED BY <1>1, <3>1
  <2>2. w[1] = path[1][k]
    OBVIOUS
  <2> HIDE DEF w
  <2>3. Walk(meta.height, meta.root_offset, k) = w[1]
    BY <1>1, <2>1, WalkDown
  <2> QED BY <2>2, <2>3 DEF SearchIndex, Walk
<1>3. SearchLeaf(k) = path[0][k]
  <2>1. ChildFor(path[1][k], k) = path[0][k]
    BY <1>1
  <2> QED BY <1>2, <2>1 DEF SearchLeaf
<1> QED BY <1>2, <1>3

\* The two halves of a full leaf, one of them with the new record, are the
\* two parts of the leaf with the record.
LeafHalves(s, k, v, point, q) ==
  /\ k > s[q].key =>
       /\ SubSeq(s, 1, point) = SubSeq(WithRecord(s, k, v), 1, q)
       /\ WithRecord(SubSeq(s, point + 1, Len(s)), k, v)
          = SubSeq(WithRecord(s, k, v), q + 1, Len(s) + 1)
  /\ ~ (k > s[q].key) =>
       /\ WithRecord(SubSeq(s, 1, point), k, v) = SubSeq(WithRecord(s, k, v), 1, q)
       /\ SubSeq(s, point + 1, Len(s)) = SubSeq(WithRecord(s, k, v), q + 1, Len(s) + 1)

\* What insert_record_split makes of a full leaf and a new record is the leaf
\* with the record, cut in two behind its q-th record.
LEMMA LeafSplit ==
  ASSUME NEW s \in Seq(Kid), Sorted(s, Len(s)), NEW N \in Nat, N >= 4, Len(s) = N,
         NEW k \in Int, NEW v \in Int \union Vals, \A i \in 1 .. Len(s) : s[i].key # k,
         NEW q, q = N \div 2 + 1,
         NEW point, point = IF k > s[q].key THEN q ELSE N \div 2
  PROVE  LeafHalves(s, k, v, point, q)
<1> DEFINE half == N \div 2
           big  == WithRecord(s, k, v)
           b    == LowerBound(s, k)
<1>1. half \in Nat /\ half >= 2 /\ half + 1 <= N /\ half + 1 \in 1 .. Len(s) /\ half + 1 \in 0 .. Len(s) /\ half \in 0 .. Len(s)
  BY Halves
<1>2. /\ b \in 1 .. Len(s) + 1 /\ \A j \in 1 .. Len(s) : s[j].key < k <=> j < b
      /\ big \in Seq(Kid) /\ Len(big) = Len(s) + 1
  BY WithRecordIs
<1>0. q = half + 1 /\ q + 1 = half + 2 /\ point = IF k > s[half + 1].key THEN half + 1 ELSE half
  BY <1>1
<1>3. s[half + 1].key < k <=> half + 1 < b
  BY <1>1, <1>2
<1>4. s[half + 1].key \in Int
  <2>1. \A i \in 1 .. Len(s) : s[i] \in Kid
    OBVIOUS
  <2> QED BY <1>1, <2>1 DEF Kid
<1>5. ASSUME k > s[half + 1].key
      PROVE  /\ SubSeq(s, 1, point) = SubSeq(big, 1, half + 1)
             /\ WithRecord(SubSeq(s, point + 1, Len(s)), k, v) = SubSeq(big, half + 2, N + 1)
  <2>1. half + 1 < b /\ point = half + 1 /\ point + 1 = half + 2
    BY <1>0, <1>1, <1>3, <1>4, <1>5
  <2>2. point \in 0 .. Len(s) /\ point < LowerBound(s, k)
    BY <1>1, <2>1
  <2>3. /\ WithRecord(SubSeq(s, point + 1, Len(s)), k, v) = SubSeq(big, point + 1, Len(big))
        /\ SubSeq(s, 1, point) = SubSeq(big, 1, point)
    BY <2>2, RecordHigh
  <2> HIDE DEF half, big
  <2> QED BY <1>2, <2>1, <2>3
<1>6. ASSUME ~ (k > s[half + 1].key)
      PROVE  /\ WithRecord(SubSeq(s, 1, point), k, v) = SubSeq(big, 1, half + 1)
             /\ SubSeq(s, point + 1, Len(s)) = SubSeq(big, half + 2, N + 1)
  <2>1. ~ (half + 1 < b) /\ point = half
    BY <1>0, <1>1, <1>3, <1>4, <1>6
  <2>2. point \in 0 .. Len(s) /\ LowerBound(s, k) <= point + 1 /\ point + 2 = half + 2
    BY <1>1, <1>2, <2>1
  <2>3. /\ WithRecord(SubSeq(s, 1, point), k, v) = SubSeq(big, 1, point + 1)
        /\ SubSeq(s, point + 1, Len(s)) = SubSeq(big, point + 2, Len(big))
    BY <2>2, RecordLow
  <2> HIDE DEF half, big
  <2> QED BY <1>2, <2>1, <2>2, <2>3
<1> HIDE DEF half, big
<1> QED BY <1>0, <1>5, <1>6 DEF LeafHalves, big

\* The same facts about the two parts of a node that got a key, for every
\* place of the cut.
Cuts(s, k, a, i) ==
  \A p \in 1 .. Len(s) :
    /\ i <= p => /\ WithKey(SubSeq(s, 1, p), k, a) = SubSeq(WithKey(s, k, a), 1, p + 1)
                /\ SubSeq(s, p + 1, Len(s)) = SubSeq(WithKey(s, k, a), p + 2, Len(WithKey(s, k, a)))
    /\ p < i => /\ WithKey(SubSeq(s, p + 1, Len(s)), k, a)
                  = SubSeq(WithKey(s, k, a), p + 1, Len(WithKey(s, k, a)))
                /\ SubSeq(s, 1, p) = SubSeq(WithKey(s, k, a), 1, p)

\* KeyEnds, KeyLow and KeyHigh together: a node with a new key, cut anywhere.
LEMMA KeyCuts ==
  ASSUME NEW s \in Seq(Kid), Sorted(s, Len(s) - 1), NEW k \in Int, NEW a \in Int,
         NEW i \in 1 .. Len(s), UpperBound(s, k) = i
  PROVE  Cuts(s, k, a, i)
<1> SUFFICES ASSUME NEW p \in 1 .. Len(s)
             PROVE  /\ i <= p => /\ WithKey(SubSeq(s, 1, p), k, a) = SubSeq(WithKey(s, k, a), 1, p + 1)
                                /\ SubSeq(s, p + 1, Len(s)) = SubSeq(WithKey(s, k, a), p + 2, Len(WithKey(s, k, a)))
                    /\ p < i => /\ WithKey(SubSeq(s, p + 1, Len(s)), k, a)
                                  = SubSeq(WithKey(s, k, a), p + 1, Len(WithKey(s, k, a)))
                                /\ SubSeq(s, 1, p) = SubSeq(WithKey(s, k, a), 1, p)
  BY DEF Cuts
<1>1. i <= p => SubSeq(s, p + 1, Len(s)) = SubSeq(WithKey(s, k, a), p + 2, Len(WithKey(s, k, a)))
  BY KeyEnds
<1>2. p < i => SubSeq(s, 1, p) = SubSeq(WithKey(s, k, a), 1, p)
  BY KeyEnds
<1>3. i <= p => WithKey(SubSeq(s, 1, p), k, a) = SubSeq(WithKey(s, k, a), 1, p + 1)
  BY KeyLow
<1>4. p < i => WithKey(SubSeq(s, p + 1, Len(s)), k, a)
               = SubSeq(WithKey(s, k, a), p + 1, Len(WithKey(s, k, a)))
  BY KeyHigh
<1> QED BY <1>1, <1>2, <1>3, <1>4

\* s, with the new key k for a, as insert_key_to_index_split cuts it.
NodeHalves(s, k, a, q) ==
  /\ PlaceRight(s, k) =>
       /\ SubSeq(s, 1, MiddlePoint(s, k) + 1) = SubSeq(WithKey(s, k, a), 1, q)
       /\ WithKey(SubSeq(s, MiddlePoint(s, k) + 2, Len(s)), k, a)
          = SubSeq(WithKey(s, k, a), q + 1, Len(s) + 1)
  /\ ~ PlaceRight(s, k) =>
       /\ WithKey(SubSeq(s, 1, MiddlePoint(s, k) + 1), k, a) = SubSeq(WithKey(s, k, a), 1, q)
       /\ SubSeq(s, MiddlePoint(s, k) + 2, Len(s)) = SubSeq(WithKey(s, k, a), q + 1, Len(s) + 1)
  /\ s[MiddlePoint(s, k) + 1].key = WithKey(s, k, a)[q].key

\* The two internal nodes that insert_key_to_index_split makes of a full one
\* are what a node with one key too many would be cut into behind its q-th
\* kid, whose key goes up.
LEMMA NodeSplit ==
  ASSUME NEW s \in Seq(Kid), Sorted(s, Len(s) - 1), NEW N \in Nat, N >= 4, Len(s) = N,
         NEW k \in Int, NEW a \in Int, NEW i \in 1 .. Len(s), UpperBound(s, k) = i,
         \A j \in 1 .. Len(s) - 1 : (j < i => s[j].key < k) /\ (i <= j => k < s[j].key)
  PROVE  \E q \in (N \div 2) .. N + 1 - (N \div 2) : NodeHalves(s, k, a, q)
<1> DEFINE half == (N - 1) \div 2
           p == MiddlePoint(s, k) + 1
           big == WithKey(s, k, a)
<1>1. /\ half \in Nat /\ half >= 1 /\ half + 1 \in 1 .. Len(s) - 1 /\ half + 2 \in 1 .. Len(s) - 1
      /\ N \div 2 \in Nat
      /\ N = 2 * (N \div 2) => half = N \div 2 - 1
      /\ N = 2 * (N \div 2) + 1 => half = N \div 2
      /\ N = 2 * (N \div 2) \/ N = 2 * (N \div 2) + 1
      /\ N - 1 = 2 * half \/ N - 1 = 2 * half + 1
  <2>1. N - 1 \in Nat
    OBVIOUS
  <2>2. half \in Nat /\ (N - 1 = 2 * half \/ N - 1 = 2 * half + 1)
    BY <2>1, Halves
  <2>3. N \div 2 \in Nat /\ (N = 2 * (N \div 2) \/ N = 2 * (N \div 2) + 1)
    BY Halves
  <2> DEFINE g == N \div 2
  <2> HIDE DEF half, g
  <2>4. half >= 1 /\ half + 1 \in 1 .. Len(s) - 1 /\ half + 2 \in 1 .. Len(s) - 1
    BY <2>2
  <2>5. g \in Nat /\ (N = 2 * g \/ N = 2 * g + 1)
    BY <2>3 DEF g
  <2>6. (N = 2 * g => half = g - 1) /\ (N = 2 * g + 1 => half = g)
    BY <2>2, <2>5
  <2> QED BY <2>2, <2>4, <2>5, <2>6 DEF g
<1>2. \A j \in 1 .. Len(s) - 1 : s[j].key \in Int
  <2>1. \A j \in 1 .. Len(s) : s[j] \in Kid
    OBVIOUS
  <2>2. \A j \in 1 .. Len(s) - 1 : j \in 1 .. Len(s)
    OBVIOUS
  <2> QED BY <2>1, <2>2 DEF Kid
<1>3. PlaceRight(s, k) <=> half + 1 < i
  <2>1. PlaceRight(s, k) <=> k > s[half + 1].key
    BY DEF PlaceRight
  <2> HIDE DEF half
  <2>2. half + 1 \in Int /\ i \in Int /\ s[half + 1].key \in Int
    BY <1>1, <1>2
  <2>3. half + 1 < i => s[half + 1].key < k
    BY <1>1
  <2>4. i <= half + 1 => k < s[half + 1].key
    BY <1>1
  <2> QED BY <2>1, <2>2, <2>3, <2>4
<1>4. /\ p \in {half + 1, half + 2}
      /\ half + 1 < i => p < i
      /\ ~ (half + 1 < i) => p = half + 1
  <2>1. MiddlePoint(s, k) = IF PlaceRight(s, k) /\ k >= s[half + 2].key THEN half + 1 ELSE half
    BY DEF MiddlePoint
  <2> HIDE DEF half
  <2>6. half + 2 \in 1 .. Len(s) - 1
    BY <1>1
  <2>7. s[half + 2].key \in Int
    BY <1>2, <2>6
  <2>2. half + 2 \in Int /\ i \in Int /\ s[half + 2].key \in Int
    BY <1>1, <2>7
  <2>3. k >= s[half + 2].key => half + 2 < i
    <3>1. i <= half + 2 => k < s[half + 2].key
      BY <1>1
    <3> QED BY <2>2, <3>1
  <2>4. CASE PlaceRight(s, k) /\ k >= s[half + 2].key
    BY <1>1, <1>3, <2>1, <2>3, <2>4
  <2>5. CASE ~ (PlaceRight(s, k) /\ k >= s[half + 2].key)
    BY <1>1, <1>3, <2>1, <2>5
  <2> QED BY <2>4, <2>5
<1>9. MiddlePoint(s, k) + 2 = p + 1
  <2>1. MiddlePoint(s, k) \in Int
    <3>1. MiddlePoint(s, k) = IF PlaceRight(s, k) /\ k >= s[half + 2].key THEN half + 1 ELSE half
      BY DEF MiddlePoint
    <3> HIDE DEF half
    <3> QED BY <1>1, <3>1
  <2> QED BY <2>1
<1>10. Cuts(s, k, a, i)
  BY KeyCuts
<1> HIDE DEF half, p
<1>5. p \in 1 .. Len(s) /\ p \in Int /\ p < N
  BY <1>1, <1>4
<1>6. KeyAdded(big, s, i, k, a)
  BY KeyIs
<1>7. CASE half + 1 < i
  <2>1. p < i /\ PlaceRight(s, k)
    BY <1>3, <1>4, <1>7
  <2>2. WithKey(SubSeq(s, p + 1, Len(s)), k, a) = SubSeq(big, p + 1, Len(big))
    BY <1>5, <1>10, <2>1 DEF Cuts
  <2>3. SubSeq(s, 1, p) = SubSeq(big, 1, p)
    BY <1>5, <1>10, <2>1 DEF Cuts
  <2>4. big[p] = s[p] /\ Len(big) = N + 1
    <3>1. p \in 1 .. Len(s) + 1
      BY <1>5
    <3> QED BY <1>6, <2>1, <3>1 DEF KeyAdded
  <2>5. p \in (N \div 2) .. N + 1 - (N \div 2)
    <3> DEFINE g == N \div 2
    <3>1. /\ g \in Nat /\ (N = 2 * g => half = g - 1) /\ (N = 2 * g + 1 => half = g)
          /\ (N = 2 * g \/ N = 2 * g + 1)
      BY <1>1
    <3> HIDE DEF g
    <3>2. p \in g .. N + 1 - g
      BY <1>1, <1>4, <3>1
    <3> QED BY <3>2 DEF g
  <2> HIDE DEF big
  <2>6. /\ SubSeq(s, 1, MiddlePoint(s, k) + 1) = SubSeq(big, 1, p)
        /\ WithKey(SubSeq(s, MiddlePoint(s, k) + 2, Len(s)), k, a) = SubSeq(big, p + 1, N + 1)
        /\ s[MiddlePoint(s, k) + 1].key = big[p].key
    BY <1>9, <2>2, <2>3, <2>4 DEF p
  <2>7. NodeHalves(s, k, a, p)
    BY <2>1, <2>6 DEF NodeHalves, big
  <2> QED BY <2>5, <2>7
<1>8. CASE ~ (half + 1 < i)
  <2>1. i <= p /\ p = half + 1 /\ ~ PlaceRight(s, k)
    <3>1. i \in Int /\ half \in Int
      BY <1>1
    <3> QED BY <1>3, <1>4, <1>8, <3>1
  <2>2. WithKey(SubSeq(s, 1, p), k, a) = SubSeq(big, 1, p + 1)
    BY <1>5, <1>10, <2>1 DEF Cuts
  <2>3. SubSeq(s, p + 1, Len(s)) = SubSeq(big, p + 2, Len(big))
    BY <1>5, <1>10, <2>1 DEF Cuts
  <2>4. big[p + 1].key = s[p].key /\ Len(big) = N + 1
    <3>1. p + 1 \in 1 .. Len(s) + 1 /\ ~ (p + 1 < i) /\ p + 1 # i /\ (p + 1) - 1 = p
      BY <1>5, <2>1
    <3>2. p + 1 = i + 1 => s[i] = s[p]
      BY <1>5
    <3> QED BY <1>6, <3>1, <3>2 DEF KeyAdded
  <2>5. p + 1 \in (N \div 2) .. N + 1 - (N \div 2) /\ p + 2 = p + 1 + 1
    <3> DEFINE g == N \div 2
    <3>1. /\ g \in Nat /\ (N = 2 * g => half = g - 1) /\ (N = 2 * g + 1 => half = g)
          /\ (N = 2 * g \/ N = 2 * g + 1)
      BY <1>1
    <3> HIDE DEF g
    <3>2. p + 1 \in g .. N + 1 - g /\ p + 2 = p + 1 + 1
      BY <1>1, <2>1, <3>1
    <3> QED BY <3>2 DEF g
  <2> HIDE DEF big
  <2> DEFINE q == p + 1
  <2>6. /\ WithKey(SubSeq(s, 1, MiddlePoint(s, k) + 1), k, a) = SubSeq(big, 1, q)
        /\ SubSeq(s, MiddlePoint(s, k) + 2, Len(s)) = SubSeq(big, q + 1, N + 1)
        /\ s[MiddlePoint(s, k) + 1].key = big[q].key
    BY <1>9, <2>2, <2>3, <2>4, <2>5 DEF p
  <2>7. q \in (N \div 2) .. N + 1 - (N \div 2)
    BY <2>5
  <2> HIDE DEF q
  <2>8. NodeHalves(s, k, a, q)
    BY <2>1, <2>6 DEF NodeHalves, big
  <2> QED BY <2>7, <2>8
<1> QED BY <1>7, <1>8

-----------------------------------------------------------------------------
(* The writes of an operation.                                             *)

\* Without writes to come the file is the tree.
LEMMA Settled ==
  ASSUME NEW kids, NEW above, NEW n, NEW file, NEW m, NEW disk,
         Pending(kids, above, n, file, m, disk, {})
  PROVE  /\ DOMAIN file = 1 .. n /\ disk = m
         /\ \A o \in 1 .. n : file[o].kids = kids[o] /\ file[o].parent = above[o]
BY DEF Pending

\* unmap: what write w makes of a file with the blocks of Node.
Written(file, w) ==
  CASE w.kind = "meta"   -> file
    [] w.kind = "block"  -> [o \in DOMAIN file \union {w.at} |-> IF o = w.at THEN w.node ELSE file[o]]
    [] w.kind = "parent" -> [file EXCEPT ![w.at].parent = w.to]
    [] w.kind = "prev"   -> [file EXCEPT ![w.at].prev = w.to]
Saved(disk, w) == IF w.kind = "meta" THEN w.meta ELSE disk

\* What a write does to one block.
LEMMA WrittenIs ==
  ASSUME NEW file, \A o \in DOMAIN file : file[o] \in Node, NEW w \in Write
  PROVE  /\ DOMAIN Written(file, w) = IF w.kind = "block" THEN DOMAIN file \union {w.at} ELSE DOMAIN file
         /\ \A o \in DOMAIN Written(file, w) :
              /\ Written(file, w)[o] \in Node
              /\ Written(file, w)[o].kids = IF w.kind = "block" /\ o = w.at THEN w.node.kids ELSE file[o].kids
              /\ Written(file, w)[o].parent =
                   IF w.kind = "block" /\ o = w.at THEN w.node.parent
                   ELSE IF w.kind = "parent" /\ o = w.at THEN w.to ELSE file[o].parent
              /\ Written(file, w)[o].next = IF w.kind = "block" /\ o = w.at THEN w.node.next ELSE file[o].next
              /\ Written(file, w)[o].prev =
                   IF w.kind = "block" /\ o = w.at THEN w.node.prev
                   ELSE IF w.kind = "prev" /\ o = w.at THEN w.to ELSE file[o].prev
<1>1. \A o \in DOMAIN file : file[o] \in [parent : Nat, next : Nat, prev : Nat, kids : Seq(Kid)]
  BY DEF Node
<1>2. CASE w.kind = "meta"
  <2>1. Written(file, w) = file
    BY <1>2 DEF Written
  <2> QED BY <1>2, <2>1
<1>3. CASE w.kind = "block"
  <2>1. Written(file, w) = [o \in DOMAIN file \union {w.at} |-> IF o = w.at THEN w.node ELSE file[o]]
    BY <1>3 DEF Written
  <2>2. w.node \in Node
    BY <1>3 DEF Write
  <2> QED BY <1>3, <2>1, <2>2
<1>4. CASE w.kind = "parent"
  <2>1. Written(file, w) = [file EXCEPT ![w.at].parent = w.to]
    BY <1>4 DEF Written
  <2>2. w.to \in Nat
    BY <1>4 DEF Write
  <2>3. DOMAIN Written(file, w) = DOMAIN file
    BY <2>1
  <2>4. ASSUME NEW o \in DOMAIN file
        PROVE  /\ Written(file, w)[o] \in [parent : Nat, next : Nat, prev : Nat, kids : Seq(Kid)]
               /\ Written(file, w)[o].kids = file[o].kids
               /\ Written(file, w)[o].parent = IF o = w.at THEN w.to ELSE file[o].parent
               /\ Written(file, w)[o].next = file[o].next /\ Written(file, w)[o].prev = file[o].prev
    <3>1. o # w.at => Written(file, w)[o] = file[o]
      BY <2>1
    <3>2. o = w.at => Written(file, w)[o] = [file[o] EXCEPT !.parent = w.to]
      BY <2>1
    <3> DEFINE b == file[o]
    <3>3. b \in [parent : Nat, next : Nat, prev : Nat, kids : Seq(Kid)]
      BY <1>1
    <3> HIDE DEF b
    <3>4. /\ [b EXCEPT !.parent = w.to] \in [parent : Nat, next : Nat, prev : Nat, kids : Seq(Kid)]
          /\ [b EXCEPT !.parent = w.to].kids = b.kids /\ [b EXCEPT !.parent = w.to].parent = w.to
          /\ [b EXCEPT !.parent = w.to].next = b.next /\ [b EXCEPT !.parent = w.to].prev = b.prev
      BY <2>2, <3>3
    <3> QED BY <3>1, <3>2, <3>3, <3>4 DEF b
  <2> QED BY <1>4, <2>3, <2>4 DEF Node
<1>5. CASE w.kind = "prev"
  <2>1. Written(file, w) = [file EXCEPT ![w.at].prev = w.to]
    BY <1>5 DEF Written
  <2>2. w.to \in Nat
    BY <1>5 DEF Write
  <2>3. DOMAIN Written(file, w) = DOMAIN file
    BY <2>1
  <2>4. ASSUME NEW o \in DOMAIN file
        PROVE  /\ Written(file, w)[o] \in [parent : Nat, next : Nat, prev : Nat, kids : Seq(Kid)]
               /\ Written(file, w)[o].kids = file[o].kids
               /\ Written(file, w)[o].parent = file[o].parent
               /\ Written(file, w)[o].next = file[o].next
               /\ Written(file, w)[o].prev = IF o = w.at THEN w.to ELSE file[o].prev
    <3>1. o # w.at => Written(file, w)[o] = file[o]
      BY <2>1
    <3>2. o = w.at => Written(file, w)[o] = [file[o] EXCEPT !.prev = w.to]
      BY <2>1
    <3> DEFINE b == file[o]
    <3>3. b \in [parent : Nat, next : Nat, prev : Nat, kids : Seq(Kid)]
      BY <1>1
    <3> HIDE DEF b
    <3>4. /\ [b EXCEPT !.prev = w.to] \in [parent : Nat, next : Nat, prev : Nat, kids : Seq(Kid)]
          /\ [b EXCEPT !.prev = w.to].kids = b.kids /\ [b EXCEPT !.prev = w.to].parent = b.parent
          /\ [b EXCEPT !.prev = w.to].next = b.next /\ [b EXCEPT !.prev = w.to].prev = w.to
      BY <2>2, <3>3
    <3> QED BY <3>1, <3>2, <3>3, <3>4 DEF b
  <2> QED BY <1>5, <2>3, <2>4 DEF Node
<1>6. w.kind \in {"meta", "block", "parent", "prev"}
  BY DEF Write
<1> QED BY <1>2, <1>3, <1>4, <1>5, <1>6

\* One write less to come, and the file is still on its way to the tree.
LEMMA OneWrite ==
  ASSUME NEW kids, NEW above, NEW n, NEW file, \A o \in DOMAIN file : file[o] \in Node,
         NEW m, NEW disk, NEW w \in Write, NEW W,
         Pending(kids, above, n, file, m, disk, {w} \union W)
  PROVE  Pending(kids, above, n, Written(file, w), m, Saved(disk, w), W)
<1> DEFINE f == Written(file, w)
<1>1. /\ DOMAIN f = IF w.kind = "block" THEN DOMAIN file \union {w.at} ELSE DOMAIN file
      /\ \A o \in DOMAIN f :
           /\ f[o].kids = IF w.kind = "block" /\ o = w.at THEN w.node.kids ELSE file[o].kids
           /\ f[o].parent = IF w.kind = "block" /\ o = w.at THEN w.node.parent
                            ELSE IF w.kind = "parent" /\ o = w.at THEN w.to ELSE file[o].parent
  BY WrittenIs
<1> HIDE DEF f
<1>2. /\ w.kind = "block"  => w.at \in 1 .. n /\ w.node.kids = kids[w.at] /\ w.node.parent = above[w.at]
      /\ w.kind = "parent" => w.at \in 1 .. n /\ w.to = above[w.at]
      /\ w.kind = "meta"   => w.meta = m
  BY DEF Pending
<1>3. DOMAIN f \subseteq 1 .. n
  <2>1. DOMAIN file \subseteq 1 .. n
    BY DEF Pending
  <2> QED BY <1>1, <1>2, <2>1
<1>4. ASSUME NEW o \in 1 .. n
      PROVE  \/ \E x \in W : x.kind = "block" /\ x.at = o
             \/ /\ o \in DOMAIN f /\ f[o].kids = kids[o]
                /\ f[o].parent = above[o] \/ \E x \in W : x.kind = "parent" /\ x.at = o
  <2>1. CASE w.kind = "block" /\ w.at = o
    BY <1>1, <1>2, <2>1
  <2>2. CASE ~ (w.kind = "block" /\ w.at = o)
    <3>1. \/ \E x \in W : x.kind = "block" /\ x.at = o
          \/ /\ o \in DOMAIN file /\ file[o].kids = kids[o]
             /\ \/ file[o].parent = above[o]
                \/ w.kind = "parent" /\ w.at = o
                \/ \E x \in W : x.kind = "parent" /\ x.at = o
      BY <2>2 DEF Pending
    <3>2. o \in DOMAIN file => /\ o \in DOMAIN f /\ f[o].kids = file[o].kids
                               /\ f[o].parent = IF w.kind = "parent" /\ o = w.at THEN w.to ELSE file[o].parent
      BY <1>1, <2>2
    <3> QED BY <1>2, <3>1, <3>2
  <2> QED BY <2>1, <2>2
<1>5. \A x \in W :
        /\ x.kind = "block"  => x.at \in 1 .. n /\ x.node.kids = kids[x.at] /\ x.node.parent = above[x.at]
        /\ x.kind = "parent" => x.at \in 1 .. n /\ x.to = above[x.at]
        /\ x.kind = "meta"   => x.meta = m
  BY DEF Pending
<1>6. Saved(disk, w) = m \/ \E x \in W : x.kind = "meta"
  <2>1. disk = m \/ w.kind = "meta" \/ \E x \in W : x.kind = "meta"
    BY DEF Pending
  <2> QED BY <1>2, <2>1 DEF Saved
<1> QED BY <1>3, <1>4, <1>5, <1>6 DEF Pending, f

\* A block of the tree gets new kids.
LEMMA BlockWrite ==
  ASSUME NEW kids, NEW above, NEW n, NEW file, NEW m, NEW disk,
         Pending(kids, above, n, file, m, disk, {})
  PROVE  \A kids2, node : \A off \in 1 .. n :
           /\ \A o \in 1 .. n : o # off => kids2[o] = kids[o]
           /\ node.kids = kids2[off] /\ node.parent = above[off]
           => Pending(kids2, above, n, file, m, disk, {Whole(off, node)})
<1> SUFFICES ASSUME NEW kids2, NEW node, NEW off \in 1 .. n,
                    \A o \in 1 .. n : o # off => kids2[o] = kids[o],
                    node.kids = kids2[off], node.parent = above[off]
             PROVE  Pending(kids2, above, n, file, m, disk, {Whole(off, node)})
  OBVIOUS
<1>1. /\ DOMAIN file = 1 .. n /\ disk = m
      /\ \A o \in 1 .. n : file[o].kids = kids[o] /\ file[o].parent = above[o]
  BY Settled
<1> DEFINE w == Whole(off, node)
<1>2. w.kind = "block" /\ w.at = off /\ w.node = node
  BY DEF Whole
<1> HIDE DEF w
<1> QED BY <1>1, <1>2 DEF Pending, w

\* What the writes are.
LEMMA WriteTypes ==
  /\ \A o \in Nat \ {0}, node \in Node : Whole(o, node) \in Write
  /\ \A m \in Metas : Meta(m) \in Write
  /\ \A o, p \in Nat : Header(o, "parent", p) \in Write /\ Header(o, "prev", p) \in Write
BY DEF Write, Whole, Meta, Header

\* reset_index_children_parent.
LEMMA ResetIs ==
  ASSUME NEW s \in Seq(Kid), \A i \in 1 .. Len(s) : s[i].to \in Nat, NEW p \in Nat
  PROVE  /\ Reset(s, p) \in Seq(Write)
         /\ ToSet(Reset(s, p)) = {Header(x, "parent", p) : x \in {s[i].to : i \in 1 .. Len(s)}}
<1> DEFINE r == Reset(s, p)
<1>1. r = [i \in 1 .. Len(s) |-> Header(s[i].to, "parent", p)] /\ Len(s) \in Nat
  BY DEF Reset
<1>2. \A i \in 1 .. Len(s) : Header(s[i].to, "parent", p) \in Write
  BY WriteTypes
<1> HIDE DEF r
<1>3. r \in Seq(Write) /\ DOMAIN r = 1 .. Len(s)
  BY <1>1, <1>2
<1>4. ToSet(r) = {Header(x, "parent", p) : x \in {s[i].to : i \in 1 .. Len(s)}}
  BY <1>1, <1>3 DEF ToSet
<1> QED BY <1>3, <1>4 DEF r

\* What the node after the new one is told.
Told(next, new) == IF next # 0 THEN {Header(next, "prev", new)} ELSE {}

\* node_create.
LEMMA NodeCreateIs ==
  ASSUME NEW node \in Node, NEW m \in Metas, meta.slot \in Nat
  PROVE  /\ NodeCreate(node, m) \in Seq(Write)
         /\ ToSet(NodeCreate(node, m)) = Told(node.next, meta.slot) \union {Meta(m)}
<1> DEFINE h == IF node.next # 0 THEN <<Header(node.next, "prev", meta.slot)>> ELSE << >>
<1>1. h \in Seq(Write) /\ ToSet(h) = Told(node.next, meta.slot)
  <2>1. node.next \in Nat /\ meta.slot \in Nat
    BY DEF Node, Metas
  <2>2. CASE node.next # 0
    <3>1. h = <<Header(node.next, "prev", meta.slot)>>
      BY <2>2
    <3>2. Header(node.next, "prev", meta.slot) \in Write
      BY <2>1, WriteTypes
    <3>3. ToSet(h) = {Header(node.next, "prev", meta.slot)}
      BY <3>1, FewMembers
    <3> HIDE DEF h
    <3> QED BY <2>2, <3>1, <3>2, <3>3 DEF Told
  <2>3. CASE node.next = 0
    <3>1. h = << >>
      BY <2>3
    <3> HIDE DEF h
    <3> QED BY <2>3, <3>1, FewMembers DEF Told
  <2> QED BY <2>2, <2>3
<1>2. Meta(m) \in Write
  BY WriteTypes
<1>3. <<Meta(m)>> \in Seq(Write) /\ ToSet(<<Meta(m)>>) = {Meta(m)}
  BY <1>2, FewMembers
<1> DEFINE t == <<Meta(m)>>
<1>4. NodeCreate(node, m) = h \o t
  <2>1. node.next # 0 => NodeCreate(node, m) = h \o t
    BY DEF NodeCreate
  <2>2. node.next = 0 => NodeCreate(node, m) = h \o t
    BY DEF NodeCreate
  <2> QED BY <2>1, <2>2
<1>6. t \in Seq(Write) /\ ToSet(t) = {Meta(m)}
  BY <1>3
<1> HIDE DEF h, t
<1>5. h \o t \in Seq(Write) /\ ToSet(h \o t) = ToSet(h) \union ToSet(t)
  BY <1>1, <1>6, ConcatMembers
<1> QED BY <1>1, <1>4, <1>5, <1>6

\* What insert and insert_key_to_index make of the meta block: counts and
\* height grow, the root may change.
MetaAfter(m, i, l, h, r) ==
  [internal_node_num |-> m.internal_node_num + i, leaf_node_num |-> m.leaf_node_num + l,
   height |-> m.height + h, slot |-> m.slot + 1, root_offset |-> r, leaf_offset |-> m.leaf_offset]

\* A meta block is its fields.
LEMMA MetaIs ==
  \A m \in Metas :
    /\ m = [internal_node_num |-> m.internal_node_num, leaf_node_num |-> m.leaf_node_num,
            height |-> m.height, slot |-> m.slot, root_offset |-> m.root_offset,
            leaf_offset |-> m.leaf_offset]
    /\ m.slot \in Nat /\ m.internal_node_num \in Nat /\ m.leaf_node_num \in Nat /\ m.height \in Nat
    /\ m.root_offset \in Nat /\ m.leaf_offset \in Nat
BY DEF Metas

\* The meta blocks that the operations make.
LEMMA MetaChanges ==
  ASSUME NEW m \in Metas
  PROVE  /\ [m EXCEPT !.slot = @ + 1, !.leaf_node_num = @ + 1] = MetaAfter(m, 0, 1, 0, m.root_offset)
         /\ [m EXCEPT !.slot = @ + 1, !.internal_node_num = @ + 1] = MetaAfter(m, 1, 0, 0, m.root_offset)
         /\ [m EXCEPT !.slot = @ + 1, !.internal_node_num = @ + 1, !.height = @ + 1, !.root_offset = m.slot]
            = MetaAfter(m, 1, 0, 1, m.slot)
         /\ \A i, l, h, r \in Nat : MetaAfter(m, i, l, h, r) \in Metas
<1>1. /\ m.slot \in Nat /\ m.internal_node_num \in Nat /\ m.leaf_node_num \in Nat /\ m.height \in Nat
      /\ m.root_offset \in Nat /\ m.leaf_offset \in Nat
  BY MetaIs
<1> DEFINE p == [m EXCEPT !.slot = m.slot + 1]
           l == [p EXCEPT !.leaf_node_num = m.leaf_node_num + 1]
           q == [p EXCEPT !.internal_node_num = m.internal_node_num + 1]
           s == [q EXCEPT !.height = m.height + 1]
           t == [s EXCEPT !.root_offset = m.slot]
<1>2. p \in Metas /\ p.slot = m.slot + 1 /\ p.internal_node_num = m.internal_node_num
      /\ p.leaf_node_num = m.leaf_node_num /\ p.height = m.height
      /\ p.root_offset = m.root_offset /\ p.leaf_offset = m.leaf_offset
  BY <1>1 DEF Metas
<1>3. [m EXCEPT !.slot = @ + 1, !.leaf_node_num = @ + 1] = l
  BY DEF Metas
<1>4. [m EXCEPT !.slot = @ + 1, !.internal_node_num = @ + 1] = q
  BY DEF Metas
<1>5. [m EXCEPT !.slot = @ + 1, !.internal_node_num = @ + 1, !.height = @ + 1, !.root_offset = m.slot] = t
  BY DEF Metas
<1> HIDE DEF p
<1>6. l \in Metas /\ l.slot = p.slot /\ l.internal_node_num = p.internal_node_num
      /\ l.leaf_node_num = m.leaf_node_num + 1 /\ l.height = p.height
      /\ l.root_offset = p.root_offset /\ l.leaf_offset = p.leaf_offset
  BY <1>1, <1>2 DEF Metas
<1>7. q \in Metas /\ q.slot = p.slot /\ q.internal_node_num = m.internal_node_num + 1
      /\ q.leaf_node_num = p.leaf_node_num /\ q.height = p.height
      /\ q.root_offset = p.root_offset /\ q.leaf_offset = p.leaf_offset
  BY <1>1, <1>2 DEF Metas
<1> HIDE DEF l, q
<1>8. s \in Metas /\ s.slot = q.slot /\ s.internal_node_num = q.internal_node_num
      /\ s.leaf_node_num = q.leaf_node_num /\ s.height = m.height + 1
      /\ s.root_offset = q.root_offset /\ s.leaf_offset = q.leaf_offset
  BY <1>1, <1>7 DEF Metas
<1> HIDE DEF s
<1>9. t \in Metas /\ t.slot = s.slot /\ t.internal_node_num = s.internal_node_num
      /\ t.leaf_node_num = s.leaf_node_num /\ t.height = s.height
      /\ t.root_offset = m.slot /\ t.leaf_offset = s.leaf_offset
  BY <1>1, <1>8 DEF Metas
<1> HIDE DEF t
<1>10. \A x \in Nat : x + 0 = x
  OBVIOUS
<1>12. l = MetaAfter(m, 0, 1, 0, m.root_offset)
  BY <1>1, <1>2, <1>6, <1>10, MetaIs DEF MetaAfter
<1>13. q = MetaAfter(m, 1, 0, 0, m.root_offset)
  BY <1>1, <1>2, <1>7, <1>10, MetaIs DEF MetaAfter
<1>14. t = MetaAfter(m, 1, 0, 1, m.slot)
  BY <1>1, <1>2, <1>7, <1>8, <1>9, <1>10, MetaIs DEF MetaAfter
<1>11. ASSUME NEW i \in Nat, NEW j \in Nat, NEW h \in Nat, NEW r \in Nat
       PROVE  MetaAfter(m, i, j, h, r) \in Metas
  BY <1>1 DEF MetaAfter, Metas
<1> QED BY <1>3, <1>4, <1>5, <1>11, <1>12, <1>13, <1>14

\* A block of the tree is cut in two; the kids M of the new one are moved.
SplitSet(P, m, off, a, new, b, M) ==
  P \union {Meta(m)} \union {Whole(off, a), Whole(new, b)} \union {Header(x, "parent", new) : x \in M}

SplitsWritten(kids, above, n, file, disk) ==
  \A kids2, above2, M, P, a, b, m2 : \A off \in 1 .. n :
    /\ \A o \in 1 .. n : o # off => kids2[o] = kids[o]
    /\ \A x \in M : x \in 1 .. n /\ above2[x] = n + 1
    /\ \A o \in 1 .. n : o \notin M => above2[o] = above[o]
    /\ a.kids = kids2[off] /\ a.parent = above2[off]
    /\ b.kids = kids2[n + 1] /\ b.parent = above2[n + 1]
    /\ \A w \in P : w.kind = "prev"
    => Pending(kids2, above2, n + 1, file, m2, disk, SplitSet(P, m2, off, a, n + 1, b, M))

\* The writes of a split make the file into the tree with the new node n + 1.
LEMMA SplitWrites ==
  ASSUME NEW kids, NEW above, NEW n \in Nat, NEW file, NEW m, NEW disk,
         Pending(kids, above, n, file, m, disk, {})
  PROVE  SplitsWritten(kids, above, n, file, disk)
<1> SUFFICES
      ASSUME NEW kids2, NEW above2, NEW M, NEW P, NEW a, NEW b, NEW m2, NEW off \in 1 .. n,
             \A o \in 1 .. n : o # off => kids2[o] = kids[o],
             \A x \in M : x \in 1 .. n /\ above2[x] = n + 1,
             \A o \in 1 .. n : o \notin M => above2[o] = above[o],
             a.kids = kids2[off], a.parent = above2[off],
             b.kids = kids2[n + 1], b.parent = above2[n + 1],
             \A w \in P : w.kind = "prev"
      PROVE  Pending(kids2, above2, n + 1, file, m2, disk, SplitSet(P, m2, off, a, n + 1, b, M))
  BY DEF SplitsWritten
<1> DEFINE W == SplitSet(P, m2, off, a, n + 1, b, M)
<1>1. /\ DOMAIN file = 1 .. n /\ disk = m
      /\ \A o \in 1 .. n : file[o].kids = kids[o] /\ file[o].parent = above[o]
  BY Settled
<1>2. /\ \A x : /\ Header(x, "parent", n + 1).kind = "parent"
                /\ Header(x, "parent", n + 1).at = x /\ Header(x, "parent", n + 1).to = n + 1
      /\ Meta(m2).kind = "meta" /\ Meta(m2).meta = m2
      /\ \A x, y : Whole(x, y).kind = "block" /\ Whole(x, y).at = x /\ Whole(x, y).node = y
  BY DEF Header, Meta, Whole
<1>3. Meta(m2) \in W /\ Whole(off, a) \in W /\ Whole(n + 1, b) \in W
      /\ \A x \in M : Header(x, "parent", n + 1) \in W
  BY DEF SplitSet
<1>4. ASSUME NEW w \in W
      PROVE  \/ w.kind = "prev" \/ w = Meta(m2) \/ w = Whole(off, a) \/ w = Whole(n + 1, b)
             \/ \E x \in M : w = Header(x, "parent", n + 1)
  BY DEF SplitSet
<1> HIDE DEF W
<1>5. 1 .. n \subseteq 1 .. n + 1 /\ n + 1 \in 1 .. n + 1 /\ \A o \in 1 .. n + 1 : o = n + 1 \/ o \in 1 .. n
  OBVIOUS
<1>6. ASSUME NEW o \in 1 .. n + 1
      PROVE  \/ \E w \in W : w.kind = "block" /\ w.at = o
             \/ /\ o \in DOMAIN file /\ file[o].kids = kids2[o]
                /\ file[o].parent = above2[o] \/ \E w \in W : w.kind = "parent" /\ w.at = o
  <2>1. o \in {off, n + 1} => \E w \in W : w.kind = "block" /\ w.at = o
    BY <1>2, <1>3
  <2>2. CASE o \notin {off, n + 1}
    <3>1. o \in 1 .. n /\ o \in DOMAIN file /\ file[o].kids = kids2[o] /\ file[o].parent = above[o]
      BY <1>1, <1>5, <2>2
    <3>2. o \notin M => file[o].parent = above2[o]
      BY <3>1
    <3>3. o \in M => \E w \in W : w.kind = "parent" /\ w.at = o
      BY <1>2, <1>3
    <3> QED BY <3>1, <3>2, <3>3
  <2> QED BY <2>1, <2>2
<1>7. ASSUME NEW w \in W
      PROVE  /\ w.kind = "block"  => /\ w.at \in 1 .. n + 1
                                     /\ w.node.kids = kids2[w.at] /\ w.node.parent = above2[w.at]
             /\ w.kind = "parent" => w.at \in 1 .. n + 1 /\ w.to = above2[w.at]
             /\ w.kind = "meta"   => w.meta = m2
  <2>1. CASE w.kind = "prev"
    BY <2>1
  <2>2. CASE w = Meta(m2)
    BY <1>2, <2>2
  <2>3. CASE w = Whole(off, a)
    BY <1>2, <1>5, <2>3
  <2>4. CASE w = Whole(n + 1, b)
    BY <1>2, <1>5, <2>4
  <2>5. CASE \E x \in M : w = Header(x, "parent", n + 1)
    BY <1>2, <1>5, <2>5
  <2> QED BY <1>4, <2>1, <2>2, <2>3, <2>4, <2>5
<1>8. \E w \in W : w.kind = "meta"
  BY <1>2, <1>3
<1>9. DOMAIN file \subseteq 1 .. n + 1
  BY <1>1, <1>5
<1> QED BY <1>6, <1>7, <1>8, <1>9 DEF Pending, W

\* A new root over the nodes M.
RootSet(m, new, b, M) == {Meta(m), Whole(new, b)} \union {Header(x, "parent", new) : x \in M}

\* The writes of a new root make the file into the tree with the new root
\* n + 1.
LEMMA RootWrites ==
  ASSUME NEW kids, NEW above, NEW n \in Nat, NEW file, NEW m, NEW disk,
         Pending(kids, above, n, file, m, disk, {})
  PROVE  \A kids2, above2, M, b, m2 :
           /\ \A o \in 1 .. n : kids2[o] = kids[o]
           /\ \A x \in M : x \in 1 .. n /\ above2[x] = n + 1
           /\ \A o \in 1 .. n : o \notin M => above2[o] = above[o]
           /\ b.kids = kids2[n + 1] /\ b.parent = above2[n + 1]
           => Pending(kids2, above2, n + 1, file, m2, disk, RootSet(m2, n + 1, b, M))
<1> SUFFICES
      ASSUME NEW kids2, NEW above2, NEW M, NEW b, NEW m2,
             \A o \in 1 .. n : kids2[o] = kids[o],
             \A x \in M : x \in 1 .. n /\ above2[x] = n + 1,
             \A o \in 1 .. n : o \notin M => above2[o] = above[o],
             b.kids = kids2[n + 1], b.parent = above2[n + 1]
      PROVE  Pending(kids2, above2, n + 1, file, m2, disk, RootSet(m2, n + 1, b, M))
  OBVIOUS
<1> DEFINE W == RootSet(m2, n + 1, b, M)
<1>1. /\ DOMAIN file = 1 .. n /\ disk = m
      /\ \A o \in 1 .. n : file[o].kids = kids[o] /\ file[o].parent = above[o]
  BY Settled
<1>2. /\ \A x : /\ Header(x, "parent", n + 1).kind = "parent"
                /\ Header(x, "parent", n + 1).at = x /\ Header(x, "parent", n + 1).to = n + 1
      /\ Meta(m2).kind = "meta" /\ Meta(m2).meta = m2
      /\ \A x, y : Whole(x, y).kind = "block" /\ Whole(x, y).at = x /\ Whole(x, y).node = y
  BY DEF Header, Meta, Whole
<1>3. Meta(m2) \in W /\ Whole(n + 1, b) \in W /\ \A x \in M : Header(x, "parent", n + 1) \in W
  BY DEF RootSet
<1>4. ASSUME NEW w \in W
      PROVE  w = Meta(m2) \/ w = Whole(n + 1, b) \/ \E x \in M : w = Header(x, "parent", n + 1)
  BY DEF RootSet
<1> HIDE DEF W
<1>5. 1 .. n \subseteq 1 .. n + 1 /\ n + 1 \in 1 .. n + 1 /\ \A o \in 1 .. n + 1 : o = n + 1 \/ o \in 1 .. n
  OBVIOUS
<1>6. ASSUME NEW o \in 1 .. n + 1
      PROVE  \/ \E w \in W : w.kind = "block" /\ w.at = o
             \/ /\ o \in DOMAIN file /\ file[o].kids = kids2[o]
                /\ file[o].parent = above2[o] \/ \E w \in W : w.kind = "parent" /\ w.at = o
  <2>1. o = n + 1 => \E w \in W : w.kind = "block" /\ w.at = o
    BY <1>2, <1>3
  <2>2. CASE o # n + 1
    <3>1. o \in 1 .. n /\ o \in DOMAIN file /\ file[o].kids = kids2[o] /\ file[o].parent = above[o]
      BY <1>1, <1>5, <2>2
    <3>2. o \notin M => file[o].parent = above2[o]
      BY <3>1
    <3>3. o \in M => \E w \in W : w.kind = "parent" /\ w.at = o
      BY <1>2, <1>3
    <3> QED BY <3>1, <3>2, <3>3
  <2> QED BY <2>1, <2>2
<1>7. ASSUME NEW w \in W
      PROVE  /\ w.kind = "block"  => /\ w.at \in 1 .. n + 1
                                     /\ w.node.kids = kids2[w.at] /\ w.node.parent = above2[w.at]
             /\ w.kind = "parent" => w.at \in 1 .. n + 1 /\ w.to = above2[w.at]
             /\ w.kind = "meta"   => w.meta = m2
  <2>2. CASE w = Meta(m2)
    BY <1>2, <2>2
  <2>4. CASE w = Whole(n + 1, b)
    BY <1>2, <1>5, <2>4
  <2>5. CASE \E x \in M : w = Header(x, "parent", n + 1)
    BY <1>2, <1>5, <2>5
  <2> QED BY <1>4, <2>2, <2>4, <2>5
<1>8. \E w \in W : w.kind = "meta"
  BY <1>2, <1>3
<1>9. DOMAIN file \subseteq 1 .. n + 1
  BY <1>1, <1>5
<1> QED BY <1>6, <1>7, <1>8, <1>9 DEF Pending, W

-----------------------------------------------------------------------------
(* The rows of the tree.  A split cuts a node of a row in two: t comes     *)
(* after o.                                                                *)

\* Who is before x is followed by x.
LEMMA Neighbours ==
  \A p, x, y, c : Convex(p) /\ Leads(p, x, y) /\ y # 0 /\ Follows(p, y, c) => c = x
<1> SUFFICES ASSUME NEW p, NEW x, NEW y, NEW c, Convex(p), Leads(p, x, y), y # 0, Follows(p, y, c)
             PROVE  c = x
  OBVIOUS
<1>1. PICK k \in Int : p[k] = y /\ p[k + 1] = x
  BY DEF Leads
<1>2. x # y
  BY DEF Leads
<1>3. k + 1 \in Int /\ k <= k + 1
  OBVIOUS
<1>4. c # 0
  BY <1>1, <1>2, <1>3 DEF Follows
<1>5. PICK j \in Int : p[j] = y /\ p[j + 1] = c
  BY <1>4 DEF Follows
<1>6. c # y
  BY <1>4 DEF Follows
<1>7. CASE j < k
  <2>1. j + 1 \in Int /\ j <= j + 1 /\ j + 1 <= k
    BY <1>7
  <2>2. p[j + 1] = p[j]
    BY <1>1, <1>5, <2>1 DEF Convex
  <2> QED BY <1>5, <1>6, <2>2
<1>8. CASE k < j
  <2>1. k + 1 <= j
    BY <1>8
  <2>2. p[k + 1] = p[k]
    BY <1>1, <1>3, <1>5, <2>1 DEF Convex
  <2> QED BY <1>1, <1>2, <2>2
<1>9. CASE j = k
  BY <1>1, <1>5, <1>9
<1> QED BY <1>7, <1>8, <1>9

\* The keys of o from sep on go to t, a node after o.
Cut(p, o, sep, t) == [k \in Int |-> IF p[k] = o /\ k >= sep THEN t ELSE p[k]]
Cuttable(p, o, sep, t) ==
  /\ Convex(p) /\ sep \in Int /\ p[sep] = o /\ \E k \in Int : k < sep /\ p[k] = o
  /\ t # 0 /\ t # o /\ \A k \in Int : p[k] # t

\* Where the keys of o begin and end.
LEMMA Edges ==
  ASSUME NEW p, NEW o, NEW sep, NEW t, Cuttable(p, o, sep, t)
  PROVE  /\ sep - 1 \in Int /\ p[sep - 1] = o
         /\ \A k \in Int : p[k] # o /\ p[k + 1] = o => k + 1 < sep
         /\ \A k \in Int : p[k] = o /\ p[k + 1] # o => k >= sep
<1>1. sep \in Int /\ p[sep] = o /\ Convex(p)
  BY DEF Cuttable
<1>2. PICK a \in Int : a < sep /\ p[a] = o
  BY DEF Cuttable
<1>3. p[sep - 1] = o
  <2>1. sep - 1 \in Int /\ a <= sep - 1 /\ sep - 1 <= sep
    BY <1>1, <1>2
  <2> QED BY <1>1, <1>2, <2>1 DEF Convex
<1>4. ASSUME NEW k \in Int, p[k] # o, p[k + 1] = o PROVE k + 1 < sep
  <2> SUFFICES ASSUME ~ (k + 1 < sep) PROVE FALSE
    OBVIOUS
  <2>1. k + 1 \in Int /\ a <= k /\ k <= k + 1
    BY <1>1, <1>2
  <2>2. p[k] = p[a]
    BY <1>1, <1>2, <1>4, <2>1 DEF Convex
  <2> QED BY <1>2, <1>4, <2>2
<1>5. ASSUME NEW k \in Int, p[k] = o, p[k + 1] # o PROVE k >= sep
  <2> SUFFICES ASSUME ~ (k >= sep) PROVE FALSE
    OBVIOUS
  <2>1. k + 1 \in Int /\ k <= k + 1 /\ k + 1 <= sep
    BY <1>1
  <2>2. p[k + 1] = p[k]
    BY <1>1, <1>5, <2>1 DEF Convex
  <2> QED BY <1>5, <2>2
<1> QED BY <1>1, <1>3, <1>4, <1>5

\* The row is convex after the cut.
LEMMA CutConvex ==
  ASSUME NEW p, NEW o, NEW sep, NEW t, Cuttable(p, o, sep, t)
  PROVE  Convex(Cut(p, o, sep, t))
<1> DEFINE r == Cut(p, o, sep, t)
<1>1. /\ Convex(p) /\ sep \in Int /\ t # o /\ \A k \in Int : p[k] # t
      /\ \A k \in Int : r[k] = IF p[k] = o /\ k >= sep THEN t ELSE p[k]
  BY DEF Cut, Cuttable
<1> HIDE DEF r
<1> SUFFICES ASSUME NEW i \in Int, NEW j \in Int, NEW k \in Int, i <= j, j <= k, r[i] = r[k]
             PROVE  r[j] = r[i]
  BY DEF Convex, r
<1>2. p[i] = p[k] /\ (p[i] = o => (i >= sep <=> k >= sep))
  BY <1>1
<1>3. p[j] = p[i]
  BY <1>1, <1>2 DEF Convex
<1>4. p[i] = o => (i >= sep <=> j >= sep)
  BY <1>1, <1>2
<1> QED BY <1>1, <1>3, <1>4

\* Who follows whom after the cut.
LEMMA CutFollows ==
  ASSUME NEW p, NEW o, NEW sep, NEW t, Cuttable(p, o, sep, t)
  PROVE  /\ \A x, c : x # o /\ x # t /\ Follows(p, x, c) => Follows(Cut(p, o, sep, t), x, c)
         /\ \A c : c # t /\ Follows(p, o, c) => Follows(Cut(p, o, sep, t), t, c)
         /\ Follows(Cut(p, o, sep, t), o, t)
<1> DEFINE r == Cut(p, o, sep, t)
<1>1. /\ Convex(p) /\ sep \in Int /\ t # o /\ t # 0 /\ p[sep] = o /\ \A k \in Int : p[k] # t
      /\ \A k \in Int : r[k] = IF p[k] = o /\ k >= sep THEN t ELSE p[k]
  BY DEF Cut, Cuttable
<1>2. /\ sep - 1 \in Int /\ p[sep - 1] = o
      /\ \A k \in Int : p[k] # o /\ p[k + 1] = o => k + 1 < sep
      /\ \A k \in Int : p[k] = o /\ p[k + 1] # o => k >= sep
  BY Edges
<1> HIDE DEF r
<1>0. \A k \in Int : k + 1 \in Int
  OBVIOUS
<1>3. ASSUME NEW x, NEW c, x # o, x # t, Follows(p, x, c) PROVE Follows(r, x, c)
  <2>1. \A k \in Int : r[k] = x <=> p[k] = x
    BY <1>1, <1>3
  <2>2. CASE c = 0
    BY <1>3, <2>1, <2>2 DEF Follows
  <2>3. CASE c # 0
    <3>1. PICK k \in Int : p[k] = x /\ p[k + 1] = c
      BY <1>3, <2>3 DEF Follows
    <3>2. r[k] = x
      BY <2>1, <3>1
    <3>3. c = o => k + 1 < sep
      BY <1>2, <1>3, <3>1
    <3>4. ~ (p[k + 1] = o /\ k + 1 >= sep)
      BY <1>1, <3>1, <3>3
    <3>5. r[k + 1] = c
      BY <1>0, <1>1, <3>1, <3>4
    <3> QED BY <1>3, <2>3, <3>2, <3>5 DEF Follows
  <2> QED BY <2>2, <2>3
<1>4. ASSUME NEW c, c # t, Follows(p, o, c) PROVE Follows(r, t, c)
  <2>2. CASE c = 0
    <3>1. \A j, k \in Int : p[j] = o /\ j <= k => p[k] = o
      BY <1>4, <2>2 DEF Follows
    <3>2. ASSUME NEW j \in Int, NEW k \in Int, r[j] = t, j <= k PROVE r[k] = t
      <4>1. p[j] = o /\ j >= sep
        BY <1>1, <3>2
      <4>2. p[k] = o /\ k >= sep
        BY <1>1, <3>1, <3>2, <4>1
      <4> QED BY <1>1, <4>2
    <3> QED BY <2>2, <3>2 DEF Follows
  <2>3. CASE c # 0
    <3>1. PICK k \in Int : p[k] = o /\ p[k + 1] = c /\ c # o
      BY <1>4, <2>3 DEF Follows
    <3>2. k >= sep
      BY <1>2, <3>1
    <3>3. r[k] = t /\ r[k + 1] = c
      BY <1>0, <1>1, <3>1, <3>2
    <3> QED BY <1>4, <2>3, <3>3 DEF Follows
  <2> QED BY <2>2, <2>3
<1>5. Follows(r, o, t)
  <2>1. sep - 1 + 1 = sep /\ ~ (sep - 1 >= sep) /\ sep >= sep
    BY <1>1
  <2>2. r[sep - 1] = o
    BY <1>1, <1>2, <2>1
  <2>3. r[sep - 1 + 1] = t
    BY <1>1, <2>1
  <2> QED BY <1>1, <1>2, <2>2, <2>3 DEF Follows
<1> QED BY <1>3, <1>4, <1>5 DEF r

\* Who is before whom after the cut.
LEMMA CutLeads ==
  ASSUME NEW p, NEW o, NEW sep, NEW t, Cuttable(p, o, sep, t)
  PROVE  /\ \A x, c : x # o /\ x # t /\ c # o /\ Leads(p, x, c) => Leads(Cut(p, o, sep, t), x, c)
         /\ \A c : c # t /\ Leads(p, o, c) => Leads(Cut(p, o, sep, t), o, c)
         /\ o # 0 => Leads(Cut(p, o, sep, t), t, o)
         /\ \A c : c # 0 /\ c # t /\ Follows(p, o, c) => Leads(Cut(p, o, sep, t), c, t)
<1> DEFINE r == Cut(p, o, sep, t)
<1>1. /\ Convex(p) /\ sep \in Int /\ t # o /\ t # 0 /\ p[sep] = o /\ \A k \in Int : p[k] # t
      /\ \A k \in Int : r[k] = IF p[k] = o /\ k >= sep THEN t ELSE p[k]
  BY DEF Cut, Cuttable
<1>2. /\ sep - 1 \in Int /\ p[sep - 1] = o
      /\ \A k \in Int : p[k] # o /\ p[k + 1] = o => k + 1 < sep
      /\ \A k \in Int : p[k] = o /\ p[k + 1] # o => k >= sep
  BY Edges
<1> HIDE DEF r
<1>0. \A k \in Int : k + 1 \in Int
  OBVIOUS
<1>3. ASSUME NEW x, NEW c, x # o, x # t, c # o, Leads(p, x, c) PROVE Leads(r, x, c)
  <2>1. \A k \in Int : r[k] = x <=> p[k] = x
    BY <1>1, <1>3
  <2>2. CASE c = 0
    BY <1>3, <2>1, <2>2 DEF Leads
  <2>3. CASE c # 0
    <3>1. PICK k \in Int : p[k] = c /\ p[k + 1] = x
      BY <1>3, <2>3 DEF Leads
    <3>2. r[k + 1] = x /\ r[k] = c
      BY <1>0, <1>1, <1>3, <2>1, <3>1
    <3> QED BY <1>3, <2>3, <3>2 DEF Leads
  <2> QED BY <2>2, <2>3
<1>4. ASSUME NEW c, c # t, Leads(p, o, c) PROVE Leads(r, o, c)
  <2>2. CASE c = 0
    <3>1. \A j, k \in Int : p[k] = o /\ j <= k => p[j] = o
      BY <1>4, <2>2 DEF Leads
    <3>2. ASSUME NEW j \in Int, NEW k \in Int, r[k] = o, j <= k PROVE r[j] = o
      <4>1. p[k] = o /\ k < sep
        BY <1>1, <3>2
      <4>2. p[j] = o /\ ~ (j >= sep)
        BY <1>1, <3>1, <3>2, <4>1
      <4> QED BY <1>1, <4>2
    <3> QED BY <2>2, <3>2 DEF Leads
  <2>3. CASE c # 0
    <3>1. PICK k \in Int : p[k] = c /\ p[k + 1] = o /\ c # o
      BY <1>4, <2>3 DEF Leads
    <3>2. k + 1 < sep
      BY <1>2, <3>1
    <3>4. ~ (k + 1 >= sep)
      BY <1>1, <3>2
    <3>3. r[k] = c /\ r[k + 1] = o
      BY <1>0, <1>1, <3>1, <3>4
    <3> QED BY <1>4, <2>3, <3>1, <3>3 DEF Leads
  <2> QED BY <2>2, <2>3
<1>5. ASSUME o # 0 PROVE Leads(r, t, o)
  <2>1. sep - 1 + 1 = sep /\ ~ (sep - 1 >= sep) /\ sep >= sep
    BY <1>1
  <2>2. r[sep - 1] = o
    BY <1>1, <1>2, <2>1
  <2>3. r[sep - 1 + 1] = t
    BY <1>1, <2>1
  <2> QED BY <1>1, <1>2, <1>5, <2>2, <2>3 DEF Leads
<1>6. ASSUME NEW c, c # 0, c # t, Follows(p, o, c) PROVE Leads(r, c, t)
  <2>1. PICK k \in Int : p[k] = o /\ p[k + 1] = c /\ c # o
    BY <1>6 DEF Follows
  <2>2. k >= sep
    BY <1>2, <2>1
  <2>3. r[k] = t /\ r[k + 1] = c
    BY <1>0, <1>1, <2>1, <2>2
  <2> QED BY <1>1, <1>6, <2>3 DEF Leads
<1> QED BY <1>3, <1>4, <1>5, <1>6 DEF r

-----------------------------------------------------------------------------
(* The writes of an operation, and the rows.                               *)

\* Without writes to come the file has the neighbours.
LEMMA SettledRows ==
  ASSUME NEW nexts, NEW prevs, NEW n, NEW file, Carried(nexts, prevs, n, file, {})
  PROVE  \A o \in 1 .. n : o \in DOMAIN file /\ file[o].next = nexts[o] /\ file[o].prev = prevs[o]
BY DEF Carried

\* One write less to come, and the file is still on its way to the rows.
LEMMA OneWriteRows ==
  ASSUME NEW path, NEW lv, NEW n, NEW H, NEW m, NEW file, \A o \in DOMAIN file : file[o] \in Node,
         NEW w \in Write, NEW W, Rowed(path, lv, n, H, m, file, {w} \union W)
  PROVE  Rowed(path, lv, n, H, m, Written(file, w), W)
<1> DEFINE f == Written(file, w)
<1>1. /\ DOMAIN f = IF w.kind = "block" THEN DOMAIN file \union {w.at} ELSE DOMAIN file
      /\ \A o \in DOMAIN f :
           /\ f[o].next = IF w.kind = "block" /\ o = w.at THEN w.node.next ELSE file[o].next
           /\ f[o].prev = IF w.kind = "block" /\ o = w.at THEN w.node.prev
                          ELSE IF w.kind = "prev" /\ o = w.at THEN w.to ELSE file[o].prev
  BY ZenonT(60), WrittenIs
<1> HIDE DEF f
<1>2. PICK nexts, prevs : /\ Linked(nexts, prevs, path, lv, n, H, m.leaf_offset)
                          /\ Carried(nexts, prevs, n, file, {w} \union W)
  BY DEF Rowed
<1>3. /\ w.kind = "block" => w.node.next = nexts[w.at] /\ w.node.prev = prevs[w.at]
      /\ w.kind = "prev"  => w.to = prevs[w.at]
  BY <1>2 DEF Carried
<1>4. ASSUME NEW o \in 1 .. n
      PROVE  \/ \E x \in W : x.kind = "block" /\ x.at = o
             \/ /\ o \in DOMAIN f /\ f[o].next = nexts[o]
                /\ f[o].prev = prevs[o] \/ \E x \in W : x.kind = "prev" /\ x.at = o
  <2>1. CASE w.kind = "block" /\ w.at = o
    BY <1>1, <1>3, <2>1
  <2>2. CASE ~ (w.kind = "block" /\ w.at = o)
    <3>1. \/ \E x \in W : x.kind = "block" /\ x.at = o
          \/ /\ o \in DOMAIN file /\ file[o].next = nexts[o]
             /\ \/ file[o].prev = prevs[o]
                \/ w.kind = "prev" /\ w.at = o
                \/ \E x \in W : x.kind = "prev" /\ x.at = o
      BY <1>2, <2>2 DEF Carried
    <3>2. o \in DOMAIN file => /\ o \in DOMAIN f /\ f[o].next = file[o].next
                               /\ f[o].prev = IF w.kind = "prev" /\ o = w.at THEN w.to ELSE file[o].prev
      BY <1>1, <2>2
    <3> QED BY <1>3, <3>1, <3>2
  <2> QED BY <2>1, <2>2
<1>5. \A x \in W :
        /\ x.kind = "block" => x.node.next = nexts[x.at] /\ x.node.prev = prevs[x.at]
        /\ x.kind = "prev"  => x.to = prevs[x.at]
  BY <1>2 DEF Carried
<1>6. Carried(nexts, prevs, n, f, W)
  BY <1>4, <1>5 DEF Carried
<1> QED BY <1>2, <1>6 DEF Rowed, f

\* A block of the tree is written again with the same neighbours.
LEMMA BlockWriteRows ==
  ASSUME NEW path, NEW lv, NEW n, NEW H, NEW m, NEW file, Rowed(path, lv, n, H, m, file, {})
  PROVE  \A node : \A off \in 1 .. n :
           node.next = file[off].next /\ node.prev = file[off].prev =>
             Rowed(path, lv, n, H, m, file, {Whole(off, node)})
<1> SUFFICES ASSUME NEW node, NEW off \in 1 .. n, node.next = file[off].next, node.prev = file[off].prev
             PROVE  Rowed(path, lv, n, H, m, file, {Whole(off, node)})
  OBVIOUS
<1>1. PICK nexts, prevs : /\ Linked(nexts, prevs, path, lv, n, H, m.leaf_offset)
                          /\ Carried(nexts, prevs, n, file, {})
  BY DEF Rowed
<1>2. \A o \in 1 .. n : o \in DOMAIN file /\ file[o].next = nexts[o] /\ file[o].prev = prevs[o]
  BY <1>1, SettledRows
<1> DEFINE w == Whole(off, node)
<1>3. w.kind = "block" /\ w.at = off /\ w.node = node
  BY DEF Whole
<1> HIDE DEF w
<1>4. Carried(nexts, prevs, n, file, {w})
  BY <1>2, <1>3 DEF Carried
<1> QED BY <1>1, <1>4 DEF Rowed, w

\* A new root is a row of its own.
LEMMA RootRows ==
  ASSUME NEW kids, NEW above, NEW path, NEW lv, NEW n, NEW H, NEW root, NEW u, NEW d, NEW m, NEW file,
         Tree(kids, above, path, lv, n, H, root, u, d), m \in Metas, Rowed(path, lv, n, H, m, file, {})
  PROVE  \A m2, b, M :
           /\ m2.leaf_node_num = m.leaf_node_num /\ m2.internal_node_num = m.internal_node_num + 1
           /\ m2.leaf_offset = m.leaf_offset
           /\ b.next = 0 /\ b.prev = 0
           => Rowed(RootPath(path, n, H), RootLv(lv, n, H), n + 1, H + 1, m2, file, RootSet(m2, n + 1, b, M))
<1> SUFFICES ASSUME NEW m2, NEW b, NEW M, m2.leaf_node_num = m.leaf_node_num,
                    m2.internal_node_num = m.internal_node_num + 1, m2.leaf_offset = m.leaf_offset,
                    b.next = 0, b.prev = 0
             PROVE  Rowed(RootPath(path, n, H), RootLv(lv, n, H), n + 1, H + 1, m2, file, RootSet(m2, n + 1, b, M))
  OBVIOUS
<1> DEFINE t  == n + 1
           p2 == RootPath(path, n, H)
           l2 == RootLv(lv, n, H)
           W  == RootSet(m2, t, b, M)
<1>1. /\ n \in Nat /\ H \in Nat /\ lv \in [1 .. n -> 0 .. H] /\ path \in [Nat -> [Int -> Nat]]
  BY DEF Tree, Typed
<1>2. PICK nexts, prevs : /\ Linked(nexts, prevs, path, lv, n, H, m.leaf_offset)
                          /\ Carried(nexts, prevs, n, file, {})
  BY DEF Rowed
<1>3. \A o \in 1 .. n : o \in DOMAIN file /\ file[o].next = nexts[o] /\ file[o].prev = prevs[o]
  BY <1>2, SettledRows
<1>4. /\ nexts \in [1 .. n -> 0 .. n] /\ prevs \in [1 .. n -> 0 .. n]
      /\ m.leaf_offset \in 1 .. n /\ lv[m.leaf_offset] = 0 /\ prevs[m.leaf_offset] = 0
      /\ \A h \in 0 .. H : Convex(path[h])
      /\ \A o \in 1 .. n : Follows(path[lv[o]], o, nexts[o]) /\ Leads(path[lv[o]], o, prevs[o])
  BY <1>2 DEF Linked
<1>5. /\ t \in 1 .. t /\ 1 .. n \subseteq 1 .. t /\ \A o \in 1 .. t : o = t \/ (o \in 1 .. n /\ o # t)
      /\ \A o \in 1 .. n : o # t
      /\ 0 .. n \subseteq 0 .. t /\ 0 \in 0 .. t
  <2>1. n \in Nat
    BY <1>1
  <2> QED BY <2>1
<1>6. /\ l2[t] = H + 1 /\ \A o \in 1 .. n : l2[o] = lv[o]
  <2>1. l2 = [x \in 1 .. t |-> IF x = t THEN H + 1 ELSE lv[x]]
    BY DEF RootLv
  <2> HIDE DEF l2, t
  <2> QED BY <1>5, <2>1
<1>7. /\ \A k \in Int : p2[H + 1][k] = t
      /\ \A h \in 0 .. H : p2[h] = path[h]
  <2>1. p2 = [path EXCEPT ![H + 1] = [k \in Int |-> t]]
    BY DEF RootPath
  <2>2. H + 1 \in Nat /\ \A h \in 0 .. H : h \in Nat /\ h # H + 1
    BY <1>1
  <2> HIDE DEF p2, t
  <2> QED BY <1>1, <2>1, <2>2
<1> DEFINE N2 == [x \in 1 .. t |-> IF x = t THEN 0 ELSE nexts[x]]
           P2 == [x \in 1 .. t |-> IF x = t THEN 0 ELSE prevs[x]]
<1>8. /\ N2[t] = 0 /\ P2[t] = 0 /\ \A o \in 1 .. n : N2[o] = nexts[o] /\ P2[o] = prevs[o]
      /\ N2 \in [1 .. t -> 0 .. t] /\ P2 \in [1 .. t -> 0 .. t]
  <2> HIDE DEF t
  <2>1. \A x \in 1 .. t : (IF x = t THEN 0 ELSE nexts[x]) \in 0 .. t
    BY <1>4, <1>5
  <2>2. \A x \in 1 .. t : (IF x = t THEN 0 ELSE prevs[x]) \in 0 .. t
    BY <1>4, <1>5
  <2>3. N2 \in [1 .. t -> 0 .. t]
    BY <2>1
  <2>4. P2 \in [1 .. t -> 0 .. t]
    BY <2>2
  <2>5. N2[t] = 0 /\ \A o \in 1 .. n : N2[o] = nexts[o]
    BY <1>5
  <2>6. P2[t] = 0 /\ \A o \in 1 .. n : P2[o] = prevs[o]
    BY <1>5
  <2> QED BY <2>3, <2>4, <2>5, <2>6
<1>9. Level(l2, t, 0) = Level(lv, n, 0)
  <2>1. H + 1 # 0
    BY <1>1
  <2> HIDE DEF t, l2
  <2> QED BY <1>5, <1>6, <2>1 DEF Level
<1>10. W = {Meta(m2), Whole(t, b)} \union {Header(x, "parent", t) : x \in M}
  BY DEF RootSet
<1> HIDE DEF t, p2, l2, N2, P2, W
<1>11. Counted(l2, t, m2)
  <2>1. Counted(lv, n, m)
    BY DEF Rowed
  <2>2. m.leaf_node_num \in Nat /\ m.internal_node_num \in Nat
    BY DEF Metas
  <2> DEFINE x == m.leaf_node_num
             y == m.internal_node_num
  <2>4. n \in Nat /\ x \in Nat /\ y \in Nat /\ x + y = n
    BY <1>1, <2>1, <2>2 DEF Counted
  <2>5. m2.leaf_node_num = x /\ m2.internal_node_num = y + 1
    OBVIOUS
  <2> HIDE DEF x, y
  <2>6. x + (y + 1) = n + 1
    BY <2>4
  <2>3. m2.leaf_node_num + m2.internal_node_num = t
    BY <2>5, <2>6 DEF t
  <2> QED BY <1>9, <2>1, <2>3 DEF Counted, x
<1>12. Linked(N2, P2, p2, l2, t, H + 1, m2.leaf_offset)
  <2>1. \A h \in 0 .. H + 1 : h = H + 1 \/ h \in 0 .. H
    BY <1>1
  <2>2. Convex(p2[H + 1])
    BY <1>7 DEF Convex
  <2>3. \A h \in 0 .. H + 1 : Convex(p2[h])
    BY <1>4, <1>7, <2>1, <2>2
  <2>4. ASSUME NEW o \in 1 .. t PROVE Follows(p2[l2[o]], o, N2[o]) /\ Leads(p2[l2[o]], o, P2[o])
    <3>1. CASE o = t
      <4>1. Follows(p2[H + 1], t, 0) /\ Leads(p2[H + 1], t, 0)
        BY <1>7 DEF Follows, Leads
      <4> QED BY <1>6, <1>8, <3>1, <4>1
    <3>2. CASE o # t
      <4>1. o \in 1 .. n /\ lv[o] \in 0 .. H
        BY <1>1, <1>5, <3>2
      <4>2. p2[l2[o]] = path[lv[o]]
        BY <1>6, <1>7, <4>1
      <4> QED BY <1>4, <1>8, <4>1, <4>2
    <3> QED BY <3>1, <3>2
  <2>5. /\ m2.leaf_offset \in 1 .. t /\ l2[m2.leaf_offset] = 0 /\ P2[m2.leaf_offset] = 0
    BY <1>4, <1>5, <1>6, <1>8
  <2> QED BY <1>8, <2>3, <2>4, <2>5 DEF Linked
<1>13. Carried(N2, P2, t, file, W)
  <2>1. Whole(t, b) \in W /\ Whole(t, b).kind = "block" /\ Whole(t, b).at = t /\ Whole(t, b).node = b
    BY <1>10 DEF Whole
  <2>2. ASSUME NEW o \in 1 .. t
        PROVE  \/ \E w \in W : w.kind = "block" /\ w.at = o
               \/ o \in DOMAIN file /\ file[o].next = N2[o] /\ file[o].prev = P2[o]
    BY <1>3, <1>5, <1>8, <2>1
  <2>3. ASSUME NEW w \in W
        PROVE  /\ w.kind = "block" => w.node.next = N2[w.at] /\ w.node.prev = P2[w.at]
               /\ w.kind = "prev"  => w.to = P2[w.at]
    <3>1. w = Whole(t, b) \/ w = Meta(m2) \/ \E x \in M : w = Header(x, "parent", t)
      BY <1>10
    <3>2. Meta(m2).kind = "meta" /\ \A x : Header(x, "parent", t).kind = "parent"
      BY DEF Meta, Header
    <3> QED BY <1>8, <2>1, <3>1, <3>2
  <2> QED BY <2>2, <2>3 DEF Carried
<1> QED BY <1>11, <1>12, <1>13 DEF Rowed, t, p2, l2, W

\* The block numbers with one more.
LEMMA OneMore ==
  \A n \in Nat :
    /\ n + 1 \in 1 .. n + 1 /\ n + 1 \in 0 .. n + 1 /\ n + 1 # 0
    /\ \A x : x \in 1 .. n + 1 <=> x = n + 1 \/ x \in 1 .. n
    /\ \A x : x \in 0 .. n <=> x = 0 \/ x \in 1 .. n
    /\ \A x \in 0 .. n : x # n + 1 /\ x \in 0 .. n + 1
    /\ \A x \in 1 .. n : x # n + 1 /\ x # 0 /\ x \in 0 .. n + 1
OBVIOUS

\* The separator of a split lies inside the node.
LEMMA SplitCut ==
  ASSUME NEW kids, NEW above, NEW path, NEW lv, NEW n, NEW H, NEW root, NEW u, NEW d,
         Tree(kids, above, path, lv, n, H, root, u, d), Keys \subseteq Int,
         NEW o \in 1 .. n, NEW q \in 1 .. Len(kids[o]) - 1, NEW sep \in Int,
         lv[o] > 0 => q >= 2 /\ sep = kids[o][q].key,
         lv[o] = 0 => sep = kids[o][q + 1].key,
         Convex(path[lv[o]])
  PROVE  Cuttable(path[lv[o]], o, sep, n + 1)
<1>1. /\ n \in Nat /\ kids[o] \in Seq(Kid) /\ Len(kids[o]) \in Nat /\ lv[o] \in 0 .. H /\ H \in Nat
  BY Bounds, NodeTypes
<1>2. /\ Separators(kids, path, lv, n) /\ Records(kids, path, lv, n, d)
  BY DEF Tree
<1>3. \A k \in Int : path[lv[o]][k] \in 1 .. n
  BY <1>1, OnPath
<1>4. path[lv[o]][sep] = o /\ \E k \in Int : k < sep /\ path[lv[o]][k] = o
  <2>1. CASE lv[o] > 0
    <3>1. q - 1 \in 1 .. Len(kids[o]) - 1 /\ q - 1 < q /\ q - 1 \in 1 .. Len(kids[o])
      BY <1>1, <2>1
    <3>2. /\ path[lv[o]][kids[o][q].key] = o /\ path[lv[o]][kids[o][q - 1].key] = o
          /\ kids[o][q - 1].key < kids[o][q].key
      BY <1>2, <2>1, <3>1 DEF Separators
    <3>3. kids[o][q - 1] \in Kid
      BY <1>1, <3>1
    <3>4. kids[o][q - 1].key \in Int
      BY <3>3 DEF Kid
    <3> QED BY <2>1, <3>2, <3>4
  <2>2. CASE lv[o] = 0
    <3>1. q \in 1 .. Len(kids[o]) /\ q + 1 \in 1 .. Len(kids[o]) /\ q < q + 1
      BY <1>1
    <3>2. /\ path[0][kids[o][q].key] = o /\ path[0][kids[o][q + 1].key] = o
          /\ kids[o][q].key < kids[o][q + 1].key /\ kids[o][q].key \in Int
      BY <1>2, <2>2, <3>1 DEF Records
    <3> QED BY <2>2, <3>2
  <2> QED BY <1>1, <2>1, <2>2
<1>5. n + 1 # 0 /\ n + 1 # o /\ \A k \in Int : path[lv[o]][k] # n + 1
  BY <1>1, <1>3
<1> QED BY <1>4, <1>5 DEF Cuttable

\* The meta block after a split: one leaf more, or one internal node.
Grown(m, m2, leaf) ==
  /\ m2.leaf_offset = m.leaf_offset
  /\ leaf   => m2.leaf_node_num = m.leaf_node_num + 1 /\ m2.internal_node_num = m.internal_node_num
  /\ ~ leaf => m2.leaf_node_num = m.leaf_node_num /\ m2.internal_node_num = m.internal_node_num + 1

\* The new node of a split counts.
LEMMA SplitCounts ==
  ASSUME NEW lv, NEW n \in Nat, NEW o \in 1 .. n, NEW m \in Metas, NEW m2, Counted(lv, n, m),
         Grown(m, m2, lv[o] = 0)
  PROVE  Counted(Widened(lv, n, o), n + 1, m2)
<1> DEFINE t  == n + 1
           l2 == Widened(lv, n, o)
           S  == Level(lv, n, 0)
           i  == m.internal_node_num
           l  == m.leaf_node_num
<1>1. l \in Nat /\ i \in Nat /\ Cardinality(S) = l /\ l + i = n
  BY DEF Metas, Counted
<1>2. t \in 1 .. t /\ \A x : x \in 1 .. t <=> x = t \/ x \in 1 .. n
  OBVIOUS
<1>3. t \notin 1 .. n
  OBVIOUS
<1>4. l2[t] = lv[o] /\ \A x \in 1 .. n : l2[x] = lv[x]
  <2>1. l2 = [x \in 1 .. t |-> IF x = t THEN lv[o] ELSE lv[x]]
    BY DEF Widened
  <2> HIDE DEF l2, t
  <2> QED BY <1>2, <1>3, <2>1
<1>5. IsFiniteSet(S) /\ t \notin S
  <2>1. IsFiniteSet(1 .. n)
    BY FS_Interval
  <2>2. S \in SUBSET (1 .. n)
    BY DEF Level
  <2> QED BY <1>3, <2>1, <2>2, FS_Subset
<1> HIDE DEF t, l2
<1>6. CASE lv[o] = 0
  <2>1. Level(l2, t, 0) = S \union {t}
    BY <1>2, <1>3, <1>4, <1>6 DEF Level
  <2>2. Cardinality(S \union {t}) = Cardinality(S) + 1
    BY <1>5, FS_AddElement
  <2>3. m2.leaf_node_num = l + 1 /\ m2.internal_node_num = i
    BY <1>6 DEF Grown
  <2> HIDE DEF l, i, S
  <2>4. l + 1 + i = t
    BY <1>1 DEF t
  <2> QED BY <1>1, <2>1, <2>2, <2>3, <2>4 DEF Counted, l2, t
<1>7. CASE lv[o] # 0
  <2>1. Level(l2, t, 0) = S
    BY <1>2, <1>3, <1>4, <1>7 DEF Level
  <2>3. m2.leaf_node_num = l /\ m2.internal_node_num = i + 1
    BY <1>7 DEF Grown
  <2> HIDE DEF l, i, S
  <2>4. l + (i + 1) = t
    BY <1>1 DEF t
  <2> QED BY <1>1, <2>1, <2>3, <2>4 DEF Counted, l2, t
<1> QED BY <1>6, <1>7

\* The neighbours after a split: t comes after o.
NextAfter(nexts, n, o) ==
  [x \in 1 .. n + 1 |-> IF x = n + 1 THEN nexts[o] ELSE IF x = o THEN n + 1 ELSE nexts[x]]
PrevAfter(nexts, prevs, n, o) ==
  [x \in 1 .. n + 1 |-> IF x = n + 1 THEN o ELSE IF x = nexts[o] THEN n + 1 ELSE prevs[x]]

\* They are the neighbours of the rows after the split.
LEMMA SplitLinks ==
  ASSUME NEW path, NEW lv, NEW n \in Nat, NEW H \in Nat, NEW first, NEW nexts, NEW prevs,
         lv \in [1 .. n -> 0 .. H], path \in [Nat -> [Int -> Nat]],
         \A h \in 0 .. H, k \in Int : path[h][k] \in 1 .. n /\ lv[path[h][k]] = h,
         Linked(nexts, prevs, path, lv, n, H, first),
         NEW o \in 1 .. n, NEW sep, Cuttable(path[lv[o]], o, sep, n + 1)
  PROVE  Linked(NextAfter(nexts, n, o), PrevAfter(nexts, prevs, n, o), Forked(path, lv, n, o, sep),
                Widened(lv, n, o), n + 1, H, first)
<1> DEFINE t  == n + 1
           L  == lv[o]
           p  == path[L]
           r  == Cut(p, o, sep, t)
           p2 == Forked(path, lv, n, o, sep)
           l2 == Widened(lv, n, o)
           N2 == NextAfter(nexts, n, o)
           P2 == PrevAfter(nexts, prevs, n, o)
           c  == nexts[o]
<1>1. /\ nexts \in [1 .. n -> 0 .. n] /\ prevs \in [1 .. n -> 0 .. n]
      /\ first \in 1 .. n /\ lv[first] = 0 /\ prevs[first] = 0
      /\ \A h \in 0 .. H : Convex(path[h])
      /\ \A x \in 1 .. n : Follows(path[lv[x]], x, nexts[x]) /\ Leads(path[lv[x]], x, prevs[x])
  BY DEF Linked
<1>2. t \in 1 .. t /\ \A x : x \in 1 .. t <=> x = t \/ x \in 1 .. n
  BY OneMore
<1>3. /\ \A x \in 0 .. n : x # t /\ x \in 0 .. t
      /\ \A x \in 1 .. n : x # t /\ x # 0 /\ x \in 0 .. t
      /\ t \in 0 .. t /\ o # 0 /\ o # t
  BY OneMore
<1>4. L \in 0 .. H /\ L \in Nat /\ \A k \in Int : k + 1 \in Int /\ k <= k + 1
  OBVIOUS
<1>5. /\ p2[L] = r /\ \A h \in 0 .. H : h # L => p2[h] = path[h]
  <2>1. p2 = [path EXCEPT ![L] = r]
    BY DEF Forked, Cut
  <2>2. \A h \in 0 .. H : h \in Nat
    OBVIOUS
  <2> HIDE DEF p2, r, L
  <2> QED BY <1>4, <2>1, <2>2
<1>6. l2[t] = L /\ \A x \in 1 .. n : l2[x] = lv[x]
  <2>1. l2 = [x \in 1 .. t |-> IF x = t THEN L ELSE lv[x]]
    BY DEF Widened
  <2> HIDE DEF l2, t, L
  <2> QED BY <1>2, <1>3, <2>1
<1>7. N2 = [x \in 1 .. t |-> IF x = t THEN c ELSE IF x = o THEN t ELSE nexts[x]]
  BY DEF NextAfter
<1>8. P2 = [x \in 1 .. t |-> IF x = t THEN o ELSE IF x = c THEN t ELSE prevs[x]]
  BY DEF PrevAfter
<1>9. c \in 0 .. n /\ Follows(p, o, c) /\ Leads(p, o, prevs[o]) /\ prevs[o] \in 0 .. n /\ Convex(p)
  BY <1>1, <1>4
<1>10. c # 0 => c \in 1 .. n /\ lv[c] = L /\ c # o
  <2> SUFFICES ASSUME c # 0 PROVE c \in 1 .. n /\ lv[c] = L /\ c # o
    OBVIOUS
  <2>1. PICK k \in Int : p[k + 1] = c /\ c # o
    BY <1>9 DEF Follows
  <2>2. p[k + 1] \in 1 .. n /\ lv[p[k + 1]] = L
    BY <1>4
  <2> QED BY <2>1, <2>2
<1>11. Cuttable(p, o, sep, t)
  OBVIOUS
<1> HIDE DEF t, L, p, r, p2, l2, N2, P2, c
<1>12. /\ \A x, y : x # o /\ x # t /\ Follows(p, x, y) => Follows(r, x, y)
       /\ \A y : y # t /\ Follows(p, o, y) => Follows(r, t, y)
       /\ Follows(r, o, t) /\ Convex(r)
  BY <1>11, CutFollows, CutConvex DEF r
<1>13. /\ \A x, y : x # o /\ x # t /\ y # o /\ Leads(p, x, y) => Leads(r, x, y)
       /\ \A y : y # t /\ Leads(p, o, y) => Leads(r, o, y)
       /\ o # 0 => Leads(r, t, o)
       /\ \A y : y # 0 /\ y # t /\ Follows(p, o, y) => Leads(r, y, t)
  BY <1>11, CutLeads DEF r
<1>14. /\ N2[t] = c /\ N2[o] = t /\ \A x \in 1 .. n : x # o => N2[x] = nexts[x]
       /\ N2 \in [1 .. t -> 0 .. t]
  <2>1. \A x \in 1 .. t : (IF x = t THEN c ELSE IF x = o THEN t ELSE nexts[x]) \in 0 .. t
    BY <1>1, <1>2, <1>3, <1>9
  <2>2. N2 \in [1 .. t -> 0 .. t]
    BY <1>7, <2>1
  <2> QED BY <1>2, <1>3, <1>7, <2>2
<1>15. /\ P2[t] = o /\ \A x \in 1 .. n : P2[x] = IF x = c THEN t ELSE prevs[x]
       /\ P2 \in [1 .. t -> 0 .. t]
  <2>1. \A x \in 1 .. t : (IF x = t THEN o ELSE IF x = c THEN t ELSE prevs[x]) \in 0 .. t
    BY <1>1, <1>2, <1>3
  <2>2. P2 \in [1 .. t -> 0 .. t]
    BY <1>8, <2>1
  <2> QED BY <1>2, <1>3, <1>8, <2>2
<1>16. ASSUME NEW x \in 1 .. t PROVE Follows(p2[l2[x]], x, N2[x]) /\ Leads(p2[l2[x]], x, P2[x])
  <2>1. CASE x = t
    <3>1. Follows(r, t, c) /\ Leads(r, t, o)
      BY <1>3, <1>9, <1>12, <1>13
    <3> QED BY <1>5, <1>6, <1>14, <1>15, <2>1, <3>1
  <2>2. CASE x = o
    <3>1. Follows(r, o, t) /\ Leads(r, o, prevs[o])
      BY <1>3, <1>9, <1>12, <1>13
    <3>2. o # c
      BY <1>3, <1>10
    <3>3. l2[o] = L
      BY <1>6 DEF L
    <3> QED BY <1>5, <1>14, <1>15, <2>2, <3>1, <3>2, <3>3
  <2>3. CASE x # t /\ x # o
    <3>1. x \in 1 .. n
      BY <1>2, <2>3
    <3>2. N2[x] = nexts[x] /\ l2[x] = lv[x] /\ lv[x] \in 0 .. H
      BY <1>6, <1>14, <2>3, <3>1
    <3>3. Follows(path[lv[x]], x, nexts[x]) /\ Leads(path[lv[x]], x, prevs[x])
      BY <1>1, <3>1
    <3>4. CASE lv[x] # L
      <4>1. x # c
        BY <1>3, <1>10, <3>1, <3>4
      <4>2. p2[lv[x]] = path[lv[x]]
        BY <1>5, <3>2, <3>4
      <4> QED BY <1>15, <3>1, <3>2, <3>3, <4>1, <4>2
    <3>5. CASE lv[x] = L
      <4>1. Follows(p, x, nexts[x]) /\ Leads(p, x, prevs[x])
        BY <3>3, <3>5 DEF p
      <4>2. Follows(r, x, nexts[x])
        BY <1>12, <2>3, <4>1
      <4>3. x = c => Leads(r, x, t)
        BY <1>3, <1>9, <1>13, <2>3, <3>1
      <4>4. x # c => Leads(r, x, prevs[x])
        <5>1. x # c => prevs[x] # o
          <6> SUFFICES ASSUME prevs[x] = o PROVE x = c
            OBVIOUS
          <6>1. Leads(p, x, o) /\ o # 0 /\ Convex(p) /\ Follows(p, o, c)
            BY <1>3, <1>9, <4>1
          <6>2. c = x
            BY <6>1, Neighbours
          <6> QED BY <6>2
        <5> QED BY <1>13, <2>3, <4>1, <5>1
      <4> QED BY <1>5, <1>15, <3>1, <3>2, <3>5, <4>2, <4>3, <4>4
    <3> QED BY <3>4, <3>5
  <2> QED BY <2>1, <2>2, <2>3
<1>17. first \in 1 .. t /\ l2[first] = 0 /\ P2[first] = 0
  <2>1. first # c
    <3> SUFFICES ASSUME first = c PROVE FALSE
      OBVIOUS
    <3>1. c # 0
      BY <1>1, <1>3
    <3>2. L = 0 /\ c # o
      BY <1>1, <1>10, <3>1
    <3>3. Leads(p, c, 0)
      BY <1>1, <3>2 DEF p
    <3>4. PICK k \in Int : p[k] = o /\ p[k + 1] = c
      BY <1>9, <3>1 DEF Follows
    <3>5. p[k] = c
      BY <1>4, <3>3, <3>4 DEF Leads
    <3> QED BY <3>2, <3>4, <3>5
  <2> QED BY <1>1, <1>2, <1>6, <1>15, <2>1
<1>18. \A h \in 0 .. H : Convex(p2[h])
  BY <1>1, <1>5, <1>12
<1>19. Linked(N2, P2, p2, l2, t, H, first)
  BY <1>14, <1>15, <1>16, <1>17, <1>18 DEF Linked
<1> QED BY <1>19 DEF N2, P2, p2, l2, t

\* The two halves of o, and what is told the node after it.
Halving(file, o, new, a, b, P) ==
  /\ a.next = new /\ a.prev = file[o].prev
  /\ b.prev = o /\ b.next = file[o].next
  /\ P = Told(file[o].next, new)

\* The writes of a split put the new node into the row.
LEMMA SplitRows ==
  ASSUME NEW kids, NEW above, NEW path, NEW lv, NEW n, NEW H, NEW root, NEW u, NEW d, NEW m, NEW file,
         Tree(kids, above, path, lv, n, H, root, u, d), Keys \subseteq Int, m \in Metas,
         Rowed(path, lv, n, H, m, file, {}),
         NEW o \in 1 .. n, NEW q \in 1 .. Len(kids[o]) - 1, NEW sep \in Int,
         lv[o] > 0 => q >= 2 /\ sep = kids[o][q].key,
         lv[o] = 0 => sep = kids[o][q + 1].key,
         NEW m2, NEW a, NEW b, NEW P, NEW M,
         Grown(m, m2, lv[o] = 0), Halving(file, o, n + 1, a, b, P)
  PROVE  Rowed(Forked(path, lv, n, o, sep), Widened(lv, n, o), n + 1, H, m2, file,
               SplitSet(P, m2, o, a, n + 1, b, M))
<1>1. PICK nexts, prevs : /\ Linked(nexts, prevs, path, lv, n, H, m.leaf_offset)
                          /\ Carried(nexts, prevs, n, file, {})
  BY DEF Rowed
<1>2. \A x \in 1 .. n : x \in DOMAIN file /\ file[x].next = nexts[x] /\ file[x].prev = prevs[x]
  BY <1>1, SettledRows
<1>3. /\ n \in Nat /\ H \in Nat /\ lv \in [1 .. n -> 0 .. H] /\ path \in [Nat -> [Int -> Nat]]
  BY DEF Tree, Typed
<1>4. \A h \in 0 .. H, k \in Int : path[h][k] \in 1 .. n /\ lv[path[h][k]] = h
  BY OnPath
<1>5. Convex(path[lv[o]])
  <2>1. lv[o] \in 0 .. H
    BY <1>3
  <2> QED BY <1>1, <2>1 DEF Linked
<1>6. Cuttable(path[lv[o]], o, sep, n + 1)
  BY <1>5, SplitCut
<1> DEFINE t  == n + 1
           N2 == NextAfter(nexts, n, o)
           P2 == PrevAfter(nexts, prevs, n, o)
           W  == SplitSet(P, m2, o, a, t, b, M)
           c  == nexts[o]
<1>7. Linked(N2, P2, Forked(path, lv, n, o, sep), Widened(lv, n, o), n + 1, H, m.leaf_offset)
  BY <1>1, <1>3, <1>4, <1>6, SplitLinks
<1>8. m2.leaf_offset = m.leaf_offset
  BY DEF Grown
<1>9. Counted(Widened(lv, n, o), n + 1, m2)
  BY <1>3, SplitCounts DEF Rowed
<1>10. /\ t \in 1 .. t /\ t # o /\ c \in 0 .. n
       /\ \A x : x \in 1 .. t <=> x = t \/ x \in 1 .. n
       /\ \A x \in 1 .. n : x # t /\ x # 0
  <2>1. nexts \in [1 .. n -> 0 .. n]
    BY <1>1 DEF Linked
  <2>2. c \in 0 .. n
    BY <2>1
  <2>3. n \in Nat
    BY <1>3
  <2> HIDE DEF c
  <2> QED BY <2>2, <2>3, OneMore
<1>11. c # 0 => c \in 1 .. n /\ c # o
  <2> SUFFICES ASSUME c # 0 PROVE c \in 1 .. n /\ c # o
    OBVIOUS
  <2>1. Follows(path[lv[o]], o, c)
    BY <1>1 DEF Linked
  <2> HIDE DEF c
  <2>2. c # o
    BY <2>1 DEF Follows
  <2> QED BY <1>3, <1>10, <2>2
<1>12. /\ N2[t] = c /\ N2[o] = t /\ \A x \in 1 .. n : x # o => N2[x] = nexts[x]
       /\ P2[t] = o /\ \A x \in 1 .. n : P2[x] = IF x = c THEN t ELSE prevs[x]
  <2>1. N2 = [x \in 1 .. t |-> IF x = t THEN c ELSE IF x = o THEN t ELSE nexts[x]]
    BY DEF NextAfter
  <2>2. P2 = [x \in 1 .. t |-> IF x = t THEN o ELSE IF x = c THEN t ELSE prevs[x]]
    BY DEF PrevAfter
  <2> HIDE DEF N2, P2, t, c
  <2> QED BY <1>10, <2>1, <2>2
<1>13. /\ a.next = t /\ a.prev = prevs[o] /\ b.prev = o /\ b.next = c
       /\ P = IF c # 0 THEN {Header(c, "prev", t)} ELSE {}
  BY <1>2 DEF Halving, Told
<1>14. W = P \union {Meta(m2)} \union {Whole(o, a), Whole(t, b)} \union {Header(x, "parent", t) : x \in M}
  BY DEF SplitSet
<1> HIDE DEF t, N2, P2, W, c
<1>15. /\ Whole(o, a).kind = "block" /\ Whole(o, a).at = o /\ Whole(o, a).node = a
       /\ Whole(t, b).kind = "block" /\ Whole(t, b).at = t /\ Whole(t, b).node = b
       /\ Meta(m2).kind = "meta" /\ \A x : Header(x, "parent", t).kind = "parent"
       /\ Header(c, "prev", t).kind = "prev" /\ Header(c, "prev", t).at = c /\ Header(c, "prev", t).to = t
  BY DEF Whole, Meta, Header
<1>16. ASSUME NEW x \in 1 .. t
       PROVE  \/ \E w \in W : w.kind = "block" /\ w.at = x
              \/ /\ x \in DOMAIN file /\ file[x].next = N2[x]
                 /\ file[x].prev = P2[x] \/ \E w \in W : w.kind = "prev" /\ w.at = x
  <2>1. Whole(o, a) \in W /\ Whole(t, b) \in W /\ (c # 0 => Header(c, "prev", t) \in W)
    BY <1>13, <1>14
  <2>2. CASE x = t \/ x = o
    BY <1>15, <2>1, <2>2
  <2>3. CASE x # t /\ x # o
    <3>1. x \in 1 .. n /\ x # 0
      BY <1>10, <2>3
    <3>2. file[x].next = N2[x] /\ x \in DOMAIN file /\ file[x].prev = prevs[x]
      BY <1>2, <1>12, <2>3, <3>1
    <3>3. CASE x = c
      BY <1>15, <2>1, <3>1, <3>2, <3>3
    <3>4. CASE x # c
      BY <1>12, <3>1, <3>2, <3>4
    <3> QED BY <3>3, <3>4
  <2> QED BY <2>2, <2>3
<1>17. ASSUME NEW w \in W
       PROVE  /\ w.kind = "block" => w.node.next = N2[w.at] /\ w.node.prev = P2[w.at]
              /\ w.kind = "prev"  => w.to = P2[w.at]
  <2>1. \/ c # 0 /\ w = Header(c, "prev", t)
        \/ w = Meta(m2) \/ w = Whole(o, a) \/ w = Whole(t, b) \/ \E x \in M : w = Header(x, "parent", t)
    BY <1>13, <1>14
  <2>2. CASE c # 0 /\ w = Header(c, "prev", t)
    BY <1>11, <1>12, <1>15, <2>2
  <2>3. CASE w = Whole(o, a)
    <3>1. o # c
      BY <1>10, <1>11
    <3> QED BY <1>12, <1>13, <1>15, <2>3, <3>1
  <2>4. CASE w = Whole(t, b)
    BY <1>12, <1>13, <1>15, <2>4
  <2>5. CASE w = Meta(m2) \/ \E x \in M : w = Header(x, "parent", t)
    BY <1>15, <2>5
  <2> QED BY <2>1, <2>2, <2>3, <2>4, <2>5
<1>18. Carried(N2, P2, t, file, W)
  BY <1>16, <1>17 DEF Carried
<1>19. Linked(N2, P2, Forked(path, lv, n, o, sep), Widened(lv, n, o), t, H, m2.leaf_offset)
  BY <1>7, <1>8 DEF t
<1> QED BY <1>9, <1>18, <1>19 DEF Rowed, t, W

-----------------------------------------------------------------------------
(* The steps of the program keep the invariant.                            *)

\* Between two operations, or two levels of one, the file is the tree.
Quiet(kids, above, path, lv, n, H, root) ==
  /\ n \in Nat /\ meta.slot = n + 1 /\ saved = meta /\ meta.height = H /\ meta.root_offset = root
  /\ Tree(kids, above, path, lv, n, H, root, up, dict)
  /\ Filled(kids, n, root, up, meta.leaf_node_num)
  /\ Pending(kids, above, n, block, meta, saved, {})
  /\ Rowed(path, lv, n, H, meta, block, {})
  /\ DOMAIN block = 1 .. n
  /\ \A o \in 1 .. n : block[o] \in Node /\ block[o].kids = kids[o] /\ block[o].parent = above[o]

\* With no write to come the file is quiet.
LEMMA QuietIs ==
  ASSUME TreeInv, todo = << >>
  PROVE  \E kids, above, path, lv, n, H, root : Quiet(kids, above, path, lv, n, H, root)
<1>1. PICK kids, above, path, lv : Shape(kids, above, path, lv, block, saved, meta, todo, up, dict)
  BY DEF TreeInv
<1> DEFINE n == meta.slot - 1
           H == meta.height
           root == meta.root_offset
<1>2. /\ Tree(kids, above, path, lv, n, H, root, up, dict)
      /\ Filled(kids, n, root, up, meta.leaf_node_num)
      /\ Pending(kids, above, n, block, meta, saved, ToSet(todo))
  BY <1>1 DEF Shape
<1>3. n \in Nat
  BY <1>2, Bounds
<1>4. meta.slot \in Nat
  BY DEF TreeInv, Types, Metas
<1>5. meta.slot = n + 1
  BY <1>4
<1>6. \A o \in DOMAIN block : block[o] \in Node
  BY DEF TreeInv, Types
<1> HIDE DEF n
<1>7. Pending(kids, above, n, block, meta, saved, {})
  BY <1>2, FewMembers
<1>8. /\ DOMAIN block = 1 .. n /\ saved = meta
      /\ \A o \in 1 .. n : block[o].kids = kids[o] /\ block[o].parent = above[o]
  BY <1>7, Settled
<1>10. Rowed(path, lv, n, H, meta, block, {})
  <2>1. Rowed(path, lv, n, H, meta, block, ToSet(todo))
    BY <1>1 DEF Shape, n
  <2> QED BY <2>1, FewMembers
<1>9. Quiet(kids, above, path, lv, n, H, root)
  BY <1>2, <1>3, <1>5, <1>6, <1>7, <1>8, <1>10 DEF Quiet
<1> QED BY <1>9

\* A state is as good as the tree it is written down as.
LEMMA TreeInvNext ==
  ASSUME NEW kids, NEW above, NEW path, NEW lv, NEW n \in Nat, NEW H, NEW root, Types',
         meta'.slot = n + 1, meta'.height = H, meta'.root_offset = root,
         Tree(kids, above, path, lv, n, H, root, up', dict'),
         Filled(kids, n, root, up', meta'.leaf_node_num),
         Pending(kids, above, n, block', meta', saved', ToSet(todo')),
         Rowed(path, lv, n, H, meta', block', ToSet(todo'))
  PROVE  TreeInv'
<1>1. n = meta'.slot - 1
  OBVIOUS
<1>2. Shape(kids, above, path, lv, block', saved', meta', todo', up', dict')
  BY <1>1 DEF Shape
<1> QED BY <1>2 DEF TreeInv

\* search for a key between two operations.
LEMMA QuietSearch ==
  ASSUME NEW kids, NEW above, NEW path, NEW lv, NEW n, NEW H, NEW root,
         Quiet(kids, above, path, lv, n, H, root), up = NoKey, NEW k \in Int
  PROVE  SearchIndex(k) = path[1][k] /\ SearchLeaf(k) = path[0][k]
<1>1. up.op # "insert"
  BY DEF NoKey
<1>2. /\ Tree(kids, above, path, lv, n, meta.height, meta.root_offset, up, dict)
      /\ \A o \in 1 .. n : block[o].kids = kids[o]
  BY DEF Quiet
<1> QED BY <1>1, <1>2, SearchPath

\* The leaf of a key.
LeafFound(kids, above, path, lv, n, root, k, off) ==
  /\ off = path[0][k] /\ off \in 1 .. n /\ lv[off] = 0 /\ off \in Nat \ {0}
  /\ kids[off] \in Seq(Kid) /\ Sorted(kids[off], Len(kids[off])) /\ Len(kids[off]) \in Nat
  /\ block[off] \in Node /\ block[off].kids = kids[off] /\ block[off].parent = above[off]
  /\ above[off] = SearchIndex(k) /\ SearchIndex(k) \in 1 .. n
  /\ off # root

\* search_leaf finds the leaf on the path of the key, and search_index its
\* parent.
LEMMA QuietLeaf ==
  ASSUME NEW kids, NEW above, NEW path, NEW lv, NEW n, NEW H, NEW root,
         Quiet(kids, above, path, lv, n, H, root), up = NoKey, NEW k \in Int
  PROVE  LeafFound(kids, above, path, lv, n, root, k, SearchLeaf(k))
<1> DEFINE off == SearchLeaf(k)
<1>1. Tree(kids, above, path, lv, n, H, root, up, dict)
  BY DEF Quiet
<1>2. off = path[0][k] /\ SearchIndex(k) = path[1][k]
  BY QuietSearch
<1>3. n \in Nat /\ H \in Nat \ {0} /\ lv[root] = H
  BY <1>1, Bounds
<1>4. \A h \in 0 .. H : path[h][k] \in 1 .. n /\ lv[path[h][k]] = h
  BY <1>1, OnPath
<1>5. 0 \in 0 .. H /\ 1 \in 0 .. H /\ 1 \in 1 .. H /\ 1 - 1 = 0
  BY <1>3
<1>6. off \in 1 .. n /\ lv[off] = 0 /\ SearchIndex(k) \in 1 .. n
  BY <1>2, <1>4, <1>5
<1>7. above[path[1 - 1][k]] = path[1][k]
  BY <1>1, <1>5, MoveUp
<1>8. above[off] = SearchIndex(k)
  BY <1>2, <1>5, <1>7
<1>9. kids[off] \in Seq(Kid)
  BY <1>1, <1>6, NodeTypes
<1>10. Sorted(kids[off], Len(kids[off]))
  BY <1>1, <1>6, RecordsSorted
<1>11. block[off] \in Node /\ block[off].kids = kids[off] /\ block[off].parent = above[off]
  BY <1>6 DEF Quiet
<1>12. off # root /\ off \in Nat \ {0}
  BY <1>3, <1>6
<1>13. Len(kids[off]) \in Nat
  BY <1>9
<1> QED BY <1>2, <1>6, <1>8, <1>9, <1>10, <1>11, <1>12, <1>13 DEF LeafFound

\* A leaf with a new record is one longer.
LEMMA RecordLen ==
  \A s \in Seq(Kid), k \in Int, v \in Int \union Vals :
    Sorted(s, Len(s)) /\ (\A i \in 1 .. Len(s) : s[i].key # k) =>
      WithRecord(s, k, v) \in Seq(Kid) /\ Len(WithRecord(s, k, v)) = Len(s) + 1
<1> SUFFICES ASSUME NEW s \in Seq(Kid), NEW k \in Int, NEW v \in Int \union Vals,
                    Sorted(s, Len(s)), \A i \in 1 .. Len(s) : s[i].key # k
             PROVE  WithRecord(s, k, v) \in Seq(Kid) /\ Len(WithRecord(s, k, v)) = Len(s) + 1
  OBVIOUS
<1> QED BY WithRecordIs

\* insert into a leaf with room.
LEMMA InsertNoSplitKeeps ==
  ASSUME TreeAssumption, TreeInv, Idle, NEW k \in Keys, NEW v \in Vals, NEW off, off = SearchLeaf(k),
         ~ Holds(block[off].kids, k), Len(block[off].kids) # BP_ORDER,
         dict' = [dict EXCEPT ![k] = v],
         played' = IF played < Len(Script) THEN played + 1 ELSE played,
         InsertNoSplit(k, v, off), UNCHANGED <<block, saved>>
  PROVE  TreeInv'
<1>1. todo = << >> /\ up = NoKey /\ up' = NoKey /\ meta' = meta
      /\ todo' = <<Whole(off, [block[off] EXCEPT !.kids = WithRecord(@, k, v)])>>
  BY DEF Idle, InsertNoSplit
<1>2. PICK kids, above, path, lv, n, H, root : Quiet(kids, above, path, lv, n, H, root)
  BY <1>1, QuietIs
<1>3. k \in Int /\ Keys \subseteq Int /\ Len(Script) \in Nat
  BY DEF TreeAssumption
<1>4. /\ off = path[0][k] /\ off \in 1 .. n /\ lv[off] = 0 /\ off \in Nat \ {0}
      /\ kids[off] \in Seq(Kid) /\ Sorted(kids[off], Len(kids[off])) /\ Len(kids[off]) \in Nat
      /\ block[off] \in Node /\ block[off].kids = kids[off] /\ block[off].parent = above[off]
      /\ off # root
  <2>1. LeafFound(kids, above, path, lv, n, root, k, off)
    BY <1>1, <1>2, <1>3, QuietLeaf
  <2> QED BY <2>1 DEF LeafFound
<1> DEFINE s == kids[off]
           t == WithRecord(s, k, v)
           node == [block[off] EXCEPT !.kids = t]
           kids2 == [o \in 1 .. n |-> IF o = path[0][k] THEN WithRecord(kids[o], k, v) ELSE kids[o]]
           d2 == [x \in Keys |-> IF x = k THEN v ELSE dict[x]]
<1>5. \A i \in 1 .. Len(s) : s[i].key # k
  BY <1>3, <1>4, HoldsIs
<1>6. t \in Seq(Kid) /\ Len(t) = Len(s) + 1
  <2>1. v \in Int \union Vals
    OBVIOUS
  <2> QED BY <1>3, <1>4, <1>5, <2>1, RecordLen
<1>7. /\ node \in Node /\ node.kids = t /\ node.parent = above[off] /\ todo' = <<Whole(off, node)>>
      /\ node.next = block[off].next /\ node.prev = block[off].prev
  <2>1. block[off] \in [parent : Nat, next : Nat, prev : Nat, kids : Seq(Kid)]
    BY <1>4 DEF Node
  <2>2. todo' = <<Whole(off, node)>>
    BY <1>1, <1>4
  <2> HIDE DEF t
  <2>3. node \in [parent : Nat, next : Nat, prev : Nat, kids : Seq(Kid)] /\ node.kids = t
        /\ node.parent = block[off].parent
        /\ node.next = block[off].next /\ node.prev = block[off].prev
    BY <1>6, <2>1
  <2> QED BY <1>4, <2>2, <2>3 DEF Node
<1>8. dict \in [Keys -> Vals \union {Absent}] /\ dict' = d2 /\ d2 \in [Keys -> Vals \union {Absent}]
  BY DEF TreeInv, Types
<1>9. kids2[off] = t /\ \A o \in 1 .. n : o # off => kids2[o] = kids[o]
  BY <1>4
<1> HIDE DEF node, t, d2
<1>10. Tree(kids2, above, path, lv, n, H, root, up, d2)
  <2>1. Tree(kids, above, path, lv, n, H, root, up, dict)
    BY <1>2 DEF Quiet
  <2>2. \A i \in 1 .. Len(kids[path[0][k]]) : kids[path[0][k]][i].key # k
    BY <1>4, <1>5
  <2> QED BY <1>3, <2>1, <2>2, AddRecord DEF d2
<1> HIDE DEF kids2
<1>11. Filled(kids2, n, root, up', meta'.leaf_node_num)
  <2>1. Filled(kids, n, root, up, meta.leaf_node_num) /\ BP_ORDER \in Nat /\ BP_ORDER \div 2 \in Nat
    BY <1>2 DEF Quiet, TreeAssumption
  <2>2. Len(kids[off]) <= BP_ORDER /\ Len(kids[off]) # BP_ORDER
    BY <1>4, <2>1 DEF Filled
  <2>3. Len(kids2[off]) = Len(kids[off]) + 1 /\ Len(kids[off]) \in Nat
    BY <1>4, <1>6, <1>9
  <2>4. Len(kids2[off]) <= BP_ORDER /\ Len(kids[off]) <= Len(kids2[off])
    BY <2>1, <2>2, <2>3
  <2>5. \A o \in 1 .. n : Len(kids2[o]) <= BP_ORDER
    BY <1>9, <2>1, <2>4 DEF Filled
  <2>6. meta'.leaf_node_num > 1 /\ off # root => Len(kids[off]) >= BP_ORDER \div 2
    BY <1>1, <1>4, <2>1 DEF Filled
  <2>7. meta'.leaf_node_num > 1 /\ off # root => Len(kids2[off]) >= BP_ORDER \div 2
    BY <2>1, <2>3, <2>6
  <2>8. up'.op # "insert" /\ up.op # "insert"
    BY <1>1 DEF NoKey
  <2> QED BY <1>1, <1>4, <1>9, <2>1, <2>5, <2>7, <2>8 DEF Filled
<1>12. Pending(kids2, above, n, block', meta', saved', ToSet(todo'))
  <2>1. Pending(kids, above, n, block, meta, saved, {})
    BY <1>2 DEF Quiet
  <2>2. Pending(kids2, above, n, block, meta, saved, {Whole(off, node)})
    <3>1. \A K, b : \A o \in 1 .. n :
            /\ \A x \in 1 .. n : x # o => K[x] = kids[x]
            /\ b.kids = K[o] /\ b.parent = above[o]
            => Pending(K, above, n, block, meta, saved, {Whole(o, b)})
      BY <2>1, BlockWrite
    <3> QED BY <1>4, <1>7, <1>9, <3>1
  <2>3. ToSet(todo') = {Whole(off, node)}
    BY <1>7, FewMembers
  <2> QED BY <1>1, <2>2, <2>3
<1>13. Types'
  <2>1. todo' \in Seq(Write)
    <3>1. Whole(off, node) \in Write
      BY <1>4, <1>7, WriteTypes
    <3> QED BY <1>7, <3>1
  <2>2. played' \in 0 .. Len(Script)
    BY <1>3 DEF TreeInv, Types
  <2> QED BY <1>1, <1>8, <2>1, <2>2 DEF TreeInv, Types
<1>14. Tree(kids2, above, path, lv, n, H, root, up', dict') /\ n \in Nat
       /\ meta'.slot = n + 1 /\ meta'.height = H /\ meta'.root_offset = root
  BY <1>1, <1>2, <1>8, <1>10 DEF Quiet
<1>15. Rowed(path, lv, n, H, meta', block', ToSet(todo'))
  <2>1. Rowed(path, lv, n, H, meta, block, {})
    BY <1>2 DEF Quiet
  <2>2. Rowed(path, lv, n, H, meta, block, {Whole(off, node)})
    BY <1>4, <1>7, <2>1, BlockWriteRows
  <2>3. ToSet(todo') = {Whole(off, node)}
    BY <1>7, FewMembers
  <2> QED BY <1>1, <2>2, <2>3
<1> QED BY <1>11, <1>12, <1>13, <1>14, <1>15, TreeInvNext

\* What NewValue says, for every place of the record.
NewValues(kids, above, path, lv, n, H, root, u, d, k, v) ==
  \A p \in 1 .. Len(kids[path[0][k]]) : kids[path[0][k]][p].key = k =>
    Tree([o \in 1 .. n |-> IF o = path[0][k] THEN [kids[o] EXCEPT ![p].to = v] ELSE kids[o]],
         above, path, lv, n, H, root, u, [x \in Keys |-> IF x = k THEN v ELSE d[x]])

\* NewValue, for all positions.
LEMMA ValueChanges ==
  ASSUME NEW kids, NEW above, NEW path, NEW lv, NEW n, NEW H, NEW root, NEW u, NEW d,
         Tree(kids, above, path, lv, n, H, root, u, d), Keys \subseteq Int,
         NEW k \in Keys, NEW v \in Vals
  PROVE  NewValues(kids, above, path, lv, n, H, root, u, d, k, v)
BY NewValue DEF NewValues

\* update.
LEMMA UpdateKeeps ==
  ASSUME TreeAssumption, TreeInv, NEW k \in Keys, NEW v \in Vals, Update(k, v)
  PROVE  TreeInv'
<1> DEFINE off == SearchLeaf(k)
           p == LowerBound(block[off].kids, k)
<1>1. /\ todo = << >> /\ up = NoKey /\ Holds(block[off].kids, k)
      /\ todo' = <<Whole(off, [block[off] EXCEPT !.kids[p].to = v])>>
      /\ dict' = [dict EXCEPT ![k] = v]
      /\ block' = block /\ saved' = saved /\ meta' = meta /\ up' = up /\ played' = played
  BY DEF Update, Idle
<1>2. PICK kids, above, path, lv, n, H, root : Quiet(kids, above, path, lv, n, H, root)
  BY <1>1, QuietIs
<1>3. k \in Int /\ Keys \subseteq Int
  BY DEF TreeAssumption
<1> HIDE DEF p
<1>4. /\ off = path[0][k] /\ off \in 1 .. n /\ lv[off] = 0 /\ off \in Nat \ {0}
      /\ kids[off] \in Seq(Kid) /\ Sorted(kids[off], Len(kids[off])) /\ Len(kids[off]) \in Nat
      /\ block[off] \in Node /\ block[off].kids = kids[off] /\ block[off].parent = above[off]
      /\ off # root
  <2>1. LeafFound(kids, above, path, lv, n, root, k, off)
    BY <1>1, <1>2, <1>3, QuietLeaf
  <2> HIDE DEF off
  <2> QED BY <2>1 DEF LeafFound
<1> HIDE DEF off
<1> DEFINE s == kids[off]
           t == [s EXCEPT ![p].to = v]
           node == [block[off] EXCEPT !.kids = t]
           kids2 == [o \in 1 .. n |-> IF o = path[0][k] THEN [kids[o] EXCEPT ![p].to = v] ELSE kids[o]]
           d2 == [x \in Keys |-> IF x = k THEN v ELSE dict[x]]
<1>5. p \in 1 .. Len(s) /\ s[p].key = k
  <2>1. Holds(s, k)
    BY <1>1, <1>4
  <2>2. PICK i \in 1 .. Len(s) : s[i].key = k
    BY <1>3, <1>4, <2>1, HoldsIs
  <2>3. LowerBound(s, k) = i
    BY <1>3, <1>4, <2>2, HoldsIs
  <2> QED BY <1>4, <2>2, <2>3 DEF p
<1>6. t \in Seq(Kid) /\ Len(t) = Len(s)
  <2> DEFINE e == s[p]
             f == [e EXCEPT !.to = v]
  <2>1. e \in [key : Int, to : Int \union Vals]
    <3>1. \A i \in 1 .. Len(s) : s[i] \in Kid
      BY <1>4
    <3> QED BY <1>5, <3>1 DEF Kid
  <2>2. t = [s EXCEPT ![p] = f]
    OBVIOUS
  <2> HIDE DEF e, t
  <2>3. f \in Kid
    BY <2>1 DEF Kid
  <2> HIDE DEF f
  <2> QED BY <1>4, <1>5, <2>2, <2>3
<1>7. /\ node \in Node /\ node.kids = t /\ node.parent = above[off] /\ todo' = <<Whole(off, node)>>
      /\ node.next = block[off].next /\ node.prev = block[off].prev
  <2>1. block[off] \in [parent : Nat, next : Nat, prev : Nat, kids : Seq(Kid)]
    BY <1>4 DEF Node
  <2>2. todo' = <<Whole(off, node)>>
    BY <1>1, <1>4
  <2> HIDE DEF t
  <2>3. node \in [parent : Nat, next : Nat, prev : Nat, kids : Seq(Kid)] /\ node.kids = t
        /\ node.parent = block[off].parent
        /\ node.next = block[off].next /\ node.prev = block[off].prev
    BY <1>6, <2>1
  <2> QED BY <1>4, <2>2, <2>3 DEF Node
<1>8. dict \in [Keys -> Vals \union {Absent}] /\ dict' = d2 /\ d2 \in [Keys -> Vals \union {Absent}]
  BY <1>1 DEF TreeInv, Types
<1>9. kids2[off] = t /\ \A o \in 1 .. n : o # off => kids2[o] = kids[o]
  BY <1>4
<1> HIDE DEF node, t, d2
<1>10. Tree(kids2, above, path, lv, n, H, root, up, d2)
  <2>1. Tree(kids, above, path, lv, n, H, root, up, dict)
    BY <1>2 DEF Quiet
  <2>2. p \in 1 .. Len(kids[path[0][k]]) /\ kids[path[0][k]][p].key = k
    BY <1>4, <1>5
  <2>3. NewValues(kids, above, path, lv, n, H, root, up, dict, k, v)
    BY <1>3, <2>1, ValueChanges
  <2> QED BY <2>2, <2>3 DEF NewValues, d2
<1> HIDE DEF kids2
<1>11. Filled(kids2, n, root, up', meta'.leaf_node_num)
  <2>1. Filled(kids, n, root, up, meta.leaf_node_num)
    BY <1>2 DEF Quiet
  <2>2. \A o \in 1 .. n : Len(kids2[o]) = Len(kids[o])
    BY <1>4, <1>6, <1>9
  <2> QED BY <1>1, <2>1, <2>2 DEF Filled
<1>12. Pending(kids2, above, n, block', meta', saved', ToSet(todo'))
  <2>1. Pending(kids, above, n, block, meta, saved, {})
    BY <1>2 DEF Quiet
  <2>2. Pending(kids2, above, n, block, meta, saved, {Whole(off, node)})
    <3>1. \A K, b : \A o \in 1 .. n :
            /\ \A x \in 1 .. n : x # o => K[x] = kids[x]
            /\ b.kids = K[o] /\ b.parent = above[o]
            => Pending(K, above, n, block, meta, saved, {Whole(o, b)})
      BY <2>1, BlockWrite
    <3> QED BY <1>4, <1>7, <1>9, <3>1
  <2>3. ToSet(todo') = {Whole(off, node)}
    BY <1>7, FewMembers
  <2> QED BY <1>1, <2>2, <2>3
<1>13. Types'
  <2>1. todo' \in Seq(Write)
    <3>1. Whole(off, node) \in Write
      BY <1>4, <1>7, WriteTypes
    <3> QED BY <1>7, <3>1
  <2> QED BY <1>1, <1>8, <2>1 DEF TreeInv, Types
<1>14. Tree(kids2, above, path, lv, n, H, root, up', dict') /\ n \in Nat
       /\ meta'.slot = n + 1 /\ meta'.height = H /\ meta'.root_offset = root
  BY <1>1, <1>2, <1>8, <1>10 DEF Quiet
<1>15. Rowed(path, lv, n, H, meta', block', ToSet(todo'))
  <2>1. Rowed(path, lv, n, H, meta, block, {})
    BY <1>2 DEF Quiet
  <2>2. Rowed(path, lv, n, H, meta, block, {Whole(off, node)})
    BY <1>4, <1>7, <2>1, BlockWriteRows
  <2>3. ToSet(todo') = {Whole(off, node)}
    BY <1>7, FewMembers
  <2> QED BY <1>1, <2>2, <2>3
<1> QED BY <1>11, <1>12, <1>13, <1>14, <1>15, TreeInvNext

\* unmap.
LEMMA UnmapKeeps ==
  ASSUME TreeInv, Unmap
  PROVE  TreeInv'
<1> DEFINE w == Head(todo)
<1>1. /\ todo # << >> /\ todo' = Tail(todo)
      /\ block' = Written(block, w) /\ saved' = Saved(saved, w)
      /\ meta' = meta /\ up' = up /\ dict' = dict /\ played' = played
  BY DEF Unmap, Written, Saved
<1>2. Types
  BY DEF TreeInv
<1>3. w \in Write /\ Tail(todo) \in Seq(Write) /\ ToSet(todo) = {w} \union ToSet(Tail(todo))
  <2>1. todo \in Seq(Write)
    BY <1>2 DEF Types
  <2> QED BY <1>1, <2>1, TailMembers
<1>4. \A o \in DOMAIN block : block[o] \in Node
  BY <1>2 DEF Types
<1>5. PICK kids, above, path, lv : Shape(kids, above, path, lv, block, saved, meta, todo, up, dict)
  BY DEF TreeInv
<1> HIDE DEF w
<1>6. Pending(kids, above, meta.slot - 1, Written(block, w), meta, Saved(saved, w), ToSet(Tail(todo)))
  <2>1. Pending(kids, above, meta.slot - 1, block, meta, saved, {w} \union ToSet(Tail(todo)))
    BY <1>3, <1>5 DEF Shape
  <2> QED BY <1>3, <1>4, <2>1, OneWrite
<1>9. Rowed(path, lv, meta.slot - 1, meta.height, meta, Written(block, w), ToSet(Tail(todo)))
  <2>1. Rowed(path, lv, meta.slot - 1, meta.height, meta, block, {w} \union ToSet(Tail(todo)))
    BY <1>3, <1>5 DEF Shape
  <2> QED BY <1>3, <1>4, <2>1, OneWriteRows
<1>7. Shape(kids, above, path, lv, block', saved', meta', todo', up', dict')
  BY <1>1, <1>5, <1>6, <1>9 DEF Shape
<1>8. Types'
  <2>1. /\ DOMAIN Written(block, w) = IF w.kind = "block" THEN DOMAIN block \union {w.at} ELSE DOMAIN block
        /\ \A o \in DOMAIN Written(block, w) : Written(block, w)[o] \in Node
    BY <1>3, <1>4, WrittenIs
  <2>2. DOMAIN block' \subseteq Nat \ {0} /\ \A o \in DOMAIN block' : block'[o] \in Node
    <3>1. w.kind = "block" => w.at \in Nat \ {0}
      BY <1>3 DEF Write
    <3> QED BY <1>1, <1>2, <2>1, <3>1 DEF Types
  <2>3. saved' \in Metas
    <3>1. w.kind = "meta" => w.meta \in Metas
      BY <1>3 DEF Write
    <3> QED BY <1>1, <1>2, <3>1 DEF Types, Saved
  <2> QED BY <1>1, <1>2, <1>3, <2>2, <2>3 DEF Types
<1> QED BY <1>7, <1>8 DEF TreeInv

\* The constructor reads meta from the file.
LEMMA ReopenKeeps ==
  ASSUME TreeInv, Reopen
  PROVE  TreeInv'
<1>1. /\ todo = << >> /\ meta' = saved
      /\ block' = block /\ saved' = saved /\ todo' = todo /\ up' = up /\ dict' = dict /\ played' = played
  BY DEF Reopen, Idle
<1>2. PICK kids, above, path, lv, n, H, root : Quiet(kids, above, path, lv, n, H, root)
  BY <1>1, QuietIs
<1>3. meta' = meta
  BY <1>1, <1>2 DEF Quiet
<1>4. Types /\ \E k, a, p, l : Shape(k, a, p, l, block, saved, meta, todo, up, dict)
  BY DEF TreeInv
<1>5. Types'
  BY <1>1, <1>3, <1>4 DEF Types
<1>6. PICK k, a, p, l : Shape(k, a, p, l, block, saved, meta, todo, up, dict)
  BY <1>4
<1>7. Shape(k, a, p, l, block', saved', meta', todo', up', dict')
  BY <1>1, <1>3, <1>6
<1> QED BY <1>5, <1>7 DEF TreeInv

\* The node that has to be told of a new one.
NodeFound(kids, above, lv, n, root, at) ==
  /\ at \in 1 .. n /\ at \in Nat \ {0} /\ lv[at] > 0
  /\ up.key \in Int /\ up.after \in Int /\ up.old \in 1 .. n /\ root # up.old
  /\ kids[at] \in Seq(Kid) /\ Len(kids[at]) \in Nat /\ Sorted(kids[at], Len(kids[at]) - 1)
  /\ block[at] \in Node /\ block[at].kids = kids[at] /\ block[at].parent = above[at]
  /\ \E i \in 1 .. Len(kids[at]) :
       /\ UpperBound(kids[at], up.key) = i
       /\ \A j \in 1 .. Len(kids[at]) - 1 :
            (j < i => kids[at][j].key < up.key) /\ (i <= j => up.key < kids[at][j].key)
  /\ WithKey(kids[at], up.key, up.after) \in Seq(Kid)
  /\ Len(WithKey(kids[at], up.key, up.after)) = Len(kids[at]) + 1

\* The node that insert_key_to_index is called for is an internal node one
\* level above the new one, and the new key has its place in it.
LEMMA QuietNode ==
  ASSUME NEW kids, NEW above, NEW path, NEW lv, NEW n, NEW H, NEW root,
         Quiet(kids, above, path, lv, n, H, root), up.op = "insert", up.at # 0,
         NEW at, at = up.at
  PROVE  NodeFound(kids, above, lv, n, root, at)
<1>1. Tree(kids, above, path, lv, n, H, root, up, dict)
  BY DEF Quiet
<1>2. /\ up.at \in Nat /\ up.key \in Int /\ up.old \in 1 .. n /\ up.after \in 1 .. n
      /\ up.at \in 1 .. n /\ lv[up.old] + 1 \in 1 .. H /\ lv[up.at] = lv[up.old] + 1 /\ root # up.old
  BY <1>1, Waiting
<1>3. at \in 1 .. n /\ lv[at] > 0 /\ at \in Nat \ {0} /\ up.after \in Int
  <2>1. n \in Nat /\ H \in Nat
    BY <1>1, Bounds
  <2> QED BY <1>2, <2>1
<1>4. kids[at] \in Seq(Kid) /\ Len(kids[at]) \in Nat
  BY <1>1, <1>3, NodeTypes
<1>5. Sorted(kids[at], Len(kids[at]) - 1)
  BY <1>1, <1>3, KeysSorted
<1>6. block[at] \in Node /\ block[at].kids = kids[at] /\ block[at].parent = above[at]
  BY <1>3 DEF Quiet
<1>7. PICK i \in 1 .. Len(kids[at]) :
        /\ UpperBound(kids[at], up.key) = i
        /\ \A j \in 1 .. Len(kids[at]) - 1 :
             (j < i => kids[at][j].key < up.key) /\ (i <= j => up.key < kids[at][j].key)
  BY <1>1, Place
<1>8. KeyAdded(WithKey(kids[at], up.key, up.after), kids[at], i, up.key, up.after)
  BY <1>2, <1>3, <1>4, <1>7, KeyIs
<1>9. /\ WithKey(kids[at], up.key, up.after) \in Seq(Kid)
      /\ Len(WithKey(kids[at], up.key, up.after)) = Len(kids[at]) + 1
  BY <1>8 DEF KeyAdded
<1> QED BY <1>2, <1>3, <1>4, <1>5, <1>6, <1>7, <1>9 DEF NodeFound

\* insert_key_to_index with room.
LEMMA IndexNoSplitKeeps ==
  ASSUME TreeAssumption, TreeInv, todo = << >>, up.op = "insert", up.at # 0,
         Len(block[up.at].kids) < BP_ORDER, IndexNoSplit, UNCHANGED <<block, saved, dict, played>>
  PROVE  TreeInv'
<1> DEFINE off == up.at
<1>1. /\ up' = NoKey /\ meta' = meta /\ block' = block /\ saved' = saved /\ dict' = dict /\ played' = played
      /\ todo' = <<Whole(off, [block[off] EXCEPT !.kids = WithKey(@, up.key, up.after)])>>
  BY DEF IndexNoSplit
<1>2. PICK kids, above, path, lv, n, H, root : Quiet(kids, above, path, lv, n, H, root)
  BY QuietIs
<1>3. Keys \subseteq Int
  BY DEF TreeAssumption
<1>4. /\ off \in 1 .. n /\ off \in Nat \ {0}
      /\ kids[off] \in Seq(Kid) /\ Len(kids[off]) \in Nat
      /\ block[off] \in Node /\ block[off].kids = kids[off] /\ block[off].parent = above[off]
      /\ WithKey(kids[off], up.key, up.after) \in Seq(Kid)
      /\ Len(WithKey(kids[off], up.key, up.after)) = Len(kids[off]) + 1
  <2>1. NodeFound(kids, above, lv, n, root, up.at)
    BY <1>2, QuietNode
  <2> QED BY <2>1 DEF NodeFound
<1>5. Len(kids[off]) < BP_ORDER
  BY <1>4
<1> DEFINE t == WithKey(kids[off], up.key, up.after)
           node == [block[off] EXCEPT !.kids = t]
           kids2 == [x \in 1 .. n |-> IF x = up.at THEN WithKey(kids[x], up.key, up.after) ELSE kids[x]]
<1>6. t \in Seq(Kid) /\ Len(t) = Len(kids[off]) + 1
  BY <1>4
<1>7. /\ node \in Node /\ node.kids = t /\ node.parent = above[off] /\ todo' = <<Whole(off, node)>>
      /\ node.next = block[off].next /\ node.prev = block[off].prev
  <2>1. block[off] \in [parent : Nat, next : Nat, prev : Nat, kids : Seq(Kid)]
    BY <1>4 DEF Node
  <2>2. todo' = <<Whole(off, node)>>
    BY <1>1, <1>4
  <2> HIDE DEF t
  <2>3. node \in [parent : Nat, next : Nat, prev : Nat, kids : Seq(Kid)] /\ node.kids = t
        /\ node.parent = block[off].parent
        /\ node.next = block[off].next /\ node.prev = block[off].prev
    BY <1>6, <2>1
  <2> QED BY <1>4, <2>2, <2>3 DEF Node
<1>9. kids2[off] = t /\ \A o \in 1 .. n : o # off => kids2[o] = kids[o]
  BY <1>4
<1>10. Tree(kids2, above, path, lv, n, H, root, NoKey, dict)
  <2>1. Tree(kids, above, path, lv, n, H, root, up, dict)
    BY <1>2 DEF Quiet
  <2> QED BY <1>3, <2>1, AddKey
<1> HIDE DEF node, t, kids2
<1>11. Filled(kids2, n, root, up', meta'.leaf_node_num)
  <2>1. Filled(kids, n, root, up, meta.leaf_node_num) /\ BP_ORDER \in Nat /\ BP_ORDER \div 2 \in Nat
    BY <1>2 DEF Quiet, TreeAssumption
  <2>3. Len(kids2[off]) = Len(kids[off]) + 1 /\ Len(kids[off]) \in Nat
    BY <1>4, <1>6, <1>9
  <2>4. Len(kids2[off]) <= BP_ORDER /\ Len(kids[off]) <= Len(kids2[off])
    BY <1>5, <2>1, <2>3
  <2>5. \A o \in 1 .. n : Len(kids2[o]) <= BP_ORDER
    BY <1>9, <2>1, <2>4 DEF Filled
  <2>6. meta'.leaf_node_num > 1 /\ off # root => Len(kids[off]) >= BP_ORDER \div 2
    BY <1>1, <1>4, <2>1 DEF Filled
  <2>7. meta'.leaf_node_num > 1 /\ off # root => Len(kids2[off]) >= BP_ORDER \div 2
    BY <2>1, <2>3, <2>6
  <2>8. up'.op # "insert"
    BY <1>1 DEF NoKey
  <2> HIDE DEF off
  <2> QED BY <1>1, <1>4, <1>9, <2>1, <2>5, <2>7, <2>8 DEF Filled
<1>12. Pending(kids2, above, n, block', meta', saved', ToSet(todo'))
  <2>1. Pending(kids, above, n, block, meta, saved, {})
    BY <1>2 DEF Quiet
  <2>2. Pending(kids2, above, n, block, meta, saved, {Whole(off, node)})
    <3>1. \A K, b : \A o \in 1 .. n :
            /\ \A x \in 1 .. n : x # o => K[x] = kids[x]
            /\ b.kids = K[o] /\ b.parent = above[o]
            => Pending(K, above, n, block, meta, saved, {Whole(o, b)})
      BY <2>1, BlockWrite
    <3> QED BY <1>4, <1>7, <1>9, <3>1
  <2>3. ToSet(todo') = {Whole(off, node)}
    BY <1>7, FewMembers
  <2> QED BY <1>1, <2>2, <2>3
<1>13. Types'
  <2>1. todo' \in Seq(Write)
    <3>1. Whole(off, node) \in Write
      BY <1>4, <1>7, WriteTypes
    <3> QED BY <1>7, <3>1
  <2> QED BY <1>1, <2>1 DEF TreeInv, Types, Ups
<1>14. Tree(kids2, above, path, lv, n, H, root, up', dict') /\ n \in Nat
       /\ meta'.slot = n + 1 /\ meta'.height = H /\ meta'.root_offset = root
  BY <1>1, <1>2, <1>10 DEF Quiet
<1>15. Rowed(path, lv, n, H, meta', block', ToSet(todo'))
  <2>1. Rowed(path, lv, n, H, meta, block, {})
    BY <1>2 DEF Quiet
  <2>2. Rowed(path, lv, n, H, meta, block, {Whole(off, node)})
    BY <1>4, <1>7, <2>1, BlockWriteRows
  <2>3. ToSet(todo') = {Whole(off, node)}
    BY <1>7, FewMembers
  <2> QED BY <1>1, <2>2, <2>3
<1> QED BY <1>11, <1>12, <1>13, <1>14, <1>15, TreeInvNext

\* insert_key_to_index without a parent: a new root.
LEMMA NewRootKeeps ==
  ASSUME TreeAssumption, TreeInv, todo = << >>, up.op = "insert", up.at = 0,
         NewRoot, UNCHANGED <<block, saved, dict, played>>
  PROVE  TreeInv'
<1>2. PICK kids, above, path, lv, n, H, root : Quiet(kids, above, path, lv, n, H, root)
  BY QuietIs
<1>1. Tree(kids, above, path, lv, n, H, root, up, dict)
  BY <1>2 DEF Quiet
<1>3. Keys \subseteq Int /\ Junk \in Int
  BY DEF TreeAssumption
<1>4. n \in Nat /\ H \in Nat \ {0} /\ meta.slot = n + 1 /\ meta.height = H /\ n + 1 \in Nat \ {0}
      /\ n + 1 \in Nat
  <2>1. n \in Nat /\ H \in Nat \ {0}
    BY <1>1, Bounds
  <2> QED BY <1>2, <2>1 DEF Quiet
<1>5. up.key \in Int /\ up.old \in 1 .. n /\ up.after \in 1 .. n /\ up.old # up.after
  <2>1. up.key \in Int /\ up.old \in 1 .. n /\ up.after \in 1 .. n
    BY <1>1, Waiting
  <2> QED BY <1>1, <2>1 DEF Tree, Waits
<1> DEFINE s == <<[key |-> up.key, to |-> up.old], [key |-> Junk, to |-> up.after]>>
           m == [meta EXCEPT !.slot = @ + 1, !.internal_node_num = @ + 1,
                             !.height = @ + 1, !.root_offset = meta.slot]
           r == [parent |-> 0, next |-> 0, prev |-> 0, kids |-> s]
           kids2 == RootKids(kids, n, up)
           above2 == RootAbove(above, n, up)
<1>6. /\ up' = NoKey /\ meta' = m /\ block' = block /\ saved' = saved /\ dict' = dict /\ played' = played
      /\ todo' = <<Meta(m), Whole(n + 1, r)>> \o Reset(s, n + 1)
  BY <1>4 DEF NewRoot
<1>7. s \in Seq(Kid) /\ Len(s) = 2 /\ s[1].to = up.old /\ s[2].to = up.after
  <2>1. [key |-> up.key, to |-> up.old] \in Kid /\ [key |-> Junk, to |-> up.after] \in Kid
    BY <1>3, <1>5 DEF Kid
  <2> QED BY <2>1
<1>8. r \in Node /\ r.kids = s /\ r.parent = 0 /\ r.next = 0 /\ r.prev = 0
  <2> HIDE DEF s
  <2> QED BY <1>7 DEF Node
<1>9. m \in Metas /\ m.slot = n + 1 + 1 /\ m.height = H + 1 /\ m.root_offset = n + 1
      /\ m.leaf_node_num = meta.leaf_node_num /\ m.leaf_offset = meta.leaf_offset
      /\ m.internal_node_num = meta.internal_node_num + 1 /\ meta \in Metas
  <2>1. meta \in Metas
    BY DEF TreeInv, Types
  <2>4. m = MetaAfter(meta, 1, 0, 1, meta.slot)
    BY <2>1, MetaChanges
  <2>5. \A i, l, h, x \in Nat : MetaAfter(meta, i, l, h, x) \in Metas
    BY <2>1, MetaChanges
  <2> HIDE DEF m
  <2>2. m = MetaAfter(meta, 1, 0, 1, meta.slot) /\ MetaAfter(meta, 1, 0, 1, meta.slot) \in Metas
    BY <1>4, <2>4, <2>5
  <2>3. meta.leaf_node_num \in Nat
    BY <2>1, MetaIs
  <2> QED BY <1>4, <2>1, <2>2, <2>3 DEF MetaAfter
<1>10. /\ kids2[n + 1] = s /\ \A o \in 1 .. n : kids2[o] = kids[o]
       /\ above2[n + 1] = 0 /\ \A o \in 1 .. n : above2[o] = IF o \in {up.old, up.after} THEN n + 1 ELSE above[o]
  <2>1. n + 1 \in 1 .. n + 1 /\ \A o \in 1 .. n : o \in 1 .. n + 1 /\ o # n + 1
    BY <1>4
  <2>2. kids2 = [x \in 1 .. n + 1 |-> IF x = n + 1 THEN s ELSE kids[x]]
    BY DEF RootKids
  <2>3. above2 = [x \in 1 .. n + 1 |-> IF x = n + 1 THEN 0
                                       ELSE IF x \in {up.old, up.after} THEN n + 1 ELSE above[x]]
    BY DEF RootAbove
  <2> HIDE DEF s, kids2, above2
  <2> QED BY <2>1, <2>2, <2>3
<1>11. Tree(kids2, above2, RootPath(path, n, H), RootLv(lv, n, H), n + 1, H + 1, n + 1, NoKey, dict)
  BY <1>1, <1>3, AddRoot
<1>12. /\ Reset(s, n + 1) \in Seq(Write)
       /\ ToSet(Reset(s, n + 1)) = {Header(x, "parent", n + 1) : x \in {up.old, up.after}}
  <2>1. \A i \in 1 .. Len(s) : s[i].to \in Nat
    <3> HIDE DEF s
    <3>1. 1 .. Len(s) = {1, 2}
      BY <1>7
    <3> QED BY <1>4, <1>5, <1>7, <3>1
  <2>2. {s[i].to : i \in 1 .. Len(s)} = {up.old, up.after}
    <3> HIDE DEF s
    <3>1. 1 .. Len(s) = {1, 2}
      BY <1>7
    <3> QED BY <1>7, <3>1
  <2> HIDE DEF s
  <2>3. /\ Reset(s, n + 1) \in Seq(Write)
        /\ ToSet(Reset(s, n + 1)) = {Header(x, "parent", n + 1) : x \in {s[i].to : i \in 1 .. Len(s)}}
    BY <1>4, <1>7, <2>1, ResetIs
  <2> QED BY <2>2, <2>3
<1> HIDE DEF s, m, r, kids2, above2
<1>13. Meta(m) \in Write /\ Whole(n + 1, r) \in Write
  BY <1>4, <1>8, <1>9, WriteTypes
<1>14. /\ todo' \in Seq(Write)
       /\ ToSet(todo') = {Meta(m), Whole(n + 1, r)}
                         \union {Header(x, "parent", n + 1) : x \in {up.old, up.after}}
  <2> DEFINE a == <<Meta(m), Whole(n + 1, r)>>
             b == Reset(s, n + 1)
  <2>1. a \in Seq(Write) /\ ToSet(a) = {Meta(m), Whole(n + 1, r)}
    BY <1>13, FewMembers
  <2>2. b \in Seq(Write) /\ todo' = a \o b
    BY <1>6, <1>12
  <2> HIDE DEF a
  <2>3. ToSet(b) = {Header(x, "parent", n + 1) : x \in {up.old, up.after}}
    BY <1>12
  <2> HIDE DEF b
  <2>4. a \o b \in Seq(Write) /\ ToSet(a \o b) = ToSet(a) \union ToSet(b)
    BY <2>1, <2>2, ConcatMembers
  <2> QED BY <2>1, <2>2, <2>3, <2>4
<1>15. Filled(kids2, n + 1, n + 1, up', meta'.leaf_node_num)
  <2>1. Filled(kids, n, root, up, meta.leaf_node_num) /\ BP_ORDER \in Nat /\ BP_ORDER >= 4
    BY <1>2 DEF Quiet, TreeAssumption
  <2>2. meta.leaf_node_num \in Nat /\ meta.leaf_node_num > 1 /\ meta'.leaf_node_num = meta.leaf_node_num
    BY <1>6, <1>9, <2>1 DEF Filled
  <2>3. up'.op # "insert"
    BY <1>6 DEF NoKey
  <2>4. \A o \in 1 .. n : Len(kids2[o]) <= BP_ORDER /\ Len(kids2[o]) >= BP_ORDER \div 2
    BY <1>10, <2>1, <2>2 DEF Filled
  <2>5. Len(kids2[n + 1]) <= BP_ORDER
    <3>1. Len(kids2[n + 1]) = 2
      BY <1>7, <1>10
    <3> QED BY <2>1, <3>1
  <2>6. \A o \in 1 .. n + 1 : o = n + 1 \/ o \in 1 .. n
    BY <1>4
  <2>7. meta'.leaf_node_num \in Nat \ {0} /\ meta'.leaf_node_num # 1
    BY <2>2
  <2> QED BY <2>3, <2>4, <2>5, <2>6, <2>7 DEF Filled
<1>16. Pending(kids2, above2, n + 1, block', meta', saved', ToSet(todo'))
  <2>1. Pending(kids, above, n, block, meta, saved, {})
    BY <1>2 DEF Quiet
  <2> DEFINE M == {up.old, up.after}
  <2>2. \A x \in M : x \in 1 .. n /\ above2[x] = n + 1
    BY <1>5, <1>10
  <2>3. \A o \in 1 .. n : o \notin M => above2[o] = above[o]
    BY <1>10
  <2> HIDE DEF M
  <2>4. r.kids = kids2[n + 1] /\ r.parent = above2[n + 1] /\ \A o \in 1 .. n : kids2[o] = kids[o]
    BY <1>8, <1>10
  <2>5. Pending(kids2, above2, n + 1, block, m, saved,
                RootSet(m, n + 1, r, M))
    <3>1. \A K, A, X, b, p :
            /\ \A o \in 1 .. n : K[o] = kids[o]
            /\ \A x \in X : x \in 1 .. n /\ A[x] = n + 1
            /\ \A o \in 1 .. n : o \notin X => A[o] = above[o]
            /\ b.kids = K[n + 1] /\ b.parent = A[n + 1]
            => Pending(K, A, n + 1, block, p, saved, RootSet(p, n + 1, b, X))
      BY <1>4, <2>1, RootWrites
    <3> QED BY <2>2, <2>3, <2>4, <3>1
  <2> QED BY <1>6, <1>14, <2>5 DEF M, RootSet
<1>17. Types'
  BY <1>6, <1>9, <1>14 DEF TreeInv, Types, Ups
<1>18. /\ Tree(kids2, above2, RootPath(path, n, H), RootLv(lv, n, H), n + 1, H + 1, n + 1, up', dict')
       /\ meta'.slot = n + 1 + 1 /\ meta'.height = H + 1 /\ meta'.root_offset = n + 1
  BY <1>6, <1>9, <1>11
<1>19. Rowed(RootPath(path, n, H), RootLv(lv, n, H), n + 1, H + 1, meta', block', ToSet(todo'))
  <2>1. Rowed(path, lv, n, H, meta, block, {})
    BY <1>2 DEF Quiet
  <2> DEFINE M == {up.old, up.after}
  <2>2. ToSet(todo') = RootSet(m, n + 1, r, M)
    BY <1>14 DEF RootSet
  <2> HIDE DEF M
  <2>3. Rowed(RootPath(path, n, H), RootLv(lv, n, H), n + 1, H + 1, m, block, RootSet(m, n + 1, r, M))
    BY <1>1, <1>8, <1>9, <2>1, RootRows
  <2> QED BY <1>6, <2>2, <2>3
<1> QED BY <1>4, <1>15, <1>16, <1>17, <1>18, <1>19, TreeInvNext

\* The kids of an internal node are nodes one level down.
LEMMA KidsBelow ==
  ASSUME NEW kids, NEW above, NEW path, NEW lv, NEW n, NEW H, NEW root, NEW u, NEW d,
         Tree(kids, above, path, lv, n, H, root, u, d)
  PROVE  \A x \in 1 .. n : lv[x] > 0 => \A i \in 1 .. Len(kids[x]) :
           kids[x][i].to \in 1 .. n /\ lv[kids[x][i].to] = lv[x] - 1
<1>1. Kin(kids, above, lv, n, root, u)
  BY DEF Tree
<1> SUFFICES ASSUME NEW x \in 1 .. n, lv[x] > 0, NEW i \in 1 .. Len(kids[x])
             PROVE  kids[x][i].to \in 1 .. n /\ lv[kids[x][i].to] = lv[x] - 1
  OBVIOUS
<1> QED BY <1>1 DEF Kin

\* A node o with one kid too many, cut in two behind its q-th: what
\* InsertSplit and IndexSplit have in common.  K is what kids would be with
\* the kid that is too many, a and b are the two blocks that are written.
SplitStep(kids, above, path, lv, n, H, root, K, d, o, q, sep, a, b, P, M) ==
  /\ Quiet(kids, above, path, lv, n, H, root)
  /\ Tree(K, above, path, lv, n, H, root, NoKey, d)
  /\ o \in 1 .. n
  /\ \A x \in 1 .. n : x # o => K[x] = kids[x]
  /\ Len(K[o]) = BP_ORDER + 1
  /\ q \in (BP_ORDER \div 2) .. BP_ORDER + 1 - (BP_ORDER \div 2)
  /\ sep \in Int
  /\ lv[o] > 0 => sep = K[o][q].key
  /\ lv[o] = 0 => sep = K[o][q + 1].key
  /\ a.kids = SubSeq(K[o], 1, q) /\ a.parent = above[o]
  /\ b.kids = SubSeq(K[o], q + 1, Len(K[o])) /\ b.parent = above[o]
  /\ Halving(block, o, n + 1, a, b, P) /\ Grown(meta, meta', lv[o] = 0)
  /\ M = IF lv[o] > 0 THEN {b.kids[i].to : i \in 1 .. Len(b.kids)} ELSE {}
  /\ ToSet(todo') = SplitSet(P, meta', o, a, n + 1, b, M)
  /\ up' = Split(above, n, o, sep) /\ dict' = d /\ block' = block /\ saved' = saved
  /\ meta'.slot = n + 1 + 1 /\ meta'.height = H /\ meta'.root_offset = root
  /\ meta'.leaf_node_num \in Nat /\ meta'.leaf_node_num > 1
  /\ meta.leaf_node_num > 1 \/ o # root
  /\ meta \in Metas /\ Types'

\* A split keeps the invariant.
LEMMA SplitKeeps ==
  ASSUME TreeAssumption,
         NEW kids, NEW above, NEW path, NEW lv, NEW n, NEW H, NEW root, NEW K, NEW d,
         NEW o, NEW q, NEW sep, NEW a, NEW b, NEW P, NEW M,
         SplitStep(kids, above, path, lv, n, H, root, K, d, o, q, sep, a, b, P, M)
  PROVE  TreeInv'
<1>0. /\ Quiet(kids, above, path, lv, n, H, root)
      /\ Tree(K, above, path, lv, n, H, root, NoKey, d)
      /\ o \in 1 .. n
      /\ \A x \in 1 .. n : x # o => K[x] = kids[x]
      /\ Len(K[o]) = BP_ORDER + 1
      /\ q \in (BP_ORDER \div 2) .. BP_ORDER + 1 - (BP_ORDER \div 2)
      /\ sep \in Int
      /\ lv[o] > 0 => sep = K[o][q].key
      /\ lv[o] = 0 => sep = K[o][q + 1].key
      /\ a.kids = SubSeq(K[o], 1, q) /\ a.parent = above[o]
      /\ b.kids = SubSeq(K[o], q + 1, Len(K[o])) /\ b.parent = above[o]
      /\ M = IF lv[o] > 0 THEN {b.kids[i].to : i \in 1 .. Len(b.kids)} ELSE {}
      /\ ToSet(todo') = SplitSet(P, meta', o, a, n + 1, b, M)
      /\ up' = Split(above, n, o, sep) /\ dict' = d /\ block' = block /\ saved' = saved
      /\ meta'.slot = n + 1 + 1 /\ meta'.height = H /\ meta'.root_offset = root
      /\ meta'.leaf_node_num \in Nat /\ meta'.leaf_node_num > 1
      /\ meta.leaf_node_num > 1 \/ o # root
      /\ Types'
  BY DEF SplitStep
<1>17. Halving(block, o, n + 1, a, b, P) /\ Grown(meta, meta', lv[o] = 0) /\ meta \in Metas
  BY DEF SplitStep
<1>1. /\ n \in Nat /\ H \in Nat \ {0} /\ root \in 1 .. n /\ K[o] \in Seq(Kid)
      /\ BP_ORDER \in Nat /\ BP_ORDER >= 4 /\ Keys \subseteq Int /\ lv[o] \in Nat
  <2>0. Tree(K, above, path, lv, n, H, root, NoKey, d) /\ o \in 1 .. n
    BY <1>0
  <2>1. n \in Nat /\ H \in Nat \ {0} /\ root \in 1 .. n
    BY <2>0, Bounds
  <2>2. K[o] \in Seq(Kid) /\ lv[o] \in 0 .. H
    BY <2>0, NodeTypes
  <2>3. BP_ORDER \in Nat /\ BP_ORDER >= 4 /\ Keys \subseteq Int
    BY DEF TreeAssumption
  <2>4. lv[o] \in Nat
    BY <2>1, <2>2
  <2> QED BY <2>1, <2>2, <2>3, <2>4
<1> USE <1>0
<1> DEFINE g == BP_ORDER \div 2
<1>2. g \in Nat /\ g >= 2 /\ g <= BP_ORDER - 1
  <2>1. g \in Nat /\ (BP_ORDER = 2 * g \/ BP_ORDER = 2 * g + 1)
    BY <1>1, Halves
  <2> HIDE DEF g
  <2> QED BY <1>1, <2>1
<1>3. q \in g .. BP_ORDER + 1 - g
  OBVIOUS
<1> HIDE DEF g
<1>4. /\ q \in 1 .. Len(K[o]) - 1 /\ q >= 2 /\ q <= BP_ORDER /\ q >= g
      /\ Len(K[o]) - q <= BP_ORDER /\ Len(K[o]) - q >= g /\ Len(K[o]) - q \in Nat /\ q \in Nat
  BY <1>1, <1>2, <1>3
<1> DEFINE kids2 == Halved(K, n, o, q)
           above2 == Adopted(K, above, lv, n, o, q)
<1>5. Tree(kids2, above2, Forked(path, lv, n, o, sep), Widened(lv, n, o), n + 1, H, root, up', dict')
  <2>1. NoKey.op # "insert"
    BY DEF NoKey
  <2> HIDE DEF kids2, above2
  <2>2. lv[o] > 0 => q >= 2 /\ sep = K[o][q].key
    BY <1>4
  <2>3. Tree(Halved(K, n, o, q), Adopted(K, above, lv, n, o, q), Forked(path, lv, n, o, sep),
             Widened(lv, n, o), n + 1, H, root, Split(above, n, o, sep), d)
    BY <1>1, <1>4, <2>1, <2>2, SplitNode
  <2> QED BY <2>3 DEF kids2, above2
<1>6. n + 1 \in 1 .. n + 1 /\ \A x \in 1 .. n : x \in 1 .. n + 1 /\ x # n + 1
  BY <1>1
<1>7. /\ kids2[n + 1] = b.kids /\ kids2[o] = a.kids
      /\ \A x \in 1 .. n : x # o => kids2[x] = kids[x]
  <2>1. kids2 = [x \in 1 .. n + 1 |-> IF x = n + 1 THEN b.kids ELSE IF x = o THEN a.kids ELSE K[x]]
    BY DEF Halved
  <2> HIDE DEF kids2
  <2> QED BY <1>6, <2>1
<1>8. /\ a.kids \in Seq(Kid) /\ Len(a.kids) = q
      /\ b.kids \in Seq(Kid) /\ Len(b.kids) = Len(K[o]) - q
      /\ \A j \in 1 .. Len(K[o]) - q : b.kids[j] = K[o][q + j] /\ q + j \in 1 .. Len(K[o])
  <2> DEFINE s == K[o]
  <2>1. s \in Seq(Kid) /\ q \in 1 .. Len(s) - 1
    BY <1>1, <1>4
  <2> HIDE DEF s
  <2>2. /\ SubSeq(s, 1, q) \in Seq(Kid) /\ Len(SubSeq(s, 1, q)) = q
        /\ SubSeq(s, q + 1, Len(s)) \in Seq(Kid) /\ Len(SubSeq(s, q + 1, Len(s))) = Len(s) - q
        /\ \A j \in 1 .. Len(s) - q : SubSeq(s, q + 1, Len(s))[j] = s[q + j] /\ q + j \in 1 .. Len(s)
    BY <2>1, HalvesAre
  <2> QED BY <2>2 DEF s
<1>9. lv[o] > 0 => \A i \in 1 .. Len(K[o]) : K[o][i].to \in 1 .. n /\ K[o][i].to # o
  <2>1. \A x \in 1 .. n : lv[x] > 0 => \A i \in 1 .. Len(K[x]) : K[x][i].to \in 1 .. n /\ lv[K[x][i].to] = lv[x] - 1
    BY KidsBelow
  <2>2. ASSUME lv[o] > 0, NEW i \in 1 .. Len(K[o])
        PROVE  K[o][i].to \in 1 .. n /\ K[o][i].to # o
    <3> DEFINE c == K[o][i].to
    <3>1. c \in 1 .. n /\ lv[c] = lv[o] - 1
      BY <2>1, <2>2
    <3> HIDE DEF c
    <3>2. lv[o] - 1 # lv[o]
      BY <1>1
    <3>3. c \in 1 .. n /\ c # o
      BY <3>1, <3>2
    <3> QED BY <3>3 DEF c
  <2> QED BY <2>2
<1>10. \A x \in 1 .. n : x \in M <=> lv[o] > 0 /\ \E i \in q + 1 .. Len(K[o]) : K[o][i].to = x
  <2> SUFFICES ASSUME lv[o] > 0, NEW x \in 1 .. n
               PROVE  x \in M <=> \E i \in q + 1 .. Len(K[o]) : K[o][i].to = x
    OBVIOUS
  <2>4. M = {b.kids[i].to : i \in 1 .. Len(b.kids)}
    OBVIOUS
  <2>5. Len(b.kids) = Len(K[o]) - q
    BY <1>8
  <2>1. x \in M <=> \E j \in 1 .. Len(K[o]) - q : b.kids[j].to = x
    BY <2>4, <2>5
  <2>2. ASSUME NEW j \in 1 .. Len(K[o]) - q, b.kids[j].to = x
        PROVE  \E i \in q + 1 .. Len(K[o]) : K[o][i].to = x
    <3>1. q + j \in q + 1 .. Len(K[o]) /\ K[o][q + j].to = x
      BY <1>4, <1>8, <2>2
    <3> QED BY <3>1
  <2>3. ASSUME NEW i \in q + 1 .. Len(K[o]), K[o][i].to = x
        PROVE  \E j \in 1 .. Len(K[o]) - q : b.kids[j].to = x
    <3>1. i - q \in 1 .. Len(K[o]) - q /\ q + (i - q) = i
      BY <1>4
    <3>2. b.kids[i - q].to = x
      BY <1>8, <2>3, <3>1
    <3> QED BY <3>1, <3>2
  <2> QED BY <2>1, <2>2, <2>3
<1>11. M \subseteq 1 .. n /\ o \notin M
  <2>1. CASE lv[o] > 0
    <3>1. \A j \in 1 .. Len(b.kids) : b.kids[j].to \in 1 .. n /\ b.kids[j].to # o
      BY <1>8, <1>9, <2>1
    <3> QED BY <2>1, <3>1
  <2>2. CASE ~ (lv[o] > 0)
    BY <2>2
  <2> QED BY <2>1, <2>2
<1>12. above2[n + 1] = above[o] /\ \A x \in 1 .. n : above2[x] = IF x \in M THEN n + 1 ELSE above[x]
  <2>1. above2 = [x \in 1 .. n + 1 |->
                    IF x = n + 1 THEN above[o]
                    ELSE IF lv[o] > 0 /\ \E i \in q + 1 .. Len(K[o]) : K[o][i].to = x THEN n + 1
                    ELSE above[x]]
    BY DEF Adopted
  <2> HIDE DEF above2
  <2>2. above2[n + 1] = above[o]
    BY <1>6, <2>1
  <2>3. ASSUME NEW x \in 1 .. n PROVE above2[x] = IF x \in M THEN n + 1 ELSE above[x]
    <3>1. x \in 1 .. n + 1 /\ x # n + 1
      BY <1>6
    <3>2. above2[x] = IF lv[o] > 0 /\ \E i \in q + 1 .. Len(K[o]) : K[o][i].to = x THEN n + 1 ELSE above[x]
      BY <2>1, <3>1
    <3> QED BY <1>10, <3>2
  <2> QED BY <2>2, <2>3
<1> HIDE DEF kids2, above2
<1>13. Pending(kids2, above2, n + 1, block', meta', saved', ToSet(todo'))
  <2>1. Pending(kids, above, n, block, meta, saved, {})
    BY DEF Quiet
  <2>2. SplitsWritten(kids, above, n, block, saved)
    BY <1>1, <2>1, SplitWrites
  <2>3. /\ \A z \in 1 .. n : z # o => kids2[z] = kids[z]
        /\ \A z \in M : z \in 1 .. n /\ above2[z] = n + 1
        /\ \A z \in 1 .. n : z \notin M => above2[z] = above[z]
        /\ a.kids = kids2[o] /\ a.parent = above2[o]
        /\ b.kids = kids2[n + 1] /\ b.parent = above2[n + 1]
    BY <1>7, <1>11, <1>12
  <2>5. \A w \in P : w.kind = "prev"
    BY <1>17 DEF Halving, Told, Header
  <2>4. Pending(kids2, above2, n + 1, block, meta', saved, SplitSet(P, meta', o, a, n + 1, b, M))
    BY <2>2, <2>3, <2>5 DEF SplitsWritten
  <2> QED BY <2>4
<1>14. Filled(kids2, n + 1, root, up', meta'.leaf_node_num)
  <2>1. Filled(kids, n, root, up, meta.leaf_node_num)
    BY DEF Quiet
  <2>2. up'.op = "insert" /\ up'.old = o /\ up'.at = above[o]
    BY DEF Split
  <2>3. up'.at = 0 => o = root
    <3>1. up'.at = 0 => up'.old = root
      BY <1>5, <2>2, Waiting
    <3> QED BY <2>2, <3>1
  <2>4. ASSUME NEW x \in 1 .. n + 1
        PROVE  /\ Len(kids2[x]) <= BP_ORDER
               /\ x # root \/ up'.at = 0 => Len(kids2[x]) >= g
    <3>1. CASE x = n + 1
      BY <1>4, <1>7, <1>8, <3>1
    <3>2. CASE x = o
      BY <1>4, <1>7, <1>8, <3>2
    <3>3. CASE x # n + 1 /\ x # o
      <4>1. x \in 1 .. n /\ kids2[x] = kids[x]
        BY <1>1, <1>7, <3>3
      <4>2. x # root \/ up'.at = 0 => x # root
        BY <2>3, <3>3
      <4>3. x # root => meta.leaf_node_num > 1
        <5>1. meta.leaf_node_num \in Nat \ {0}
          BY <2>1 DEF Filled
        <5>2. meta.leaf_node_num = 1 => n = 2
          BY <2>1 DEF Filled
        <5>3. n = 2 /\ o # root /\ x # o => x = root
          <6>1. n = 2 => o \in {1, 2} /\ root \in {1, 2} /\ x \in {1, 2}
            BY <1>1, <4>1
          <6> QED BY <6>1
        <5>4. meta.leaf_node_num > 1 \/ o # root
          OBVIOUS
        <5>5. meta.leaf_node_num > 1 \/ meta.leaf_node_num = 1
          BY <5>1
        <5> HIDE <1>0
        <5> QED BY <3>3, <5>2, <5>3, <5>4, <5>5
      <4>4. Len(kids[x]) <= BP_ORDER /\ (x # root => Len(kids[x]) >= BP_ORDER \div 2)
        BY <2>1, <4>1, <4>3 DEF Filled
      <4> QED BY <4>1, <4>2, <4>4 DEF g
    <3> QED BY <3>1, <3>2, <3>3
  <2>5. meta'.leaf_node_num \in Nat \ {0} /\ meta'.leaf_node_num # 1
    OBVIOUS
  <2> QED BY <2>2, <2>4, <2>5 DEF Filled, g
<1>15. n + 1 \in Nat
  BY <1>1
<1>16. Rowed(Forked(path, lv, n, o, sep), Widened(lv, n, o), n + 1, H, meta', block', ToSet(todo'))
  <2>1. Rowed(path, lv, n, H, meta, block, {})
    BY DEF Quiet
  <2>2. lv[o] > 0 => q >= 2 /\ sep = K[o][q].key
    BY <1>4
  <2>3. Rowed(Forked(path, lv, n, o, sep), Widened(lv, n, o), n + 1, H, meta', block,
              SplitSet(P, meta', o, a, n + 1, b, M))
    <3> HIDE <1>0
    <3>1. /\ Tree(K, above, path, lv, n, H, root, NoKey, d) /\ o \in 1 .. n /\ sep \in Int
          /\ lv[o] = 0 => sep = K[o][q + 1].key
      BY <1>0
    <3> QED BY <1>1, <1>4, <1>17, <2>1, <2>2, <3>1, SplitRows
  <2> QED BY <2>3
<1> QED BY <1>5, <1>13, <1>14, <1>15, <1>16, TreeInvNext

\* A block with new kids and a new neighbour.
Nexted(node, x, t) == [node EXCEPT !.next = x, !.kids = t]
Preved(node, x, t) == [node EXCEPT !.prev = x, !.kids = t]

Keeps(p, node, t, next, prev) ==
  p \in Node /\ p.kids = t /\ p.parent = node.parent /\ p.next = next /\ p.prev = prev

\* They keep their parent and the other neighbour.
LEMMA NodeFields ==
  \A node \in Node, x \in Nat, t \in Seq(Kid) :
    /\ Keeps(Nexted(node, x, t), node, t, x, node.prev)
    /\ Keeps(Preved(node, x, t), node, t, node.next, x)
<1> SUFFICES ASSUME NEW node \in Node, NEW x \in Nat, NEW t \in Seq(Kid)
    PROVE  /\ Keeps(Nexted(node, x, t), node, t, x, node.prev)
           /\ Keeps(Preved(node, x, t), node, t, node.next, x)
  OBVIOUS
<1> DEFINE p == [node EXCEPT !.next = x]
           r == [node EXCEPT !.prev = x]
<1>1. p \in Node /\ p.parent = node.parent /\ p.next = x /\ p.prev = node.prev
  BY DEF Node
<1>2. r \in Node /\ r.parent = node.parent /\ r.prev = x /\ r.next = node.next
  BY DEF Node
<1>3. Nexted(node, x, t) = [p EXCEPT !.kids = t]
  BY DEF Node, Nexted
<1>4. Preved(node, x, t) = [r EXCEPT !.kids = t]
  BY DEF Node, Preved
<1> HIDE DEF p, r
<1>5. \A y \in Node : [y EXCEPT !.kids = t] \in Node /\ [y EXCEPT !.kids = t].kids = t
                      /\ [y EXCEPT !.kids = t].parent = y.parent
                      /\ [y EXCEPT !.kids = t].next = y.next /\ [y EXCEPT !.kids = t].prev = y.prev
  BY DEF Node
<1> QED BY <1>1, <1>2, <1>3, <1>4, <1>5 DEF Keeps

\* What InsertSplit does: a full leaf with one record more is cut behind its
\* q-th record.
LEMMA InsertSplitKeeps ==
  ASSUME TreeAssumption, TreeInv, Idle, NEW k \in Keys, NEW v \in Vals, NEW off, off = SearchLeaf(k),
         ~ Holds(block[off].kids, k), Len(block[off].kids) = BP_ORDER,
         dict' = [dict EXCEPT ![k] = v],
         played' = IF played < Len(Script) THEN played + 1 ELSE played,
         InsertSplit(k, v, SearchIndex(k), off), UNCHANGED <<block, saved>>
  PROVE  TreeInv'
<1>1. todo = << >> /\ up = NoKey
  BY DEF Idle
<1>2. PICK kids, above, path, lv, n, H, root : Quiet(kids, above, path, lv, n, H, root)
  BY <1>1, QuietIs
<1>3. k \in Int /\ Keys \subseteq Int /\ Len(Script) \in Nat /\ BP_ORDER \in Nat /\ BP_ORDER >= 4
  BY DEF TreeAssumption
<1> DEFINE leaf  == block[off]
           half  == Len(leaf.kids) \div 2
           right == k > leaf.kids[half + 1].key
           point == IF right THEN half + 1 ELSE half
           low   == SubSeq(leaf.kids, 1, point)
           high  == SubSeq(leaf.kids, point + 1, Len(leaf.kids))
           low2  == IF right THEN low ELSE WithRecord(low, k, v)
           high2 == IF right THEN WithRecord(high, k, v) ELSE high
           m     == [meta EXCEPT !.slot = @ + 1, !.leaf_node_num = @ + 1]
           a     == [leaf EXCEPT !.next = meta.slot, !.kids = low2]
           b     == [leaf EXCEPT !.prev = off, !.kids = high2]
<1>4. /\ meta' = m
      /\ todo' = NodeCreate(leaf, m) \o <<Whole(off, a), Whole(meta.slot, b)>>
      /\ up' = [op |-> "insert", at |-> SearchIndex(k), key |-> high2[1].key, old |-> off, after |-> meta.slot]
      /\ block' = block /\ saved' = saved
  BY DEF InsertSplit
<1>0. /\ off = path[0][k] /\ off \in 1 .. n /\ lv[off] = 0 /\ off \in Nat \ {0}
      /\ kids[off] \in Seq(Kid) /\ Sorted(kids[off], Len(kids[off]))
      /\ block[off] \in Node /\ block[off].kids = kids[off] /\ block[off].parent = above[off]
      /\ above[off] = SearchIndex(k) /\ SearchIndex(k) \in 1 .. n
      /\ off # root
  <2>1. LeafFound(kids, above, path, lv, n, root, k, off)
    BY <1>1, <1>2, <1>3, QuietLeaf
  <2> QED BY <2>1 DEF LeafFound
<1>5. /\ off = path[0][k] /\ off \in 1 .. n /\ lv[off] = 0 /\ off \in Nat \ {0}
      /\ kids[off] \in Seq(Kid) /\ Sorted(kids[off], Len(kids[off]))
      /\ leaf \in Node /\ leaf.kids = kids[off] /\ leaf.parent = above[off]
      /\ above[off] = SearchIndex(k) /\ SearchIndex(k) \in 1 .. n
      /\ off # root
  BY <1>0
<1> DEFINE s   == kids[off]
           big == WithRecord(s, k, v)
           q   == half + 1
           g   == BP_ORDER \div 2
<1>6. Len(s) = BP_ORDER /\ leaf.kids = s /\ half = g
  BY <1>5
<1>7. \A i \in 1 .. Len(s) : s[i].key # k
  BY <1>3, <1>5, HoldsIs
<1>8. big \in Seq(Kid) /\ Len(big) = BP_ORDER + 1
  <2>1. v \in Int \union Vals
    OBVIOUS
  <2>2. big \in Seq(Kid) /\ Len(big) = Len(s) + 1
    BY <1>3, <1>5, <1>7, <2>1, RecordLen
  <2> QED BY <1>6, <2>2
<1>9. /\ low2 = SubSeq(big, 1, q) /\ high2 = SubSeq(big, q + 1, Len(big))
  <2>1. right <=> k > s[q].key
    BY <1>6
  <2>2. q = g + 1 /\ point = IF k > s[q].key THEN q ELSE g
    BY <1>6
  <2>3. /\ low2 = IF k > s[q].key THEN SubSeq(s, 1, point) ELSE WithRecord(SubSeq(s, 1, point), k, v)
        /\ high2 = IF k > s[q].key THEN WithRecord(SubSeq(s, point + 1, Len(s)), k, v)
                   ELSE SubSeq(s, point + 1, Len(s))
    BY <1>6, <2>1
  <2> HIDE DEF q, point, low2, high2, big, s
  <2>4. v \in Int \union Vals
    OBVIOUS
  <2>5. LeafHalves(s, k, v, point, q)
    <3>1. s \in Seq(Kid) /\ Sorted(s, Len(s)) /\ Len(s) = BP_ORDER
      BY <1>5, <1>6 DEF s
    <3>2. q = BP_ORDER \div 2 + 1 /\ point = IF k > s[q].key THEN q ELSE BP_ORDER \div 2
      BY <2>2
    <3> QED BY <1>3, <1>7, <2>4, <3>1, <3>2, LeafSplit
  <2>6. Len(s) + 1 = Len(big)
    BY <1>3, <1>6, <1>8
  <2>7. LeafHalves(s, k, v, point, q) =>
          /\ k > s[q].key => SubSeq(s, 1, point) = SubSeq(big, 1, q)
                             /\ WithRecord(SubSeq(s, point + 1, Len(s)), k, v) = SubSeq(big, q + 1, Len(s) + 1)
          /\ ~ (k > s[q].key) => WithRecord(SubSeq(s, 1, point), k, v) = SubSeq(big, 1, q)
                                 /\ SubSeq(s, point + 1, Len(s)) = SubSeq(big, q + 1, Len(s) + 1)
    BY DEF LeafHalves, big
  <2> QED BY <2>3, <2>5, <2>6, <2>7
<1>10. g \in Nat /\ q = g + 1 /\ q \in g .. BP_ORDER + 1 - g /\ q \in 1 .. Len(big) - 1 /\ g >= 2
  <2>1. g \in Nat /\ (BP_ORDER = 2 * g \/ BP_ORDER = 2 * g + 1)
    BY <1>3, Halves
  <2>2. q = g + 1
    BY <1>6
  <2> HIDE DEF g, q, big
  <2> QED BY <1>3, <1>8, <2>1, <2>2
<1>11. /\ n \in Nat /\ meta.slot = n + 1 /\ meta.slot \in Nat /\ n + 1 \in Nat \ {0}
       /\ meta \in Metas /\ meta.height = H /\ meta.root_offset = root
       /\ meta.leaf_node_num \in Nat \ {0} /\ root \in Nat /\ H \in Nat
  <2>1. meta \in Metas
    BY DEF TreeInv, Types
  <2>2. n \in Nat /\ meta.slot = n + 1 /\ meta.height = H /\ meta.root_offset = root
        /\ meta.leaf_node_num \in Nat \ {0}
    BY <1>2 DEF Quiet, Filled
  <2> QED BY <2>1, <2>2, MetaIs
<1> HIDE DEF half, point, low2, high2, q, g, big
<1>12. /\ a \in Node /\ a.kids = low2 /\ a.parent = above[off]
       /\ b \in Node /\ b.kids = high2 /\ b.parent = above[off]
       /\ a.next = n + 1 /\ a.prev = leaf.prev /\ b.next = leaf.next /\ b.prev = off
       /\ low2 \in Seq(Kid) /\ high2 \in Seq(Kid) /\ high2[1] = big[q + 1] /\ big[q + 1] \in Kid
  <2>1. /\ SubSeq(big, 1, q) \in Seq(Kid) /\ SubSeq(big, q + 1, Len(big)) \in Seq(Kid)
        /\ \A j \in 1 .. Len(big) - q : SubSeq(big, q + 1, Len(big))[j] = big[q + j] /\ q + j \in 1 .. Len(big)
    BY <1>8, <1>10, HalvesAre
  <2>2. 1 \in 1 .. Len(big) - q
    BY <1>3, <1>8, <1>10
  <2>3. high2[1] = big[q + 1] /\ q + 1 \in 1 .. Len(big)
    BY <1>9, <2>1, <2>2
  <2>4. big[q + 1] \in Kid
    BY <1>8, <2>3
  <2>5. low2 \in Seq(Kid) /\ high2 \in Seq(Kid)
    BY <1>9, <2>1
  <2>6. off \in Nat
    BY <1>5
  <2> HIDE DEF leaf
  <2>7. a \in Node /\ a.kids = low2 /\ a.parent = leaf.parent /\ a.next = meta.slot /\ a.prev = leaf.prev
    <3>1. a = Nexted(leaf, meta.slot, low2)
      BY DEF Nexted
    <3> HIDE DEF a
    <3>2. leaf \in Node /\ meta.slot \in Nat /\ low2 \in Seq(Kid)
      BY <1>5, <1>11, <2>5
    <3>3. Keeps(Nexted(leaf, meta.slot, low2), leaf, low2, meta.slot, leaf.prev)
      BY <3>2, NodeFields
    <3> QED BY <3>1, <3>3 DEF Keeps
  <2>8. b \in Node /\ b.kids = high2 /\ b.parent = leaf.parent /\ b.next = leaf.next /\ b.prev = off
    <3>1. b = Preved(leaf, off, high2)
      BY DEF Preved
    <3> HIDE DEF b
    <3>2. leaf \in Node /\ off \in Nat /\ high2 \in Seq(Kid)
      BY <1>5, <2>5, <2>6
    <3>3. Keeps(Preved(leaf, off, high2), leaf, high2, leaf.next, off)
      BY <3>2, NodeFields
    <3> QED BY <3>1, <3>3 DEF Keeps
  <2> QED BY <1>5, <1>11, <2>3, <2>4, <2>5, <2>7, <2>8
<1>13. m = MetaAfter(meta, 0, 1, 0, meta.root_offset) /\ m \in Metas
  <2>1. m = MetaAfter(meta, 0, 1, 0, meta.root_offset)
    BY <1>11, MetaChanges
  <2>2. \A i, l, h, x \in Nat : MetaAfter(meta, i, l, h, x) \in Metas
    BY <1>11, MetaChanges
  <2> HIDE DEF m
  <2> QED BY <1>11, <2>1, <2>2
<1> HIDE DEF a, b, m, leaf
<1>14. /\ m.slot = n + 1 + 1 /\ m.height = H /\ m.root_offset = root
       /\ m.leaf_node_num \in Nat /\ m.leaf_node_num > 1
  <2>1. /\ m.slot = meta.slot + 1 /\ m.height = meta.height + 0 /\ m.root_offset = meta.root_offset
        /\ m.leaf_node_num = meta.leaf_node_num + 1
    BY <1>13 DEF MetaAfter
  <2> DEFINE x == meta.leaf_node_num
  <2>2. x \in Nat \ {0} /\ m.leaf_node_num = x + 1
    BY <1>11, <2>1
  <2> HIDE DEF x
  <2>3. m.leaf_node_num \in Nat /\ m.leaf_node_num > 1
    BY <2>2
  <2>4. H + 0 = H
    BY <1>11
  <2> QED BY <1>11, <2>1, <2>3, <2>4
<1>15. PICK P : P = Told(leaf.next, n + 1) /\ ToSet(NodeCreate(leaf, m)) = P \union {Meta(m)}
  BY <1>5, <1>11, <1>13, NodeCreateIs
<1>16. todo' \in Seq(Write) /\ ToSet(todo') = SplitSet(P, m, off, a, n + 1, b, {})
  <2> DEFINE x == NodeCreate(leaf, m)
             y == <<Whole(off, a), Whole(n + 1, b)>>
  <2>1. x \in Seq(Write)
    BY <1>5, <1>11, <1>13, NodeCreateIs
  <2>2. y \in Seq(Write) /\ ToSet(y) = {Whole(off, a), Whole(n + 1, b)}
    <3>1. Whole(off, a) \in Write /\ Whole(n + 1, b) \in Write
      BY <1>5, <1>11, <1>12, WriteTypes
    <3> QED BY <3>1, FewMembers
  <2>3. todo' = x \o y /\ ToSet(x) = P \union {Meta(m)}
    BY <1>4, <1>11, <1>15
  <2> HIDE DEF x, y
  <2>4. x \o y \in Seq(Write) /\ ToSet(x \o y) = ToSet(x) \union ToSet(y)
    BY <2>1, <2>2, ConcatMembers
  <2>5. SplitSet(P, m, off, a, n + 1, b, {}) = P \union {Meta(m)} \union {Whole(off, a), Whole(n + 1, b)}
    BY DEF SplitSet
  <2> QED BY <2>2, <2>3, <2>4, <2>5
<1> DEFINE K   == [o \in 1 .. n |-> IF o = path[0][k] THEN WithRecord(kids[o], k, v) ELSE kids[o]]
           d2  == [x \in Keys |-> IF x = k THEN v ELSE dict[x]]
           sep == big[q + 1].key
<1>17. Tree(K, above, path, lv, n, H, root, NoKey, d2)
  <2>1. Tree(kids, above, path, lv, n, H, root, up, dict)
    BY <1>2 DEF Quiet
  <2>2. \A i \in 1 .. Len(kids[path[0][k]]) : kids[path[0][k]][i].key # k
    BY <1>5, <1>7
  <2> HIDE DEF d2, sep
  <2>3. Tree(K, above, path, lv, n, H, root, up, d2)
    BY <1>3, <2>1, <2>2, AddRecord DEF d2
  <2> QED BY <1>1, <2>3
<1>18. K[off] = big /\ \A x \in 1 .. n : x # off => K[x] = kids[x]
  BY <1>5 DEF big
<1>19. dict \in [Keys -> Vals \union {Absent}] /\ dict' = d2 /\ d2 \in [Keys -> Vals \union {Absent}]
  BY DEF TreeInv, Types
<1>20. sep \in Int
  BY <1>12 DEF Kid
<1>21. up' = Split(above, n, off, sep)
  BY <1>4, <1>5, <1>11, <1>12 DEF Split
<1> HIDE DEF K, d2, sep
<1>22. Types'
  <2>1. up' \in Ups
    <3>1. above[off] \in Nat /\ off \in Nat /\ n + 1 \in Nat
      BY <1>5, <1>11
    <3> QED BY <1>20, <1>21, <3>1 DEF Ups, Split
  <2>2. played' \in 0 .. Len(Script)
    BY <1>3 DEF TreeInv, Types
  <2> QED BY <1>4, <1>13, <1>16, <1>19, <2>1, <2>2 DEF TreeInv, Types
<1>23. lv[off] = 0 => sep = K[off][q + 1].key
  BY <1>18 DEF sep
<1> HIDE DEF s
<1>24. ToSet(todo') = SplitSet(P, meta', off, a, n + 1, b, {})
  BY <1>4, <1>16
<1>25. {} = IF lv[off] > 0 THEN {b.kids[i].to : i \in 1 .. Len(b.kids)} ELSE {}
  BY <1>5
<1>26. /\ a.kids = SubSeq(K[off], 1, q) /\ b.kids = SubSeq(K[off], q + 1, Len(K[off]))
       /\ Len(K[off]) = BP_ORDER + 1
       /\ q \in (BP_ORDER \div 2) .. BP_ORDER + 1 - (BP_ORDER \div 2)
  BY <1>8, <1>9, <1>10, <1>12, <1>18 DEF g
<1>27. /\ meta'.slot = n + 1 + 1 /\ meta'.height = H /\ meta'.root_offset = root
       /\ meta'.leaf_node_num \in Nat /\ meta'.leaf_node_num > 1
       /\ lv[off] > 0 => sep = K[off][q].key
  BY <1>4, <1>5, <1>14
<1>29. Halving(block, off, n + 1, a, b, P) /\ meta \in Metas
  BY <1>11, <1>12, <1>15 DEF Halving, leaf
<1>30. Grown(meta, meta', lv[off] = 0)
  <2>1. /\ m.leaf_node_num = meta.leaf_node_num + 1 /\ m.leaf_offset = meta.leaf_offset
        /\ m.internal_node_num = meta.internal_node_num + 0
    BY <1>13 DEF MetaAfter
  <2>2. meta.internal_node_num + 0 = meta.internal_node_num
    BY <1>11, MetaIs
  <2>3. lv[off] = 0
    BY <1>5
  <2> QED BY <1>4, <2>1, <2>2, <2>3 DEF Grown
<1>28. SplitStep(kids, above, path, lv, n, H, root, K, d2, off, q, sep, a, b, P, {})
  BY <1>29, <1>30, <1>2, <1>4, <1>5, <1>12, <1>15, <1>17, <1>18, <1>19, <1>20, <1>21, <1>22, <1>23, <1>24,
     <1>25, <1>26, <1>27 DEF SplitStep
<1> QED BY <1>28, SplitKeeps

\* What IndexSplit does: a full internal node with one child more is cut
\* behind its q-th child.
LEMMA IndexSplitKeeps ==
  ASSUME TreeAssumption, TreeInv, todo = << >>, up.op = "insert", up.at # 0,
         Len(block[up.at].kids) = BP_ORDER, IndexSplit, UNCHANGED <<block, saved, dict, played>>
  PROVE  TreeInv'
<1>2. PICK kids, above, path, lv, n, H, root : Quiet(kids, above, path, lv, n, H, root)
  BY QuietIs
<1>26. NodeFound(kids, above, lv, n, root, up.at)
  BY <1>2, QuietNode
<1>1. /\ up.at \in 1 .. n /\ up.at \in Nat \ {0} /\ lv[up.at] > 0
      /\ up.key \in Int /\ up.after \in Int
      /\ kids[up.at] \in Seq(Kid) /\ Len(kids[up.at]) \in Nat /\ Sorted(kids[up.at], Len(kids[up.at]) - 1)
      /\ block[up.at] \in Node /\ block[up.at].kids = kids[up.at] /\ block[up.at].parent = above[up.at]
      /\ WithKey(kids[up.at], up.key, up.after) \in Seq(Kid)
      /\ Len(WithKey(kids[up.at], up.key, up.after)) = Len(kids[up.at]) + 1
  BY <1>26 DEF NodeFound
<1>0. \E i \in 1 .. Len(kids[up.at]) :
        /\ UpperBound(kids[up.at], up.key) = i
        /\ \A j \in 1 .. Len(kids[up.at]) - 1 :
             (j < i => kids[up.at][j].key < up.key) /\ (i <= j => up.key < kids[up.at][j].key)
  BY <1>26 DEF NodeFound
<1>3. Keys \subseteq Int /\ Len(Script) \in Nat /\ BP_ORDER \in Nat /\ BP_ORDER >= 4
  BY DEF TreeAssumption
<1> DEFINE at    == up.at
           key   == up.key
           node  == block[at]
           right == PlaceRight(node.kids, key)
           point == MiddlePoint(node.kids, key)
           low   == SubSeq(node.kids, 1, point + 1)
           high  == SubSeq(node.kids, point + 2, Len(node.kids))
           low2  == IF right THEN low ELSE WithKey(low, key, up.after)
           high2 == IF right THEN WithKey(high, key, up.after) ELSE high
           m     == [meta EXCEPT !.slot = @ + 1, !.internal_node_num = @ + 1]
           a     == [node EXCEPT !.next = meta.slot, !.kids = low2]
           b     == [node EXCEPT !.prev = at, !.kids = high2]
           sep   == node.kids[point + 1].key
<1>4. /\ meta' = m
      /\ todo' = NodeCreate(node, m) \o (<<Whole(at, a), Whole(meta.slot, b)>> \o Reset(b.kids, meta.slot))
      /\ up' = [op |-> "insert", at |-> node.parent, key |-> sep, old |-> at, after |-> meta.slot]
      /\ block' = block /\ saved' = saved /\ dict' = dict /\ played' = played
  BY DEF IndexSplit, SaveSplit
<1>5. /\ at \in 1 .. n /\ at \in Nat \ {0} /\ lv[at] > 0
      /\ key \in Int /\ up.after \in Int
      /\ kids[at] \in Seq(Kid) /\ Len(kids[at]) \in Nat /\ Sorted(kids[at], Len(kids[at]) - 1)
      /\ node \in Node /\ node.kids = kids[at] /\ node.parent = above[at]
      /\ WithKey(kids[at], key, up.after) \in Seq(Kid)
      /\ Len(WithKey(kids[at], key, up.after)) = Len(kids[at]) + 1
  BY <1>1
<1> DEFINE s   == kids[at]
           big == WithKey(s, key, up.after)
           g   == BP_ORDER \div 2
<1>6. Len(s) = BP_ORDER /\ node.kids = s /\ big \in Seq(Kid) /\ Len(big) = BP_ORDER + 1
  BY <1>5
<1>7. PICK q \in g .. BP_ORDER + 1 - g : NodeHalves(s, key, up.after, q)
  <2>1. s \in Seq(Kid) /\ Sorted(s, Len(s) - 1) /\ Len(s) = BP_ORDER
    BY <1>5, <1>6
  <2>2. PICK i \in 1 .. Len(s) :
           /\ UpperBound(s, key) = i
           /\ \A j \in 1 .. Len(s) - 1 : (j < i => s[j].key < key) /\ (i <= j => key < s[j].key)
    BY <1>0
  <2>3. key \in Int /\ up.after \in Int
    BY <1>5
  <2> HIDE DEF s, key
  <2>4. \E q \in (BP_ORDER \div 2) .. BP_ORDER + 1 - (BP_ORDER \div 2) : NodeHalves(s, key, up.after, q)
    BY <1>3, <2>1, <2>2, <2>3, NodeSplit
  <2> QED BY <2>4
<1>8. low2 = SubSeq(big, 1, q) /\ high2 = SubSeq(big, q + 1, Len(big)) /\ sep = big[q].key
  <2>1. /\ low2 = IF PlaceRight(s, key) THEN SubSeq(s, 1, MiddlePoint(s, key) + 1)
                  ELSE WithKey(SubSeq(s, 1, MiddlePoint(s, key) + 1), key, up.after)
        /\ high2 = IF PlaceRight(s, key)
                   THEN WithKey(SubSeq(s, MiddlePoint(s, key) + 2, Len(s)), key, up.after)
                   ELSE SubSeq(s, MiddlePoint(s, key) + 2, Len(s))
        /\ sep = s[MiddlePoint(s, key) + 1].key
    BY <1>6
  <2>2. Len(s) + 1 = Len(big)
    BY <1>3, <1>6
  <2> HIDE DEF s, key, low2, high2, sep
  <2> QED BY <1>7, <2>1, <2>2 DEF NodeHalves, big
<1>9. g \in Nat /\ g >= 2 /\ q \in 1 .. Len(big) - 1 /\ q \in Nat
  <2>1. g \in Nat /\ (BP_ORDER = 2 * g \/ BP_ORDER = 2 * g + 1)
    BY <1>3, Halves
  <2> HIDE DEF g, big
  <2> QED BY <1>3, <1>6, <1>7, <2>1
<1>10. /\ n \in Nat /\ meta.slot = n + 1 /\ meta.slot \in Nat /\ n + 1 \in Nat \ {0}
       /\ meta \in Metas /\ meta.height = H /\ meta.root_offset = root
       /\ meta.leaf_node_num \in Nat \ {0} /\ meta.leaf_node_num > 1 /\ root \in Nat /\ H \in Nat
  <2>1. meta \in Metas
    BY DEF TreeInv, Types
  <2>2. n \in Nat /\ meta.slot = n + 1 /\ meta.height = H /\ meta.root_offset = root
        /\ meta.leaf_node_num \in Nat \ {0} /\ meta.leaf_node_num > 1
    BY <1>2 DEF Quiet, Filled
  <2> QED BY <2>1, <2>2, MetaIs
<1> HIDE DEF right, point, low, high, low2, high2, g, big, sep
<1>11. /\ a \in Node /\ a.kids = low2 /\ a.parent = above[at]
       /\ b \in Node /\ b.kids = high2 /\ b.parent = above[at]
       /\ a.next = n + 1 /\ a.prev = node.prev /\ b.next = node.next /\ b.prev = at
       /\ low2 \in Seq(Kid) /\ high2 \in Seq(Kid) /\ big[q] \in Kid
  <2>1. low2 \in Seq(Kid) /\ high2 \in Seq(Kid)
    <3>1. SubSeq(big, 1, q) \in Seq(Kid) /\ SubSeq(big, q + 1, Len(big)) \in Seq(Kid)
      BY <1>6, <1>9, HalvesAre
    <3> QED BY <1>8, <3>1
  <2>2. big[q] \in Kid
    <3>1. q \in 1 .. Len(big)
      BY <1>3, <1>6, <1>9
    <3> QED BY <1>6, <3>1
  <2> HIDE DEF node
  <2>7. a \in Node /\ a.kids = low2 /\ a.parent = node.parent /\ a.next = meta.slot /\ a.prev = node.prev
    <3>1. a = Nexted(node, meta.slot, low2)
      BY DEF Nexted
    <3> HIDE DEF a
    <3>2. node \in Node /\ meta.slot \in Nat /\ low2 \in Seq(Kid)
      BY <1>5, <1>10, <2>1
    <3>3. Keeps(Nexted(node, meta.slot, low2), node, low2, meta.slot, node.prev)
      BY <3>2, NodeFields
    <3> QED BY <3>1, <3>3 DEF Keeps
  <2>8. b \in Node /\ b.kids = high2 /\ b.parent = node.parent /\ b.next = node.next /\ b.prev = at
    <3>1. b = Preved(node, at, high2)
      BY DEF Preved
    <3> HIDE DEF b
    <3>2. node \in Node /\ at \in Nat /\ high2 \in Seq(Kid)
      BY <1>5, <2>1
    <3>3. Keeps(Preved(node, at, high2), node, high2, node.next, at)
      BY <3>2, NodeFields
    <3> QED BY <3>1, <3>3 DEF Keeps
  <2> QED BY <1>5, <1>10, <2>1, <2>2, <2>7, <2>8
<1>12. m = MetaAfter(meta, 1, 0, 0, meta.root_offset) /\ m \in Metas
  <2>1. m = MetaAfter(meta, 1, 0, 0, meta.root_offset)
    BY <1>10, MetaChanges
  <2>2. \A i, l, h, x \in Nat : MetaAfter(meta, i, l, h, x) \in Metas
    BY <1>10, MetaChanges
  <2> HIDE DEF m
  <2> QED BY <1>10, <2>1, <2>2
<1> HIDE DEF a, b, m, node, at, key
<1>13. /\ m.slot = n + 1 + 1 /\ m.height = H /\ m.root_offset = root
       /\ m.leaf_node_num \in Nat /\ m.leaf_node_num > 1
  <2>1. /\ m.slot = meta.slot + 1 /\ m.height = meta.height + 0 /\ m.root_offset = meta.root_offset
        /\ m.leaf_node_num = meta.leaf_node_num + 0
    BY <1>12 DEF MetaAfter
  <2> DEFINE x == meta.leaf_node_num
  <2>2. x \in Nat \ {0} /\ x > 1 /\ m.leaf_node_num = x + 0
    BY <1>10, <2>1
  <2> HIDE DEF x
  <2>3. m.leaf_node_num \in Nat /\ m.leaf_node_num > 1
    BY <2>2
  <2>4. H + 0 = H
    BY <1>10
  <2> QED BY <1>10, <2>1, <2>3, <2>4
<1> DEFINE K == [x \in 1 .. n |-> IF x = up.at THEN WithKey(kids[x], up.key, up.after) ELSE kids[x]]
<1>14. Tree(K, above, path, lv, n, H, root, NoKey, dict)
  <2>1. Tree(kids, above, path, lv, n, H, root, up, dict)
    BY <1>2 DEF Quiet
  <2> QED BY <1>3, <2>1, AddKey
<1>15. K[at] = big /\ \A x \in 1 .. n : x # at => K[x] = kids[x]
  BY <1>5 DEF big, s, at, key
<1> HIDE DEF K
<1>16. /\ a.kids = SubSeq(K[at], 1, q) /\ b.kids = SubSeq(K[at], q + 1, Len(K[at]))
       /\ Len(K[at]) = BP_ORDER + 1 /\ sep = K[at][q].key
       /\ q \in (BP_ORDER \div 2) .. BP_ORDER + 1 - (BP_ORDER \div 2)
  BY <1>6, <1>7, <1>8, <1>11, <1>15 DEF g
<1>17. \A i \in 1 .. Len(b.kids) : b.kids[i].to \in 1 .. n
  <2>1. \A i \in 1 .. Len(K[at]) : K[at][i].to \in 1 .. n
    <3>1. \A x \in 1 .. n : lv[x] > 0 => \A i \in 1 .. Len(K[x]) :
             K[x][i].to \in 1 .. n /\ lv[K[x][i].to] = lv[x] - 1
      BY <1>14, KidsBelow
    <3> QED BY <1>5, <3>1
  <2>2. Len(b.kids) = Len(big) - q
    BY <1>6, <1>8, <1>9, <1>11, HalvesAre
  <2>3. \A j \in 1 .. Len(big) - q : SubSeq(big, q + 1, Len(big))[j] = big[q + j] /\ q + j \in 1 .. Len(big)
    BY <1>6, <1>9, HalvesAre
  <2> SUFFICES ASSUME NEW i \in 1 .. Len(b.kids) PROVE b.kids[i].to \in 1 .. n
    OBVIOUS
  <2>4. i \in 1 .. Len(big) - q
    BY <2>2
  <2>5. b.kids[i] = big[q + i] /\ q + i \in 1 .. Len(big)
    BY <1>8, <1>11, <2>3, <2>4
  <2> QED BY <1>15, <2>1, <2>5
<1>18. PICK P : P = Told(node.next, n + 1) /\ ToSet(NodeCreate(node, m)) = P \union {Meta(m)}
  BY <1>5, <1>10, <1>12, NodeCreateIs
<1> DEFINE M == {b.kids[i].to : i \in 1 .. Len(b.kids)}
<1>19. todo' \in Seq(Write) /\ ToSet(todo') = SplitSet(P, m, at, a, n + 1, b, M)
  <2> DEFINE x == NodeCreate(node, m)
             y == <<Whole(at, a), Whole(n + 1, b)>>
             z == Reset(b.kids, n + 1)
             Z == {Header(w, "parent", n + 1) : w \in M}
  <2>1. x \in Seq(Write)
    BY <1>5, <1>10, <1>12, NodeCreateIs
  <2>2. y \in Seq(Write) /\ ToSet(y) = {Whole(at, a), Whole(n + 1, b)}
    <3>1. Whole(at, a) \in Write /\ Whole(n + 1, b) \in Write
      BY <1>5, <1>10, <1>11, WriteTypes
    <3> QED BY <3>1, FewMembers
  <2>3. z \in Seq(Write) /\ ToSet(z) = Z
    <3>1. \A i \in 1 .. Len(b.kids) : b.kids[i].to \in Nat
      <4>1. \A c \in 1 .. n : c \in Nat
        BY <1>10
      <4> QED BY <1>17, <4>1
    <3>2. b.kids \in Seq(Kid) /\ n + 1 \in Nat
      BY <1>10, <1>11
    <3> QED BY <3>1, <3>2, ResetIs
  <2>4. todo' = x \o (y \o z) /\ ToSet(x) = P \union {Meta(m)}
    BY <1>4, <1>10, <1>18
  <2>5. SplitSet(P, m, at, a, n + 1, b, M) = P \union {Meta(m)} \union {Whole(at, a), Whole(n + 1, b)} \union Z
    BY DEF SplitSet
  <2> HIDE DEF x, y, z, Z, M
  <2>6. y \o z \in Seq(Write) /\ ToSet(y \o z) = ToSet(y) \union ToSet(z)
    BY <2>2, <2>3, ConcatMembers
  <2>7. x \o (y \o z) \in Seq(Write) /\ ToSet(x \o (y \o z)) = ToSet(x) \union ToSet(y \o z)
    <3> DEFINE yz == y \o z
    <3>1. yz \in Seq(Write)
      BY <2>6
    <3> HIDE DEF yz
    <3>2. x \o yz \in Seq(Write) /\ ToSet(x \o yz) = ToSet(x) \union ToSet(yz)
      BY <2>1, <3>1, ConcatMembers
    <3> QED BY <3>2 DEF yz
  <2>8. ToSet(todo') = (P \union {Meta(m)}) \union (ToSet(y) \union ToSet(z))
    BY <2>4, <2>6, <2>7
  <2> QED BY <2>2, <2>3, <2>4, <2>5, <2>7, <2>8
<1>20. dict' = dict
  BY <1>4
<1>21. sep \in Int
  BY <1>8, <1>11 DEF Kid
<1>22. up' = Split(above, n, at, sep)
  BY <1>4, <1>5, <1>10 DEF Split
<1>23. Types'
  <2>1. up' \in Ups
    <3>1. above[at] \in Nat /\ at \in Nat /\ n + 1 \in Nat
      BY <1>5, <1>10 DEF Node
    <3> QED BY <1>21, <1>22, <3>1 DEF Ups, Split
  <2> QED BY <1>4, <1>12, <1>19, <2>1 DEF TreeInv, Types
<1>24. M = IF lv[at] > 0 THEN {b.kids[i].to : i \in 1 .. Len(b.kids)} ELSE {}
  BY <1>5
<1> HIDE DEF M, s
<1>25. ToSet(todo') = SplitSet(P, meta', at, a, n + 1, b, M)
  BY <1>4, <1>19
<1>30. lv[at] = 0 => sep = K[at][q + 1].key
  <2>1. lv[at] # 0
    BY <1>5
  <2> QED BY <2>1
<1>27. /\ meta'.slot = n + 1 + 1 /\ meta'.height = H /\ meta'.root_offset = root
       /\ meta'.leaf_node_num \in Nat /\ meta'.leaf_node_num > 1
       /\ meta.leaf_node_num > 1 \/ at # root
  BY <1>4, <1>10, <1>13
<1>28. a.parent = above[at] /\ b.parent = above[at]
  BY <1>11
<1>31. Halving(block, at, n + 1, a, b, P) /\ meta \in Metas
  BY <1>10, <1>11, <1>18 DEF Halving, node
<1>32. Grown(meta, meta', lv[at] = 0)
  <2>1. /\ m.leaf_node_num = meta.leaf_node_num + 0 /\ m.leaf_offset = meta.leaf_offset
        /\ m.internal_node_num = meta.internal_node_num + 1
    BY <1>12 DEF MetaAfter
  <2>2. meta.leaf_node_num + 0 = meta.leaf_node_num
    BY <1>10, MetaIs
  <2>3. lv[at] # 0
    BY <1>5
  <2> QED BY <1>4, <2>1, <2>2, <2>3 DEF Grown
<1>29. SplitStep(kids, above, path, lv, n, H, root, K, dict, at, q, sep, a, b, P, M)
  BY <1>31, <1>32, <1>2, <1>4, <1>5, <1>14, <1>15, <1>16, <1>18, <1>20, <1>21, <1>22, <1>23, <1>24, <1>25,
     <1>30, <1>27, <1>28 DEF SplitStep
<1> QED BY <1>29, SplitKeeps

-----------------------------------------------------------------------------
(* init_from_empty.                                                        *)

\* The tree of a new file: an internal root over one empty leaf.
NewKids  == [o \in 1 .. 2 |-> IF o = 1 THEN <<[key |-> Junk, to |-> 2]>> ELSE << >>]
NewAbove == [o \in 1 .. 2 |-> o - 1]
NewLv    == [o \in 1 .. 2 |-> 2 - o]
NewPath  == [h \in Nat |-> [k \in Int |-> IF h = 0 THEN 2 ELSE 1]]

\* It is a tree that holds nothing.
LEMMA NewTree ==
  ASSUME TreeAssumption
  PROVE  Tree(NewKids, NewAbove, NewPath, NewLv, 2, 1, 1, NoKey, [k \in Keys |-> Absent])
<1> DEFINE r == <<[key |-> Junk, to |-> 2]>>
           e == << >>
<1>1. r \in Seq(Kid) /\ Len(r) = 1 /\ r[1].to = 2
  <2>1. [key |-> Junk, to |-> 2] \in Kid
    BY DEF TreeAssumption, Kid
  <2>2. \A x : x \in Kid => <<x>> \in Seq(Kid) /\ Len(<<x>>) = 1 /\ <<x>>[1] = x
    OBVIOUS
  <2> QED BY <2>1, <2>2
<1>2. e \in Seq(Kid) /\ Len(e) = 0
  OBVIOUS
<1> HIDE DEF r, e
<1>3. NewKids \in [1 .. 2 -> Seq(Kid)] /\ NewKids[1] = r /\ NewKids[2] = e
  <2>1. NewKids = [o \in 1 .. 2 |-> IF o = 1 THEN r ELSE e]
    BY DEF NewKids, r, e
  <2> QED BY <1>1, <1>2, <2>1
<1>4. /\ NewAbove \in [1 .. 2 -> Nat] /\ NewAbove[1] = 0 /\ NewAbove[2] = 1
      /\ NewLv \in [1 .. 2 -> 0 .. 1] /\ NewLv[1] = 1 /\ NewLv[2] = 0
  BY DEF NewAbove, NewLv
<1>5. /\ NewPath \in [Nat -> [Int -> Nat]]
      /\ \A k \in Int : NewPath[0][k] = 2 /\ NewPath[1][k] = 1
  BY DEF NewPath
<1>6. Typed(NewKids, NewAbove, NewPath, NewLv, 2, 1)
  <2>1. 2 \in Nat /\ 1 \in Nat \ {0}
    OBVIOUS
  <2>2. NewKids \in [1 .. 2 -> Seq(Kid)] /\ NewAbove \in [1 .. 2 -> Nat]
        /\ NewLv \in [1 .. 2 -> 0 .. 1] /\ NewPath \in [Nat -> [Int -> Nat]]
    BY <1>3, <1>4, <1>5
  <2> QED BY <2>1, <2>2 DEF Typed
<1>7. NoKey.op # "insert" /\ NoKey \in Ups
  BY DEF NoKey, Ups
<1>8. \A c, k : Goes(NoKey, c, k) = c
  BY <1>7 DEF Goes
<1>9. \A o \in 1 .. 2 : o = 1 \/ o = 2
  OBVIOUS
<1>10. \A h \in 0 .. 1 : h = 0 \/ h = 1
  OBVIOUS
<1>11. Paths(NewKids, NewPath, NewLv, 2, 1, 1, NoKey)
  <2>1. 1 \in 1 .. 2 /\ NewLv[1] = 1
    BY <1>4
  <2>2. \A h \in 0 .. 1, k \in Int : NewPath[h][k] \in 1 .. 2 /\ NewLv[NewPath[h][k]] = h
    <3>1. ASSUME NEW k \in Int
          PROVE  /\ NewPath[0][k] = 2 /\ NewLv[NewPath[0][k]] = 0
                 /\ NewPath[1][k] = 1 /\ NewLv[NewPath[1][k]] = 1
      BY <1>4, <1>5
    <3>2. 1 \in 1 .. 2 /\ 2 \in 1 .. 2
      OBVIOUS
    <3> SUFFICES ASSUME NEW h \in 0 .. 1, NEW k \in Int
                 PROVE  NewPath[h][k] \in 1 .. 2 /\ NewLv[NewPath[h][k]] = h
      OBVIOUS
    <3>3. h = 0 \/ h = 1
      BY <1>10
    <3> QED BY <3>1, <3>2, <3>3
  <2>3. \A k \in Int : NewPath[1][k] = Goes(NoKey, 1, k)
    BY <1>5, <1>8
  <2>4. ASSUME NEW h \in 1 .. 1, NEW k \in Int
        PROVE  \E i \in 1 .. Len(NewKids[NewPath[h][k]]) :
                 At(NewKids[NewPath[h][k]], k, i)
                 /\ NewPath[h - 1][k] = Goes(NoKey, NewKids[NewPath[h][k]][i].to, k)
    <3>1. h = 1 /\ h - 1 = 0
      OBVIOUS
    <3>2. At(r, k, 1)
      BY <1>1 DEF At
    <3>3. NewKids[NewPath[h][k]] = r /\ NewPath[h - 1][k] = 2
      BY <1>3, <1>5, <3>1
    <3>4. NewPath[h - 1][k] = Goes(NoKey, r[1].to, k) /\ 1 \in 1 .. Len(r)
      BY <1>1, <1>8, <3>3
    <3> QED BY <3>2, <3>3, <3>4
  <2>5. \A o \in 1 .. 2 : \E k \in Int : NewPath[NewLv[o]][k] = o
    <3>1. NewPath[NewLv[1]][0] = 1 /\ NewPath[NewLv[2]][0] = 2 /\ 0 \in Int
      BY <1>4, <1>5
    <3> QED BY <1>9, <3>1
  <2> QED BY <2>1, <2>2, <2>3, <2>4, <2>5 DEF Paths
<1>12. Kin(NewKids, NewAbove, NewLv, 2, 1, NoKey)
  <2>1. ASSUME NEW o \in 1 .. 2, NewLv[o] > 0, NEW i \in 1 .. Len(NewKids[o])
        PROVE  /\ NewKids[o][i].to \in 1 .. 2
               /\ NewLv[NewKids[o][i].to] = NewLv[o] - 1
               /\ NewAbove[NewKids[o][i].to] = o
               /\ \A j \in 1 .. Len(NewKids[o]) : NewKids[o][j].to = NewKids[o][i].to => j = i
    <3>1. o = 1
      BY <1>4, <1>9, <2>1
    <3>2. i = 1 /\ \A j \in 1 .. Len(NewKids[o]) : j = 1
      <4>1. Len(NewKids[o]) = 1
        BY <1>1, <1>3, <3>1
      <4>2. \A j \in 1 .. 1 : j = 1
        OBVIOUS
      <4>3. i \in 1 .. 1
        BY <4>1
      <4> QED BY <4>1, <4>2, <4>3
    <3>3. NewKids[o][i].to = 2
      BY <1>1, <1>3, <3>1, <3>2
    <3> QED BY <1>4, <3>1, <3>2, <3>3
  <2> QED BY <1>4, <1>7, <2>1 DEF Kin
<1>13. Separators(NewKids, NewPath, NewLv, 2)
  <2>1. ASSUME NEW o \in 1 .. 2, NewLv[o] > 0, NEW i \in 1 .. Len(NewKids[o]) - 1 PROVE FALSE
    <3>1. o = 1
      BY <1>4, <1>9, <2>1
    <3>2. i \in 1 .. 0
      <4>1. Len(NewKids[o]) = 1
        BY <1>1, <1>3, <3>1
      <4>2. Len(NewKids[o]) - 1 = 0
        BY <4>1
      <4> QED BY <4>2
    <3> QED BY <3>2
  <2> QED BY <2>1 DEF Separators
<1> DEFINE d == [k \in Keys |-> Absent]
<1>14. Records(NewKids, NewPath, NewLv, 2, d)
  <2>1. ASSUME NEW o \in 1 .. 2, NewLv[o] = 0, NEW i \in 1 .. Len(NewKids[o]) PROVE FALSE
    <3>1. o = 2
      BY <1>4, <1>9, <2>1
    <3>2. i \in 1 .. 0
      <4>1. Len(NewKids[o]) = 0
        BY <1>2, <1>3, <3>1
      <4> QED BY <4>1
    <3> QED BY <3>2
  <2>2. \A k \in Keys : d[k] = Absent
    OBVIOUS
  <2> HIDE DEF d
  <2> QED BY <2>1, <2>2 DEF Records
<1>15. Waits(NewAbove, NewPath, NewLv, 2, 1, NoKey)
  BY <1>7 DEF Waits
<1> HIDE DEF d
<1>16. Tree(NewKids, NewAbove, NewPath, NewLv, 2, 1, 1, NoKey, d)
  BY <1>6, <1>11, <1>12, <1>13, <1>14, <1>15 DEF Tree
<1> QED BY <1>16 DEF d

\* Root and leaf are rows of one node.
LEMMA NewRows ==
  \A m, file :
    /\ m.leaf_node_num = 1 /\ m.internal_node_num = 1 /\ m.leaf_offset = 2
    /\ DOMAIN file = 1 .. 2 /\ \A o \in 1 .. 2 : file[o].next = 0 /\ file[o].prev = 0
    => Rowed(NewPath, NewLv, 2, 1, m, file, {})
<1> SUFFICES ASSUME NEW m, NEW file, m.leaf_node_num = 1, m.internal_node_num = 1, m.leaf_offset = 2,
                    DOMAIN file = 1 .. 2, \A o \in 1 .. 2 : file[o].next = 0 /\ file[o].prev = 0
             PROVE  Rowed(NewPath, NewLv, 2, 1, m, file, {})
  OBVIOUS
<1>1. /\ NewLv \in [1 .. 2 -> 0 .. 1] /\ NewLv[1] = 1 /\ NewLv[2] = 0
      /\ \A k \in Int : NewPath[0][k] = 2 /\ NewPath[1][k] = 1
  BY DEF NewLv, NewPath
<1>2. /\ \A o \in 1 .. 2 : o = 1 \/ o = 2
      /\ \A h \in 0 .. 1 : h = 0 \/ h = 1
      /\ 1 \in 1 .. 2 /\ 2 \in 1 .. 2 /\ 0 \in 0 .. 2 /\ 1 + 1 = 2
  OBVIOUS
<1>3. Counted(NewLv, 2, m)
  <2>1. Level(NewLv, 2, 0) = {2}
    <3>1. NewLv[1] # 0
      BY <1>1
    <3> QED BY <1>1, <1>2, <3>1 DEF Level
  <2>2. Cardinality({2}) = 1
    BY FS_Singleton
  <2> QED BY <1>2, <2>1, <2>2 DEF Counted
<1> DEFINE N == [o \in 1 .. 2 |-> 0]
<1>4. N \in [1 .. 2 -> 0 .. 2] /\ \A o \in 1 .. 2 : N[o] = 0
  BY <1>2
<1> HIDE DEF N
<1>5. Linked(N, N, NewPath, NewLv, 2, 1, m.leaf_offset)
  <2>1. \A h \in 0 .. 1 : Convex(NewPath[h])
    <3>1. Convex(NewPath[0]) /\ Convex(NewPath[1])
      BY <1>1 DEF Convex
    <3> QED BY <1>2, <3>1
  <2>2. /\ Follows(NewPath[1], 1, 0) /\ Leads(NewPath[1], 1, 0)
        /\ Follows(NewPath[0], 2, 0) /\ Leads(NewPath[0], 2, 0)
    BY <1>1 DEF Follows, Leads
  <2>3. \A o \in 1 .. 2 : Follows(NewPath[NewLv[o]], o, N[o]) /\ Leads(NewPath[NewLv[o]], o, N[o])
    BY <1>1, <1>2, <1>4, <2>2
  <2> QED BY <1>1, <1>2, <1>4, <2>1, <2>3 DEF Linked
<1>6. Carried(N, N, 2, file, {})
  BY <1>4 DEF Carried
<1> QED BY <1>3, <1>5, <1>6 DEF Rowed

\* init_from_empty.
LEMMA InitKeeps ==
  ASSUME TreeAssumption, Init
  PROVE  TreeInv
<1>1. /\ block = <<FirstRoot, FirstLeaf>> /\ meta = FirstMeta /\ saved = FirstMeta
      /\ todo = << >> /\ up = NoKey /\ dict = [k \in Keys |-> Absent] /\ played = 0
  BY DEF Init
<1>2. meta \in Metas /\ meta.slot = 3 /\ meta.height = 1 /\ meta.root_offset = 1 /\ meta.leaf_node_num = 1
  BY <1>1 DEF FirstMeta, Metas
<1> DEFINE r == <<[key |-> Junk, to |-> 2]>>
           e == << >>
<1>3. r \in Seq(Kid) /\ Len(r) = 1
  <2>1. [key |-> Junk, to |-> 2] \in Kid
    BY DEF TreeAssumption, Kid
  <2>2. \A x : x \in Kid => <<x>> \in Seq(Kid) /\ Len(<<x>>) = 1
    OBVIOUS
  <2> QED BY <2>1, <2>2
<1>4. e \in Seq(Kid) /\ Len(e) = 0
  OBVIOUS
<1>5. FirstRoot = [parent |-> 0, next |-> 0, prev |-> 0, kids |-> r]
      /\ FirstLeaf = [parent |-> 1, next |-> 0, prev |-> 0, kids |-> e]
  BY DEF FirstRoot, FirstLeaf
<1> HIDE DEF r, e
<1>6. /\ FirstRoot \in Node /\ FirstRoot.kids = r /\ FirstRoot.parent = 0
      /\ FirstLeaf \in Node /\ FirstLeaf.kids = e /\ FirstLeaf.parent = 1
  BY <1>3, <1>4, <1>5 DEF Node
<1> DEFINE x == FirstRoot
           y == FirstLeaf
<1>7. DOMAIN block = 1 .. 2 /\ block[1] = x /\ block[2] = y
  <2>1. block = <<x, y>>
    BY <1>1
  <2> HIDE DEF x, y
  <2> QED BY <2>1
<1>8. \A o \in 1 .. 2 : o = 1 \/ o = 2
  OBVIOUS
<1>9. Types
  <2>1. DOMAIN block \subseteq Nat \ {0} /\ \A o \in DOMAIN block : block[o] \in Node
    BY <1>6, <1>7, <1>8
  <2>2. dict \in [Keys -> Vals \union {Absent}]
    BY <1>1
  <2>3. played \in 0 .. Len(Script)
    BY <1>1 DEF TreeAssumption
  <2>4. todo \in Seq(Write) /\ up \in Ups
    BY <1>1 DEF Ups
  <2>5. saved \in Metas
    BY <1>1, <1>2
  <2> QED BY <1>2, <2>1, <2>2, <2>3, <2>4, <2>5 DEF Types
<1>10. /\ NewKids[1] = r /\ NewKids[2] = e /\ NewAbove[1] = 0 /\ NewAbove[2] = 1
  <2>1. NewKids = [o \in 1 .. 2 |-> IF o = 1 THEN r ELSE e]
    BY DEF NewKids, r, e
  <2> QED BY <2>1 DEF NewAbove
<1>11. Filled(NewKids, 2, 1, NoKey, 1)
  <2>1. BP_ORDER \in Nat /\ BP_ORDER >= 4
    BY DEF TreeAssumption
  <2>2. \A o \in 1 .. 2 : Len(NewKids[o]) <= BP_ORDER
    <3>1. Len(NewKids[1]) = 1 /\ Len(NewKids[2]) = 0
      BY <1>3, <1>4, <1>10
    <3>2. Len(NewKids[1]) <= BP_ORDER /\ Len(NewKids[2]) <= BP_ORDER
      BY <2>1, <3>1
    <3> SUFFICES ASSUME NEW o \in 1 .. 2 PROVE Len(NewKids[o]) <= BP_ORDER
      OBVIOUS
    <3>3. o = 1 \/ o = 2
      BY <1>8
    <3> QED BY <3>2, <3>3
  <2>3. NoKey.op # "insert"
    BY DEF NoKey
  <2> QED BY <2>2, <2>3 DEF Filled
<1>12. Pending(NewKids, NewAbove, 2, block, meta, saved, {})
  <2>1. \A o \in 1 .. 2 : o \in DOMAIN block /\ block[o].kids = NewKids[o] /\ block[o].parent = NewAbove[o]
    BY <1>6, <1>7, <1>8, <1>10
  <2>2. saved = meta
    BY <1>1
  <2> QED BY <1>7, <2>1, <2>2 DEF Pending
<1>13. Tree(NewKids, NewAbove, NewPath, NewLv, 2, 1, 1, up, dict)
  BY <1>1, NewTree
<1>15. Rowed(NewPath, NewLv, 2, 1, meta, block, {})
  <2>1. /\ meta.leaf_node_num = 1 /\ meta.internal_node_num = 1 /\ meta.leaf_offset = 2
    BY <1>1 DEF FirstMeta
  <2>2. \A o \in 1 .. 2 : block[o].next = 0 /\ block[o].prev = 0
    BY <1>5, <1>7, <1>8
  <2> QED BY <1>7, <2>1, <2>2, NewRows
<1>14. Shape(NewKids, NewAbove, NewPath, NewLv, block, saved, meta, todo, up, dict)
  <2>1. meta.slot - 1 = 2
    BY <1>2
  <2>2. ToSet(todo) = {}
    BY <1>1, FewMembers
  <2> QED BY <1>1, <1>2, <1>11, <1>12, <1>13, <1>15, <2>1, <2>2 DEF Shape
<1> QED BY <1>9, <1>14 DEF TreeInv

-----------------------------------------------------------------------------
(* The theorems.                                                           *)

\* Every step keeps the tree.
LEMMA TreeSteps ==
  ASSUME TreeAssumption, TreeInv, [Next]_vars
  PROVE  TreeInv'
<1>1. Keys \subseteq Int /\ Script \in Seq(Keys) /\ NewVals \subseteq Vals /\ Updatable \subseteq Keys
      /\ BP_ORDER \in Nat
  BY DEF TreeAssumption
<1>2. ASSUME NEW k \in NextKeys, NEW v \in NewVals, Insert(k, v) PROVE TreeInv'
  <2>1. k \in Keys /\ v \in Vals
    <3>1. played \in 0 .. Len(Script)
      BY DEF TreeInv, Types
    <3>2. CASE Free
      BY <1>1, <3>2 DEF NextKeys
    <3>3. CASE ~ Free
      <4>1. Len(Script) \in Nat /\ played # Len(Script)
        BY <1>1, <3>3 DEF Free
      <4>2. played + 1 \in 1 .. Len(Script)
        BY <3>1, <4>1
      <4>3. Script[played + 1] \in Keys
        BY <1>1, <4>2
      <4>4. k = Script[played + 1]
        BY <3>3 DEF NextKeys
      <4> QED BY <1>1, <4>3, <4>4
    <3> QED BY <3>2, <3>3
  <2> DEFINE off == SearchLeaf(k)
  <2>2. /\ Idle /\ ~ Holds(block[off].kids, k)
        /\ dict' = [dict EXCEPT ![k] = v]
        /\ played' = IF played < Len(Script) THEN played + 1 ELSE played
        /\ IF Len(block[off].kids) = BP_ORDER
           THEN InsertSplit(k, v, SearchIndex(k), off)
           ELSE InsertNoSplit(k, v, off)
        /\ UNCHANGED <<block, saved>>
    BY <1>2 DEF Insert
  <2>3. off = SearchLeaf(k)
    OBVIOUS
  <2> HIDE DEF off
  <2>4. CASE Len(block[off].kids) = BP_ORDER
    BY <2>1, <2>2, <2>3, <2>4, InsertSplitKeeps
  <2>5. CASE Len(block[off].kids) # BP_ORDER
    BY <2>1, <2>2, <2>3, <2>5, InsertNoSplitKeeps
  <2> QED BY <2>4, <2>5
<1>3. ASSUME NEW k \in Updatable, NEW v \in Vals, Update(k, v) PROVE TreeInv'
  <2>1. k \in Keys
    BY <1>1
  <2> QED BY <1>3, <2>1, UpdateKeeps
<1>4. CASE Unmap
  BY <1>4, UnmapKeeps
<1>5. CASE InsertKeyToIndex
  <2>1. /\ todo = << >> /\ up.op = "insert" /\ UNCHANGED <<block, saved, dict, played>>
        /\ \/ up.at = 0 /\ NewRoot
           \/ up.at # 0 /\ Len(block[up.at].kids) < BP_ORDER /\ IndexNoSplit
           \/ up.at # 0 /\ Len(block[up.at].kids) = BP_ORDER /\ IndexSplit
    BY <1>5 DEF InsertKeyToIndex
  <2>2. CASE up.at = 0 /\ NewRoot
    BY <2>1, <2>2, NewRootKeeps
  <2>3. CASE up.at # 0 /\ Len(block[up.at].kids) < BP_ORDER /\ IndexNoSplit
    BY <2>1, <2>3, IndexNoSplitKeeps
  <2>4. CASE up.at # 0 /\ Len(block[up.at].kids) = BP_ORDER /\ IndexSplit
    BY <2>1, <2>4, IndexSplitKeeps
  <2> QED BY <2>1, <2>2, <2>3, <2>4
<1>6. CASE Reopen
  BY <1>6, ReopenKeeps
<1>7. CASE UNCHANGED vars
  <2>1. /\ block' = block /\ saved' = saved /\ meta' = meta /\ todo' = todo /\ up' = up
        /\ dict' = dict /\ played' = played
    BY <1>7 DEF vars
  <2>2. Types'
    BY <2>1 DEF TreeInv, Types
  <2>3. \E kids, above, path, lv : Shape(kids, above, path, lv, block', saved', meta', todo', up', dict')
    BY <2>1 DEF TreeInv
  <2> QED BY <2>2, <2>3 DEF TreeInv
<1> QED BY <1>2, <1>3, <1>4, <1>5, <1>6, <1>7 DEF Next

\* In every state the file, with the writes still to be made, is a tree that
\* holds what the operations put in.
THEOREM TreeInvariant == Spec => []TreeInv
<1>1. TreeAssumption
  BY TreeAssumption
<1>2. Init => TreeInv
  BY <1>1, InitKeeps
<1>3. TreeInv /\ [Next]_vars => TreeInv'
  BY <1>1, TreeSteps
<1> QED BY <1>2, <1>3, PTL DEF Spec

\* The values of the variables are of their types.
THEOREM TreeTypes == Spec => []TypeOK
<1>1. TreeInv => TypeOK
  <2> SUFFICES ASSUME TreeInv PROVE TypeOK
    OBVIOUS
  <2>1. Types
    BY DEF TreeInv
  <2>2. \A i \in 1 .. Len(todo) : todo[i].kind \in {"block", "meta", "parent", "prev"}
    <3>1. todo \in Seq(Write)
      BY <2>1 DEF Types
    <3>2. \A w \in Write : w.kind \in {"block", "meta", "parent", "prev"}
      BY DEF Write
    <3> QED BY <3>1, <3>2
  <2> QED BY <2>1, <2>2 DEF Types, TypeOK, Ups, Node, Kid, Metas
<1> QED BY <1>1, TreeInvariant, PTL

\* Between operations search finds each key with the value last put in, and
\* no other key.
THEOREM SearchRight == Spec => []SearchFinds
<1>1. TreeInv => SearchFinds
  <2> SUFFICES ASSUME TreeInv, Idle, NEW k \in Keys PROVE Search(k) = dict[k]
    BY DEF SearchFinds
  <2>1. todo = << >> /\ up = NoKey
    BY DEF Idle
  <2>2. PICK kids, above, path, lv, n, H, root : Quiet(kids, above, path, lv, n, H, root)
    BY <2>1, QuietIs
  <2> DEFINE off == SearchLeaf(k)
             s   == kids[off]
  <2>3. k \in Int
    BY TreeAssumption DEF TreeAssumption
  <2>4. LeafFound(kids, above, path, lv, n, root, k, off)
    BY <2>1, <2>2, <2>3, QuietLeaf
  <2>5. /\ off = path[0][k] /\ off \in 1 .. n /\ lv[off] = 0 /\ s \in Seq(Kid) /\ Sorted(s, Len(s))
        /\ block[off].kids = s
    BY <2>4 DEF LeafFound
  <2>6. Records(kids, path, lv, n, dict)
    BY <2>2 DEF Quiet, Tree
  <2>7. /\ \A i \in 1 .. Len(s) : dict[s[i].key] = s[i].to
        /\ dict[k] # Absent => \E i \in 1 .. Len(s) : s[i].key = k
    BY SMTT(30), <2>5, <2>6 DEF Records
  <2>8. Search(k) = IF Holds(s, k) THEN s[LowerBound(s, k)].to ELSE Absent
    BY <2>5 DEF Search
  <2> HIDE DEF off, s
  <2>9. /\ Holds(s, k) <=> \E i \in 1 .. Len(s) : s[i].key = k
        /\ \A i \in 1 .. Len(s) : s[i].key = k => LowerBound(s, k) = i
    BY <2>3, <2>5, HoldsIs
  <2> QED BY <2>7, <2>8, <2>9
<1> QED BY <1>1, TreeInvariant, PTL

\* Between operations no block is over-full, and none but the root less
\* than half full once there are two leaves: what the asserts of remove,
\* remove_from_index and borrow_key take for granted.
THEOREM FillRight == Spec => []MinFill
<1>1. TreeInv => MinFill
  <2> SUFFICES ASSUME TreeInv, Idle, NEW o \in DOMAIN block
               PROVE  /\ Len(block[o].kids) <= BP_ORDER
                      /\ o # meta.root_offset /\ meta.leaf_node_num > 1
                         => Len(block[o].kids) >= BP_ORDER \div 2
    BY DEF MinFill
  <2>1. todo = << >> /\ up = NoKey
    BY DEF Idle
  <2>2. PICK kids, above, path, lv, n, H, root : Quiet(kids, above, path, lv, n, H, root)
    BY <2>1, QuietIs
  <2>3. o \in 1 .. n /\ block[o].kids = kids[o] /\ root = meta.root_offset
    BY <2>2 DEF Quiet
  <2>4. Filled(kids, n, root, up, meta.leaf_node_num)
    BY <2>2 DEF Quiet
  <2> QED BY <2>3, <2>4 DEF Filled
<1> QED BY <1>1, TreeInvariant, PTL

-----------------------------------------------------------------------------
(* Levels, which names the nodes of the tree row by row.                   *)

\* The kids of a node from left to right, and the row below r.
KidRow(o)  == [j \in 1 .. Len(block[o].kids) |-> block[o].kids[j].to]
NextRow(r) == FlattenSeq([i \in 1 .. Len(r) |-> KidRow(r[i])])

\* On the level of path p, o's keys are before c's; the rows of its nodes S
\* in that order.
Ahead(p, o, c) == \A j, k \in Int : p[j] = o /\ p[k] = c => j < k
Earlier(p, S) == {x \in S \X S : Ahead(p, x[1], x[2])}
Rows(p, S) == {r \in Seq(S) : Ordered(r, Earlier(p, S)) /\ ToSet(r) = S}

\* A pair of Earlier.
LEMMA EarlierIs ==
  \A p, S : \A o, c \in S : <<o, c>> \in Earlier(p, S) <=> Ahead(p, o, c)
<1> SUFFICES ASSUME NEW p, NEW S, NEW o \in S, NEW c \in S
             PROVE  <<o, c>> \in Earlier(p, S) <=> Ahead(p, o, c)
  OBVIOUS
<1>1. <<o, c>> \in S \X S /\ <<o, c>>[1] = o /\ <<o, c>>[2] = c
  OBVIOUS
<1> QED BY <1>1 DEF Earlier

\* The kids of the nodes of level x are the nodes of level x - 1: on the way
\* to each key the kid is met after its parent.
Under(kids, path, lv, n, x) ==
  /\ \A o \in Level(lv, n, x) : \A j \in 1 .. Len(kids[o]) :
       /\ kids[o][j].to \in Level(lv, n, x - 1)
       /\ \A k \in Int : path[x - 1][k] = kids[o][j].to => path[x][k] = o /\ At(kids[o], k, j)
  /\ \A c \in Level(lv, n, x - 1) : \E o \in Level(lv, n, x) : \E j \in 1 .. Len(kids[o]) : kids[o][j].to = c

\* With no key on its way up that is so on every level.
LEMMA UnderIs ==
  ASSUME NEW kids, NEW above, NEW path, NEW lv, NEW n, NEW H, NEW root, NEW d,
         Tree(kids, above, path, lv, n, H, root, NoKey, d)
  PROVE  \A x \in 1 .. H : Under(kids, path, lv, n, x)
<1> SUFFICES ASSUME NEW x \in 1 .. H PROVE Under(kids, path, lv, n, x)
  OBVIOUS
<1>1. \A y \in 1 .. n : lv[y] > 0 => \A i \in 1 .. Len(kids[y]) :
        kids[y][i].to \in 1 .. n /\ lv[kids[y][i].to] = lv[y] - 1
  BY KidsBelow
<1>2. \A k \in Int : above[path[x - 1][k]] = path[x][k]
  BY MoveUp
<1>3. \A k \in Int :
        /\ UpperBound(kids[path[x][k]], k) \in 1 .. Len(kids[path[x][k]])
        /\ At(kids[path[x][k]], k, UpperBound(kids[path[x][k]], k))
        /\ path[x - 1][k] = kids[path[x][k]][UpperBound(kids[path[x][k]], k)].to
  <2>1. Downs(kids, path, H, NoKey)
    BY MoveDown
  <2>2. \A c, k : Goes(NoKey, c, k) = c
    BY DEF Goes, NoKey
  <2> QED BY <2>1, <2>2 DEF Downs
<1>4. \A o \in 1 .. n : lv[o] > 0 => \A i \in 1 .. Len(kids[o]) :
        /\ above[kids[o][i].to] = o
        /\ \A j \in 1 .. Len(kids[o]) : kids[o][j].to = kids[o][i].to => j = i
  BY DEF Tree, Kin
<1>5. /\ \A h \in 0 .. H, k \in Int : path[h][k] \in 1 .. n /\ lv[path[h][k]] = h
      /\ \A o \in 1 .. n : \E k \in Int : path[lv[o]][k] = o
  BY DEF Tree, Paths
<1>6. H \in Nat /\ x \in 0 .. H /\ x \in Nat /\ x > 0 /\ x - 1 \in 0 .. H
  BY DEF Tree, Typed
<1>7. ASSUME NEW o \in Level(lv, n, x), NEW j \in 1 .. Len(kids[o])
      PROVE  /\ kids[o][j].to \in Level(lv, n, x - 1)
             /\ \A k \in Int : path[x - 1][k] = kids[o][j].to => path[x][k] = o /\ At(kids[o], k, j)
  <2>1. o \in 1 .. n /\ lv[o] = x /\ lv[o] > 0
    BY <1>6 DEF Level
  <2>2. kids[o][j].to \in Level(lv, n, x - 1)
    BY <1>1, <2>1 DEF Level
  <2>3. above[kids[o][j].to] = o
    BY <1>4, <2>1
  <2>4. ASSUME NEW k \in Int, path[x - 1][k] = kids[o][j].to PROVE path[x][k] = o /\ At(kids[o], k, j)
    <3>1. path[x][k] = o
      BY <1>2, <2>3, <2>4
    <3>2. PICK i \in 1 .. Len(kids[o]) : At(kids[o], k, i) /\ path[x - 1][k] = kids[o][i].to
      BY <1>3, <3>1
    <3>3. i = j
      BY <1>4, <2>1, <2>4, <3>2
    <3> QED BY <3>1, <3>2, <3>3
  <2> QED BY <2>2, <2>4
<1>8. ASSUME NEW c \in Level(lv, n, x - 1)
      PROVE  \E o \in Level(lv, n, x) : \E j \in 1 .. Len(kids[o]) : kids[o][j].to = c
  <2>1. c \in 1 .. n /\ lv[c] = x - 1
    BY DEF Level
  <2>2. PICK k \in Int : path[x - 1][k] = c
    BY <1>5, <2>1
  <2> DEFINE o == path[x][k]
  <2>3. o \in Level(lv, n, x)
    BY <1>5, <1>6 DEF Level
  <2>4. \E j \in 1 .. Len(kids[o]) : kids[o][j].to = c
    BY <1>3, <2>2
  <2> QED BY <2>3, <2>4
<1> QED BY <1>7, <1>8 DEF Under

\* The kids of a node are in the order of their keys.
LEMMA KidRowIs ==
  ASSUME NEW kids, NEW above, NEW path, NEW lv, NEW n, NEW H, NEW root,
         Quiet(kids, above, path, lv, n, H, root), up = NoKey
  PROVE  \A x \in 1 .. H : \A o \in Level(lv, n, x) :
           /\ KidRow(o) \in Seq(Level(lv, n, x - 1))
           /\ Ordered(KidRow(o), Earlier(path[x - 1], Level(lv, n, x - 1)))
           /\ ToSet(KidRow(o)) = {kids[o][j].to : j \in 1 .. Len(kids[o])}
<1> SUFFICES ASSUME NEW x \in 1 .. H, NEW o \in Level(lv, n, x)
             PROVE  /\ KidRow(o) \in Seq(Level(lv, n, x - 1))
                    /\ Ordered(KidRow(o), Earlier(path[x - 1], Level(lv, n, x - 1)))
                    /\ ToSet(KidRow(o)) = {kids[o][j].to : j \in 1 .. Len(kids[o])}
  OBVIOUS
<1>1. Tree(kids, above, path, lv, n, H, root, NoKey, dict)
  BY DEF Quiet
<1>2. Under(kids, path, lv, n, x)
  BY <1>1, UnderIs
<1> DEFINE S == Level(lv, n, x - 1)
           s == kids[o]
           t == KidRow(o)
           p == path[x - 1]
<1>3. /\ \A j \in 1 .. Len(s) : s[j].to \in S
      /\ \A j \in 1 .. Len(s) : \A k \in Int : p[k] = s[j].to => At(s, k, j)
  BY <1>2 DEF Under
<1>4. o \in 1 .. n
  BY DEF Level
<1>5. block[o].kids = s
  BY <1>4 DEF Quiet
<1>6. s \in Seq(Kid)
  BY <1>1, <1>4, NodeTypes
<1>7. t = [j \in 1 .. Len(s) |-> s[j].to]
  BY <1>5 DEF KidRow
<1> SUFFICES t \in Seq(S) /\ Ordered(t, Earlier(p, S)) /\ ToSet(t) = {s[j].to : j \in 1 .. Len(s)}
  OBVIOUS
<1> HIDE DEF S, s, t, p
<1>8. Len(s) \in Nat /\ \A j \in 1 .. Len(s) : s[j].key \in Int
  <2>1. \A j \in 1 .. Len(s) : s[j] \in Kid
    BY <1>6
  <2> QED BY <1>6, <2>1 DEF Kid
<1>9. t \in Seq(S) /\ Len(t) = Len(s) /\ DOMAIN t = 1 .. Len(s) /\ \A j \in 1 .. Len(s) : t[j] = s[j].to
  BY <1>3, <1>7, <1>8
<1>10. ASSUME NEW i \in 1 .. Len(t), NEW j \in 1 .. Len(t), i < j
       PROVE  <<t[i], t[j]>> \in Earlier(p, S)
  <2>1. i \in 1 .. Len(s) /\ j \in 1 .. Len(s) /\ t[i] = s[i].to /\ t[j] = s[j].to /\ t[i] \in S /\ t[j] \in S
    BY <1>3, <1>9
  <2>2. ASSUME NEW a \in Int, NEW b \in Int, p[a] = t[i], p[b] = t[j] PROVE a < b
    <3>1. At(s, a, i) /\ At(s, b, j)
      BY <1>3, <2>1, <2>2
    <3>2. i \in 1 .. Len(s) - 1
      BY <1>8, <1>10, <2>1
    <3>3. (s[i].key <= a <=> i < i) /\ (s[i].key <= b <=> i < j)
      BY <3>1, <3>2 DEF At
    <3>4. s[i].key \in Int
      BY <1>8, <2>1
    <3> QED BY <1>10, <3>3, <3>4
  <2>3. Ahead(p, t[i], t[j])
    BY <2>2 DEF Ahead
  <2> QED BY <2>1, <2>3, EarlierIs
<1>11. Ordered(t, Earlier(p, S))
  BY <1>10 DEF Ordered
<1>12. ToSet(t) = {s[j].to : j \in 1 .. Len(s)}
  BY <1>9 DEF ToSet
<1> QED BY <1>9, <1>11, <1>12

\* The row below a row of level x is a row of level x - 1.
LEMMA NextRowIs ==
  ASSUME NEW kids, NEW above, NEW path, NEW lv, NEW n, NEW H, NEW root,
         Quiet(kids, above, path, lv, n, H, root), up = NoKey
  PROVE  \A x \in 1 .. H : \A r \in Rows(path[x], Level(lv, n, x)) :
           NextRow(r) \in Rows(path[x - 1], Level(lv, n, x - 1))
<1> SUFFICES ASSUME NEW x \in 1 .. H, NEW r \in Rows(path[x], Level(lv, n, x))
             PROVE  NextRow(r) \in Rows(path[x - 1], Level(lv, n, x - 1))
  OBVIOUS
<1> DEFINE T == Level(lv, n, x)
           S == Level(lv, n, x - 1)
           R == Earlier(path[x - 1], S)
           seqs == [i \in 1 .. Len(r) |-> KidRow(r[i])]
<1>1. r \in Seq(T) /\ Ordered(r, Earlier(path[x], T)) /\ ToSet(r) = T
  BY DEF Rows
<1>2. \A o \in T :
        /\ KidRow(o) \in Seq(S) /\ Ordered(KidRow(o), R)
        /\ ToSet(KidRow(o)) = {kids[o][j].to : j \in 1 .. Len(kids[o])}
  BY KidRowIs
<1>3. Under(kids, path, lv, n, x)
  <2>1. Tree(kids, above, path, lv, n, H, root, NoKey, dict)
    BY DEF Quiet
  <2> QED BY <2>1, UnderIs
<1>4. /\ \A o \in T : \A j \in 1 .. Len(kids[o]) :
           /\ kids[o][j].to \in S
           /\ \A k \in Int : path[x - 1][k] = kids[o][j].to => path[x][k] = o
      /\ \A c \in S : \E o \in T : \E j \in 1 .. Len(kids[o]) : kids[o][j].to = c
  BY <1>3 DEF Under
<1>5. NextRow(r) = FlattenSeq(seqs)
  BY DEF NextRow
<1> SUFFICES FlattenSeq(seqs) \in Seq(S) /\ Ordered(FlattenSeq(seqs), R) /\ ToSet(FlattenSeq(seqs)) = S
  BY <1>5 DEF Rows
<1> DEFINE p == path[x - 1]
           q == path[x]
<1>6. R = Earlier(p, S)
  OBVIOUS
<1>7. Ordered(r, Earlier(q, T))
  BY <1>1
<1>8. /\ \A o \in T : \A j \in 1 .. Len(kids[o]) :
           /\ kids[o][j].to \in S
           /\ \A k \in Int : p[k] = kids[o][j].to => q[k] = o
  BY <1>4
<1> HIDE DEF T, S, R, p, q
<1>9. Len(r) \in Nat /\ DOMAIN r = 1 .. Len(r) /\ \A i \in 1 .. Len(r) : r[i] \in T
  BY <1>1
<1>10. /\ seqs \in Seq(Seq(S)) /\ Len(seqs) = Len(r) /\ \A i \in 1 .. Len(r) : seqs[i] = KidRow(r[i])
  BY <1>2, <1>9
<1> HIDE DEF seqs
<1>11. \A i \in 1 .. Len(seqs) : Ordered(seqs[i], R)
  BY <1>2, <1>9, <1>10
<1>12. ASSUME NEW i \in 1 .. Len(seqs), NEW j \in 1 .. Len(seqs), i < j,
              NEW a \in ToSet(seqs[i]), NEW b \in ToSet(seqs[j])
       PROVE  <<a, b>> \in R
  <2>1. i \in 1 .. Len(r) /\ j \in 1 .. Len(r) /\ r[i] \in T /\ r[j] \in T
    BY <1>9, <1>10
  <2>2. a \in {kids[r[i]][y].to : y \in 1 .. Len(kids[r[i]])}
    BY <1>2, <1>10, <2>1
  <2>3. b \in {kids[r[j]][y].to : y \in 1 .. Len(kids[r[j]])}
    BY <1>2, <1>10, <2>1
  <2>4. a \in S /\ \A k \in Int : p[k] = a => q[k] = r[i]
    BY <1>8, <2>1, <2>2
  <2>5. b \in S /\ \A k \in Int : p[k] = b => q[k] = r[j]
    BY <1>8, <2>1, <2>3
  <2>6. <<r[i], r[j]>> \in Earlier(q, T)
    BY <1>7, <1>12, <2>1 DEF Ordered
  <2>7. Ahead(q, r[i], r[j])
    BY <2>1, <2>6, EarlierIs
  <2>8. Ahead(p, a, b)
    BY <2>4, <2>5, <2>7 DEF Ahead
  <2> QED BY <1>6, <2>4, <2>5, <2>8, EarlierIs
<1>13. AllOrdered(seqs, R)
  BY <1>11, <1>12 DEF AllOrdered
<1>14. /\ FlattenSeq(seqs) \in Seq(S) /\ Ordered(FlattenSeq(seqs), R)
       /\ ToSet(FlattenSeq(seqs)) = Pieces(seqs, Len(seqs))
  BY <1>10, <1>13, FlattenIs
<1>15. Pieces(seqs, Len(seqs)) = S
  <2>1. Pieces(seqs, Len(seqs)) = UNION {ToSet(seqs[i]) : i \in 1 .. Len(r)}
    BY <1>10 DEF Pieces
  <2>2. \A i \in 1 .. Len(r) : ToSet(seqs[i]) = {kids[r[i]][j].to : j \in 1 .. Len(kids[r[i]])}
    BY <1>2, <1>9, <1>10
  <2>3. ASSUME NEW c \in Pieces(seqs, Len(seqs)) PROVE c \in S
    <3>1. PICK i \in 1 .. Len(r) : c \in ToSet(seqs[i])
      BY <2>1
    <3>2. c \in {kids[r[i]][j].to : j \in 1 .. Len(kids[r[i]])}
      BY <2>2, <3>1
    <3> QED BY <1>8, <1>9, <3>2
  <2>4. ASSUME NEW c \in S PROVE c \in Pieces(seqs, Len(seqs))
    <3>1. PICK o \in T : \E j \in 1 .. Len(kids[o]) : kids[o][j].to = c
      BY <1>4 DEF S, T
    <3>2. PICK i \in 1 .. Len(r) : r[i] = o
      <4>1. o \in {r[i] : i \in DOMAIN r}
        BY <1>1 DEF ToSet
      <4> QED BY <1>9, <4>1
    <3>3. c \in ToSet(seqs[i])
      BY <2>2, <3>1, <3>2
    <3> QED BY <2>1, <3>3
  <2> QED BY <2>3, <2>4
<1> QED BY <1>14, <1>15
\* The row of level x.
Row(path, lv, n, x) == Rows(path[x], Level(lv, n, x))

\* The root alone is the row of its level.
LEMMA TopRow ==
  ASSUME NEW kids, NEW above, NEW path, NEW lv, NEW n, NEW H, NEW root, NEW d,
         Tree(kids, above, path, lv, n, H, root, NoKey, d)
  PROVE  <<root>> \in Row(path, lv, n, H)
<1>1. /\ H \in Nat \ {0} /\ H \in 0 .. H
      /\ \A k \in Int : path[H][k] = Goes(NoKey, root, k)
      /\ \A o \in 1 .. n : \E k \in Int : path[lv[o]][k] = o
      /\ root \in 1 .. n /\ lv[root] = H
  BY DEF Tree, Typed, Paths
<1>2. \A k \in Int : path[H][k] = root
  BY <1>1 DEF Goes, NoKey
<1> DEFINE S == Level(lv, n, H)
<1>3. \A o \in S : o = root
  <2> SUFFICES ASSUME NEW o \in S PROVE o = root
    OBVIOUS
  <2>1. o \in 1 .. n /\ lv[o] = H
    BY DEF Level
  <2> QED BY <1>1, <1>2, <2>1
<1>4. root \in S
  BY <1>1 DEF Level
<1> HIDE DEF S
<1>5. S = {root}
  BY <1>3, <1>4
<1>6. <<root>> \in Seq(S) /\ ToSet(<<root>>) = S
  BY <1>4, <1>5, FewMembers
<1>7. Ordered(<<root>>, Earlier(path[H], S))
  BY DEF Ordered
<1> QED BY <1>6, <1>7 DEF Row, Rows, S

\* Levels is the tree level by level, each from its least keys to its
\* greatest.
LEMMA LevelsAre ==
  ASSUME NEW kids, NEW above, NEW path, NEW lv, NEW n, NEW H, NEW root,
         Quiet(kids, above, path, lv, n, H, root), up = NoKey
  PROVE  /\ DOMAIN Levels = 1 .. H + 1
         /\ \A h \in 1 .. H + 1 : Levels[h] \in Row(path, lv, n, H + 1 - h)
<1>1. /\ H \in Nat \ {0} /\ meta.height = H /\ meta.root_offset = root
      /\ root \in 1 .. n /\ lv[root] = H
  BY DEF Quiet, Tree, Typed, Paths
<1>2. \A x \in 1 .. H : \A r \in Row(path, lv, n, x) : NextRow(r) \in Row(path, lv, n, x - 1)
  BY NextRowIs DEF Row
<1> DEFINE N == H + 1
           D == [h \in 1 .. N |-> Row(path, lv, n, N - h)]
           G == [h \in 1 .. H |-> [r \in D[h] |-> NextRow(r)]]
           a == <<root>>
           R(f) == f = [h \in 1 .. N |-> IF h = 1 THEN a ELSE NextRow(f[h - 1])]
           row == CHOOSE f : R(f)
<1>3. Levels = row
  BY <1>1 DEF Levels, NextRow, KidRow
<1>4. /\ \A h \in 1 .. N : D[h] = Row(path, lv, n, N - h)
      /\ \A h \in 1 .. H : \A r \in D[h] : G[h][r] = NextRow(r)
  OBVIOUS
<1>5. N \in Nat \ {0} /\ N - 1 = H /\ 1 \in 1 .. N /\ N = H + 1
  BY <1>1
<1> HIDE DEF N, D, G
<1>6. a \in D[1]
  <2>1. <<root>> \in Row(path, lv, n, H)
    BY TopRow DEF Quiet
  <2> QED BY <1>4, <1>5, <2>1
<1>7. \A h \in 1 .. H : \A r \in D[h] : NextRow(r) \in D[h + 1]
  <2> SUFFICES ASSUME NEW h \in 1 .. H, NEW r \in D[h] PROVE NextRow(r) \in D[h + 1]
    OBVIOUS
  <2>1. h \in 1 .. N /\ h + 1 \in 1 .. N /\ N - h \in 1 .. H /\ N - h - 1 = N - (h + 1)
    BY <1>1, <1>5
  <2>2. r \in Row(path, lv, n, N - h)
    BY <1>4, <2>1
  <2>3. NextRow(r) \in Row(path, lv, n, N - h - 1)
    BY <1>2, <2>1, <2>2
  <2> QED BY <1>4, <2>1, <2>3
<1>8. \A h \in 1 .. N - 1 : \A r \in D[h] : G[h][r] \in D[h + 1]
  BY <1>4, <1>5, <1>7
<1> HIDE DEF a
<1>9. PICK f : Iterated(N, D, G, a, f)
  BY <1>5, <1>6, <1>8, Iterate
<1>10. /\ f = [h \in 1 .. N |-> IF h = 1 THEN a ELSE G[h - 1][f[h - 1]]]
       /\ \A h \in 1 .. N : f[h] \in D[h]
  BY <1>9 DEF Iterated
<1>11. \A h \in 1 .. N : h # 1 => G[h - 1][f[h - 1]] = NextRow(f[h - 1])
  <2> SUFFICES ASSUME NEW h \in 1 .. N, h # 1 PROVE G[h - 1][f[h - 1]] = NextRow(f[h - 1])
    OBVIOUS
  <2>1. h - 1 \in 1 .. N /\ h - 1 \in 1 .. H
    BY <1>1, <1>5
  <2>2. f[h - 1] \in D[h - 1]
    BY <1>10, <2>1
  <2> QED BY <1>4, <2>1, <2>2
<1>12. R(f)
  <2>1. [h \in 1 .. N |-> IF h = 1 THEN a ELSE G[h - 1][f[h - 1]]]
        = [h \in 1 .. N |-> IF h = 1 THEN a ELSE NextRow(f[h - 1])]
    BY <1>11
  <2> QED BY <1>10, <2>1
<1>13. row = [h \in 1 .. N |-> IF h = 1 THEN a ELSE NextRow(row[h - 1])]
  BY <1>12, Zenon
<1> HIDE DEF row
<1>14. \A h \in 1 .. N : row[h] = IF h = 1 THEN a ELSE NextRow(row[h - 1])
  BY <1>13
<1> DEFINE T == {m \in Nat : m + 1 <= N => row[m + 1] \in D[m + 1]}
<1>15. 0 \in T
  <2>1. row[1] = a /\ 0 + 1 = 1
    BY <1>5, <1>14
  <2> QED BY <1>6, <2>1
<1>16. ASSUME NEW m \in Nat, m \in T PROVE m + 1 \in T
  <2> SUFFICES ASSUME m + 1 + 1 <= N PROVE row[m + 1 + 1] \in D[m + 1 + 1]
    OBVIOUS
  <2> DEFINE p == m + 1 + 1
  <2>1. p \in 1 .. N /\ p # 1 /\ p - 1 = m + 1 /\ m + 1 <= N /\ m + 1 \in 1 .. H /\ m + 1 + 1 = p
    BY <1>1, <1>5
  <2> HIDE DEF p
  <2>2. row[p] = NextRow(row[p - 1])
    BY <1>14, <2>1
  <2>3. row[m + 1] \in D[m + 1]
    BY <1>16, <2>1
  <2>4. NextRow(row[m + 1]) \in D[m + 1 + 1]
    BY <1>7, <2>1, <2>3
  <2> QED BY <2>1, <2>2, <2>4
<1> HIDE DEF T
<1>17. Nat \subseteq T
  BY <1>15, <1>16, Induct
<1>23. DOMAIN row = 1 .. H + 1
  BY <1>5, <1>13
<1> SUFFICES ASSUME NEW h \in 1 .. H + 1 PROVE Levels[h] \in Row(path, lv, n, H + 1 - h)
  BY <1>3, <1>23
<1>18. h - 1 \in Nat /\ h - 1 + 1 = h /\ h <= N /\ h \in 1 .. N
  BY DEF N
<1>19. h - 1 \in T
  BY <1>17, <1>18
<1>20. row[h] \in D[h]
  BY <1>18, <1>19 DEF T
<1>21. row[h] \in Row(path, lv, n, N - h)
  BY <1>4, <1>18, <1>20
<1>22. Levels[h] \in Row(path, lv, n, N - h)
  BY <1>3, <1>21
<1> HIDE DEF R
<1> QED BY <1>5, <1>22


\* What a row tells of its nodes: it names each of them once, in the order
\* of their keys.
LEMMA RowIs ==
  ASSUME NEW p, NEW S, NEW r \in Rows(p, S), \A o \in S : \E k \in Int : p[k] = o
  PROVE  /\ Len(r) \in Nat /\ DOMAIN r = 1 .. Len(r) /\ \A i \in 1 .. Len(r) : r[i] \in S
         /\ \A o \in S : \E i \in 1 .. Len(r) : r[i] = o
         /\ \A i, j \in 1 .. Len(r) : i < j => Ahead(p, r[i], r[j])
         /\ \A i, j \in 1 .. Len(r) : r[i] = r[j] => i = j
<1>1. r \in Seq(S) /\ Ordered(r, Earlier(p, S)) /\ ToSet(r) = S
  BY DEF Rows
<1>2. Len(r) \in Nat /\ DOMAIN r = 1 .. Len(r) /\ \A i \in 1 .. Len(r) : r[i] \in S
  BY <1>1
<1>3. \A o \in S : \E i \in 1 .. Len(r) : r[i] = o
  BY <1>1, <1>2 DEF ToSet
<1>4. ASSUME NEW i \in 1 .. Len(r), NEW j \in 1 .. Len(r), i < j PROVE Ahead(p, r[i], r[j])
  <2>1. <<r[i], r[j]>> \in Earlier(p, S)
    BY <1>1, <1>4 DEF Ordered
  <2> QED BY <1>2, <2>1, EarlierIs
<1>5. ASSUME NEW i \in 1 .. Len(r), NEW j \in 1 .. Len(r), i < j PROVE r[i] # r[j]
  <2>1. PICK k \in Int : p[k] = r[i]
    BY <1>2
  <2>2. r[i] = r[j] => k < k
    BY <1>4, <1>5, <2>1 DEF Ahead
  <2> QED BY <2>2
<1>6. \A i, j \in 1 .. Len(r) : r[i] = r[j] => i = j
  <2> SUFFICES ASSUME NEW i \in 1 .. Len(r), NEW j \in 1 .. Len(r), r[i] = r[j] PROVE i = j
    OBVIOUS
  <2>1. ~ i < j /\ ~ j < i
    BY <1>5
  <2> QED BY <2>1
<1> QED BY <1>2, <1>3, <1>4, <1>6

\* The next node is the next one in the row.
LEMMA RowNext ==
  ASSUME NEW p, NEW S, 0 \notin S, \A o \in S : \E k \in Int : p[k] = o,
         NEW r \in Rows(p, S), NEW i \in 1 .. Len(r), NEW c \in S \union {0}, Follows(p, r[i], c)
  PROVE  c = IF i = Len(r) THEN 0 ELSE r[i + 1]
<1>1. /\ Len(r) \in Nat /\ \A j \in 1 .. Len(r) : r[j] \in S
      /\ \A o \in S : \E j \in 1 .. Len(r) : r[j] = o
      /\ \A j, m \in 1 .. Len(r) : j < m => Ahead(p, r[j], r[m])
  BY RowIs
<1>2. ASSUME NEW j \in 1 .. Len(r), NEW m \in 1 .. Len(r), j < m,
             NEW a \in Int, NEW b \in Int, p[a] = r[j], p[b] = r[m]
      PROVE  a < b
  BY <1>1, <1>2 DEF Ahead
<1>3. CASE c = 0
  <2>1. \A j, k \in Int : p[j] = r[i] /\ j <= k => p[k] = r[i]
    BY <1>3 DEF Follows
  <2>2. ASSUME i # Len(r) PROVE FALSE
    <3>1. i + 1 \in 1 .. Len(r) /\ i < i + 1
      BY <1>1, <2>2
    <3>2. PICK a \in Int : p[a] = r[i]
      BY <1>1
    <3>3. PICK b \in Int : p[b] = r[i + 1]
      BY <1>1, <3>1
    <3>4. a < b
      BY <1>2, <3>1, <3>2, <3>3
    <3>5. p[b] = r[i]
      BY <2>1, <3>2, <3>4
    <3>6. b < b
      BY <1>2, <3>1, <3>3, <3>5
    <3> QED BY <3>6
  <2> QED BY <1>3, <2>2
<1>4. CASE c # 0
  <2>1. PICK k \in Int : p[k] = r[i] /\ p[k + 1] = c
    BY <1>4 DEF Follows
  <2>2. c # r[i] /\ c \in S
    BY <1>4 DEF Follows
  <2>3. PICK m \in 1 .. Len(r) : r[m] = c
    BY <1>1, <2>2
  <2>4. k + 1 \in Int /\ k < k + 1
    OBVIOUS
  <2>5. ~ m < i
    <3>1. m < i => k + 1 < k
      BY <1>2, <2>1, <2>3, <2>4
    <3> QED BY <3>1
  <2>6. m # i
    BY <2>2, <2>3
  <2>7. i < m /\ i + 1 \in 1 .. Len(r) /\ i < i + 1
    BY <1>1, <2>5, <2>6
  <2>8. ASSUME i + 1 < m PROVE FALSE
    <3>1. PICK b \in Int : p[b] = r[i + 1]
      BY <1>1, <2>7
    <3>2. k < b
      BY <1>2, <2>1, <2>7, <3>1
    <3>3. b < k + 1
      BY <1>2, <2>1, <2>3, <2>4, <2>7, <2>8, <3>1
    <3> QED BY <3>2, <3>3
  <2>9. m = i + 1 /\ i # Len(r)
    BY <1>1, <2>7, <2>8
  <2> QED BY <2>3, <2>9
<1> QED BY <1>3, <1>4

\* The node before is the one before in the row.
LEMMA RowPrev ==
  ASSUME NEW p, NEW S, 0 \notin S, \A o \in S : \E k \in Int : p[k] = o,
         NEW r \in Rows(p, S), NEW i \in 1 .. Len(r), NEW c \in S \union {0}, Leads(p, r[i], c)
  PROVE  c = IF i = 1 THEN 0 ELSE r[i - 1]
<1>1. /\ Len(r) \in Nat /\ \A j \in 1 .. Len(r) : r[j] \in S
      /\ \A o \in S : \E j \in 1 .. Len(r) : r[j] = o
      /\ \A j, m \in 1 .. Len(r) : j < m => Ahead(p, r[j], r[m])
  BY RowIs
<1>2. ASSUME NEW j \in 1 .. Len(r), NEW m \in 1 .. Len(r), j < m,
             NEW a \in Int, NEW b \in Int, p[a] = r[j], p[b] = r[m]
      PROVE  a < b
  BY <1>1, <1>2 DEF Ahead
<1>3. CASE c = 0
  <2>1. \A j, k \in Int : p[k] = r[i] /\ j <= k => p[j] = r[i]
    BY <1>3 DEF Leads
  <2>2. ASSUME i # 1 PROVE FALSE
    <3>1. i - 1 \in 1 .. Len(r) /\ i - 1 < i
      BY <1>1, <2>2
    <3>2. PICK a \in Int : p[a] = r[i]
      BY <1>1
    <3>3. PICK b \in Int : p[b] = r[i - 1]
      BY <1>1, <3>1
    <3>4. b < a
      BY <1>2, <3>1, <3>2, <3>3
    <3>5. p[b] = r[i]
      BY <2>1, <3>2, <3>4
    <3>6. b < b
      BY <1>2, <3>1, <3>3, <3>5
    <3> QED BY <3>6
  <2> QED BY <1>3, <2>2
<1>4. CASE c # 0
  <2>1. PICK k \in Int : p[k] = c /\ p[k + 1] = r[i]
    BY <1>4 DEF Leads
  <2>2. c # r[i] /\ c \in S
    BY <1>4 DEF Leads
  <2>3. PICK m \in 1 .. Len(r) : r[m] = c
    BY <1>1, <2>2
  <2>4. k + 1 \in Int /\ k < k + 1
    OBVIOUS
  <2>5. ~ i < m
    <3>1. i < m => k + 1 < k
      BY <1>2, <2>1, <2>3, <2>4
    <3> QED BY <3>1
  <2>6. m # i
    BY <2>2, <2>3
  <2>7. m < i /\ i - 1 \in 1 .. Len(r) /\ i - 1 < i
    BY <1>1, <2>5, <2>6
  <2>8. ASSUME m < i - 1 PROVE FALSE
    <3>1. PICK b \in Int : p[b] = r[i - 1]
      BY <1>1, <2>7
    <3>2. b < k + 1
      BY <1>2, <2>1, <2>4, <2>7, <3>1
    <3>3. k < b
      BY <1>2, <2>1, <2>3, <2>7, <2>8, <3>1
    <3> QED BY <3>2, <3>3
  <2>9. m = i - 1 /\ i # 1
    BY <1>1, <2>7, <2>8
  <2> QED BY <2>3, <2>9
<1> QED BY <1>3, <1>4

\* A row is as long as its level has nodes.
LEMMA RowLen ==
  ASSUME NEW p, NEW S, \A o \in S : \E k \in Int : p[k] = o, NEW r \in Rows(p, S)
  PROVE  Cardinality(S) = Len(r)
<1>1. /\ Len(r) \in Nat /\ DOMAIN r = 1 .. Len(r) /\ \A i \in 1 .. Len(r) : r[i] \in S
      /\ \A o \in S : \E i \in 1 .. Len(r) : r[i] = o
      /\ \A i, j \in 1 .. Len(r) : r[i] = r[j] => i = j
  BY RowIs
<1>2. r \in [1 .. Len(r) -> S]
  <2>1. r \in Seq(S)
    BY DEF Rows
  <2> QED BY <1>1, <2>1
<1>3. r \in Bijection(1 .. Len(r), S)
  BY <1>1, <1>2 DEF Bijection, Injection, Surjection, IsInjective
<1>4. ExistsBijection(1 .. Len(r), S)
  BY <1>3 DEF ExistsBijection
<1> QED BY <1>1, <1>4, FS_CountingElements

\* Between operations the file has the rows: each node's neighbours, the
\* first leaf and the counts.
LEMMA QuietRows ==
  ASSUME NEW kids, NEW above, NEW path, NEW lv, NEW n, NEW H, NEW root,
         Quiet(kids, above, path, lv, n, H, root), up = NoKey
  PROVE  /\ \A x \in 0 .. H : /\ 0 \notin Level(lv, n, x)
                              /\ \A o \in Level(lv, n, x) : \E k \in Int : path[x][k] = o
         /\ \A x \in 0 .. H : \A o \in Level(lv, n, x) :
              /\ block[o].next \in Level(lv, n, x) \union {0} /\ Follows(path[x], o, block[o].next)
              /\ block[o].prev \in Level(lv, n, x) \union {0} /\ Leads(path[x], o, block[o].prev)
         /\ meta.leaf_offset \in Level(lv, n, 0) /\ block[meta.leaf_offset].prev = 0
<1>1. Tree(kids, above, path, lv, n, H, root, NoKey, dict)
  BY DEF Quiet
<1>2. PICK nexts, prevs : /\ Linked(nexts, prevs, path, lv, n, H, meta.leaf_offset)
                          /\ Carried(nexts, prevs, n, block, {})
  BY DEF Quiet, Rowed
<1>3. \A o \in 1 .. n : block[o].next = nexts[o] /\ block[o].prev = prevs[o]
  BY <1>2, SettledRows
<1>4. /\ \A h \in 0 .. H, k \in Int : path[h][k] \in 1 .. n /\ lv[path[h][k]] = h
      /\ \A o \in 1 .. n : \E k \in Int : path[lv[o]][k] = o
      /\ n \in Nat /\ H \in Nat
  BY <1>1 DEF Tree, Typed, Paths
<1>5. /\ \A o \in 1 .. n : nexts[o] \in 0 .. n /\ prevs[o] \in 0 .. n
      /\ meta.leaf_offset \in 1 .. n /\ lv[meta.leaf_offset] = 0 /\ prevs[meta.leaf_offset] = 0
      /\ \A o \in 1 .. n : Follows(path[lv[o]], o, nexts[o]) /\ Leads(path[lv[o]], o, prevs[o])
  BY <1>2 DEF Linked
<1>6. ASSUME NEW x \in 0 .. H
      PROVE  0 \notin Level(lv, n, x) /\ \A o \in Level(lv, n, x) : \E k \in Int : path[x][k] = o
  BY <1>4 DEF Level
<1>7. ASSUME NEW x \in 0 .. H, NEW o \in Level(lv, n, x)
      PROVE  /\ block[o].next \in Level(lv, n, x) \union {0} /\ Follows(path[x], o, block[o].next)
             /\ block[o].prev \in Level(lv, n, x) \union {0} /\ Leads(path[x], o, block[o].prev)
  <2>1. o \in 1 .. n /\ lv[o] = x
    BY DEF Level
  <2>2. Follows(path[x], o, block[o].next) /\ Leads(path[x], o, block[o].prev)
    BY <1>3, <1>5, <2>1
  <2>3. \A k \in Int : path[x][k] \in Level(lv, n, x)
    BY <1>4 DEF Level
  <2>4. block[o].next # 0 => block[o].next \in Level(lv, n, x)
    <3>1. block[o].next # 0 => \E k \in Int : path[x][k + 1] = block[o].next
      BY <2>2 DEF Follows
    <3>2. \A k \in Int : k + 1 \in Int
      OBVIOUS
    <3> QED BY <2>3, <3>1, <3>2
  <2>5. block[o].prev # 0 => block[o].prev \in Level(lv, n, x)
    <3>1. block[o].prev # 0 => \E k \in Int : path[x][k] = block[o].prev
      BY <2>2 DEF Leads
    <3> QED BY <2>3, <3>1
  <2> QED BY <2>2, <2>4, <2>5
<1>8. meta.leaf_offset \in Level(lv, n, 0) /\ block[meta.leaf_offset].prev = 0
  BY <1>3, <1>5 DEF Level
<1> QED BY <1>6, <1>7, <1>8

\* parent, which insert_key_to_index follows upwards, is the node that
\* points here; the root's is 0.
THEOREM ParentRight == Spec => []ParentsRight
<1>1. TreeInv => ParentsRight
  <2> SUFFICES ASSUME TreeInv, Idle PROVE
        /\ block[meta.root_offset].parent = 0
        /\ \A h \in 1 .. meta.height : \A off \in ToSet(Levels[h]) :
             \A kid \in ToSet(block[off].kids) : block[kid.to].parent = off
    BY DEF ParentsRight
  <2>1. todo = << >> /\ up = NoKey
    BY DEF Idle
  <2>2. PICK kids, above, path, lv, n, H, root : Quiet(kids, above, path, lv, n, H, root)
    BY <2>1, QuietIs
  <2>3. /\ meta.height = H /\ meta.root_offset = root /\ H \in Nat \ {0} /\ root \in 1 .. n
        /\ \A o \in 1 .. n : block[o].kids = kids[o] /\ block[o].parent = above[o]
        /\ Kin(kids, above, lv, n, root, up) /\ lv \in [1 .. n -> 0 .. H]
    BY <2>2 DEF Quiet, Tree, Typed, Paths
  <2>4. block[meta.root_offset].parent = 0
    BY <2>3 DEF Kin
  <2>5. ASSUME NEW h \in 1 .. H, NEW off \in ToSet(Levels[h]), NEW kid \in ToSet(block[off].kids)
        PROVE  block[kid.to].parent = off
    <3> DEFINE r == Levels[h]
    <3>1. h \in 1 .. H + 1
      BY <2>3
    <3>2. r \in Seq(Level(lv, n, H + 1 - h))
      <4>1. \A x \in 1 .. H + 1 : Levels[x] \in Row(path, lv, n, H + 1 - x)
        BY <2>1, <2>2, LevelsAre
      <4> QED BY <3>1, <4>1 DEF Row, Rows
    <3> HIDE DEF r
    <3>3. off \in Level(lv, n, H + 1 - h)
      <4>1. off \in {r[i] : i \in DOMAIN r}
        BY DEF ToSet, r
      <4> QED BY <3>2, <4>1
    <3>4. off \in 1 .. n /\ lv[off] > 0
      BY <2>3, <3>3 DEF Level
    <3>5. PICK i \in DOMAIN kids[off] : kid = kids[off][i]
      <4>1. kid \in ToSet(kids[off])
        BY <2>3, <3>4
      <4> QED BY <4>1 DEF ToSet
    <3>6. i \in 1 .. Len(kids[off])
      <4>1. kids[off] \in Seq(Kid)
        BY <2>2, <3>4 DEF Quiet, Tree, Typed
      <4> QED BY <3>5, <4>1
    <3>7. kid.to \in 1 .. n /\ above[kid.to] = off
      BY <2>3, <3>4, <3>5, <3>6 DEF Kin
    <3> QED BY <2>3, <3>7
  <2> QED BY <2>3, <2>4, <2>5
<1> QED BY <1>1, TreeInvariant, PTL

\* Between operations next and prev lead from each node to its neighbours in
\* its row, the leaves' row begins at leaf_offset: what search_range and
\* remove rely on.
THEOREM ChainRight == Spec => []ChainsRight
<1>1. TreeInv => ChainsRight
  <2> SUFFICES ASSUME TreeInv, Idle PROVE
        /\ \A h \in DOMAIN Levels : \A i \in DOMAIN Levels[h] :
             /\ block[Levels[h][i]].next = IF i = Len(Levels[h]) THEN 0 ELSE Levels[h][i + 1]
             /\ block[Levels[h][i]].prev = IF i = 1 THEN 0 ELSE Levels[h][i - 1]
        /\ Levels[meta.height + 1][1] = meta.leaf_offset
    BY DEF ChainsRight
  <2>1. todo = << >> /\ up = NoKey
    BY DEF Idle
  <2>2. PICK kids, above, path, lv, n, H, root : Quiet(kids, above, path, lv, n, H, root)
    BY <2>1, QuietIs
  <2>3. /\ DOMAIN Levels = 1 .. H + 1
        /\ \A h \in 1 .. H + 1 : Levels[h] \in Row(path, lv, n, H + 1 - h)
    BY <2>1, <2>2, LevelsAre
  <2>4. /\ \A x \in 0 .. H : /\ 0 \notin Level(lv, n, x)
                             /\ \A o \in Level(lv, n, x) : \E k \in Int : path[x][k] = o
        /\ \A x \in 0 .. H : \A o \in Level(lv, n, x) :
             /\ block[o].next \in Level(lv, n, x) \union {0} /\ Follows(path[x], o, block[o].next)
             /\ block[o].prev \in Level(lv, n, x) \union {0} /\ Leads(path[x], o, block[o].prev)
        /\ meta.leaf_offset \in Level(lv, n, 0) /\ block[meta.leaf_offset].prev = 0
    BY <2>1, <2>2, QuietRows
  <2>5. H \in Nat \ {0} /\ meta.height = H
    BY <2>2 DEF Quiet, Tree, Typed
  <2>6. ASSUME NEW h \in 1 .. H + 1, NEW i \in DOMAIN Levels[h]
        PROVE  /\ block[Levels[h][i]].next = IF i = Len(Levels[h]) THEN 0 ELSE Levels[h][i + 1]
               /\ block[Levels[h][i]].prev = IF i = 1 THEN 0 ELSE Levels[h][i - 1]
    <3> DEFINE x == H + 1 - h
               r == Levels[h]
               p == path[x]
               S == Level(lv, n, x)
    <3>1. x \in 0 .. H
      BY <2>5
    <3>2. r \in Rows(p, S)
      BY <2>3 DEF Row
    <3>3. 0 \notin S /\ \A o \in S : \E k \in Int : p[k] = o
      BY <2>4, <3>1
    <3>4. \A o \in S : /\ block[o].next \in S \union {0} /\ Follows(p, o, block[o].next)
                       /\ block[o].prev \in S \union {0} /\ Leads(p, o, block[o].prev)
      BY <2>4, <3>1
    <3> HIDE DEF x, r, p, S
    <3>5. DOMAIN r = 1 .. Len(r) /\ \A j \in 1 .. Len(r) : r[j] \in S
      BY <3>2, <3>3, RowIs
    <3>6. i \in 1 .. Len(r) /\ r[i] \in S
      BY <3>5 DEF r
    <3>7. block[r[i]].next = IF i = Len(r) THEN 0 ELSE r[i + 1]
      BY <3>2, <3>3, <3>4, <3>6, RowNext
    <3>8. block[r[i]].prev = IF i = 1 THEN 0 ELSE r[i - 1]
      BY <3>2, <3>3, <3>4, <3>6, RowPrev
    <3> QED BY <3>7, <3>8 DEF r
  <2>7. Levels[H + 1][1] = meta.leaf_offset
    <3> DEFINE r == Levels[H + 1]
               p == path[0]
               S == Level(lv, n, 0)
    <3>1. H + 1 \in 1 .. H + 1 /\ H + 1 - (H + 1) = 0 /\ 0 \in 0 .. H
      BY <2>5
    <3>2. r \in Rows(p, S)
      <4>1. r \in Row(path, lv, n, H + 1 - (H + 1))
        BY <2>3, <3>1
      <4> QED BY <3>1, <4>1 DEF Row
    <3>3. 0 \notin S /\ \A o \in S : \E k \in Int : p[k] = o
      BY <2>4, <3>1
    <3>4. \A i \in 1 .. Len(r) : block[r[i]].prev = IF i = 1 THEN 0 ELSE r[i - 1]
      <4>1. \A i \in DOMAIN r : block[r[i]].prev = IF i = 1 THEN 0 ELSE r[i - 1]
        BY <2>6, <3>1
      <4> HIDE DEF r, p, S
      <4>2. DOMAIN r = 1 .. Len(r)
        BY <3>2, <3>3, RowIs
      <4> QED BY <4>1, <4>2
    <3>5. meta.leaf_offset \in S /\ block[meta.leaf_offset].prev = 0
      BY <2>4
    <3> HIDE DEF r, p, S
    <3>6. /\ Len(r) \in Nat /\ \A i \in 1 .. Len(r) : r[i] \in S
          /\ \A o \in S : \E i \in 1 .. Len(r) : r[i] = o
      BY <3>2, <3>3, RowIs
    <3>7. PICK i \in 1 .. Len(r) : r[i] = meta.leaf_offset
      BY <3>5, <3>6
    <3>8. i # 1 => r[i - 1] \in S
      <4>1. i # 1 => i - 1 \in 1 .. Len(r)
        BY <3>6
      <4> QED BY <3>6, <4>1
    <3>9. i = 1
      BY <3>3, <3>4, <3>5, <3>7, <3>8
    <3> QED BY <3>7, <3>9 DEF r
  <2> QED BY <2>3, <2>5, <2>6, <2>7
<1> QED BY <1>1, TreeInvariant, PTL

\* Between operations the meta block in the file is the one in memory, the
\* file has the blocks below slot, and the counts are those of the tree.
THEOREM AccountRight == Spec => []Accounted
<1>1. TreeInv => Accounted
  <2> SUFFICES ASSUME TreeInv, Idle PROVE
        /\ saved = meta
        /\ DOMAIN block = 1 .. meta.slot - 1
        /\ meta.leaf_node_num = Len(Leaves)
        /\ meta.leaf_node_num + meta.internal_node_num = meta.slot - 1
    BY DEF Accounted
  <2>1. todo = << >> /\ up = NoKey
    BY DEF Idle
  <2>2. PICK kids, above, path, lv, n, H, root : Quiet(kids, above, path, lv, n, H, root)
    BY <2>1, QuietIs
  <2>3. /\ n \in Nat /\ meta.slot = n + 1 /\ saved = meta /\ meta.height = H
        /\ DOMAIN block = 1 .. n /\ H \in Nat \ {0}
    BY <2>2 DEF Quiet, Tree, Typed
  <2>4. meta.slot - 1 = n
    BY <2>3
  <2>5. /\ Cardinality(Level(lv, n, 0)) = meta.leaf_node_num
        /\ meta.leaf_node_num + meta.internal_node_num = n
    BY <2>2 DEF Quiet, Rowed, Counted
  <2>6. Leaves \in Rows(path[0], Level(lv, n, 0))
    <3>1. \A h \in 1 .. H + 1 : Levels[h] \in Row(path, lv, n, H + 1 - h)
      BY <2>1, <2>2, LevelsAre
    <3>2. H + 1 \in 1 .. H + 1 /\ H + 1 - (H + 1) = 0
      BY <2>3
    <3>3. Levels[H + 1] \in Row(path, lv, n, H + 1 - (H + 1))
      BY <3>1, <3>2
    <3> QED BY <2>3, <3>2, <3>3 DEF Leaves, Row
  <2>7. \A o \in Level(lv, n, 0) : \E k \in Int : path[0][k] = o
    <3>1. 0 \in 0 .. H
      BY <2>3
    <3> QED BY <2>1, <2>2, <3>1, QuietRows
  <2>8. Cardinality(Level(lv, n, 0)) = Len(Leaves)
    BY <2>6, <2>7, RowLen
  <2> QED BY <2>3, <2>4, <2>5, <2>8
<1> QED BY <1>1, TreeInvariant, PTL
=============================================================================
