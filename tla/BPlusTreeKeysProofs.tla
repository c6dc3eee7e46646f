------------------------ MODULE BPlusTreeKeysProofs ------------------------
(***************************************************************************)
(* Theorems about what callers of the tree see: a range search, which walks *)
(* along the leaves that BPlusTreeProofs describes, is exact (RangeRight);  *)
(* the leaves hold the engine's keys in a known order (OrderRight); and the *)
(* tree is a map of those keys (TreeIsAStringMap), since no two of them     *)
(* have one number.                                                        *)
(***************************************************************************)
EXTENDS BPlusTreeKeys, BPlusTreeProofs

-----------------------------------------------------------------------------
(* The row of leaves, and what walks along it.                             *)

\* The first n numbers are n.
LEMMA FirstNaturals ==
  ASSUME NEW n \in Nat
  PROVE  IsFiniteSet(1 .. n) /\ Cardinality(1 .. n) = n
<1>1. Cardinality(1 .. n) = IF 1 > n THEN 0 ELSE n - 1 + 1
  BY FS_Interval
<1>2. IsFiniteSet(1 .. n)
  BY FS_Interval
<1> QED BY <1>1, <1>2

\* r is the row of leaves, p[k] the leaf that holds k if any does.
LeafRow(r, p) ==
  /\ Len(r) \in Nat /\ \A m \in 1 .. Len(r) : r[m] \in DOMAIN block /\ r[m] # 0
  /\ \A i, j \in 1 .. Len(r) : i < j => Ahead(p, r[i], r[j])
  /\ \A i, j \in 1 .. Len(r) : r[i] = r[j] => i = j
  /\ \A k \in Int : (\E m \in 1 .. Len(r) : r[m] = p[k]) /\ SearchLeaf(k) = p[k]
  /\ \A m \in 1 .. Len(r) : block[r[m]].next = IF m = Len(r) THEN 0 ELSE r[m + 1]

\* What the leaf at o holds: of all records exactly those on whose way it is.
LeafHolds(p, o) ==
  LET s == block[o].kids IN
  /\ s \in Seq(Kid) /\ Sorted(s, Len(s))
  /\ \A i \in 1 .. Len(s) : /\ s[i].key \in Keys /\ p[s[i].key] = o
                            /\ dict[s[i].key] = s[i].to /\ dict[s[i].key] # Absent
  /\ \A k \in Keys : p[k] = o /\ dict[k] # Absent => \E i \in 1 .. Len(s) : s[i].key = k

\* Between operations there is such a row.
LEMMA LeafRowIs ==
  ASSUME TreeInv, Idle
  PROVE  \E r, p : /\ LeafRow(r, p) /\ Leaves = r
                   /\ \A m \in 1 .. Len(r) : LeafHolds(p, r[m])
<1>1. todo = << >> /\ up = NoKey
  BY DEF Idle
<1>2. PICK kids, above, path, lv, n, H, root : Quiet(kids, above, path, lv, n, H, root)
  BY <1>1, QuietIs
<1>3. Tree(kids, above, path, lv, n, H, root, NoKey, dict)
  BY <1>1, <1>2 DEF Quiet
<1>4. /\ n \in Nat /\ H \in Nat \ {0} /\ meta.height = H /\ DOMAIN block = 1 .. n
      /\ \A o \in 1 .. n : block[o].kids = kids[o] /\ kids[o] \in Seq(Kid)
      /\ \A k \in Int : path[0][k] \in 1 .. n /\ lv[path[0][k]] = 0
  <2>1. /\ n \in Nat /\ meta.height = H /\ DOMAIN block = 1 .. n
        /\ \A o \in 1 .. n : block[o].kids = kids[o]
    BY <1>2 DEF Quiet
  <2>2. H \in Nat \ {0} /\ \A o \in 1 .. n : kids[o] \in Seq(Kid)
    BY <1>3 DEF Tree, Typed
  <2>3. \A h \in 0 .. H, k \in Int : path[h][k] \in 1 .. n /\ lv[path[h][k]] = h
    BY <1>3 DEF Tree, Paths
  <2>4. 0 \in 0 .. H
    BY <2>2
  <2> QED BY <2>1, <2>2, <2>3, <2>4
<1> DEFINE r == Leaves
           p == path[0]
           S == Level(lv, n, 0)
<1>5. r \in Rows(p, S)
  <2>1. \A h \in 1 .. H + 1 : Levels[h] \in Row(path, lv, n, H + 1 - h)
    BY <1>1, <1>2, LevelsAre
  <2>2. H + 1 \in 1 .. H + 1 /\ H + 1 - (H + 1) = 0
    BY <1>4
  <2>3. Levels[H + 1] \in Row(path, lv, n, H + 1 - (H + 1))
    BY <2>1, <2>2
  <2> QED BY <1>4, <2>2, <2>3 DEF Leaves, Row
<1>6. /\ 0 \notin S /\ \A o \in S : \E k \in Int : p[k] = o
      /\ \A o \in S : block[o].next \in S \union {0} /\ Follows(p, o, block[o].next)
  <2>1. 0 \in 0 .. H
    BY <1>4
  <2> QED BY <1>1, <1>2, <2>1, QuietRows
<1>7. \A k \in Int : p[k] \in S
  BY <1>4 DEF Level
<1>8. \A o \in S : o \in 1 .. n /\ lv[o] = 0
  BY DEF Level
<1>9. \A k \in Int : SearchLeaf(k) = p[k]
  <2> SUFFICES ASSUME NEW k \in Int PROVE SearchLeaf(k) = p[k]
    OBVIOUS
  <2>1. LeafFound(kids, above, path, lv, n, root, k, SearchLeaf(k))
    BY <1>1, <1>2, QuietLeaf
  <2> QED BY <2>1 DEF LeafFound
<1> HIDE DEF r, p, S
<1>10. /\ Len(r) \in Nat /\ \A i \in 1 .. Len(r) : r[i] \in S
       /\ \A o \in S : \E i \in 1 .. Len(r) : r[i] = o
       /\ \A i, j \in 1 .. Len(r) : i < j => Ahead(p, r[i], r[j])
       /\ \A i, j \in 1 .. Len(r) : r[i] = r[j] => i = j
  BY <1>5, <1>6, RowIs
<1>11. \A m \in 1 .. Len(r) : block[r[m]].next = IF m = Len(r) THEN 0 ELSE r[m + 1]
  BY <1>5, <1>6, <1>10, RowNext
<1>12. LeafRow(r, p)
  <2>1. \A m \in 1 .. Len(r) : r[m] \in DOMAIN block /\ r[m] # 0
    BY <1>4, <1>6, <1>8, <1>10
  <2>2. \A k \in Int : \E m \in 1 .. Len(r) : r[m] = p[k]
    BY <1>7, <1>10
  <2> QED BY <1>9, <1>10, <1>11, <2>1, <2>2 DEF LeafRow
<1>13. \A o \in S : LeafHolds(p, o)
  <2> SUFFICES ASSUME NEW o \in S PROVE LeafHolds(p, o)
    OBVIOUS
  <2>1. o \in 1 .. n /\ lv[o] = 0 /\ block[o].kids = kids[o] /\ kids[o] \in Seq(Kid)
    BY <1>4, <1>8
  <2>2. Sorted(kids[o], Len(kids[o]))
    BY <1>3, <2>1, RecordsSorted
  <2>3. /\ \A i \in 1 .. Len(kids[o]) :
             /\ kids[o][i].key \in Keys /\ p[kids[o][i].key] = o
             /\ dict[kids[o][i].key] = kids[o][i].to /\ kids[o][i].to \in Vals
        /\ \A k \in Keys : dict[k] # Absent => \E i \in 1 .. Len(kids[p[k]]) : kids[p[k]][i].key = k
    BY <1>3, <2>1 DEF Tree, Records, p
  <2>4. Absent \notin Vals
    BY TreeAssumption DEF TreeAssumption
  <2> QED BY <2>1, <2>2, <2>3, <2>4 DEF LeafHolds
<1>14. \A m \in 1 .. Len(r) : LeafHolds(p, r[m])
  BY <1>10, <1>13
<1> QED BY <1>12, <1>14 DEF r

\* Where the walk goes on from o, when last is the leaf it ends in.
On(o, last) == IF block[o].next = 0 THEN last ELSE block[o].next

\* Whatever block the walk starts from, it comes nearer to its end.
LEMMA WalkEnds ==
  ASSUME TreeInv, Idle, NEW last \in DOMAIN block
  PROVE  \E M \in Nat : \E rank \in [DOMAIN block -> 0 .. M] :
           \A o \in DOMAIN block : o # last => /\ On(o, last) \in DOMAIN block
                                               /\ rank[On(o, last)] < rank[o]
<1>1. todo = << >> /\ up = NoKey
  BY DEF Idle
<1>2. PICK kids, above, path, lv, n, H, root : Quiet(kids, above, path, lv, n, H, root)
  BY <1>1, QuietIs
<1>3. /\ n \in Nat /\ H \in Nat \ {0} /\ DOMAIN block = 1 .. n
      /\ \A o \in 1 .. n : lv[o] \in 0 .. H
  BY <1>1, <1>2 DEF Quiet, Tree, Typed
<1> DEFINE row(x) == Levels[H + 1 - x]
           S(x) == Level(lv, n, x)
           p(x) == path[x]
<1>4. \A x \in 0 .. H : row(x) \in Rows(p(x), S(x))
  <2> SUFFICES ASSUME NEW x \in 0 .. H PROVE row(x) \in Rows(p(x), S(x))
    OBVIOUS
  <2>1. \A h \in 1 .. H + 1 : Levels[h] \in Row(path, lv, n, H + 1 - h)
    BY <1>1, <1>2, LevelsAre
  <2>2. H + 1 - x \in 1 .. H + 1 /\ H + 1 - (H + 1 - x) = x
    BY <1>3
  <2>3. Levels[H + 1 - x] \in Row(path, lv, n, H + 1 - (H + 1 - x))
    BY <2>1, <2>2
  <2> QED BY <2>2, <2>3 DEF Row
<1>5. /\ \A x \in 0 .. H : 0 \notin S(x) /\ \A o \in S(x) : \E k \in Int : p(x)[k] = o
      /\ \A x \in 0 .. H : \A o \in S(x) :
           block[o].next \in S(x) \union {0} /\ Follows(p(x), o, block[o].next)
  BY <1>1, <1>2, QuietRows
<1>6. /\ \A o \in 1 .. n : o \in S(lv[o])
      /\ \A x : \A o \in S(x) : o \in 1 .. n /\ lv[o] = x
  BY DEF Level
<1> HIDE DEF row, S, p
<1>7. ASSUME NEW x \in 0 .. H
      PROVE  /\ Len(row(x)) \in 0 .. n /\ \A i \in 1 .. Len(row(x)) : row(x)[i] \in S(x)
             /\ \A o \in S(x) : \E i \in 1 .. Len(row(x)) : row(x)[i] = o
             /\ \A i, j \in 1 .. Len(row(x)) : row(x)[i] = row(x)[j] => i = j
             /\ \A i \in 1 .. Len(row(x)) :
                  block[row(x)[i]].next = IF i = Len(row(x)) THEN 0 ELSE row(x)[i + 1]
  <2> DEFINE r == row(x)
             T == S(x)
             q == p(x)
  <2>1. r \in Rows(q, T) /\ 0 \notin T /\ \A o \in T : \E k \in Int : q[k] = o
    BY <1>4, <1>5
  <2>2. \A o \in T : block[o].next \in T \union {0} /\ Follows(q, o, block[o].next)
    BY <1>5
  <2>3. T \subseteq 1 .. n
    BY <1>6
  <2> HIDE DEF r, T, q
  <2>4. /\ Len(r) \in Nat /\ \A i \in 1 .. Len(r) : r[i] \in T
        /\ \A o \in T : \E i \in 1 .. Len(r) : r[i] = o
        /\ \A i, j \in 1 .. Len(r) : r[i] = r[j] => i = j
    BY <2>1, RowIs
  <2>5. \A i \in 1 .. Len(r) : block[r[i]].next = IF i = Len(r) THEN 0 ELSE r[i + 1]
    BY <2>1, <2>2, <2>4, RowNext
  <2>6. Cardinality(T) = Len(r)
    BY <2>1, RowLen
  <2>7. Cardinality(T) <= n
    <3>1. IsFiniteSet(1 .. n) /\ Cardinality(1 .. n) = n
      <4>1. n \in Nat
        BY <1>3
      <4> QED BY <4>1, FirstNaturals
    <3> QED BY <2>3, <3>1, FS_Subset
  <2>8. Len(r) \in 0 .. n
    BY <1>3, <2>4, <2>6, <2>7
  <2> QED BY <2>4, <2>5, <2>8 DEF r, T
<1> DEFINE B == DOMAIN block
           at(o) == CHOOSE i \in 1 .. Len(row(lv[o])) : row(lv[o])[i] = o
           rank == [o \in B |-> IF o = last THEN 0 ELSE Len(row(lv[o])) - at(o) + 1]
<1>8. \A o \in B : at(o) \in 1 .. Len(row(lv[o])) /\ row(lv[o])[at(o)] = o
  <2> SUFFICES ASSUME NEW o \in B
               PROVE  at(o) \in 1 .. Len(row(lv[o])) /\ row(lv[o])[at(o)] = o
    OBVIOUS
  <2>1. \E i \in 1 .. Len(row(lv[o])) : row(lv[o])[i] = o
    BY <1>3, <1>6, <1>7
  <2> QED BY SMTT(30), <2>1
<1> HIDE DEF at
<1>9. \A o \in B : IF o = last THEN rank[o] = 0 ELSE rank[o] = Len(row(lv[o])) - at(o) + 1
  OBVIOUS
<1>10. \A o \in B : Len(row(lv[o])) \in 0 .. n
  BY <1>3, <1>7
<1>11. rank \in [B -> 0 .. n]
  <2>1. \A o \in B : (IF o = last THEN 0 ELSE Len(row(lv[o])) - at(o) + 1) \in 0 .. n
    <3> SUFFICES ASSUME NEW o \in B
                 PROVE  (IF o = last THEN 0 ELSE Len(row(lv[o])) - at(o) + 1) \in 0 .. n
      OBVIOUS
    <3> DEFINE l == Len(row(lv[o]))
    <3>1. l \in 0 .. n /\ at(o) \in 1 .. l
      BY <1>8, <1>10
    <3> HIDE DEF l
    <3>2. l - at(o) + 1 \in 0 .. n
      BY <1>3, <3>1
    <3> QED BY <1>3, <3>2 DEF l
  <2> QED BY <2>1
<1> HIDE DEF rank
<1>12. ASSUME NEW o \in B, o # last
       PROVE  On(o, last) \in B /\ rank[On(o, last)] < rank[o]
  <2> DEFINE x == lv[o]
             r == row(x)
             i == at(o)
             l == Len(r)
  <2>1. /\ x \in 0 .. H /\ i \in 1 .. l /\ r[i] = o /\ l \in 0 .. n
        /\ rank[o] = l - i + 1
    BY <1>3, <1>8, <1>9, <1>10, <1>12
  <2>2. /\ \A j \in 1 .. l : r[j] \in S(x)
        /\ \A j, m \in 1 .. l : r[j] = r[m] => j = m
        /\ \A j \in 1 .. l : block[r[j]].next = IF j = l THEN 0 ELSE r[j + 1]
    BY <1>7, <2>1
  <2>3. \A c \in B : lv[c] = x => at(c) \in 1 .. l /\ r[at(c)] = c
                                  /\ (rank[c] = 0 \/ rank[c] = l - at(c) + 1)
    BY <1>8, <1>9
  <2> HIDE DEF x, r, i, l
  <2>4. block[o].next = IF i = l THEN 0 ELSE r[i + 1]
    BY <2>1, <2>2
  <2>5. rank[o] \in Nat /\ rank[o] > 0
    BY <1>3, <2>1
  <2>6. CASE block[o].next = 0
    BY <1>9, <2>5, <2>6 DEF On
  <2>7. CASE block[o].next # 0
    <3> DEFINE c == block[o].next
    <3>1. i # l /\ c = r[i + 1] /\ On(o, last) = c
      BY <2>4, <2>7 DEF On
    <3>2. i + 1 \in 1 .. l
      BY <1>3, <2>1, <3>1
    <3>3. c \in S(x)
      BY <2>2, <3>1, <3>2
    <3>4. c \in B /\ lv[c] = x
      BY <1>3, <1>6, <3>3
    <3> HIDE DEF c
    <3>5. at(c) = i + 1
      BY <2>2, <2>3, <3>1, <3>2, <3>4
    <3>6. rank[c] = 0 \/ rank[c] = l - (i + 1) + 1
      BY <2>3, <3>4, <3>5
    <3>7. rank[c] < rank[o]
      BY <1>3, <2>1, <2>5, <3>6
    <3> QED BY <3>1, <3>4, <3>7
  <2> QED BY <2>6, <2>7
<1> QED BY <1>3, <1>11, <1>12
-----------------------------------------------------------------------------
(* What one call of search_range finds.                                    *)

Named(c, k) == \E j \in 1 .. Len(c) : c[j].key = k
\* here holds the records of the keys Y, in order.
Holding(here, Y) ==
  /\ here \in Seq(Kid) /\ Sorted(here, Len(here))
  /\ \A j \in 1 .. Len(here) : here[j].key \in Y /\ here[j].to = dict[here[j].key]
  /\ \A k \in Y : Named(here, k)

\* From leaves out the smaller keys.
LEMMA FromIs ==
  ASSUME NEW s \in Seq(Kid), Sorted(s, Len(s)), NEW a \in Int
  PROVE  LET t == From(s, a) IN
         /\ t \in Seq(Kid) /\ Sorted(t, Len(t))
         /\ \A j \in 1 .. Len(t) : \E i \in 1 .. Len(s) : t[j] = s[i] /\ a <= s[i].key
         /\ \A i \in 1 .. Len(s) : a <= s[i].key => \E j \in 1 .. Len(t) : t[j] = s[i]
         /\ t # << >> => Last(t) = Last(s)
<1> DEFINE t == From(s, a)
           b == LowerBound(s, a)
           l == Len(s)
<1>1. b \in 1 .. l + 1 /\ \A i \in 1 .. l : s[i].key < a <=> i < b
  BY LowerBoundIs
<1>2. l \in Nat /\ \A i \in 1 .. l : s[i] \in Kid /\ s[i].key \in Int
  <2>1. \A i \in 1 .. l : s[i] \in Kid
    OBVIOUS
  <2> QED BY <2>1 DEF Kid
<1>3. t = SubSeq(s, b, l)
  BY DEF From
<1>4. \A i, j \in 1 .. l : i < j => s[i].key < s[j].key
  BY DEF Sorted
<1> HIDE DEF t, b
<1>5. t \in Seq(Kid) /\ Len(t) = l - b + 1 /\ \A j \in 1 .. l - b + 1 : t[j] = s[b + j - 1]
  BY <1>1, <1>2, <1>3, SubSeqProperties
<1> HIDE DEF l
<1>6. \A j \in 1 .. Len(t) : b + j - 1 \in 1 .. l /\ t[j] = s[b + j - 1]
  BY <1>1, <1>2, <1>5
<1>7. ASSUME NEW i \in 1 .. Len(t), NEW j \in 1 .. Len(t), i < j PROVE t[i].key < t[j].key
  <2>1. b + i - 1 \in 1 .. l /\ b + j - 1 \in 1 .. l /\ b + i - 1 < b + j - 1
    BY <1>1, <1>2, <1>6, <1>7
  <2>2. s[b + i - 1].key < s[b + j - 1].key
    BY <1>4, <2>1
  <2> QED BY <1>6, <2>2
<1>8. ASSUME NEW j \in 1 .. Len(t) PROVE \E i \in 1 .. l : t[j] = s[i] /\ a <= s[i].key
  <2> DEFINE i == b + j - 1
  <2>1. i \in 1 .. l /\ t[j] = s[i] /\ ~ i < b
    BY <1>1, <1>6
  <2> HIDE DEF i
  <2>2. ~ s[i].key < a
    BY <1>1, <2>1
  <2> QED BY <1>2, <2>1, <2>2
<1>9. ASSUME NEW i \in 1 .. l, a <= s[i].key PROVE \E j \in 1 .. Len(t) : t[j] = s[i]
  <2>1. ~ s[i].key < a
    BY <1>2, <1>9
  <2>2. ~ i < b
    BY <1>1, <2>1
  <2>3. i - b + 1 \in 1 .. Len(t) /\ b + (i - b + 1) - 1 = i
    BY <1>1, <1>2, <1>5, <2>2
  <2>4. t[i - b + 1] = s[b + (i - b + 1) - 1]
    BY <1>6, <2>3
  <2> QED BY <2>3, <2>4
<1>10. t # << >> => Last(t) = Last(s)
  <2> SUFFICES ASSUME t # << >> PROVE Last(t) = Last(s)
    OBVIOUS
  <2>1. Len(t) \in Nat \ {0}
    BY <1>5
  <2>2. Len(t) \in 1 .. Len(t) /\ b + Len(t) - 1 = l
    BY <1>1, <1>2, <1>5, <2>1
  <2>3. t[Len(t)] = s[l]
    BY <1>6, <2>2
  <2> QED BY <2>3 DEF Last, l
<1> QED BY <1>5, <1>7, <1>8, <1>9, <1>10 DEF t, l, Sorted

\* UpTo leaves out the greater ones.
LEMMA UpToIs ==
  ASSUME NEW s \in Seq(Kid), Sorted(s, Len(s)), NEW b \in Int
  PROVE  LET t == UpTo(s, b) IN
         /\ t \in Seq(Kid) /\ Sorted(t, Len(t))
         /\ \A j \in 1 .. Len(t) : \E i \in 1 .. Len(s) : t[j] = s[i] /\ s[i].key <= b
         /\ \A i \in 1 .. Len(s) : s[i].key <= b => \E j \in 1 .. Len(t) : t[j] = s[i]
<1> DEFINE t == UpTo(s, b)
           l == Len(s)
           Z == {i \in 1 .. l : s[i].key <= b}
           c == Cardinality(Z)
<1>1. l \in Nat /\ \A i \in 1 .. l : s[i] \in Kid /\ s[i].key \in Int
  <2>1. \A i \in 1 .. l : s[i] \in Kid
    OBVIOUS
  <2> QED BY <2>1 DEF Kid
<1>2. \A i, j \in 1 .. l : i < j => s[i].key < s[j].key
  BY DEF Sorted
<1>3. t = SubSeq(s, 1, c)
  BY DEF UpTo
<1> HIDE DEF l
<1>4. \A i, j \in 1 .. l : i < j /\ j \in Z => i \in Z
  BY <1>1, <1>2
<1>5. Z \in SUBSET (1 .. l) /\ \A i \in 1 .. l : i \in Z <=> s[i].key <= b
  OBVIOUS
<1> HIDE DEF Z
<1>6. c \in 0 .. l /\ \A i \in 1 .. l : i \in Z <=> i <= c
  BY <1>1, <1>4, <1>5, Downwards
<1> HIDE DEF t, c
<1>7. t \in Seq(Kid) /\ Len(t) = c /\ \A j \in 1 .. c : t[j] = s[j]
  <2>1. s \in Seq(Kid) /\ 1 \in 1 .. Len(s) + 1 /\ c \in 0 .. Len(s)
    BY <1>1, <1>6 DEF l
  <2>2. t \in Seq(Kid) /\ Len(t) = (IF 1 <= c THEN c - 1 + 1 ELSE 0)
        /\ \A j \in 1 .. c - 1 + 1 : t[j] = s[1 + j - 1]
    BY <1>3, <2>1, SubSeqProperties
  <2> QED BY <1>6, <2>2
<1>8. \A j \in 1 .. c : j \in 1 .. l
  BY <1>1, <1>6
<1>9. \A i, j \in 1 .. Len(t) : i < j => t[i].key < t[j].key
  BY <1>2, <1>7, <1>8
<1>10. \A j \in 1 .. Len(t) : \E i \in 1 .. l : t[j] = s[i] /\ s[i].key <= b
  <2> SUFFICES ASSUME NEW j \in 1 .. Len(t) PROVE t[j] = s[j] /\ s[j].key <= b /\ j \in 1 .. l
    OBVIOUS
  <2>1. j \in 1 .. c /\ j \in 1 .. l /\ j <= c
    BY <1>6, <1>7, <1>8
  <2> QED BY <1>5, <1>6, <1>7, <2>1
<1>11. \A i \in 1 .. l : s[i].key <= b => \E j \in 1 .. Len(t) : t[j] = s[i]
  <2> SUFFICES ASSUME NEW i \in 1 .. l, s[i].key <= b PROVE i \in 1 .. Len(t) /\ t[i] = s[i]
    OBVIOUS
  <2>1. i <= c
    BY <1>5, <1>6
  <2>2. i \in 1 .. c
    BY <1>6, <2>1
  <2> QED BY <1>7, <2>2
<1> QED BY <1>7, <1>9, <1>10, <1>11 DEF t, l, Sorted

\* What is left of the records of Y.
LEMMA FromHolds ==
  ASSUME NEW s, NEW Y \in SUBSET Int, Holding(s, Y), NEW a \in Int
  PROVE  Holding(From(s, a), {k \in Y : a <= k}) /\ (From(s, a) # << >> => Last(From(s, a)) = Last(s))
<1> DEFINE t == From(s, a)
<1>1. /\ s \in Seq(Kid) /\ Sorted(s, Len(s))
      /\ \A j \in 1 .. Len(s) : s[j].key \in Y /\ s[j].to = dict[s[j].key]
      /\ \A k \in Y : \E j \in 1 .. Len(s) : s[j].key = k
  BY DEF Holding, Named
<1>2. /\ t \in Seq(Kid) /\ Sorted(t, Len(t))
      /\ \A j \in 1 .. Len(t) : \E i \in 1 .. Len(s) : t[j] = s[i] /\ a <= s[i].key
      /\ \A i \in 1 .. Len(s) : a <= s[i].key => \E j \in 1 .. Len(t) : t[j] = s[i]
      /\ t # << >> => Last(t) = Last(s)
  BY <1>1, FromIs
<1> HIDE DEF t
<1>3. \A j \in 1 .. Len(t) : t[j].key \in {k \in Y : a <= k} /\ t[j].to = dict[t[j].key]
  BY <1>1, <1>2
<1>4. ASSUME NEW k \in Y, a <= k PROVE Named(t, k)
  <2>1. PICK i \in 1 .. Len(s) : s[i].key = k
    BY <1>1
  <2>2. PICK j \in 1 .. Len(t) : t[j] = s[i]
    BY <1>2, <1>4, <2>1
  <2> QED BY <2>1, <2>2 DEF Named
<1> QED BY <1>2, <1>3, <1>4 DEF t, Holding

\* The same of UpTo.
LEMMA UpToHolds ==
  ASSUME NEW s, NEW Y \in SUBSET Int, Holding(s, Y), NEW b \in Int
  PROVE  Holding(UpTo(s, b), {k \in Y : k <= b})
<1> DEFINE t == UpTo(s, b)
<1>1. /\ s \in Seq(Kid) /\ Sorted(s, Len(s))
      /\ \A j \in 1 .. Len(s) : s[j].key \in Y /\ s[j].to = dict[s[j].key]
      /\ \A k \in Y : \E j \in 1 .. Len(s) : s[j].key = k
  BY DEF Holding, Named
<1>2. /\ t \in Seq(Kid) /\ Sorted(t, Len(t))
      /\ \A j \in 1 .. Len(t) : \E i \in 1 .. Len(s) : t[j] = s[i] /\ s[i].key <= b
      /\ \A i \in 1 .. Len(s) : s[i].key <= b => \E j \in 1 .. Len(t) : t[j] = s[i]
  BY <1>1, UpToIs
<1> HIDE DEF t
<1>3. ASSUME NEW j \in 1 .. Len(t)
      PROVE  t[j].key \in {k \in Y : k <= b} /\ t[j].to = dict[t[j].key]
  <2>1. PICK i \in 1 .. Len(s) : t[j] = s[i] /\ s[i].key <= b
    BY <1>2
  <2>2. s[i].key \in Y /\ s[i].to = dict[s[i].key]
    BY <1>1
  <2> QED BY <2>1, <2>2
<1>4. ASSUME NEW k \in Y, k <= b PROVE Named(t, k)
  <2>1. PICK i \in 1 .. Len(s) : s[i].key = k
    BY <1>1
  <2>2. PICK j \in 1 .. Len(t) : t[j] = s[i]
    BY <1>2, <1>4, <2>1
  <2> QED BY <2>1, <2>2 DEF Named
<1> QED BY <1>2, <1>3, <1>4 DEF t, Holding

\* The record of k is the last of its leaf.
EndsLeaf(p, k) == Last(block[p[k]].kids).key = k

\* c holds records of X, in order, before those it leaves out.
Copied(c, X) ==
  /\ c \in Seq(Kid) /\ Sorted(c, Len(c))
  /\ \A j \in 1 .. Len(c) : c[j].key \in X /\ c[j].to = dict[c[j].key]
  /\ \A k \in X : Named(c, k) \/ \A j \in 1 .. Len(c) : c[j].key < k
All(c, X) == \A k \in X : Named(c, k)
\* z is the first of them.
Onward(c, X, z) == z \in X /\ ~Named(c, z) /\ \A k \in X : Named(c, k) \/ z <= k

\* What a walk may find that is to copy q of the records of X: c, with rest.
Found(c, rest, X, q, p) ==
  /\ Copied(c, X) /\ Len(c) <= q
  /\ Len(c) < q => All(c, X)
  /\ Len(c) = q /\ rest # << >> => Onward(c, X, rest[1].key)
  /\ Len(c) = q /\ rest = << >> => All(c, X) \/ EndsLeaf(p, c[Len(c)].key)

\* The walk ends: here holds the first records of X, and q of them suffice or
\* there are no others.
LEMMA CutFound ==
  ASSUME NEW here, NEW X \in SUBSET Int, NEW Y \in SUBSET X, Holding(here, Y), NEW p,
         \A y \in Y, x \in X : x \in Y \/ y < x,
         NEW q \in Nat \ {0}, NEW n \in 0 .. q, n <= Len(here), n = q \/ (n = Len(here) /\ Y = X),
         Y = X \/ (here # << >> => EndsLeaf(p, here[Len(here)].key))
  PROVE  /\ SubSeq(here, 1, n) \in Seq(Kid) /\ SubSeq(here, n + 1, Len(here)) \in Seq(Kid)
         /\ Found(SubSeq(here, 1, n), SubSeq(here, n + 1, Len(here)), X, q, p)
<1> DEFINE c == SubSeq(here, 1, n)
           l == Len(here)
           rest == SubSeq(here, n + 1, l)
<1>1. here \in Seq(Kid) /\ l \in Nat /\ n \in 0 .. l /\ \A i \in 1 .. l : here[i].key \in Int
  <2>1. here \in Seq(Kid)
    BY DEF Holding
  <2>2. l \in Nat /\ \A i \in 1 .. l : here[i] \in Kid
    BY <2>1
  <2>3. \A i \in 1 .. l : here[i].key \in Int
    BY <2>2 DEF Kid
  <2> QED BY <2>1, <2>2, <2>3
<1>2. /\ \A i, j \in 1 .. l : i < j => here[i].key < here[j].key
      /\ \A j \in 1 .. l : here[j].key \in Y /\ here[j].to = dict[here[j].key]
      /\ \A k \in Y : \E j \in 1 .. l : here[j].key = k
  BY DEF Holding, Named, Sorted
<1>3. c \in Seq(Kid) /\ Len(c) = n /\ \A j \in 1 .. n : c[j] = here[j]
  <2>1. here \in Seq(Kid) /\ 1 \in 1 .. Len(here) + 1 /\ n \in 0 .. Len(here)
    BY <1>1
  <2>2. c \in Seq(Kid) /\ Len(c) = (IF 1 <= n THEN n - 1 + 1 ELSE 0)
        /\ \A j \in 1 .. n - 1 + 1 : c[j] = here[1 + j - 1]
    BY <2>1, SubSeqProperties
  <2> QED BY <1>1, <2>2
<1>4. rest \in Seq(Kid) /\ Len(rest) = l - n /\ \A j \in 1 .. l - n : rest[j] = here[n + j]
  <2>1. here \in Seq(Kid) /\ n + 1 \in 1 .. Len(here) + 1 /\ l \in 0 .. Len(here)
    BY <1>1
  <2>2. rest \in Seq(Kid) /\ Len(rest) = (IF n + 1 <= l THEN l - (n + 1) + 1 ELSE 0)
        /\ \A j \in 1 .. l - (n + 1) + 1 : rest[j] = here[n + 1 + j - 1]
    BY <2>1, SubSeqProperties
  <2> QED BY <1>1, <2>2
<1> HIDE DEF c, rest, l
<1>5. \A j \in 1 .. n : j \in 1 .. l /\ c[j].key = here[j].key /\ c[j].to = here[j].to
  BY <1>1, <1>3
<1>6. \A i, j \in 1 .. Len(c) : i < j => c[i].key < c[j].key
  BY <1>2, <1>3, <1>5
<1>7. \A j \in 1 .. Len(c) : c[j].key \in X /\ c[j].to = dict[c[j].key]
  BY <1>2, <1>3, <1>5
<1>8. ASSUME NEW k \in X PROVE Named(c, k) \/ \A j \in 1 .. Len(c) : c[j].key < k
  <2>1. CASE k \in Y
    <3>1. PICK i \in 1 .. l : here[i].key = k
      BY <1>2, <2>1
    <3>2. CASE i <= n
      <4>1. i \in 1 .. n
        BY <1>1, <3>2
      <4> QED BY <1>3, <1>5, <3>1, <4>1 DEF Named
    <3>3. CASE ~ i <= n
      <4>1. \A j \in 1 .. n : j < i
        BY <1>1, <3>3
      <4> QED BY <1>2, <1>3, <1>5, <3>1, <4>1
    <3> QED BY <3>2, <3>3
  <2>2. CASE k \notin Y
    BY <1>2, <1>3, <1>5, <2>2
  <2> QED BY <2>1, <2>2
<1>9. Copied(c, X)
  BY <1>3, <1>6, <1>7, <1>8 DEF Copied, Sorted
<1>10. ASSUME n = l, Y = X PROVE All(c, X)
  <2> SUFFICES ASSUME NEW k \in X PROVE Named(c, k)
    BY DEF All
  <2>1. PICK i \in 1 .. l : here[i].key = k
    BY <1>2, <1>10
  <2>2. i \in 1 .. n
    BY <1>10
  <2> QED BY <1>3, <1>5, <2>1, <2>2 DEF Named
<1>11. Len(c) < q => All(c, X)
  BY <1>3, <1>10 DEF l
<1>12. ASSUME rest # << >> PROVE Onward(c, X, rest[1].key)
  <2>1. Len(rest) # 0
    BY <1>4, <1>12
  <2>2. 1 \in 1 .. l - n /\ n + 1 \in 1 .. l
    BY <1>1, <1>4, <2>1
  <2>3. rest[1] = here[n + 1]
    BY <1>4, <2>2
  <2> DEFINE z == here[n + 1].key
  <2>4. z \in X /\ z \in Y /\ z \in Int
    BY <1>2, <2>2
  <2>5. ~Named(c, z)
    <3> SUFFICES ASSUME NEW j \in 1 .. n, c[j].key = z PROVE FALSE
      BY <1>3 DEF Named
    <3>1. j < n + 1 /\ j \in 1 .. l /\ here[j].key = z
      BY <1>1, <1>5
    <3>2. here[j].key < z
      BY <1>2, <2>2, <3>1
    <3> QED BY <2>4, <3>1, <3>2
  <2>6. ASSUME NEW k \in X PROVE Named(c, k) \/ z <= k
    <3>1. CASE k \in Y
      <4>1. PICK i \in 1 .. l : here[i].key = k
        BY <1>2, <3>1
      <4>2. CASE i <= n
        <5>1. i \in 1 .. n
          BY <1>1, <4>2
        <5> QED BY <1>3, <1>5, <4>1, <5>1 DEF Named
      <4>3. CASE i = n + 1
        BY <2>4, <4>1, <4>3
      <4>4. CASE ~ i <= n /\ i # n + 1
        <5>1. n + 1 < i
          BY <1>1, <4>4
        <5>2. z < k
          BY <1>2, <2>2, <4>1, <5>1
        <5> QED BY <2>4, <5>2
      <4> QED BY <4>2, <4>3, <4>4
    <3>2. CASE k \notin Y
      <4>1. z < k
        BY <2>4, <3>2
      <4> QED BY <2>4, <4>1
    <3> QED BY <3>1, <3>2
  <2> QED BY <2>3, <2>4, <2>5, <2>6 DEF Onward
<1>13. ASSUME Len(c) = q, rest = << >> PROVE All(c, X) \/ EndsLeaf(p, c[Len(c)].key)
  <2>1. Len(rest) = 0
    BY <1>13
  <2>2. n = l /\ n = q /\ n \in 1 .. n
    BY <1>1, <1>3, <1>4, <1>13, <2>1
  <2>3. CASE Y = X
    BY <1>10, <2>2, <2>3
  <2>4. CASE Y # X
    <3>1. here # << >>
      BY <2>2 DEF l
    <3>2. EndsLeaf(p, here[l].key)
      BY <2>4, <3>1 DEF l
    <3>3. c[Len(c)].key = here[l].key
      BY <1>3, <1>5, <2>2
    <3> QED BY <3>2, <3>3
  <2> QED BY <2>3, <2>4
<1>14. Len(c) <= q
  BY <1>3
<1>15. Found(c, rest, X, q, p)
  BY <1>9, <1>11, <1>12, <1>13, <1>14 DEF Found
<1> QED BY <1>3, <1>4, <1>15 DEF c, rest, l

\* The walk goes on: here holds all of the first records of X, fewer than q.
LEMMA JoinFound ==
  ASSUME NEW here, NEW X \in SUBSET Int, NEW Y \in SUBSET X, Holding(here, Y), NEW p,
         \A y \in Y, x \in X : x \in Y \/ y < x,
         NEW q \in Nat \ {0}, Len(here) < q,
         NEW c, NEW rest, Found(c, rest, X \ Y, q - Len(here), p)
  PROVE  Found(here \o c, rest, X, q, p)
<1> DEFINE l == Len(here)
           m == Len(c)
           e == here \o c
<1>1. here \in Seq(Kid) /\ l \in Nat /\ \A i \in 1 .. l : here[i].key \in Int
  <2>1. here \in Seq(Kid)
    BY DEF Holding
  <2>2. l \in Nat /\ \A i \in 1 .. l : here[i] \in Kid
    BY <2>1
  <2>3. \A i \in 1 .. l : here[i].key \in Int
    BY <2>2 DEF Kid
  <2> QED BY <2>1, <2>2, <2>3
<1>2. /\ \A i, j \in 1 .. l : i < j => here[i].key < here[j].key
      /\ \A j \in 1 .. l : here[j].key \in Y /\ here[j].to = dict[here[j].key]
      /\ \A k \in Y : \E j \in 1 .. l : here[j].key = k
  BY DEF Holding, Named, Sorted
<1>3. /\ Copied(c, X \ Y) /\ m <= q - l
      /\ m < q - l => All(c, X \ Y)
      /\ m = q - l /\ rest # << >> => Onward(c, X \ Y, rest[1].key)
      /\ m = q - l /\ rest = << >> => All(c, X \ Y) \/ EndsLeaf(p, c[m].key)
  BY DEF Found
<1>4. /\ c \in Seq(Kid) /\ m \in Nat
      /\ \A i, j \in 1 .. m : i < j => c[i].key < c[j].key
      /\ \A j \in 1 .. m : c[j].key \in X \ Y /\ c[j].to = dict[c[j].key]
      /\ \A k \in X \ Y : Named(c, k) \/ \A j \in 1 .. m : c[j].key < k
  BY <1>3 DEF Copied, Sorted
<1>5. /\ e \in Seq(Kid) /\ Len(e) = l + m
      /\ \A j \in 1 .. l : e[j] = here[j]
      /\ \A j \in 1 .. l + m : ~ j <= l => j - l \in 1 .. m /\ e[j] = c[j - l]
  <2>1. e \in Seq(Kid) /\ Len(e) = l + m
        /\ \A j \in 1 .. l + m : e[j] = IF j <= l THEN here[j] ELSE c[j - l]
    BY <1>1, <1>4
  <2> HIDE DEF e, l, m
  <2> QED BY <1>1, <1>4, <2>1
<1>6. \A j \in 1 .. m : l + j \in 1 .. l + m /\ ~ l + j <= l /\ e[l + j] = c[j]
  <2> SUFFICES ASSUME NEW j \in 1 .. m
               PROVE  l + j \in 1 .. l + m /\ ~ l + j <= l /\ e[l + j] = c[j]
    OBVIOUS
  <2> HIDE DEF l, m, e
  <2> DEFINE i == l + j
  <2>1. i \in 1 .. l + m /\ ~ i <= l /\ i - l = j
    BY <1>1, <1>4
  <2> HIDE DEF i
  <2>2. e[i] = c[i - l]
    BY <1>5, <2>1
  <2> QED BY <2>1, <2>2 DEF i
<1>7. Len(here) = l /\ l < q /\ Len(e) = l + m
  BY <1>5
<1> HIDE DEF l, m, e
<1>8. \A y \in Y, x \in X \ Y : y < x
  BY Zenon
<1>9. ASSUME NEW i \in 1 .. l + m, NEW j \in 1 .. l + m, i < j PROVE e[i].key < e[j].key
  <2>1. CASE j <= l
    <3>1. i \in 1 .. l /\ j \in 1 .. l
      BY <1>1, <1>4, <1>9, <2>1
    <3> QED BY <1>2, <1>5, <1>9, <3>1
  <2>2. CASE ~ j <= l /\ i <= l
    <3>1. i \in 1 .. l /\ j - l \in 1 .. m /\ e[i] = here[i] /\ e[j] = c[j - l]
      BY <1>1, <1>4, <1>5, <1>9, <2>2
    <3>2. here[i].key \in Y /\ c[j - l].key \in X \ Y
      BY <1>2, <1>4, <3>1
    <3> QED BY <1>8, <3>1, <3>2
  <2>3. CASE ~ j <= l /\ ~ i <= l
    <3>1. i - l \in 1 .. m /\ j - l \in 1 .. m /\ e[i] = c[i - l] /\ e[j] = c[j - l]
      BY <1>5, <2>3
    <3>2. i - l < j - l
      BY <1>1, <1>4, <1>9
    <3> QED BY <1>4, <3>1, <3>2
  <2> QED BY <2>1, <2>2, <2>3
<1>10. ASSUME NEW j \in 1 .. l + m PROVE e[j].key \in X /\ e[j].to = dict[e[j].key]
  <2>1. CASE j <= l
    <3>1. j \in 1 .. l
      BY <1>1, <1>4, <2>1
    <3> QED BY <1>2, <1>5, <3>1
  <2>2. CASE ~ j <= l
    <3>1. j - l \in 1 .. m /\ e[j] = c[j - l]
      BY <1>5, <2>2
    <3> QED BY <1>4, <3>1
  <2> QED BY <2>1, <2>2
<1>11. ASSUME NEW k \in X, k \in Y \/ Named(c, k) PROVE Named(e, k)
  <2>1. CASE k \in Y
    <3>1. PICK i \in 1 .. l : here[i].key = k
      BY <1>2, <2>1
    <3>2. i \in 1 .. l + m
      BY <1>1, <1>4
    <3> QED BY <1>5, <1>7, <3>1, <3>2 DEF Named
  <2>2. CASE Named(c, k)
    <3>1. PICK i \in 1 .. m : c[i].key = k
      BY <2>2 DEF Named, m
    <3>2. l + i \in 1 .. l + m /\ e[l + i] = c[i]
      BY <1>6
    <3> QED BY <1>7, <3>1, <3>2 DEF Named
  <2> QED BY <1>11, <2>1, <2>2
<1>12. ASSUME NEW k \in X PROVE Named(e, k) \/ \A j \in 1 .. l + m : e[j].key < k
  <2>1. CASE k \in Y \/ Named(c, k)
    BY <1>11, <2>1
  <2>2. CASE k \notin Y /\ ~Named(c, k)
    <3> SUFFICES ASSUME NEW j \in 1 .. l + m PROVE e[j].key < k
      OBVIOUS
    <3>1. CASE j <= l
      <4>1. j \in 1 .. l /\ e[j] = here[j]
        BY <1>1, <1>4, <1>5, <3>1
      <4>2. here[j].key \in Y
        BY <1>2, <4>1
      <4> QED BY <1>8, <2>2, <4>1, <4>2
    <3>2. CASE ~ j <= l
      <4>1. j - l \in 1 .. m /\ e[j] = c[j - l]
        BY <1>5, <3>2
      <4> QED BY <1>4, <2>2, <4>1
    <3> QED BY <3>1, <3>2
  <2> QED BY <2>1, <2>2
<1>13. Copied(e, X)
  BY <1>5, <1>7, <1>9, <1>10, <1>12 DEF Copied, Sorted
<1>14. All(c, X \ Y) => All(e, X)
  BY <1>11 DEF All
<1>15. ASSUME Onward(c, X \ Y, rest[1].key) PROVE Onward(e, X, rest[1].key)
  <2> DEFINE z == rest[1].key
  <2>1. z \in X \ Y /\ ~Named(c, z) /\ \A k \in X \ Y : Named(c, k) \/ z <= k
    BY <1>15 DEF Onward
  <2> HIDE DEF z
  <2>2. ~Named(e, z)
    <3> SUFFICES ASSUME NEW j \in 1 .. l + m, e[j].key = z PROVE FALSE
      BY <1>7 DEF Named
    <3>1. CASE j <= l
      <4>1. j \in 1 .. l
        BY <1>1, <1>4, <3>1
      <4>2. z \in Y
        BY <1>2, <1>5, <4>1
      <4> QED BY <2>1, <4>2
    <3>2. CASE ~ j <= l
      <4>1. j - l \in 1 .. m /\ e[j] = c[j - l]
        BY <1>5, <3>2
      <4>2. Named(c, z)
        BY <4>1 DEF Named, m
      <4> QED BY <2>1, <4>2
    <3> QED BY <3>1, <3>2
  <2>3. \A k \in X : Named(e, k) \/ z <= k
    BY <1>11, <2>1
  <2>4. Onward(e, X, z)
    BY <2>1, <2>2, <2>3 DEF Onward
  <2> QED BY <2>4 DEF z
<1>16. Len(e) <= q /\ (Len(e) < q <=> m < q - l) /\ (Len(e) = q <=> m = q - l)
  BY <1>1, <1>3, <1>4, <1>7
<1>17. ASSUME EndsLeaf(p, c[m].key), m = q - l PROVE EndsLeaf(p, e[Len(e)].key)
  <2>1. m \in 1 .. m
    BY <1>1, <1>4, <1>7, <1>17
  <2>2. e[l + m] = c[m]
    BY <1>6, <2>1
  <2> QED BY <1>7, <1>17, <2>2
<1>18. Found(e, rest, X, q, p)
  BY <1>3, <1>13, <1>14, <1>15, <1>16, <1>17 DEF Found
<1> QED BY <1>18 DEF e

\* The records that the walk copies from at o; what it finds from there on,
\* i records after the call began, when F is what it finds elsewhere; W is
\* the walk of SearchRange(a, b, max).
Here(o, first, last, a, b) ==
  IF o = last THEN UpTo(From(block[o].kids, a), b)
  ELSE IF o = first THEN From(block[o].kids, a)
  ELSE block[o].kids
One(F, off, i, first, last, a, b, max) ==
  LET here == IF off = last THEN UpTo(From(block[off].kids, a), b)
              ELSE IF off = first THEN From(block[off].kids, a)
              ELSE block[off].kids
      n    == IF Len(here) < max - i THEN Len(here) ELSE max - i
      on   == IF block[off].next = 0 THEN last ELSE block[off].next
  IN  IF off = last \/ i + n = max
      THEN [copied |-> SubSeq(here, 1, n), rest |-> SubSeq(here, n + 1, Len(here))]
      ELSE LET others == F[on][i + n]
           IN  [others EXCEPT !.copied = SubSeq(here, 1, n) \o @]
RangeWalk(W, first, last, a, b, max) ==
  W = [off \in DOMAIN block |-> [i \in 0 .. max |-> One(W, off, i, first, last, a, b, max)]]
Result == [copied : Seq(Kid), rest : Seq(Kid)]

\* What the call makes of it.
Reported(res, a, max) ==
  LET next   == Len(res.copied) = max /\ res.rest # << >>
  IN  [copied |-> res.copied, next |-> next,
       left |-> IF next THEN res.rest[1].key ELSE a]

\* If there is such a walk, the call has one.
LEMMA SearchRangeIs ==
  ASSUME NEW a, NEW b, NEW max, \E W : RangeWalk(W, SearchLeaf(a), SearchLeaf(b), a, b, max)
  PROVE  \E W : /\ RangeWalk(W, SearchLeaf(a), SearchLeaf(b), a, b, max)
                /\ SearchRange(a, b, max) = Reported(W[SearchLeaf(a)][0], a, max)
<1> DEFINE W == CHOOSE W : RangeWalk(W, SearchLeaf(a), SearchLeaf(b), a, b, max)
<1>1. RangeWalk(W, SearchLeaf(a), SearchLeaf(b), a, b, max)
  OBVIOUS
<1>2. SearchRange(a, b, max) = Reported(W[SearchLeaf(a)][0], a, max)
  BY Zenon DEF SearchRange, Reported, RangeWalk, One
<1> QED BY <1>1, <1>2

\* From and UpTo give parts of any sequence.
LEMMA PartTyped ==
  ASSUME NEW s \in Seq(Kid), NEW a, NEW b
  PROVE  From(s, a) \in Seq(Kid) /\ UpTo(s, b) \in Seq(Kid)
<1> DEFINE l == Len(s)
           Y == {i \in 1 .. l : s[i].key < a}
           Z == {i \in 1 .. l : s[i].key <= b}
<1>1. l \in Nat
  OBVIOUS
<1>2. IsFiniteSet(1 .. l) /\ Cardinality(1 .. l) = l
  <2> HIDE DEF l
  <2> QED BY <1>1, FirstNaturals
<1>3. Y \subseteq 1 .. l /\ Z \subseteq 1 .. l
  OBVIOUS
<1>4. From(s, a) = SubSeq(s, 1 + Cardinality(Y), l) /\ UpTo(s, b) = SubSeq(s, 1, Cardinality(Z))
  BY DEF From, UpTo, LowerBound
<1> HIDE DEF Y, Z
<1>5. /\ IsFiniteSet(Y) /\ Cardinality(Y) <= l
      /\ IsFiniteSet(Z) /\ Cardinality(Z) <= l
  <2> DEFINE T == 1 .. l
  <2>1. IsFiniteSet(T) /\ Cardinality(T) = l /\ Y \in SUBSET T /\ Z \in SUBSET T
    BY <1>2, <1>3
  <2> HIDE DEF T, l
  <2>2. IsFiniteSet(Y) /\ Cardinality(Y) <= Cardinality(T)
    BY <2>1, FS_Subset
  <2>3. IsFiniteSet(Z) /\ Cardinality(Z) <= Cardinality(T)
    BY <2>1, FS_Subset
  <2> QED BY <2>1, <2>2, <2>3
<1>6. Cardinality(Y) \in Nat /\ Cardinality(Z) \in Nat
  BY <1>5, FS_CardinalityType
<1>7. 1 + Cardinality(Y) \in 1 .. Len(s) + 1 /\ l \in (1 + Cardinality(Y)) - 1 .. Len(s)
  BY <1>1, <1>5, <1>6
<1>8. 1 \in 1 .. Len(s) + 1 /\ Cardinality(Z) \in 1 - 1 .. Len(s)
  BY <1>1, <1>5, <1>6
<1>9. SubSeq(s, 1 + Cardinality(Y), l) \in Seq(Kid)
  BY <1>7, SubSeqProperties
<1>10. SubSeq(s, 1, Cardinality(Z)) \in Seq(Kid)
  BY <1>8, SubSeqProperties
<1> QED BY <1>4, <1>9, <1>10

\* A step at o that finds here and may copy q records copies n; it is the final
\* one if o is the last leaf or if n = q, and adds what follows to them otherwise.
Step(res, here, n, o, last, q, others) ==
  /\ here \in Seq(Kid) /\ n \in 0 .. q /\ n <= Len(here) /\ (n = Len(here) \/ n = q)
  /\ SubSeq(here, 1, n) \in Seq(Kid) /\ SubSeq(here, n + 1, Len(here)) \in Seq(Kid)
  /\ o = last \/ n = q =>
       res = [copied |-> SubSeq(here, 1, n), rest |-> SubSeq(here, n + 1, Len(here))]
  /\ ~(o = last \/ n = q) => n = Len(here) /\ res = [others EXCEPT !.copied = here \o @]

\* A final step takes the first n of here and leaves the others.
LEMMA StepCuts ==
  ASSUME NEW res, NEW here, NEW n, NEW o, NEW last, NEW q, NEW others,
         Step(res, here, n, o, last, q, others), o = last \/ n = q
  PROVE  res.copied = SubSeq(here, 1, n) /\ res.rest = SubSeq(here, n + 1, Len(here))
<1>1. res = [copied |-> SubSeq(here, 1, n), rest |-> SubSeq(here, n + 1, Len(here))]
  BY DEF Step
<1> QED BY <1>1

\* A step that copies n and may copy more leaves the next one room.
Room(max, i, q, n) ==
  max \in Nat /\ i \in 0 .. max /\ q \in Nat /\ q = max - i /\ n \in 0 .. q /\ n # q
LEMMA RoomLeft ==
  ASSUME NEW max, NEW i, NEW q, NEW n, Room(max, i, q, n)
  PROVE  n < q /\ i + n \in 0 .. max /\ i + n < max /\ max - (i + n) = q - n
BY DEF Room

\* Each step of the walk is one.
LEMMA OneIs ==
  ASSUME NEW o, NEW first, NEW last, NEW a, NEW b, NEW max \in Nat, NEW i \in 0 .. max, NEW F,
         block[o].kids \in Seq(Kid)
  PROVE  \E n : Step(One(F, o, i, first, last, a, b, max), Here(o, first, last, a, b),
                    n, o, last, max - i, F[On(o, last)][i + n])
<1> DEFINE here == Here(o, first, last, a, b)
           l == Len(here)
           n == IF l < max - i THEN l ELSE max - i
<1>1. here \in Seq(Kid)
  <2>1. From(block[o].kids, a) \in Seq(Kid)
    BY PartTyped
  <2>2. UpTo(From(block[o].kids, a), b) \in Seq(Kid)
    BY <2>1, PartTyped
  <2> QED BY <2>1, <2>2 DEF Here
<1>2. IF o = last \/ i + n = max
      THEN One(F, o, i, first, last, a, b, max) =
             [copied |-> SubSeq(here, 1, n), rest |-> SubSeq(here, n + 1, l)]
      ELSE One(F, o, i, first, last, a, b, max) =
             [F[On(o, last)][i + n] EXCEPT !.copied = SubSeq(here, 1, n) \o @]
  BY Zenon DEF One, Here, On
<1> HIDE DEF here
<1>3. l \in Nat
  BY <1>1
<1>4. n \in 0 .. max - i /\ n \in 0 .. l /\ (n = l \/ n = max - i)
  BY <1>3
<1>5. i + n # max => n = l
  BY <1>4
<1> HIDE DEF n
<1>6. SubSeq(here, 1, n) \in Seq(Kid) /\ Len(SubSeq(here, 1, n)) = n
      /\ \A j \in 1 .. n : SubSeq(here, 1, n)[j] = here[j]
  <2>1. 1 \in 1 .. Len(here) + 1 /\ n \in 1 - 1 .. Len(here)
    BY <1>3, <1>4
  <2>2. /\ SubSeq(here, 1, n) \in Seq(Kid)
        /\ Len(SubSeq(here, 1, n)) = (IF 1 <= n THEN n - 1 + 1 ELSE 0)
        /\ \A j \in 1 .. n - 1 + 1 : SubSeq(here, 1, n)[j] = here[1 + j - 1]
    BY <1>1, <2>1, SubSeqProperties
  <2> QED BY <1>3, <1>4, <2>2
<1>7. SubSeq(here, n + 1, l) \in Seq(Kid)
  <2>1. n + 1 \in 1 .. Len(here) + 1 /\ l \in (n + 1) - 1 .. Len(here)
    BY <1>3, <1>4
  <2> QED BY <1>1, <2>1, SubSeqProperties
<1>8. n = l => SubSeq(here, 1, n) = here
  BY <1>1, <1>6, SameSeq
<1>9. n <= l
  BY <1>4
<1> HIDE DEF l
<1>10. IF o = last \/ i + n = max
       THEN One(F, o, i, first, last, a, b, max) =
              [copied |-> SubSeq(here, 1, n), rest |-> SubSeq(here, n + 1, l)]
       ELSE /\ n = l /\ SubSeq(here, 1, n) = here
            /\ One(F, o, i, first, last, a, b, max) =
                 [F[On(o, last)][i + n] EXCEPT !.copied = here \o @]
  <2>1. CASE o = last \/ i + n = max
    BY <1>2, <2>1
  <2>2. CASE ~(o = last \/ i + n = max)
    <3>1. n = l /\ SubSeq(here, 1, n) = here
      BY <1>5, <1>8, <2>2
    <3>2. One(F, o, i, first, last, a, b, max) =
             [F[On(o, last)][i + n] EXCEPT !.copied = SubSeq(here, 1, n) \o @]
      BY <1>2, <2>2
    <3> QED BY <2>2, <3>1, <3>2
  <2> QED BY <2>1, <2>2
<1>11. /\ o = last \/ n = max - i =>
            One(F, o, i, first, last, a, b, max) =
              [copied |-> SubSeq(here, 1, n), rest |-> SubSeq(here, n + 1, l)]
       /\ ~(o = last \/ n = max - i) =>
            /\ n = l
            /\ One(F, o, i, first, last, a, b, max) =
                 [F[On(o, last)][i + n] EXCEPT !.copied = here \o @]
  <2>1. i + n = max <=> n = max - i
    BY <1>4
  <2> QED BY <1>10, <2>1
<1>12. n \in 0 .. max - i /\ (n = l \/ n = max - i)
  BY <1>4
<1>13. Step(One(F, o, i, first, last, a, b, max), here, n, o, last, max - i, F[On(o, last)][i + n])
  BY <1>1, <1>6, <1>7, <1>9, <1>11, <1>12 DEF Step, l
<1> QED BY <1>13 DEF here

\* There is a walk, because each step comes nearer to the last leaf.
LEMMA WalkExists ==
  ASSUME TreeInv, Idle, NEW first, NEW last \in DOMAIN block, NEW a, NEW b, NEW max \in Nat
  PROVE  \E W \in [DOMAIN block -> [0 .. max -> Result]] : RangeWalk(W, first, last, a, b, max)
<1>1. \A o \in DOMAIN block : block[o].kids \in Seq(Kid)
  <2>1. todo = << >> /\ up = NoKey
    BY DEF Idle
  <2>2. PICK kids, above, path, lv, n, H, root : Quiet(kids, above, path, lv, n, H, root)
    BY <2>1, QuietIs
  <2>3. DOMAIN block = 1 .. n /\ \A o \in 1 .. n : block[o].kids = kids[o]
    BY <2>2 DEF Quiet
  <2>4. kids \in [1 .. n -> Seq(Kid)]
    BY <2>2 DEF Quiet, Tree, Typed
  <2> QED BY <2>3, <2>4
<1>2. PICK M \in Nat : \E rank \in [DOMAIN block -> 0 .. M] :
           \A o \in DOMAIN block : o # last => /\ On(o, last) \in DOMAIN block
                                               /\ rank[On(o, last)] < rank[o]
  BY WalkEnds
<1>3. PICK rank \in [DOMAIN block -> 0 .. M] :
           \A o \in DOMAIN block : o # last => /\ On(o, last) \in DOMAIN block
                                               /\ rank[On(o, last)] < rank[o]
  BY <1>2
<1> DEFINE B == DOMAIN block
           D == 0 .. max
           C == [D -> Result]
           Fs == [B -> C]
           Made(F, o, i) == One(F, o, i, first, last, a, b, max)
           Gives(F) == [o \in B |-> [i \in D |-> Made(F, o, i)]]
           G == [F \in Fs |-> Gives(F)]
           z == [copied |-> << >>, rest |-> << >>]
           c == [o \in B |-> [i \in D |-> z]]
<1>4. c \in Fs
  <2>1. z \in Result
    BY DEF Result
  <2> QED BY <2>1
<1>5. ASSUME NEW F \in Fs, NEW o \in B, NEW i \in D PROVE Made(F, o, i) \in Result
  <2>1. block[o].kids \in Seq(Kid) /\ i \in 0 .. max
    BY <1>1
  <2>2. PICK n : Step(Made(F, o, i), Here(o, first, last, a, b), n, o, last, max - i,
                      F[On(o, last)][i + n])
    BY <2>1, OneIs
  <2> DEFINE res == Made(F, o, i)
             here == Here(o, first, last, a, b)
             e == F[On(o, last)][i + n]
             x == SubSeq(here, 1, n)
             y == SubSeq(here, n + 1, Len(here))
  <2>3. /\ here \in Seq(Kid) /\ n \in 0 .. max - i /\ x \in Seq(Kid) /\ y \in Seq(Kid)
        /\ o = last \/ n = max - i => res = [copied |-> x, rest |-> y]
        /\ ~(o = last \/ n = max - i) => res = [e EXCEPT !.copied = here \o @]
    BY <2>2 DEF Step
  <2>4. o # last => e \in Result
    <3>1. i + n \in D
      BY <2>3
    <3>2. o # last => On(o, last) \in B
      BY <1>3
    <3> QED BY <3>1, <3>2
  <2> HIDE DEF res, e, x, y, here
  <2>5. [copied |-> x, rest |-> y] \in Result
    BY <2>3 DEF Result
  <2>6. o # last => [e EXCEPT !.copied = here \o @] \in Result
    <3> SUFFICES ASSUME o # last PROVE [e EXCEPT !.copied = here \o @] \in Result
      OBVIOUS
    <3>1. here \o e.copied \in Seq(Kid)
      BY <2>3, <2>4 DEF Result
    <3> QED BY <2>4, <3>1 DEF Result
  <2>7. res \in Result
    BY <2>3, <2>5, <2>6
  <2> QED BY <2>7 DEF res
<1>6. ASSUME NEW E \in Fs, NEW F \in Fs, NEW o \in B, NEW i \in D,
             \A x \in B : rank[x] < rank[o] => E[x] = F[x]
      PROVE  Made(E, o, i) = Made(F, o, i)
  <2>1. CASE o = last
    BY <2>1 DEF One
  <2>2. CASE o # last
    <3>1. E[On(o, last)] = F[On(o, last)]
      BY <1>3, <1>6, <2>2
    <3> QED BY <3>1 DEF One, On
  <2> QED BY <2>1, <2>2
<1> HIDE DEF Made, D, c
<1>7. \A F \in Fs : Gives(F) \in Fs
  BY <1>5
<1>8. \A F \in Fs : G[F] = Gives(F)
  OBVIOUS
<1>9. ASSUME NEW E \in Fs, NEW F \in Fs, NEW o \in B,
             \A x \in B : rank[x] < rank[o] => E[x] = F[x]
      PROVE  Gives(E)[o] = Gives(F)[o]
  <2>1. \A i \in D : Made(E, o, i) = Made(F, o, i)
    BY <1>6, <1>9
  <2> QED BY <2>1
<1> HIDE DEF C, G, Gives, Fs
<1>10. \A F \in [B -> C] : G[F] \in [B -> C]
  BY <1>7, <1>8 DEF Fs
<1>11. \A E, F \in [B -> C] : \A o \in B :
         (\A x \in B : rank[x] < rank[o] => E[x] = F[x]) => G[E][o] = G[F][o]
  BY <1>8, <1>9 DEF Fs
<1>12. c \in [B -> C]
  BY <1>4 DEF Fs
<1>13. PICK W \in [B -> C] : W = G[W]
  <2> HIDE DEF B
  <2>1. rank \in [B -> 0 .. M]
    BY DEF B
  <2>2. Ranked(B, C, rank, G)
    BY <1>10, <1>11 DEF Ranked
  <2> QED BY <1>12, <2>1, <2>2, Recursive
<1>14. W = Gives(W)
  BY <1>8, <1>13 DEF Fs
<1>15. RangeWalk(W, first, last, a, b, max)
  BY <1>14 DEF Gives, RangeWalk, D, Made
<1> QED BY <1>13, <1>15 DEF C, D

\* There is one only, for the same reason.
LEMMA WalkIsOne ==
  ASSUME TreeInv, Idle, NEW first, NEW last \in DOMAIN block, NEW a, NEW b, NEW max \in Nat,
         NEW V, RangeWalk(V, first, last, a, b, max), NEW W, RangeWalk(W, first, last, a, b, max)
  PROVE  V = W
<1>1. PICK M \in Nat : \E rank \in [DOMAIN block -> 0 .. M] :
           \A o \in DOMAIN block : o # last => /\ On(o, last) \in DOMAIN block
                                               /\ rank[On(o, last)] < rank[o]
  BY WalkEnds
<1>2. PICK rank \in [DOMAIN block -> 0 .. M] :
           \A o \in DOMAIN block : o # last => /\ On(o, last) \in DOMAIN block
                                               /\ rank[On(o, last)] < rank[o]
  BY <1>1
<1> DEFINE B == DOMAIN block
           Made(F, o, i) == One(F, o, i, first, last, a, b, max)
           S == {m \in Nat : \A o \in B : rank[o] < m => V[o] = W[o]}
<1>3. /\ V = [o \in B |-> [i \in 0 .. max |-> Made(V, o, i)]]
      /\ W = [o \in B |-> [i \in 0 .. max |-> Made(W, o, i)]]
  BY Zenon DEF RangeWalk
<1>4. ASSUME NEW o \in B, NEW i \in 0 .. max, o # last => V[On(o, last)] = W[On(o, last)]
      PROVE  Made(V, o, i) = Made(W, o, i)
  <2>1. CASE o = last
    BY <2>1 DEF One
  <2>2. CASE o # last
    BY <1>4, <2>2 DEF One, On
  <2> QED BY <2>1, <2>2
<1> HIDE DEF Made
<1>5. ASSUME NEW o \in B, o # last => V[On(o, last)] = W[On(o, last)] PROVE V[o] = W[o]
  <2>1. \A i \in 0 .. max : Made(V, o, i) = Made(W, o, i)
    BY <1>4, <1>5
  <2>2. V[o] = [i \in 0 .. max |-> Made(V, o, i)] /\ W[o] = [i \in 0 .. max |-> Made(W, o, i)]
    BY <1>3
  <2> QED BY <2>1, <2>2
<1>6. \A o \in B : rank[o] \in 0 .. M
  OBVIOUS
<1>7. 0 \in S
  BY <1>6
<1>8. ASSUME NEW m \in Nat, m \in S PROVE m + 1 \in S
  <2> SUFFICES ASSUME NEW o \in B, rank[o] < m + 1 PROVE V[o] = W[o]
    OBVIOUS
  <2>1. ASSUME o # last PROVE V[On(o, last)] = W[On(o, last)]
    <3> DEFINE c == On(o, last)
    <3>1. c \in B /\ rank[c] < rank[o]
      BY <1>2, <2>1
    <3> HIDE DEF c
    <3>2. rank[c] < m
      BY <1>6, <3>1
    <3>3. V[c] = W[c]
      BY <1>8, <3>1, <3>2
    <3> QED BY <3>3 DEF c
  <2> QED BY <1>5, <2>1
<1> HIDE DEF S
<1>9. Nat \subseteq S
  BY <1>7, <1>8, Induct
<1>10. \A o \in B : V[o] = W[o]
  <2>1. M + 1 \in S
    BY <1>9
  <2>2. \A o \in B : rank[o] < M + 1
    BY <1>6
  <2> QED BY <2>1, <2>2 DEF S
<1>11. V = [o \in B |-> V[o]] /\ W = [o \in B |-> W[o]]
  BY <1>3
<1> QED BY <1>10, <1>11

\* The walk is made of such steps.
LEMMA WalkSteps ==
  ASSUME NEW first, NEW last, NEW a, NEW b, NEW max \in Nat, NEW W, RangeWalk(W, first, last, a, b, max),
         NEW o \in DOMAIN block, block[o].kids \in Seq(Kid), NEW i \in 0 .. max
  PROVE  \E n : Step(W[o][i], Here(o, first, last, a, b), n, o, last, max - i, W[On(o, last)][i + n])
<1>1. W[o][i] = One(W, o, i, first, last, a, b, max)
  <2>1. W = [off \in DOMAIN block |-> [j \in 0 .. max |-> One(W, off, j, first, last, a, b, max)]]
    BY Zenon DEF RangeWalk
  <2>2. W[o] = [j \in 0 .. max |-> One(W, o, j, first, last, a, b, max)]
    BY Zenon, <2>1
  <2> QED BY Zenon, <2>2
<1>2. \E n : Step(One(W, o, i, first, last, a, b, max), Here(o, first, last, a, b),
                  n, o, last, max - i, W[On(o, last)][i + n])
  BY OneIs
<1> QED BY <1>1, <1>2

\* The records to find, and of those the ones in the leaf o and from the m-th
\* leaf on.
Within(a, b) == {k \in Keys : a <= k /\ k <= b /\ dict[k] # Absent}
InLeaf(p, o, X) == {k \in X : p[k] = o}
FromLeaf(r, p, m, X) == {k \in X : \E j \in m .. Len(r) : p[k] = r[j]}

\* What the walk finds in a leaf between its first and its last.
LEMMA HereHolds ==
  ASSUME NEW r, NEW p, LeafRow(r, p), NEW a \in Int, NEW b \in Int, a <= b,
         NEW u \in 1 .. Len(r), r[u] = p[a], NEW v \in 1 .. Len(r), r[v] = p[b],
         NEW m \in u .. v, LeafHolds(p, r[m])
  PROVE  /\ Holding(Here(r[m], r[u], r[v], a, b), InLeaf(p, r[m], Within(a, b)))
         /\ r[m] # r[v] => \/ Here(r[m], r[u], r[v], a, b) = << >>
                           \/ Last(Here(r[m], r[u], r[v], a, b)) = Last(block[r[m]].kids)
<1> DEFINE s == block[r[m]].kids
           o == r[m]
           Y0 == {k \in Keys : p[k] = o /\ dict[k] # Absent}
           Y == InLeaf(p, o, Within(a, b))
<1>1. Y0 \subseteq Int /\ Y \subseteq Int
  BY TreeAssumption DEF InLeaf, Within, TreeAssumption
<1>2. \A k : k \in Y <=> k \in Y0 /\ a <= k /\ k <= b
  BY DEF InLeaf, Within
<1>3. Holding(s, Y0)
  <2>1. /\ s \in Seq(Kid) /\ Sorted(s, Len(s))
        /\ \A i \in 1 .. Len(s) : /\ s[i].key \in Keys /\ p[s[i].key] = o
                                  /\ dict[s[i].key] = s[i].to /\ dict[s[i].key] # Absent
        /\ \A k \in Keys : p[k] = o /\ dict[k] # Absent => \E i \in 1 .. Len(s) : s[i].key = k
    BY DEF LeafHolds
  <2>2. \A i \in 1 .. Len(s) : s[i].key \in Y0 /\ s[i].to = dict[s[i].key]
    BY <2>1
  <2>3. \A k \in Y0 : Named(s, k)
    BY <2>1 DEF Named
  <2> QED BY <2>1, <2>2, <2>3 DEF Holding
<1>4. /\ \A i, j \in 1 .. Len(r) : i < j => Ahead(p, r[i], r[j])
      /\ \A i, j \in 1 .. Len(r) : r[i] = r[j] => i = j
      /\ m \in 1 .. Len(r) /\ Len(r) \in Nat
  BY DEF LeafRow
<1>5. ASSUME NEW k \in Y0, o # r[u] PROVE a <= k
  <2>1. u < m
    BY <1>4, <1>5
  <2>2. Ahead(p, r[u], r[m])
    BY <1>4, <2>1
  <2>3. p[k] = r[m] /\ k \in Int
    BY <1>1
  <2>4. a < k
    BY <2>2, <2>3 DEF Ahead
  <2> QED BY <2>3, <2>4
<1>6. ASSUME NEW k \in Y0, o # r[v] PROVE k <= b
  <2>1. m < v
    BY <1>4, <1>6
  <2>2. Ahead(p, r[m], r[v])
    BY <1>4, <2>1
  <2>3. p[k] = r[m] /\ k \in Int
    BY <1>1
  <2>4. k < b
    BY <2>2, <2>3 DEF Ahead
  <2> QED BY <2>3, <2>4
<1> HIDE DEF s, o, Y0, Y
<1> DEFINE Ya == {k \in Y0 : a <= k}
           Yab == {k \in Ya : k <= b}
<1>7. Y0 \in SUBSET Int /\ Ya \in SUBSET Int
  BY <1>1
<1>8. Holding(From(s, a), Ya) /\ (From(s, a) # << >> => Last(From(s, a)) = Last(s))
  BY <1>3, <1>7, FromHolds
<1>9. Holding(UpTo(From(s, a), b), Yab)
  <2> HIDE DEF Ya
  <2> QED BY <1>7, <1>8, UpToHolds
<1>10. Yab = Y
  BY <1>2
<1>11. o # r[v] => Ya = Y
  BY <1>2, <1>6
<1>12. o # r[v] /\ o # r[u] => Y0 = Y
  BY <1>2, <1>5, <1>6
<1> HIDE DEF Ya, Yab
<1>13. CASE o = r[v]
  <2>1. Here(o, r[u], r[v], a, b) = UpTo(From(s, a), b)
    BY <1>13 DEF Here, s, o
  <2> QED BY <1>9, <1>10, <1>13, <2>1 DEF o, Y
<1>14. CASE o # r[v] /\ o = r[u]
  <2>1. Here(o, r[u], r[v], a, b) = From(s, a)
    BY <1>14 DEF Here, s, o
  <2> QED BY <1>8, <1>11, <1>14, <2>1 DEF o, Y, s
<1>15. CASE o # r[v] /\ o # r[u]
  <2>1. Here(o, r[u], r[v], a, b) = s
    BY <1>15 DEF Here, s, o
  <2> QED BY <1>3, <1>12, <1>15, <2>1 DEF o, Y, s
<1> QED BY <1>13, <1>14, <1>15

\* From the m-th leaf on the walk finds what is to find there.
LEMMA WalkFound ==
  ASSUME NEW r, NEW p, LeafRow(r, p), \A m \in 1 .. Len(r) : LeafHolds(p, r[m]),
         NEW a \in Int, NEW b \in Int, a <= b,
         NEW u \in 1 .. Len(r), r[u] = p[a], NEW v \in 1 .. Len(r), r[v] = p[b],
         NEW max \in Nat, NEW W \in [DOMAIN block -> [0 .. max -> Result]],
         RangeWalk(W, r[u], r[v], a, b, max)
  PROVE  \A m \in u .. v, i \in 0 .. max : i < max =>
           Found(W[r[m]][i].copied, W[r[m]][i].rest, FromLeaf(r, p, m, Within(a, b)), max - i, p)
<1> DEFINE X(m) == FromLeaf(r, p, m, Within(a, b))
           Y(m) == InLeaf(p, r[m], Within(a, b))
           H(m) == Here(r[m], r[u], r[v], a, b)
           R(m, i) == Found(W[r[m]][i].copied, W[r[m]][i].rest, X(m), max - i, p)
           S == {d \in Nat : v - d \in u .. v => \A i \in 0 .. max : i < max => R(v - d, i)}
<1>1. /\ Len(r) \in Nat /\ \A m \in 1 .. Len(r) : r[m] \in DOMAIN block /\ r[m] # 0
      /\ \A i, j \in 1 .. Len(r) : i < j => Ahead(p, r[i], r[j])
      /\ \A i, j \in 1 .. Len(r) : r[i] = r[j] => i = j
      /\ \A m \in 1 .. Len(r) : block[r[m]].next = IF m = Len(r) THEN 0 ELSE r[m + 1]
  BY DEF LeafRow
<1>2. Within(a, b) \subseteq Int /\ \A k \in Within(a, b) : a <= k /\ k <= b
  BY TreeAssumption DEF Within, TreeAssumption
<1>3. \A m \in u .. v : m \in 1 .. Len(r)
  BY <1>1
<1>4. ASSUME NEW m \in u .. v
      PROVE  /\ X(m) \in SUBSET Int /\ Y(m) \in SUBSET X(m)
             /\ \A y \in Y(m), x \in X(m) : x \in Y(m) \/ y < x
             /\ m = v => Y(m) = X(m)
             /\ m < v => X(m + 1) = X(m) \ Y(m)
  <2>1. m \in 1 .. Len(r)
    BY <1>3
  <2>2. \A k : k \in X(m) <=> k \in Within(a, b) /\ \E j \in m .. Len(r) : p[k] = r[j]
    BY DEF FromLeaf
  <2>3. \A k : k \in Y(m) <=> k \in Within(a, b) /\ p[k] = r[m]
    BY DEF InLeaf
  <2>4. \A k : k \in X(m + 1) <=> k \in Within(a, b) /\ \E j \in m + 1 .. Len(r) : p[k] = r[j]
    BY DEF FromLeaf
  <2> HIDE DEF X, Y
  <2>5. m \in m .. Len(r)
    BY <1>1, <2>1
  <2>6. X(m) \in SUBSET Int /\ Y(m) \in SUBSET X(m)
    BY <1>2, <2>2, <2>3, <2>5
  <2>7. ASSUME NEW y \in Y(m), NEW x \in X(m), x \notin Y(m) PROVE y < x
    <3>1. PICK j \in m .. Len(r) : p[x] = r[j]
      BY <2>2, <2>7
    <3>2. j # m
      BY <2>2, <2>3, <2>7, <3>1
    <3>3. j \in 1 .. Len(r) /\ m < j
      BY <1>1, <2>1, <3>1, <3>2
    <3>4. Ahead(p, r[m], r[j])
      BY <1>1, <2>1, <3>3
    <3>5. p[y] = r[m] /\ y \in Int /\ x \in Int
      BY <1>2, <2>2, <2>3, <2>7
    <3> QED BY <3>1, <3>4, <3>5 DEF Ahead
  <2>8. ASSUME m = v, NEW x \in X(m) PROVE x \in Y(m)
    <3>1. PICK j \in m .. Len(r) : p[x] = r[j]
      BY <2>2, <2>8
    <3>2. CASE j = m
      BY <2>2, <2>3, <2>8, <3>1, <3>2
    <3>3. CASE j # m
      <4>1. j \in 1 .. Len(r) /\ v < j
        BY <1>1, <2>1, <2>8, <3>1, <3>3
      <4>2. Ahead(p, r[v], r[j])
        BY <1>1, <4>1
      <4>3. x \in Int /\ x <= b
        BY <1>2, <2>2, <2>8
      <4>4. b < x
        BY <3>1, <4>2, <4>3 DEF Ahead
      <4> QED BY <4>3, <4>4
    <3> QED BY <3>2, <3>3
  <2>9. ASSUME m < v, NEW x PROVE x \in X(m + 1) <=> x \in X(m) \ Y(m)
    <3>1. ASSUME x \in X(m + 1) PROVE x \in X(m) \ Y(m)
      <4>1. PICK j \in m + 1 .. Len(r) : p[x] = r[j]
        BY <2>4, <3>1
      <4>2. j \in m .. Len(r) /\ j \in 1 .. Len(r) /\ j # m
        BY <1>1, <2>1, <4>1
      <4>3. r[j] # r[m]
        BY <1>1, <2>1, <4>2
      <4> QED BY <2>2, <2>3, <2>4, <3>1, <4>1, <4>2, <4>3
    <3>2. ASSUME x \in X(m) \ Y(m) PROVE x \in X(m + 1)
      <4>1. PICK j \in m .. Len(r) : p[x] = r[j]
        BY <2>2, <3>2
      <4>2. j # m
        BY <2>2, <2>3, <3>2, <4>1
      <4>3. j \in m + 1 .. Len(r)
        BY <1>1, <2>1, <4>1, <4>2
      <4> QED BY <2>2, <2>4, <3>2, <4>1, <4>3
    <3> QED BY <3>1, <3>2
  <2>10. m = v => Y(m) = X(m)
    BY <2>6, <2>8
  <2>11. m < v => X(m + 1) = X(m) \ Y(m)
    BY <2>9
  <2> QED BY <2>6, <2>7, <2>10, <2>11
<1>5. ASSUME NEW m \in u .. v
      PROVE  /\ Holding(H(m), Y(m))
             /\ m # v => (H(m) # << >> => EndsLeaf(p, H(m)[Len(H(m))].key))
  <2>1. LeafHolds(p, r[m]) /\ m \in 1 .. Len(r)
    BY <1>3
  <2>2. /\ Holding(H(m), Y(m))
        /\ r[m] # r[v] => H(m) = << >> \/ Last(H(m)) = Last(block[r[m]].kids)
    BY <2>1, HereHolds
  <2> HIDE DEF H
  <2>3. ASSUME m # v, H(m) # << >> PROVE EndsLeaf(p, H(m)[Len(H(m))].key)
    <3> DEFINE h == H(m)
    <3>1. r[m] # r[v]
      BY <1>1, <2>1, <2>3
    <3>2. Last(h) = Last(block[r[m]].kids)
      BY <2>2, <2>3, <3>1
    <3>3. h[Len(h)] = Last(h)
      BY DEF Last
    <3>4. h \in Seq(Kid) /\ h # << >> /\ \A j \in 1 .. Len(h) : h[j].key \in Y(m)
      BY <2>2, <2>3 DEF Holding
    <3> HIDE DEF h
    <3>5. Len(h) \in 1 .. Len(h)
      BY <3>4
    <3>6. p[h[Len(h)].key] = r[m]
      BY <3>4, <3>5 DEF InLeaf
    <3>7. EndsLeaf(p, h[Len(h)].key)
      BY <3>2, <3>3, <3>6 DEF EndsLeaf
    <3> QED BY <3>7 DEF h
  <2> QED BY <2>2, <2>3
<1>6. ASSUME NEW m \in u .. v, NEW i \in 0 .. max, i < max,
             m < v => \A j \in 0 .. max : j < max => R(m + 1, j)
      PROVE  R(m, i)
  <2> DEFINE q == max - i
             o == r[m]
             here == H(m)
  <2>1. q \in Nat \ {0} /\ m \in 1 .. Len(r) /\ o \in DOMAIN block
    BY <1>1, <1>3, <1>6
  <2>2. block[o].kids \in Seq(Kid)
    BY <2>1 DEF LeafHolds
  <2>3. PICK n : Step(W[o][i], here, n, o, r[v], q, W[On(o, r[v])][i + n])
    <3> HIDE DEF here
    <3>1. i \in 0 .. max /\ q = max - i
      OBVIOUS
    <3>2. \E n : Step(W[o][i], Here(o, r[u], r[v], a, b), n, o, r[v], max - i, W[On(o, r[v])][i + n])
      <4> HIDE DEF o, q
      <4> QED BY <2>1, <2>2, <3>1, WalkSteps
    <3> QED BY <3>2 DEF here
  <2>4. o = r[v] <=> m = v
    BY <1>1, <2>1
  <2>5. Holding(here, Y(m)) /\ (m # v => (here # << >> => EndsLeaf(p, here[Len(here)].key)))
    BY <1>5
  <2>6. /\ X(m) \in SUBSET Int /\ Y(m) \in SUBSET X(m)
        /\ \A y \in Y(m), x \in X(m) : x \in Y(m) \/ y < x
        /\ m = v => Y(m) = X(m)
        /\ m < v => X(m + 1) = X(m) \ Y(m)
    BY <1>4
  <2> DEFINE res == W[o][i]
             others == W[On(o, r[v])][i + n]
  <2>7. /\ here \in Seq(Kid) /\ n \in 0 .. q /\ n <= Len(here) /\ (n = Len(here) \/ n = q)
        /\ o = r[v] \/ n = q =>
             res = [copied |-> SubSeq(here, 1, n), rest |-> SubSeq(here, n + 1, Len(here))]
        /\ ~(o = r[v] \/ n = q) => n = Len(here) /\ res = [others EXCEPT !.copied = here \o @]
    BY <2>3 DEF Step
  <2>8. R(m, i) <=> Found(res.copied, res.rest, X(m), q, p)
    OBVIOUS
  <2>11. Step(res, here, n, o, r[v], q, others)
    BY Zenon, <2>3
  <2>9. CASE o = r[v] \/ n = q
    <3>1. n = q \/ (n = Len(here) /\ Y(m) = X(m))
      <4> HIDE DEF X, Y, here, q, o
      <4>1. CASE n = q
        BY <4>1
      <4>2. CASE n # q
        <5>1. o = r[v] /\ n = Len(here)
          BY <2>7, <2>9, <4>2
        <5>2. Y(m) = X(m)
          BY <2>4, <2>6, <5>1
        <5> QED BY <5>1, <5>2
      <4> QED BY <4>1, <4>2
    <3>2. Y(m) = X(m) \/ (here # << >> => EndsLeaf(p, here[Len(here)].key))
      BY <2>5, <2>6
    <3> HIDE DEF X, Y, here, res, q, o
    <3>3. Found(SubSeq(here, 1, n), SubSeq(here, n + 1, Len(here)), X(m), q, p)
      <4> DEFINE x == X(m)
                 y == Y(m)
      <4>1. /\ x \in SUBSET Int /\ y \in SUBSET x /\ Holding(here, y)
            /\ \A e \in y, f \in x : f \in y \/ e < f
            /\ n = q \/ (n = Len(here) /\ y = x)
            /\ y = x \/ (here # << >> => EndsLeaf(p, here[Len(here)].key))
        BY <2>5, <2>6, <3>1, <3>2
      <4>2. q \in Nat \ {0} /\ n \in 0 .. q /\ n <= Len(here)
        BY <2>1, <2>7
      <4> HIDE DEF x, y
      <4>3. Found(SubSeq(here, 1, n), SubSeq(here, n + 1, Len(here)), x, q, p)
        BY <4>1, <4>2, CutFound
      <4> QED BY <4>3 DEF x
    <3>4. res.copied = SubSeq(here, 1, n) /\ res.rest = SubSeq(here, n + 1, Len(here))
      BY Zenon, <2>11, <2>9, StepCuts
    <3>5. Found(res.copied, res.rest, X(m), q, p)
      BY <3>3, <3>4
    <3> QED BY <2>8, <3>5
  <2>10. CASE ~(o = r[v] \/ n = q)
    <3>1. m < v /\ m + 1 \in 1 .. Len(r) /\ m # Len(r)
      BY <1>1, <2>1, <2>4, <2>10
    <3>2. On(o, r[v]) = r[m + 1]
      <4>1. block[r[m]].next = r[m + 1]
        BY <1>1, <2>1, <3>1
      <4>2. r[m + 1] # 0
        BY <1>1, <3>1
      <4> QED BY <4>1, <4>2 DEF On
    <3>3. n = Len(here) /\ n < q /\ i + n \in 0 .. max /\ i + n < max /\ max - (i + n) = q - n
      <4>1. n = Len(here) /\ n # q /\ n \in 0 .. q
        <5> HIDE DEF here, q, o
        <5> QED BY <2>7, <2>10
      <4>2. q = max - i /\ q \in Nat
        BY <2>1
      <4>3. i \in 0 .. max /\ max \in Nat
        OBVIOUS
      <4> HIDE DEF here, q, o, res, others, X, Y, H
      <4>4. Room(max, i, q, n)
        BY Zenon, <4>1, <4>2, <4>3 DEF Room
      <4>5. n < q /\ i + n \in 0 .. max /\ i + n < max /\ max - (i + n) = q - n
        BY <4>4, RoomLeft
      <4> QED BY Zenon, <4>1, <4>5
    <3>4. R(m + 1, i + n)
      BY <1>6, <3>1, <3>3
    <3>5. Found(others.copied, others.rest, X(m + 1), q - n, p)
      BY <3>2, <3>3, <3>4
    <3>6. Found(others.copied, others.rest, X(m) \ Y(m), q - n, p)
      BY <2>6, <3>1, <3>5
    <3>7. res = [others EXCEPT !.copied = here \o @]
      BY <2>7, <2>10
    <3>11. others \in Result
      <4>1. r[m + 1] \in DOMAIN block
        BY <1>1, <3>1
      <4> QED BY <3>2, <3>3, <4>1
    <3> HIDE DEF X, Y, here, res, q, o, others
    <3>8. Found(here \o others.copied, others.rest, X(m), q, p)
      BY <2>1, <2>5, <2>6, <3>3, <3>6, JoinFound
    <3>9. res.copied = here \o others.copied /\ res.rest = others.rest
      BY <3>7, <3>11 DEF Result
    <3>10. Found(res.copied, res.rest, X(m), q, p)
      BY <3>8, <3>9
    <3> QED BY <2>8, <3>10
  <2> QED BY <2>9, <2>10
<1> HIDE DEF R
<1>7. 0 \in S
  <2>1. v - 0 = v
    OBVIOUS
  <2>2. v \in u .. v => \A i \in 0 .. max : i < max => R(v, i)
    BY <1>6
  <2> QED BY <2>1, <2>2
<1>8. ASSUME NEW d \in Nat, d \in S PROVE d + 1 \in S
  <2> SUFFICES ASSUME v - (d + 1) \in u .. v, NEW i \in 0 .. max, i < max PROVE R(v - (d + 1), i)
    OBVIOUS
  <2> DEFINE m == v - (d + 1)
  <2>1. m \in u .. v /\ m + 1 = v - d /\ v - d \in u .. v
    OBVIOUS
  <2>2. \A j \in 0 .. max : j < max => R(v - d, j)
    BY <1>8, <2>1
  <2> HIDE DEF m
  <2>3. m < v => \A j \in 0 .. max : j < max => R(m + 1, j)
    BY <2>1, <2>2
  <2>4. R(m, i)
    BY <1>6, <2>1, <2>3
  <2> QED BY <2>4 DEF m
<1> HIDE DEF S
<1>9. Nat \subseteq S
  BY <1>7, <1>8, Induct
<1>10. ASSUME NEW m \in u .. v, NEW i \in 0 .. max, i < max PROVE R(m, i)
  <2> DEFINE d == v - m
  <2>1. d \in Nat /\ v - d = m
    OBVIOUS
  <2> HIDE DEF d
  <2>2. d \in S
    BY <1>9, <2>1
  <2> QED BY <1>10, <2>1, <2>2 DEF S
<1> QED BY <1>10 DEF R, X

-----------------------------------------------------------------------------
(* The i-th key of a range is the one with i - 1 smaller ones.             *)

Below(X, k) == {x \in X : x < k}
Names(c, j) == {k \in Int : \E i \in 1 .. j : c[i].key = k}

\* A sequence in order names as many keys as it has members.
LEMMA NamesCount ==
  ASSUME NEW c \in Seq(Kid), Sorted(c, Len(c))
  PROVE  \A j \in 0 .. Len(c) : IsFiniteSet(Names(c, j)) /\ Cardinality(Names(c, j)) = j
<1> DEFINE l == Len(c)
           S == {j \in Nat : j \in 0 .. l => IsFiniteSet(Names(c, j)) /\ Cardinality(Names(c, j)) = j}
<1>1. l \in Nat /\ \A i \in 1 .. l : c[i].key \in Int
  <2>1. l \in Nat /\ \A i \in 1 .. l : c[i] \in Kid
    OBVIOUS
  <2> QED BY <2>1 DEF Kid
<1>2. \A i, j \in 1 .. l : i < j => c[i].key < c[j].key
  BY DEF Sorted
<1> HIDE DEF l
<1>3. 0 \in S
  <2>1. Names(c, 0) = {}
    BY DEF Names
  <2>2. IsFiniteSet({}) /\ Cardinality({}) = 0
    BY FS_EmptySet
  <2> QED BY <2>1, <2>2
<1>4. ASSUME NEW m \in Nat, m \in S PROVE m + 1 \in S
  <2> SUFFICES ASSUME m + 1 \in 0 .. l
               PROVE  IsFiniteSet(Names(c, m + 1)) /\ Cardinality(Names(c, m + 1)) = m + 1
    OBVIOUS
  <2> DEFINE q == m + 1
             k == c[q].key
             T == Names(c, m)
  <2>1. m \in 0 .. l /\ q \in 1 .. l /\ k \in Int /\ \A j : j \in 1 .. q <=> j \in 1 .. m \/ j = q
    BY <1>1
  <2>2. IsFiniteSet(T) /\ Cardinality(T) = m
    BY <1>4, <2>1
  <2>3. \A j \in 1 .. m : j \in 1 .. l /\ j < q
    BY <1>1, <2>1
  <2> HIDE DEF q
  <2>4. \A j \in 1 .. m : c[j].key < k
    BY <1>2, <2>1, <2>3
  <2>5. Names(c, q) = T \cup {k}
    BY <2>1 DEF Names
  <2>6. k \notin T
    <3> SUFFICES ASSUME NEW j \in 1 .. m, c[j].key = k PROVE FALSE
      BY DEF Names
    <3> QED BY <2>1, <2>4
  <2> HIDE DEF k, T
  <2>7. IsFiniteSet(T \cup {k}) /\ Cardinality(T \cup {k}) = Cardinality(T) + 1
    <3>1. /\ IsFiniteSet(T \cup {k})
          /\ Cardinality(T \cup {k}) = IF k \in T THEN Cardinality(T) ELSE Cardinality(T) + 1
      BY <2>2, FS_AddElement
    <3> QED BY <2>6, <3>1
  <2> QED BY <2>2, <2>5, <2>7 DEF q
<1> HIDE DEF S
<1>5. Nat \subseteq S
  BY <1>3, <1>4, Induct
<1> QED BY <1>5 DEF S, l

\* A set of integers is ordered by how many members are smaller.
LEMMA BelowGrows ==
  ASSUME NEW X \in SUBSET Int, IsFiniteSet(X), NEW k \in X, NEW m \in X, k < m
  PROVE  Cardinality(Below(X, k)) < Cardinality(Below(X, m))
<1> DEFINE S == Below(X, k)
           T == Below(X, m)
<1>1. S \in SUBSET X /\ T \in SUBSET X /\ S \cup {k} \in SUBSET T /\ k \notin S
  <2>1. \A x \in X : x < k => x < m
    OBVIOUS
  <2>2. k \in T
    BY DEF Below
  <2>3. ~ k < k
    OBVIOUS
  <2>4. k \notin S
    BY <2>3 DEF Below
  <2>5. S \in SUBSET T /\ S \in SUBSET X /\ T \in SUBSET X
    BY <2>1 DEF Below
  <2> QED BY <2>2, <2>4, <2>5
<1> HIDE DEF S, T
<1>2. IsFiniteSet(S)
  BY <1>1, FS_Subset
<1>3. IsFiniteSet(T)
  BY <1>1, FS_Subset
<1>4. Cardinality(S) \in Nat
  BY <1>2, FS_CardinalityType
<1>5. Cardinality(T) \in Nat
  BY <1>3, FS_CardinalityType
<1>6. Cardinality(S \cup {k}) = IF k \in S THEN Cardinality(S) ELSE Cardinality(S) + 1
  BY <1>2, FS_AddElement
<1>7. Cardinality(S \cup {k}) <= Cardinality(T)
  BY <1>1, <1>3, FS_Subset
<1>8. Cardinality(S) + 1 <= Cardinality(T)
  BY <1>1, <1>6, <1>7
<1>9. Cardinality(S) < Cardinality(T)
  BY <1>4, <1>5, <1>8
<1> QED BY <1>9 DEF S, T

\* So a number of smaller members belongs to one member only.
LEMMA BelowIsOne ==
  ASSUME NEW X \in SUBSET Int, IsFiniteSet(X), NEW k \in X, NEW m \in X,
         Cardinality(Below(X, k)) = Cardinality(Below(X, m))
  PROVE  k = m
<1>1. \A x \in X : Cardinality(Below(X, x)) \in Nat
  <2> SUFFICES ASSUME NEW x \in X PROVE Cardinality(Below(X, x)) \in Nat
    OBVIOUS
  <2>1. Below(X, x) \in SUBSET X
    BY DEF Below
  <2>2. IsFiniteSet(Below(X, x))
    BY <2>1, FS_Subset
  <2> QED BY <2>2, FS_CardinalityType
<1>2. ~ k < m
  <2> SUFFICES ASSUME k < m PROVE FALSE
    OBVIOUS
  <2>1. Cardinality(Below(X, k)) < Cardinality(Below(X, m))
    BY BelowGrows
  <2> QED BY <1>1, <2>1
<1>3. ~ m < k
  <2> SUFFICES ASSUME m < k PROVE FALSE
    OBVIOUS
  <2>1. Cardinality(Below(X, m)) < Cardinality(Below(X, k))
    BY BelowGrows
  <2> QED BY <1>1, <2>1
<1> QED BY <1>2, <1>3

\* How many members are smaller than those that c copies, and than the first
\* that it does not.
LEMMA CopiedCount ==
  ASSUME NEW X \in SUBSET Int, IsFiniteSet(X), NEW c, Copied(c, X)
  PROVE  /\ Len(c) \in Nat /\ Len(c) <= Cardinality(X)
         /\ \A j \in 1 .. Len(c) : c[j].key \in X /\ Cardinality(Below(X, c[j].key)) = j - 1
         /\ All(c, X) <=> Len(c) = Cardinality(X)
         /\ \A z \in X : Onward(c, X, z) => Cardinality(Below(X, z)) = Len(c)
<1> DEFINE l == Len(c)
           D == Names(c, l)
<1>1. /\ c \in Seq(Kid) /\ Sorted(c, Len(c)) /\ l \in Nat
      /\ \A i, j \in 1 .. l : i < j => c[i].key < c[j].key
      /\ \A j \in 1 .. l : c[j].key \in X
      /\ \A k \in X : (\E j \in 1 .. l : c[j].key = k) \/ \A j \in 1 .. l : c[j].key < k
  <2>1. c \in Seq(Kid) /\ Sorted(c, Len(c))
    BY DEF Copied
  <2>2. l \in Nat
    BY <2>1
  <2>3. \A i, j \in 1 .. l : i < j => c[i].key < c[j].key
    BY <2>1 DEF Sorted
  <2>4. \A j \in 1 .. l : c[j].key \in X
    BY DEF Copied
  <2>5. \A k \in X : (\E j \in 1 .. l : c[j].key = k) \/ \A j \in 1 .. l : c[j].key < k
    BY DEF Copied, Named
  <2> QED BY <2>1, <2>2, <2>3, <2>4, <2>5
<1>2. \A j \in 0 .. l : IsFiniteSet(Names(c, j)) /\ Cardinality(Names(c, j)) = j
  BY <1>1, NamesCount
<1> HIDE DEF l
<1>3. D \in SUBSET X /\ IsFiniteSet(D) /\ Cardinality(D) = l
  <2>1. l \in 0 .. l
    BY <1>1
  <2>2. D \in SUBSET X
    BY <1>1 DEF Names
  <2> QED BY <1>2, <2>1, <2>2
<1>4. \A k : k \in D <=> k \in X /\ \E j \in 1 .. l : c[j].key = k
  BY <1>1 DEF Names
<1>5. All(c, X) <=> D = X
  <2>1. All(c, X) <=> \A k \in X : \E j \in 1 .. l : c[j].key = k
    BY DEF All, Named, l
  <2> QED BY <1>3, <1>4, <2>1
<1>6. ASSUME NEW j \in 1 .. l PROVE Cardinality(Below(X, c[j].key)) = j - 1
  <2> DEFINE q == j - 1
  <2>1. q \in 0 .. l /\ \A i : i \in 1 .. q <=> i \in 1 .. l /\ i < j
    BY <1>1
  <2> HIDE DEF q
  <2>2. \A k : k \in Names(c, q) <=> k \in Int /\ \E i \in 1 .. q : c[i].key = k
    BY DEF Names
  <2>3. \A k : k \in Below(X, c[j].key) <=> k \in X /\ k < c[j].key
    BY DEF Below
  <2>4. ASSUME NEW k, k \in Names(c, q) PROVE k \in Below(X, c[j].key)
    <3>1. PICK i \in 1 .. q : c[i].key = k
      BY <2>2, <2>4
    <3> QED BY <1>1, <2>1, <2>3, <3>1
  <2>5. ASSUME NEW k, k \in Below(X, c[j].key) PROVE k \in Names(c, q)
    <3>1. k \in X /\ k \in Int /\ k < c[j].key /\ c[j].key \in X /\ c[j].key \in Int
      BY <1>1, <2>3, <2>5
    <3>2. ~ c[j].key < k
      BY <3>1
    <3>3. PICK i \in 1 .. l : c[i].key = k
      BY <1>1, <3>1, <3>2
    <3>4. ~ j < i
      <4> SUFFICES ASSUME j < i PROVE FALSE
        OBVIOUS
      <4>1. c[j].key < c[i].key
        BY <1>1
      <4> QED BY <3>2, <3>3, <4>1
    <3>5. i # j
      BY <3>1, <3>3
    <3>6. i \in 1 .. q
      <4>1. i < j
        BY <1>1, <3>4, <3>5
      <4> QED BY <2>1, <4>1
    <3> QED BY <2>2, <3>1, <3>3, <3>6
  <2>6. Below(X, c[j].key) = Names(c, q)
    BY <2>4, <2>5
  <2> QED BY <1>2, <2>1, <2>6 DEF q
<1>7. ASSUME NEW z \in X, Onward(c, X, z) PROVE Cardinality(Below(X, z)) = l
  <2>1. /\ ~ \E j \in 1 .. l : c[j].key = z
        /\ \A k \in X : (\E j \in 1 .. l : c[j].key = k) \/ z <= k
    BY <1>7 DEF Onward, Named, l
  <2>2. \A j \in 1 .. l : c[j].key < z
    BY <1>1, <2>1
  <2>3. \A k : k \in Below(X, z) <=> k \in X /\ k < z
    BY DEF Below
  <2>4. ASSUME NEW k, k \in D PROVE k \in Below(X, z)
    BY <1>4, <2>2, <2>3, <2>4
  <2>5. ASSUME NEW k, k \in Below(X, z) PROVE k \in D
    <3>1. k \in X /\ k < z /\ k \in Int /\ z \in Int
      BY <2>3, <2>5
    <3>2. ~ z <= k
      BY <3>1
    <3> QED BY <1>4, <2>1, <3>1, <3>2
  <2>6. Below(X, z) = D
    BY <2>4, <2>5
  <2> QED BY <1>3, <2>6
<1> HIDE DEF D
<1>8. Cardinality(D) <= Cardinality(X) /\ (Cardinality(X) = Cardinality(D) => X = D)
  BY <1>3, FS_Subset
<1>9. l <= Cardinality(X) /\ (All(c, X) <=> l = Cardinality(X))
  <2>1. CASE D = X
    BY <1>1, <1>3, <1>5, <1>8, <2>1
  <2>2. CASE D # X
    BY <1>1, <1>3, <1>5, <1>8, <2>2
  <2> QED BY <2>1, <2>2
<1> QED BY <1>1, <1>6, <1>7, <1>9 DEF l

\* The records of a range are finitely many: they are in the leaves.
LEMMA WithinFinite ==
  ASSUME NEW r, NEW p, LeafRow(r, p), \A m \in 1 .. Len(r) : LeafHolds(p, r[m]), NEW a, NEW b
  PROVE  IsFiniteSet(Within(a, b))
<1> DEFINE X == Within(a, b)
           D(j) == {k \in X : \E i \in 1 .. j : p[k] = r[i]}
           S == {j \in Nat : j \in 0 .. Len(r) => IsFiniteSet(D(j))}
<1>1. Len(r) \in Nat /\ \A k \in Int : \E m \in 1 .. Len(r) : r[m] = p[k]
  BY DEF LeafRow
<1>2. X \subseteq Int /\ \A k \in X : k \in Keys /\ dict[k] # Absent
  BY TreeAssumption DEF Within, TreeAssumption
<1>3. 0 \in S
  <2>1. D(0) = {}
    OBVIOUS
  <2>2. IsFiniteSet({})
    BY FS_EmptySet
  <2> QED BY <2>1, <2>2
<1>4. ASSUME NEW j \in Nat, j \in S PROVE j + 1 \in S
  <2> SUFFICES ASSUME j + 1 \in 0 .. Len(r) PROVE IsFiniteSet(D(j + 1))
    OBVIOUS
  <2> DEFINE m == j + 1
             s == block[r[m]].kids
             E == {k \in X : p[k] = r[m]}
             N == Names(s, Len(s))
  <2>1. m \in 1 .. Len(r) /\ j \in 0 .. Len(r)
    <3> DEFINE l == Len(r)
    <3>1. l \in Nat /\ j + 1 \in 0 .. l
      BY <1>1
    <3> HIDE DEF l
    <3>2. j + 1 \in 1 .. l /\ j \in 0 .. l
      BY <3>1
    <3> QED BY <3>2 DEF l
  <2>10. \A i : i \in 1 .. m <=> i \in 1 .. j \/ i = m
    OBVIOUS
  <2> HIDE DEF m
  <2>2. /\ s \in Seq(Kid) /\ Sorted(s, Len(s))
        /\ \A k \in Keys : p[k] = r[m] /\ dict[k] # Absent => \E i \in 1 .. Len(s) : s[i].key = k
    BY <2>1 DEF LeafHolds
  <2> HIDE DEF X
  <2>3. E \in SUBSET N
    BY <1>2, <2>2 DEF Names
  <2>4. IsFiniteSet(N)
    <3> HIDE DEF s
    <3>1. Len(s) \in 0 .. Len(s)
      BY <2>2
    <3>2. \A i \in 0 .. Len(s) : IsFiniteSet(Names(s, i)) /\ Cardinality(Names(s, i)) = i
      BY <2>2, NamesCount
    <3> QED BY <3>1, <3>2
  <2>5. D(m) = D(j) \cup E
    BY <2>10
  <2>6. IsFiniteSet(D(j))
    BY <1>4, <2>1
  <2> HIDE DEF E, N, D
  <2>7. IsFiniteSet(E)
    BY <2>3, <2>4, FS_Subset
  <2>8. IsFiniteSet(D(j) \cup E)
    BY <2>6, <2>7, FS_Union
  <2> QED BY <2>5, <2>8 DEF m
<1> HIDE DEF S
<1>5. Nat \subseteq S
  BY <1>3, <1>4, Induct
<1>6. IsFiniteSet(D(Len(r)))
  <2>1. Len(r) \in S /\ Len(r) \in 0 .. Len(r)
    BY <1>1, <1>5
  <2> QED BY <2>1 DEF S
<1>7. \A k \in X : \E i \in 1 .. Len(r) : p[k] = r[i]
  <2> SUFFICES ASSUME NEW k \in X PROVE \E i \in 1 .. Len(r) : p[k] = r[i]
    OBVIOUS
  <2>1. PICK i \in 1 .. Len(r) : r[i] = p[k]
    BY <1>1, <1>2
  <2> QED BY <2>1
<1>8. D(Len(r)) = X
  BY <1>7
<1> QED BY <1>6, <1>8

\* What RangeExact says of one call.
Exact(a, b, max) ==
  LET found == SearchRange(a, b, max)
      keys  == Present(a, b)
      more  == Len(keys) > max
  IN
  /\ found.copied = [i \in 1 .. Len(found.copied) |-> [key |-> keys[i], to |-> dict[keys[i]]]]
  /\ Len(found.copied) = IF more THEN max ELSE Len(keys)
  /\ found.next => more /\ found.left = keys[max + 1]
  /\ more /\ ~found.next => Last(block[SearchLeaf(keys[max])].kids).key = keys[max]

\* The i-th member of keys has i - 1 smaller ones.
LEMMA PresentIs ==
  ASSUME NEW a, NEW b, IsFiniteSet(Within(a, b)), Within(a, b) \subseteq Int
  PROVE  /\ Len(Present(a, b)) = Cardinality(Within(a, b))
         /\ \A i \in 1 .. Cardinality(Within(a, b)), k \in Within(a, b) :
              Cardinality(Below(Within(a, b), k)) = i - 1 => Present(a, b)[i] = k
<1> DEFINE X == Within(a, b)
           C == Cardinality(X)
           keys == Present(a, b)
<1>1. keys = [i \in 1 .. C |-> CHOOSE k \in X : Cardinality(Below(X, k)) = i - 1]
  BY DEF Present, Within, Below
<1>2. C \in Nat
  BY FS_CardinalityType
<1>3. X \in SUBSET Int /\ IsFiniteSet(X)
  OBVIOUS
<1> HIDE DEF X, C, keys
<1>4. Len(keys) = C
  BY <1>1, <1>2
<1>5. ASSUME NEW i \in 1 .. C, NEW k \in X, Cardinality(Below(X, k)) = i - 1 PROVE keys[i] = k
  <2> DEFINE m == CHOOSE x \in X : Cardinality(Below(X, x)) = i - 1
  <2>1. m \in X /\ Cardinality(Below(X, m)) = i - 1
    BY <1>5
  <2>2. keys[i] = m
    BY <1>1
  <2> HIDE DEF m
  <2>3. m = k
    BY <1>3, <1>5, <2>1, BelowIsOne
  <2> QED BY <2>2, <2>3
<1> QED BY <1>4, <1>5 DEF X, C, keys

\* What a call reports is exact, if it found what there is.
LEMMA FoundExact ==
  ASSUME NEW a \in Int, NEW b \in Int, NEW max \in Nat \ {0}, NEW c, NEW rest, NEW p,
         Within(a, b) \in SUBSET Int, IsFiniteSet(Within(a, b)),
         Found(c, rest, Within(a, b), max, p), \A k \in Int : SearchLeaf(k) = p[k],
         SearchRange(a, b, max) = Reported([copied |-> c, rest |-> rest], a, max)
  PROVE  Exact(a, b, max)
<1> DEFINE X == Within(a, b)
           C == Cardinality(X)
           keys == Present(a, b)
           l == Len(c)
           found == SearchRange(a, b, max)
<1>1. /\ Copied(c, X) /\ l <= max
      /\ l < max => All(c, X)
      /\ l = max /\ rest # << >> => Onward(c, X, rest[1].key)
      /\ l = max /\ rest = << >> => All(c, X) \/ EndsLeaf(p, c[l].key)
  BY DEF Found
<1>2. /\ found.copied = c
      /\ found.next <=> l = max /\ rest # << >>
      /\ l = max /\ rest # << >> => found.left = rest[1].key
  <2> DEFINE nx == Len(c) = max /\ rest # << >>
  <2>1. found = [copied |-> c, next |-> nx, left |-> IF nx THEN rest[1].key ELSE a]
    BY Zenon DEF Reported
  <2>2. nx <=> l = max /\ rest # << >>
    OBVIOUS
  <2> HIDE DEF nx, found, l
  <2>3. found.copied = c /\ found.next = nx /\ found.left = IF nx THEN rest[1].key ELSE a
    BY <2>1
  <2>4. found.next <=> nx
    BY Zenon, <2>3
  <2>5. nx => found.left = rest[1].key
    BY <2>3
  <2> QED BY <2>2, <2>3, <2>4, <2>5
<1>3. /\ Len(keys) = C
      /\ \A i \in 1 .. C, k \in X : Cardinality(Below(X, k)) = i - 1 => keys[i] = k
  BY PresentIs
<1>4. /\ l \in Nat /\ l <= C
      /\ \A j \in 1 .. l : c[j].key \in X /\ Cardinality(Below(X, c[j].key)) = j - 1
      /\ All(c, X) <=> l = C
      /\ \A z \in X : Onward(c, X, z) => Cardinality(Below(X, z)) = l
  BY <1>1, CopiedCount
<1>5. C \in Nat
  BY FS_CardinalityType
<1>6. X \in SUBSET Int
  OBVIOUS
<1>7. c \in Seq(Kid) /\ \A j \in 1 .. l : c[j].to = dict[c[j].key]
  BY <1>1 DEF Copied
<1> HIDE DEF X, C, keys, l, found
<1>8. ASSUME NEW j \in 1 .. l PROVE keys[j] = c[j].key
  <2>1. j \in 1 .. C
    BY <1>4, <1>5
  <2> QED BY <1>3, <1>4, <2>1
<1>9. c = [i \in 1 .. l |-> [key |-> keys[i], to |-> dict[keys[i]]]]
  <2>1. \A j \in 1 .. l : c[j] \in Kid
    BY <1>7 DEF l
  <2>2. \A j \in 1 .. l : c[j] = [key |-> c[j].key, to |-> c[j].to]
    BY <2>1 DEF Kid
  <2>3. \A j \in 1 .. l : c[j] = [key |-> keys[j], to |-> dict[keys[j]]]
    BY <1>7, <1>8, <2>2
  <2>4. c = [j \in 1 .. l |-> c[j]]
    BY <1>7 DEF l
  <2> QED BY <2>3, <2>4
<1>10. l = IF C > max THEN max ELSE C
  <2>1. CASE l < max
    BY <1>1, <1>4, <1>5, <2>1
  <2>2. CASE l = max
    BY <1>4, <1>5, <2>2
  <2> QED BY <1>1, <1>4, <2>1, <2>2
<1>11. ASSUME l = max, rest # << >> PROVE C > max /\ rest[1].key = keys[max + 1]
  <2> DEFINE z == rest[1].key
  <2>1. Onward(c, X, z)
    BY <1>1, <1>11
  <2> HIDE DEF z
  <2>2. z \in X /\ ~Named(c, z)
    BY <2>1 DEF Onward
  <2>3. Cardinality(Below(X, z)) = l
    BY <1>4, <2>1, <2>2
  <2>4. ~All(c, X)
    BY <2>2 DEF All
  <2>5. l < C
    BY <1>4, <1>5, <2>4
  <2>6. max + 1 \in 1 .. C /\ max + 1 - 1 = max
    BY <1>5, <1>11, <2>5
  <2>7. keys[max + 1] = z
    BY <1>3, <1>11, <2>2, <2>3, <2>6
  <2> QED BY <1>5, <1>11, <2>5, <2>7 DEF z
<1>12. ASSUME C > max, ~(l = max /\ rest # << >>)
       PROVE  Last(block[SearchLeaf(keys[max])].kids).key = keys[max]
  <2>1. l = max /\ rest = << >> /\ ~All(c, X)
    BY <1>4, <1>5, <1>10, <1>12
  <2>2. EndsLeaf(p, c[l].key)
    BY <1>1, <2>1
  <2>3. max \in 1 .. l
    BY <2>1
  <2>4. keys[max] = c[max].key /\ c[max].key \in Int
    BY <1>4, <1>6, <1>8, <2>3
  <2>5. SearchLeaf(keys[max]) = p[keys[max]]
    BY <2>4
  <2> QED BY <2>1, <2>2, <2>4, <2>5 DEF EndsLeaf
<1>13. /\ found.copied = [i \in 1 .. Len(found.copied) |-> [key |-> keys[i], to |-> dict[keys[i]]]]
       /\ Len(found.copied) = IF Len(keys) > max THEN max ELSE Len(keys)
       /\ found.next => Len(keys) > max /\ found.left = keys[max + 1]
       /\ Len(keys) > max /\ ~found.next =>
            Last(block[SearchLeaf(keys[max])].kids).key = keys[max]
  <2>1. found.copied = [i \in 1 .. Len(found.copied) |-> [key |-> keys[i], to |-> dict[keys[i]]]]
    BY <1>2, <1>9 DEF l
  <2>2. Len(found.copied) = IF Len(keys) > max THEN max ELSE Len(keys)
    BY <1>2, <1>3, <1>10 DEF l
  <2>3. found.next => Len(keys) > max /\ found.left = keys[max + 1]
    BY <1>2, <1>3, <1>11
  <2>4. Len(keys) > max /\ ~found.next => Last(block[SearchLeaf(keys[max])].kids).key = keys[max]
    BY <1>2, <1>3, <1>12
  <2> QED BY <2>1, <2>2, <2>3, <2>4
<1> QED BY <1>13 DEF Exact, found, keys

\* Between operations every call of search_range is exact.
LEMMA SearchRangeExact ==
  ASSUME TreeInv, Idle, NEW a \in Int, NEW b \in Int, a <= b, NEW max \in Nat \ {0}
  PROVE  Exact(a, b, max)
<1>1. PICK r, p : LeafRow(r, p) /\ \A m \in 1 .. Len(r) : LeafHolds(p, r[m])
  BY LeafRowIs
<1>2. /\ Len(r) \in Nat /\ \A m \in 1 .. Len(r) : r[m] \in DOMAIN block
      /\ \A i, j \in 1 .. Len(r) : i < j => Ahead(p, r[i], r[j])
      /\ \A k \in Int : (\E m \in 1 .. Len(r) : r[m] = p[k]) /\ SearchLeaf(k) = p[k]
  BY <1>1 DEF LeafRow
<1>3. PICK u \in 1 .. Len(r) : r[u] = p[a]
  BY <1>2
<1>4. PICK v \in 1 .. Len(r) : r[v] = p[b]
  BY <1>2
<1>5. u <= v
  <2> SUFFICES ASSUME v < u PROVE FALSE
    BY <1>2
  <2>1. Ahead(p, r[v], r[u])
    BY <1>2
  <2>2. b < a
    BY <1>3, <1>4, <2>1 DEF Ahead
  <2> QED BY <2>2
<1>6. SearchLeaf(a) = r[u] /\ SearchLeaf(b) = r[v] /\ r[v] \in DOMAIN block
  BY <1>2, <1>3, <1>4
<1>7. PICK V \in [DOMAIN block -> [0 .. max -> Result]] : RangeWalk(V, r[u], r[v], a, b, max)
  BY <1>6, WalkExists
<1>8. \E W : RangeWalk(W, SearchLeaf(a), SearchLeaf(b), a, b, max)
  BY <1>6, <1>7
<1>9. PICK W : /\ RangeWalk(W, SearchLeaf(a), SearchLeaf(b), a, b, max)
               /\ SearchRange(a, b, max) = Reported(W[SearchLeaf(a)][0], a, max)
  BY <1>8, SearchRangeIs
<1>10. W = V
  <2>1. RangeWalk(W, r[u], r[v], a, b, max)
    BY <1>6, <1>9
  <2> QED BY <1>6, <1>7, <2>1, WalkIsOne
<1> DEFINE X == Within(a, b)
           res == V[r[u]][0]
<1>11. Found(res.copied, res.rest, FromLeaf(r, p, u, X), max - 0, p)
  <2>1. u \in u .. v /\ 0 \in 0 .. max /\ 0 < max /\ max \in Nat
    BY <1>2, <1>5
  <2>2. \A m \in u .. v, i \in 0 .. max : i < max =>
           Found(V[r[m]][i].copied, V[r[m]][i].rest, FromLeaf(r, p, m, Within(a, b)), max - i, p)
    BY <1>1, <1>3, <1>4, <1>7, <2>1, WalkFound
  <2> QED BY <2>1, <2>2
<1>12. X \in SUBSET Int /\ \A k \in X : a <= k
  BY TreeAssumption DEF Within, TreeAssumption
<1>13. FromLeaf(r, p, u, X) = X
  <2> SUFFICES ASSUME NEW k \in X PROVE \E j \in u .. Len(r) : p[k] = r[j]
    BY DEF FromLeaf
  <2>1. k \in Int /\ a <= k
    BY <1>12
  <2>2. PICK j \in 1 .. Len(r) : r[j] = p[k]
    BY <1>2, <2>1
  <2>3. ~ j < u
    <3> SUFFICES ASSUME j < u PROVE FALSE
      OBVIOUS
    <3>1. Ahead(p, r[j], r[u])
      BY <1>2
    <3>2. k < a
      BY <1>3, <2>1, <2>2, <3>1 DEF Ahead
    <3> QED BY <2>1, <3>2
  <2>4. j \in u .. Len(r)
    BY <1>2, <2>3
  <2> QED BY <2>2, <2>4
<1>14. res \in Result
  <2>1. r[u] \in DOMAIN block /\ 0 \in 0 .. max
    BY <1>2
  <2> HIDE DEF X
  <2> QED BY <1>7, <2>1
<1>15. IsFiniteSet(X)
  BY <1>1, WithinFinite
<1>16. SearchRange(a, b, max) = Reported(res, a, max)
  BY <1>6, <1>9, <1>10
<1> HIDE DEF X, res
<1>17. Found(res.copied, res.rest, X, max, p)
  <2>1. max - 0 = max
    OBVIOUS
  <2> QED BY <1>11, <1>13, <2>1
<1>18. res = [copied |-> res.copied, rest |-> res.rest]
  BY <1>14 DEF Result
<1> DEFINE c == res.copied
           rest == res.rest
<1>19. SearchRange(a, b, max) = Reported([copied |-> c, rest |-> rest], a, max)
  BY <1>16, <1>18
<1>20. Found(c, rest, X, max, p)
  BY <1>17
<1> HIDE DEF c, rest
<1> QED BY <1>2, <1>12, <1>15, <1>19, <1>20, FoundExact DEF X

\* search_range copies, between any two operations, exactly the records of the
\* range it is given, in order and as many as it may, and says where to go on:
\* bt.cc's walk along the leaves skips, repeats and invents none.
THEOREM RangeRight == Spec => []RangeExact
<1>1. ASSUME TreeInv PROVE RangeExact
  <2> SUFFICES ASSUME Idle, NEW call \in Calls PROVE Exact(call[1], call[2], call[3])
    BY DEF RangeExact, Exact
  <2>1. call[1] \in Keys /\ call[2] \in Keys /\ call[3] \in 1 .. MaxRange /\ call[1] <= call[2]
    <3>1. call \in Keys \X Keys \X (1 .. MaxRange) /\ call[1] <= call[2]
      BY DEF Calls
    <3> QED BY <3>1
  <2>2. call[1] \in Int /\ call[2] \in Int /\ call[3] \in Nat \ {0}
    <3>1. Keys \subseteq Int
      BY TreeAssumption DEF TreeAssumption
    <3>2. MaxRange \in Nat
      BY RangeAssumption DEF RangeAssumption
    <3> DEFINE max == call[3]
    <3>3. max \in 1 .. MaxRange
      BY <2>1
    <3> HIDE DEF max
    <3>4. max \in Nat \ {0}
      BY <3>2, <3>3
    <3>5. call[1] \in Int /\ call[2] \in Int
      BY <2>1, <3>1
    <3> QED BY <3>4, <3>5 DEF max
  <2> DEFINE a == call[1]
             b == call[2]
             max == call[3]
  <2>3. a \in Int /\ b \in Int /\ a <= b /\ max \in Nat \ {0}
    BY <2>1, <2>2
  <2> HIDE DEF a, b, max
  <2>4. Exact(a, b, max)
    BY <1>1, <2>3, SearchRangeExact
  <2> QED BY <2>4 DEF a, b, max
<1>2. Spec => []TreeInv
  BY TreeInvariant
<1> QED BY <1>1, <1>2, PTL

-----------------------------------------------------------------------------
(* The numbers of strings.                                                 *)

\* A char has a digit, and other chars have others; those of a negative char
\* are the greater ones, the other way round.
LEMMA DigitIs ==
  ASSUME NEW c \in Char
  PROVE  /\ Base \in Int /\ Base >= 2 /\ c \in Int
         /\ HalfChar \in Nat /\ 2 * HalfChar <= Base /\ -HalfChar <= c /\ c < HalfChar
         /\ Digit(c) \in Nat /\ Digit(c) < Base
         /\ c >= 0 => Digit(c) = c
         /\ c < 0 => Digit(c) = HalfChar - 1 - c /\ Digit(c) >= HalfChar
<1> DEFINE B == Base
           H == HalfChar
<1>1. B \in Int
  BY KeyAssumption DEF Base, KeyAssumption
<1>2. H = B \div 2
  BY DEF HalfChar
<1>3. c \in -H .. H - 1
  BY DEF Char
<1> HIDE DEF B, H
<1>4. H \in Int /\ 2 * H <= B
  BY <1>1, <1>2
<1>5. c \in Int /\ -H <= c /\ c < H
  BY <1>3, <1>4
<1>6. H \in Nat /\ H >= 1 /\ B >= 2
  BY <1>1, <1>4, <1>5
<1>7. c >= 0 => Digit(c) = c
  BY <1>5 DEF Digit
<1>8. c < 0 => Digit(c) = H - 1 - c
  BY <1>5 DEF Digit, H
<1>9. Digit(c) \in Nat /\ Digit(c) < B /\ (c < 0 => Digit(c) >= H)
  <2>1. CASE c >= 0
    BY <1>1, <1>4, <1>5, <1>6, <1>7, <2>1
  <2>2. CASE c < 0
    BY <1>1, <1>4, <1>5, <1>6, <1>8, <2>2
  <2> QED BY <1>5, <2>1, <2>2
<1> QED BY <1>1, <1>4, <1>5, <1>6, <1>7, <1>8, <1>9 DEF B, H

\* Two chars with one digit are the same.
LEMMA DigitsTell ==
  ASSUME NEW c \in Char, NEW d \in Char, Digit(c) = Digit(d)
  PROVE  c = d
<1>1. /\ c \in Int /\ HalfChar \in Nat /\ c < HalfChar
      /\ c >= 0 => Digit(c) = c
      /\ c < 0 => Digit(c) = HalfChar - 1 - c /\ Digit(c) >= HalfChar
  BY DigitIs
<1>2. /\ d \in Int /\ d < HalfChar
      /\ d >= 0 => Digit(d) = d
      /\ d < 0 => Digit(d) = HalfChar - 1 - d /\ Digit(d) >= HalfChar
  BY DigitIs
<1> QED BY <1>1, <1>2

\* k[i] is the number of the first i chars of s.
Shifted(k, s) == k = [i \in 0 .. Len(s) |-> IF i = 0 THEN 0 ELSE k[i - 1] * Base + Digit(s[i])]

\* Number builds it.
LEMMA NumberIs ==
  ASSUME NEW s \in Seq(Char)
  PROVE  \E k : /\ Number(s) = k[Len(s)] /\ k[0] = 0
                /\ \A i \in 0 .. Len(s) : k[i] \in Nat
                /\ \A i \in 1 .. Len(s) : k[i] = k[i - 1] * Base + Digit(s[i])
<1> DEFINE l == Len(s)
           N == l + 1
           D == [i \in 1 .. N |-> Nat]
           G == [i \in 1 .. N |-> [x \in Nat |-> IF i <= l THEN x * Base + Digit(s[i]) ELSE x]]
<1>1. l \in Nat /\ N \in Nat \ {0} /\ 1 \in 1 .. N
  OBVIOUS
<1>2. \A i \in 1 .. l : s[i] \in Char /\ Base \in Nat /\ Digit(s[i]) \in Nat
  <2> SUFFICES ASSUME NEW i \in 1 .. l PROVE s[i] \in Char /\ Base \in Nat /\ Digit(s[i]) \in Nat
    OBVIOUS
  <2>1. s[i] \in Char
    OBVIOUS
  <2>2. Base \in Int /\ Base >= 2 /\ Digit(s[i]) \in Nat
    BY <2>1, DigitIs
  <2> QED BY <2>1, <2>2
<1> HIDE DEF l
<1>3. \A i \in 1 .. N : D[i] = Nat /\ \A x \in Nat : G[i][x] = IF i <= l THEN x * Base + Digit(s[i]) ELSE x
  OBVIOUS
<1> HIDE DEF D, G
<1>4. 0 \in D[1]
  BY <1>1, <1>3
<1>5. \A i \in 1 .. N - 1 : \A x \in D[i] : G[i][x] \in D[i + 1]
  <2> SUFFICES ASSUME NEW i \in 1 .. N - 1, NEW x \in D[i] PROVE G[i][x] \in D[i + 1]
    OBVIOUS
  <2>1. i \in 1 .. N /\ i + 1 \in 1 .. N /\ i \in 1 .. l /\ i <= l
    BY <1>1
  <2>2. x \in Nat
    BY <1>3, <2>1
  <2>3. G[i][x] = x * Base + Digit(s[i])
    BY <1>3, <2>1, <2>2
  <2>4. Base \in Nat /\ Digit(s[i]) \in Nat
    BY <1>2, <2>1
  <2>5. x * Base + Digit(s[i]) \in Nat
    BY <2>2, <2>4
  <2> QED BY <1>3, <2>1, <2>3, <2>5
<1>6. PICK f : Iterated(N, D, G, 0, f)
  BY <1>1, <1>4, <1>5, Iterate
<1>7. /\ f = [i \in 1 .. N |-> IF i = 1 THEN 0 ELSE G[i - 1][f[i - 1]]]
      /\ \A i \in 1 .. N : f[i] \in Nat
  <2>1. f = [i \in 1 .. N |-> IF i = 1 THEN 0 ELSE G[i - 1][f[i - 1]]]
    BY <1>6 DEF Iterated
  <2>2. \A i \in 1 .. N : f[i] \in D[i]
    BY <1>6 DEF Iterated
  <2>3. \A i \in 1 .. N : D[i] = Nat
    BY <1>3
  <2>4. \A i \in 1 .. N : f[i] \in Nat
    BY Zenon, <2>2, <2>3
  <2> QED BY Zenon, <2>1, <2>4
<1> DEFINE g == [j \in 0 .. l |-> f[j + 1]]
<1>8. \A j \in 0 .. l : g[j] = IF j = 0 THEN 0 ELSE g[j - 1] * Base + Digit(s[j])
  <2> SUFFICES ASSUME NEW j \in 0 .. l
               PROVE  f[j + 1] = IF j = 0 THEN 0 ELSE g[j - 1] * Base + Digit(s[j])
    OBVIOUS
  <2> DEFINE i == j + 1
  <2>1. i \in 1 .. N /\ i - 1 = j /\ (i = 1 <=> j = 0)
    BY <1>1
  <2> HIDE DEF i, g
  <2>2. CASE j = 0
    BY <1>7, <2>1, <2>2 DEF i
  <2>3. CASE j # 0
    <3>1. j \in 1 .. N /\ j <= l /\ j - 1 \in 0 .. l /\ j - 1 + 1 = j
      BY <1>1, <2>3
    <3>2. f[i] = G[j][f[j]]
      BY <1>7, <2>1, <2>3
    <3>3. f[j] \in Nat
      BY <1>7, <3>1
    <3>4. G[j][f[j]] = f[j] * Base + Digit(s[j])
      BY <1>3, <3>1, <3>3
    <3>5. g[j - 1] = f[j]
      BY <3>1 DEF g
    <3> QED BY <2>3, <3>2, <3>4, <3>5 DEF i
  <2> QED BY <2>2, <2>3
<1>9. Shifted(g, s)
  <2>1. g = [j \in 0 .. l |-> g[j]]
    OBVIOUS
  <2> HIDE DEF g
  <2>2. g = [j \in 0 .. l |-> IF j = 0 THEN 0 ELSE g[j - 1] * Base + Digit(s[j])]
    BY <1>8, <2>1
  <2> QED BY <2>2 DEF Shifted, l
<1> HIDE DEF g
<1> DEFINE k == CHOOSE h : Shifted(h, s)
<1>10. Shifted(k, s)
  BY <1>9
<1>11. Number(s) = k[l]
  BY Zenon DEF Number, Shifted, l
<1> HIDE DEF k
<1>12. \A i \in 0 .. l : k[i] = IF i = 0 THEN 0 ELSE k[i - 1] * Base + Digit(s[i])
  <2>1. k = [i \in 0 .. l |-> IF i = 0 THEN 0 ELSE k[i - 1] * Base + Digit(s[i])]
    BY <1>10 DEF Shifted, l
  <2> QED BY <2>1
<1>13. k[0] = 0 /\ \A i \in 1 .. l : k[i] = k[i - 1] * Base + Digit(s[i])
  BY <1>1, <1>12
<1> DEFINE S == {m \in Nat : m \in 0 .. l => k[m] \in Nat}
<1>14. 0 \in S
  BY <1>13
<1>15. ASSUME NEW m \in Nat, m \in S PROVE m + 1 \in S
  <2> SUFFICES ASSUME m + 1 \in 0 .. l PROVE k[m + 1] \in Nat
    OBVIOUS
  <2> DEFINE q == m + 1
  <2>1. q \in 1 .. l /\ q - 1 = m /\ m \in 0 .. l
    BY <1>1
  <2> HIDE DEF q
  <2>2. k[m] \in Nat
    BY <1>15, <2>1
  <2>3. k[q] = k[m] * Base + Digit(s[q])
    BY <1>13, <2>1
  <2>4. Base \in Nat /\ Digit(s[q]) \in Nat
    BY <1>2, <2>1
  <2>5. k[m] * Base + Digit(s[q]) \in Nat
    BY <2>2, <2>4
  <2> QED BY <2>3, <2>5 DEF q
<1> HIDE DEF S
<1>16. Nat \subseteq S
  BY <1>14, <1>15, Induct
<1>17. \A i \in 0 .. l : k[i] \in Nat
  BY <1>16 DEF S
<1> QED BY <1>11, <1>13, <1>17 DEF l

\* What is shifted in later does not matter.
LEMMA ShiftedMore ==
  ASSUME NEW a \in Nat, NEW b \in Nat, NEW B \in Nat, NEW d \in Nat, NEW e \in Nat, d < B, a < b
  PROVE  a * B + d < b * B + e
<1> DEFINE m == b - a - 1
<1>1. m \in Nat /\ b = a + 1 + m
  OBVIOUS
<1> HIDE DEF m
<1>2. b * B = a * B + B + m * B
  BY <1>1
<1>3. m * B \in Nat /\ a * B \in Nat
  BY <1>1
<1> HIDE DEF m
<1> DEFINE x == a * B
           y == m * B
           z == b * B
<1>4. x \in Nat /\ y \in Nat /\ z = x + B + y
  BY <1>2, <1>3
<1> HIDE DEF x, y, z
<1>5. x + d < z + e
  BY <1>4
<1> QED BY <1>5 DEF x, z

\* Where two strings differ first decides which number is smaller.
LEMMA NumberOrder ==
  ASSUME NEW s \in Seq(Char), NEW t \in Seq(Char), Len(s) = Len(t), NEW i \in 1 .. Len(s),
         \A j \in 1 .. Len(s) : j < i => s[j] = t[j], Digit(s[i]) < Digit(t[i])
  PROVE  Number(s) < Number(t)
<1> DEFINE l == Len(s)
<1>1. PICK a : /\ Number(s) = a[Len(s)] /\ a[0] = 0
               /\ \A j \in 0 .. Len(s) : a[j] \in Nat
               /\ \A j \in 1 .. Len(s) : a[j] = a[j - 1] * Base + Digit(s[j])
  BY NumberIs
<1>2. PICK b : /\ Number(t) = b[Len(t)] /\ b[0] = 0
               /\ \A j \in 0 .. Len(t) : b[j] \in Nat
               /\ \A j \in 1 .. Len(t) : b[j] = b[j - 1] * Base + Digit(t[j])
  BY NumberIs
<1>3. l \in Nat /\ i \in 1 .. l /\ \A j \in 1 .. l : j < i => s[j] = t[j]
  OBVIOUS
<1>4. \A j \in 1 .. l : /\ Base \in Nat
                        /\ Digit(s[j]) \in Nat /\ Digit(s[j]) < Base
                        /\ Digit(t[j]) \in Nat /\ Digit(t[j]) < Base
  <2> SUFFICES ASSUME NEW j \in 1 .. l
               PROVE  /\ Base \in Nat
                      /\ Digit(s[j]) \in Nat /\ Digit(s[j]) < Base
                      /\ Digit(t[j]) \in Nat /\ Digit(t[j]) < Base
    OBVIOUS
  <2>1. s[j] \in Char /\ t[j] \in Char
    OBVIOUS
  <2>2. Base \in Int /\ Base >= 2 /\ Digit(s[j]) \in Nat /\ Digit(s[j]) < Base
    BY <2>1, DigitIs
  <2>3. Digit(t[j]) \in Nat /\ Digit(t[j]) < Base
    BY <2>1, DigitIs
  <2> QED BY <2>2, <2>3
<1>5. /\ Number(s) = a[l] /\ a[0] = 0
      /\ \A j \in 0 .. l : a[j] \in Nat
      /\ \A j \in 1 .. l : a[j] = a[j - 1] * Base + Digit(s[j])
      /\ Number(t) = b[l] /\ b[0] = 0
      /\ \A j \in 0 .. l : b[j] \in Nat
      /\ \A j \in 1 .. l : b[j] = b[j - 1] * Base + Digit(t[j])
  BY <1>1, <1>2
<1> HIDE DEF l
<1> DEFINE S == {m \in Nat : m \in 0 .. l => IF m < i THEN a[m] = b[m] ELSE a[m] < b[m]}
<1>6. 0 \in S
  BY <1>3, <1>5
<1>7. ASSUME NEW m \in Nat, m \in S PROVE m + 1 \in S
  <2> DEFINE q == m + 1
  <2> SUFFICES ASSUME q \in 0 .. l PROVE IF q < i THEN a[q] = b[q] ELSE a[q] < b[q]
    OBVIOUS
  <2>1. q \in 1 .. l /\ q - 1 = m /\ m \in 0 .. l /\ (m < i <=> q < i \/ q = i) /\ q \in Int
    BY <1>3
  <2> HIDE DEF q
  <2> DEFINE d == Digit(s[q])
             e == Digit(t[q])
             x == a[m]
             y == b[m]
  <2>2. a[q] = x * Base + d /\ b[q] = y * Base + e
    BY <1>5, <2>1
  <2>3. Base \in Nat /\ d \in Nat /\ d < Base /\ e \in Nat
    BY <1>4, <2>1
  <2>4. x \in Nat /\ y \in Nat
    BY <1>5, <2>1
  <2>5. IF m < i THEN x = y ELSE x < y
    BY <1>7, <2>1
  <2>6. CASE q < i
    <3>1. d = e
      BY <1>3, <2>1, <2>6
    <3>2. x = y
      BY <2>1, <2>5, <2>6
    <3> QED BY <2>2, <2>6, <3>1, <3>2
  <2>7. CASE q = i
    <3>1. d < e
      BY <2>7
    <3>2. x = y
      BY <2>1, <2>5, <2>7
    <3>3. y * Base \in Nat /\ ~ q < i
      BY <1>3, <2>3, <2>4, <2>7
    <3> DEFINE z == y * Base
    <3>4. a[q] = z + d /\ b[q] = z + e /\ z \in Nat
      BY <2>2, <3>2, <3>3
    <3> HIDE DEF z, d, e
    <3>5. a[q] < b[q]
      BY <2>3, <3>1, <3>4
    <3> QED BY <3>3, <3>5
  <2>8. CASE ~ (q < i \/ q = i)
    <3>1. x < y
      BY <2>1, <2>5, <2>8
    <3> HIDE DEF x, y, d, e
    <3>2. x * Base + d < y * Base + e
      BY <2>3, <2>4, <3>1, ShiftedMore
    <3> QED BY <2>2, <2>8, <3>2
  <2> QED BY <2>6, <2>7, <2>8
<1> HIDE DEF S
<1>8. Nat \subseteq S
  BY <1>6, <1>7, Induct
<1>9. IF l < i THEN a[l] = b[l] ELSE a[l] < b[l]
  <2>1. l \in S /\ l \in 0 .. l
    BY <1>3, <1>8
  <2> QED BY <2>1 DEF S
<1> QED BY <1>3, <1>5, <1>9

\* Two strings of one length differ first somewhere.
LEMMA FirstDiffers ==
  ASSUME NEW s \in Seq(Char), NEW t \in Seq(Char), Len(s) = Len(t), s # t
  PROVE  /\ Differing(s, t) # {}
         /\ Min(Differing(s, t)) \in 1 .. Len(s)
         /\ s[Min(Differing(s, t))] # t[Min(Differing(s, t))]
         /\ \A j \in 1 .. Len(s) : j < Min(Differing(s, t)) => s[j] = t[j]
<1> DEFINE D == Differing(s, t)
           l == Len(s)
           m == Min(D)
<1>1. l \in Nat /\ \A j : j \in D <=> j \in 1 .. l /\ s[j] # t[j]
  BY DEF Differing
<1>2. D # {}
  <2> SUFFICES ASSUME D = {} PROVE FALSE
    OBVIOUS
  <2>1. \A j \in 1 .. Len(s) : s[j] = t[j]
    BY <1>1
  <2> QED BY <2>1, SameSeq
<1> HIDE DEF D, l
<1>3. D \in SUBSET Nat
  BY <1>1
<1>4. \E x \in D : \A y \in D : x <= y
  BY <1>2, <1>3, LeastNatural
<1>5. m \in D /\ \A y \in D : m <= y
  BY <1>4 DEF Min
<1> HIDE DEF m
<1>6. \A j \in 1 .. l : j < m => s[j] = t[j]
  <2> SUFFICES ASSUME NEW j \in 1 .. l, j < m, s[j] # t[j] PROVE FALSE
    OBVIOUS
  <2>1. j \in D /\ m \in Nat
    BY <1>1, <1>3, <1>5
  <2> QED BY <1>5, <2>1
<1> QED BY <1>1, <1>2, <1>5, <1>6 DEF D, l, m

\* Strings of one length are told apart by their numbers.
LEMMA NumbersTell ==
  ASSUME NEW s \in Seq(Char), NEW t \in Seq(Char), Len(s) = Len(t), Number(s) = Number(t)
  PROVE  s = t
<1> SUFFICES ASSUME s # t PROVE FALSE
  OBVIOUS
<1> DEFINE i == Min(Differing(s, t))
<1>1. i \in 1 .. Len(s) /\ s[i] # t[i] /\ \A j \in 1 .. Len(s) : j < i => s[j] = t[j]
  BY FirstDiffers
<1> HIDE DEF i
<1>2. s[i] \in Char /\ t[i] \in Char
  BY <1>1
<1>3. Digit(s[i]) # Digit(t[i])
  BY <1>1, <1>2, DigitsTell
<1>4. Digit(s[i]) \in Nat
  BY <1>2, DigitIs
<1>5. Digit(t[i]) \in Nat
  BY <1>2, DigitIs
<1>6. Number(s) \in Nat
  <2>1. PICK k : Number(s) = k[Len(s)] /\ \A j \in 0 .. Len(s) : k[j] \in Nat
    BY NumberIs
  <2>2. Len(s) \in 0 .. Len(s)
    OBVIOUS
  <2> QED BY <2>1, <2>2
<1>7. CASE Digit(s[i]) < Digit(t[i])
  <2>1. Number(s) < Number(t)
    BY <1>1, <1>7, NumberOrder
  <2> QED BY <1>6, <2>1
<1>8. CASE Digit(t[i]) < Digit(s[i])
  <2>1. i \in 1 .. Len(t) /\ \A j \in 1 .. Len(t) : j < i => t[j] = s[j]
    BY <1>1
  <2>2. Number(t) < Number(s)
    BY <1>8, <2>1, NumberOrder
  <2> QED BY <1>6, <2>2
<1> QED BY <1>3, <1>4, <1>5, <1>7, <1>8

\* memcmp takes a char for the byte of the same bits.
LEMMA ByteIs ==
  ASSUME NEW c \in Char
  PROVE  Byte(c) = IF c >= 0 THEN c ELSE c + Base
<1> DEFINE B == Base
           H == HalfChar
           q == c \div B
           r == c % B
<1>1. B \in Int /\ B >= 2 /\ c \in Int /\ H \in Nat /\ 2 * H <= B /\ -H <= c /\ c < H
  BY DigitIs
<1>2. Byte(c) = r
  BY DEF Byte
<1> HIDE DEF B, H
<1>3. q \in Int /\ r \in Int /\ 0 <= r /\ r < B /\ c = B * q + r
  BY <1>1
<1> HIDE DEF q, r
<1>4. -B <= c /\ c < B
  BY <1>1
<1>5. CASE c >= 0
  <2>1. q >= 1 => B * q >= B
    BY <1>1, <1>3
  <2>2. q <= -1 => B * q <= -B
    BY <1>1, <1>3
  <2>3. q = 0
    BY <1>1, <1>3, <1>4, <1>5, <2>1, <2>2
  <2>4. B * q = 0
    BY <1>1, <2>3
  <2>5. r = c
    BY <1>1, <1>3, <2>4
  <2> QED BY <1>2, <1>5, <2>5
<1>6. CASE c < 0
  <2>1. q >= 0 => B * q >= 0
    BY <1>1, <1>3
  <2>2. q <= -2 => B * q <= -2 * B
    BY <1>1, <1>3
  <2>3. q = -1
    BY <1>1, <1>3, <1>4, <1>6, <2>1, <2>2
  <2>4. B * q = -B
    BY <1>1, <2>3
  <2>5. r = c + B
    BY <1>1, <1>3, <2>4
  <2>6. ~ c >= 0
    BY <1>1, <1>6
  <2> QED BY <1>2, <2>5, <2>6 DEF B
<1> QED BY <1>1, <1>5, <1>6

\* The smaller number belongs to the string that comes first.
LEMMA SmallerPrecedes ==
  ASSUME NEW s \in Seq(Char), NEW t \in Seq(Char), Len(s) = Len(t), Number(s) < Number(t)
  PROVE  Precedes(s, t)
<1>1. Number(s) \in Nat /\ Number(t) \in Nat
  <2>1. PICK k : Number(s) = k[Len(s)] /\ \A j \in 0 .. Len(s) : k[j] \in Nat
    BY NumberIs
  <2>2. PICK h : Number(t) = h[Len(t)] /\ \A j \in 0 .. Len(t) : h[j] \in Nat
    BY NumberIs
  <2>3. Len(s) \in 0 .. Len(s)
    OBVIOUS
  <2> QED BY <2>1, <2>2, <2>3
<1>2. s # t
  BY <1>1
<1> DEFINE i == Min(Differing(s, t))
           c == s[i]
           d == t[i]
<1>3. /\ Differing(s, t) # {} /\ i \in 1 .. Len(s) /\ c # d
      /\ \A j \in 1 .. Len(s) : j < i => s[j] = t[j]
  BY <1>2, FirstDiffers
<1>4. High(s, t) <=> c < 0 /\ d < 0
  BY DEF High
<1>5. Compare(s, t) = Byte(c) - Byte(d)
  BY <1>3 DEF Compare
<1> HIDE DEF i
<1>6. c \in Char /\ d \in Char
  BY <1>3
<1>7. Digit(c) # Digit(d)
  BY <1>3, <1>6, DigitsTell
<1>8. ~ Digit(d) < Digit(c)
  <2> SUFFICES ASSUME Digit(d) < Digit(c) PROVE FALSE
    OBVIOUS
  <2>1. i \in 1 .. Len(t) /\ \A j \in 1 .. Len(t) : j < i => t[j] = s[j]
    BY <1>3
  <2>2. Number(t) < Number(s)
    BY <2>1, NumberOrder
  <2> QED BY <1>1, <2>2
<1> HIDE DEF c, d
<1> DEFINE B == Base
           H == HalfChar
<1>9. /\ B \in Int /\ B >= 2 /\ c \in Int /\ H \in Nat /\ 2 * H <= B /\ -H <= c /\ c < H
      /\ Digit(c) \in Nat
      /\ c >= 0 => Digit(c) = c
      /\ c < 0 => Digit(c) = H - 1 - c /\ Digit(c) >= H
  BY <1>6, DigitIs
<1>10. /\ d \in Int /\ -H <= d /\ d < H
       /\ Digit(d) \in Nat
       /\ d >= 0 => Digit(d) = d
       /\ d < 0 => Digit(d) = H - 1 - d /\ Digit(d) >= H
  BY <1>6, DigitIs
<1>11. Byte(c) = IF c >= 0 THEN c ELSE c + B
  BY <1>6, ByteIs
<1>12. Byte(d) = IF d >= 0 THEN d ELSE d + B
  BY <1>6, ByteIs
<1> HIDE DEF B, H
<1> DEFINE x == Digit(c)
           y == Digit(d)
<1>13. x < y
  BY <1>7, <1>8, <1>9, <1>10
<1> HIDE DEF x, y
<1>14. CASE c < 0
  <2>1. x = H - 1 - c /\ x >= H
    BY <1>9, <1>14 DEF x
  <2>2. d < 0
    <3> SUFFICES ASSUME ~ d < 0 PROVE FALSE
      OBVIOUS
    <3>1. y = d
      BY <1>10 DEF y
    <3> QED BY <1>9, <1>10, <1>13, <2>1, <3>1
  <2>3. y = H - 1 - d
    BY <1>10, <2>2 DEF y
  <2>4. d < c
    BY <1>9, <1>10, <1>13, <2>1, <2>3
  <2>5. Byte(c) = c + B /\ Byte(d) = d + B
    BY <1>9, <1>10, <1>11, <1>12, <1>14, <2>2
  <2>6. Byte(c) - Byte(d) > 0
    BY <1>9, <1>10, <2>4, <2>5
  <2> QED BY <1>2, <1>4, <1>5, <1>14, <2>2, <2>6 DEF Precedes
<1>15. CASE ~ c < 0
  <2>1. x = c /\ Byte(c) = c
    BY <1>9, <1>11, <1>15 DEF x
  <2>2. Byte(c) - Byte(d) < 0
    <3>1. CASE d < 0
      <4>1. Byte(d) = d + B
        BY <1>10, <1>12, <3>1
      <4> QED BY <1>9, <1>10, <2>1, <4>1
    <3>2. CASE ~ d < 0
      <4>1. y = d /\ Byte(d) = d
        BY <1>10, <1>12, <3>2 DEF y
      <4> QED BY <1>9, <1>10, <1>13, <2>1, <4>1
    <3> QED BY <3>1, <3>2
  <2> QED BY <1>2, <1>4, <1>5, <1>15, <2>2 DEF Precedes
<1> QED BY <1>14, <1>15

-----------------------------------------------------------------------------
(* The tree as the engine's keys see it.                                   *)

\* A string is a sequence of chars, and all have one length.
LEMMA StringIs ==
  ASSUME NEW s \in Strings
  PROVE  s \in Seq(Char) /\ Len(s) = BPT_MOVE_STEP /\ Number(s) \in Keys /\ Number(s) \in Int
<1>1. s \in [1 .. BPT_MOVE_STEP -> Char] /\ Number(s) \in Keys
  BY StringsAssumption DEF StringsAssumption
<1>2. BPT_MOVE_STEP \in Nat
  BY KeyAssumption DEF KeyAssumption
<1>3. s \in Seq(Char) /\ Len(s) = BPT_MOVE_STEP
  BY <1>1, <1>2
<1>4. Keys \subseteq Int
  BY TreeAssumption DEF TreeAssumption
<1> QED BY <1>1, <1>3, <1>4

\* StringOf takes a number back to its string.
LEMMA StringOfIs ==
  ASSUME NEW n \in Keys
  PROVE  StringOf[n] \in Strings /\ Number(StringOf[n]) = n
<1>1. PICK s \in Strings : Number(s) = n
  BY StringsAssumption DEF StringsAssumption
<1>2. NumberOf[s] = n
  BY <1>1 DEF NumberOf
<1>3. StringOf[n] \in Strings /\ NumberOf[StringOf[n]] = n
  BY <1>2 DEF StringOf
<1> QED BY <1>3 DEF NumberOf

\* The order of the numbers is that of the strings.
LEMMA StringsInOrder ==
  ASSUME NEW m \in Keys, NEW n \in Keys, m < n
  PROVE  Precedes(StringOf[m], StringOf[n])
<1> DEFINE s == StringOf[m]
           t == StringOf[n]
<1>1. s \in Strings /\ Number(s) = m
  BY StringOfIs
<1>2. t \in Strings /\ Number(t) = n
  BY StringOfIs
<1> HIDE DEF s, t
<1>3. s \in Seq(Char) /\ Len(s) = BPT_MOVE_STEP
  BY <1>1, StringIs
<1>4. t \in Seq(Char) /\ Len(t) = BPT_MOVE_STEP
  BY <1>2, StringIs
<1>5. Number(s) < Number(t)
  BY <1>1, <1>2
<1>6. Precedes(s, t)
  BY <1>3, <1>4, <1>5, SmallerPrecedes
<1> QED BY <1>6 DEF s, t

\* Records by key.
Stored == [key : Keys, to : Int \union Vals]
ByKey == {x \in Stored \X Stored : x[1].key < x[2].key}
LEMMA ByKeyIs == \A x, y \in Stored : <<x, y>> \in ByKey <=> x.key < y.key
BY DEF ByKey

\* The records of the leaves, from left to right, are in the order of their keys.
LEMMA StoredIs ==
  ASSUME TreeInv, Idle
  PROVE  LET leaves == Leaves
             stored == FlattenSeq([i \in 1 .. Len(leaves) |-> block[leaves[i]].kids])
         IN  stored \in Seq(Stored) /\ Ordered(stored, ByKey)
<1>1. PICK r, p : LeafRow(r, p) /\ Leaves = r /\ \A m \in 1 .. Len(r) : LeafHolds(p, r[m])
  BY LeafRowIs
<1> DEFINE kids(i) == block[r[i]].kids
           seqs == [i \in 1 .. Len(r) |-> kids(i)]
<1>2. Len(r) \in Nat
  BY <1>1 DEF LeafRow
<1>3. \A i \in 1 .. Len(r) : kids(i) \in Seq(Stored) /\ Ordered(kids(i), ByKey)
  <2> SUFFICES ASSUME NEW i \in 1 .. Len(r)
               PROVE  kids(i) \in Seq(Stored) /\ Ordered(kids(i), ByKey)
    OBVIOUS
  <2> DEFINE s == kids(i)
  <2>1. LeafHolds(p, r[i])
    BY <1>1
  <2>2. s \in Seq(Kid) /\ Sorted(s, Len(s)) /\ \A j \in 1 .. Len(s) : s[j].key \in Keys
    BY <2>1 DEF LeafHolds
  <2> HIDE DEF s
  <2>3. \A j \in 1 .. Len(s) : s[j] \in Stored
    <3> SUFFICES ASSUME NEW j \in 1 .. Len(s) PROVE s[j] \in Stored
      OBVIOUS
    <3>1. s[j] \in Kid /\ s[j].key \in Keys
      BY <2>2
    <3> QED BY <3>1 DEF Kid, Stored
  <2>4. s \in Seq(Stored)
    BY <2>2, <2>3
  <2>5. \A j, m \in 1 .. Len(s) : j < m => <<s[j], s[m]>> \in ByKey
    <3> SUFFICES ASSUME NEW j \in 1 .. Len(s), NEW m \in 1 .. Len(s), j < m
                 PROVE  <<s[j], s[m]>> \in ByKey
      OBVIOUS
    <3>1. s[j].key < s[m].key
      BY <2>2 DEF Sorted
    <3> QED BY <2>3, <3>1, ByKeyIs
  <2>6. Ordered(s, ByKey)
    BY <2>5 DEF Ordered
  <2> QED BY <2>4, <2>6 DEF s
<1>4. \A i \in 1 .. Len(r) : \A j \in 1 .. Len(kids(i)) : kids(i)[j].key \in Keys /\ p[kids(i)[j].key] = r[i]
  BY <1>1 DEF LeafHolds
<1>5. \A i, j \in 1 .. Len(r) : i < j => Ahead(p, r[i], r[j])
  BY <1>1 DEF LeafRow
<1>6. seqs \in Seq(Seq(Stored)) /\ Len(seqs) = Len(r) /\ \A i \in 1 .. Len(r) : seqs[i] = kids(i)
  BY <1>2, <1>3
<1> HIDE DEF kids, seqs
<1>7. \A i, j \in 1 .. Len(r) : i < j =>
        \A x \in ToSet(kids(i)), y \in ToSet(kids(j)) : <<x, y>> \in ByKey
  <2> SUFFICES ASSUME NEW i \in 1 .. Len(r), NEW j \in 1 .. Len(r), i < j,
                      NEW x \in ToSet(kids(i)), NEW y \in ToSet(kids(j))
               PROVE  <<x, y>> \in ByKey
    OBVIOUS
  <2>1. kids(i) \in Seq(Stored) /\ kids(j) \in Seq(Stored)
    BY <1>3
  <2>2. PICK a \in 1 .. Len(kids(i)) : x = kids(i)[a]
    BY <2>1 DEF ToSet
  <2>3. PICK b \in 1 .. Len(kids(j)) : y = kids(j)[b]
    BY <2>1 DEF ToSet
  <2>4. x \in Stored /\ y \in Stored
    BY <2>1, <2>2, <2>3
  <2>5. x.key \in Keys /\ p[x.key] = r[i] /\ y.key \in Keys /\ p[y.key] = r[j]
    BY <1>4, <2>2, <2>3
  <2>6. Keys \subseteq Int
    BY TreeAssumption DEF TreeAssumption
  <2>7. x.key < y.key
    BY <1>5, <2>5, <2>6 DEF Ahead
  <2> QED BY <2>4, <2>7, ByKeyIs
<1>8. AllOrdered(seqs, ByKey)
  BY <1>3, <1>6, <1>7 DEF AllOrdered
<1>9. FlattenSeq(seqs) \in Seq(Stored) /\ Ordered(FlattenSeq(seqs), ByKey)
  BY <1>6, <1>8, FlattenIs
<1> QED BY <1>1, <1>9 DEF seqs, kids

\* Between operations the keys stand in the leaves as strings are compared by
\* the engine, but for those that differ first in two bytes of 0x80 or more,
\* which btconf.h's numbers turn round.
THEOREM OrderRight == Spec => []KeysInOrder
<1>1. ASSUME TreeInv PROVE KeysInOrder
  <2> DEFINE stored == FlattenSeq([i \in 1 .. Len(Leaves) |-> block[Leaves[i]].kids])
             strings == [i \in 1 .. Len(stored) |-> StringOf[stored[i].key]]
  <2> SUFFICES ASSUME Idle PROVE IsSorted(strings, Precedes)
    BY DEF KeysInOrder
  <2>1. stored \in Seq(Stored) /\ Ordered(stored, ByKey)
    BY <1>1, StoredIs
  <2> HIDE DEF stored
  <2>2. /\ Len(stored) \in Nat /\ Len(strings) = Len(stored)
        /\ \A i \in 1 .. Len(stored) : strings[i] = StringOf[stored[i].key]
    BY <2>1
  <2> HIDE DEF strings
  <2>3. \A i, j \in 1 .. Len(strings) : i < j => Precedes(strings[i], strings[j])
    <3> SUFFICES ASSUME NEW i \in 1 .. Len(stored), NEW j \in 1 .. Len(stored), i < j
                 PROVE  Precedes(StringOf[stored[i].key], StringOf[stored[j].key])
      BY <2>2
    <3>1. stored[i] \in Stored /\ stored[j] \in Stored
      BY <2>1
    <3>2. stored[i].key < stored[j].key
      BY <2>1, <3>1, ByKeyIs DEF Ordered
    <3>3. stored[i].key \in Keys /\ stored[j].key \in Keys
      BY <3>1 DEF Stored
    <3> QED BY <3>2, <3>3, StringsInOrder
  <2> QED BY <2>3 DEF IsSorted
<1>2. Spec => []TreeInv
  BY TreeInvariant
<1> QED BY <1>1, <1>2, PTL

-----------------------------------------------------------------------------
(* The tree as a map of strings.                                           *)

\* What was put in for each string.
Put == [s \in Strings |-> dict[Number(s)]]

\* Between operations a record is where the search looks exactly for the keys
\* that were put in.
LEMMA HeldIs ==
  ASSUME TreeInv, Idle, NEW k \in Keys
  PROVE  /\ Search(k) = dict[k]
         /\ Holds(block[SearchLeaf(k)].kids, k) <=> dict[k] # Absent
<1>1. PICK r, p : LeafRow(r, p) /\ \A m \in 1 .. Len(r) : LeafHolds(p, r[m])
  BY LeafRowIs
<1>2. k \in Int
  BY TreeAssumption DEF TreeAssumption
<1>3. PICK m \in 1 .. Len(r) : r[m] = p[k] /\ SearchLeaf(k) = p[k]
  BY <1>1, <1>2 DEF LeafRow
<1> DEFINE s == block[SearchLeaf(k)].kids
<1>4. LeafHolds(p, p[k])
  BY <1>1, <1>3
<1>5. /\ s \in Seq(Kid) /\ Sorted(s, Len(s))
      /\ \A i \in 1 .. Len(s) : dict[s[i].key] = s[i].to /\ dict[s[i].key] # Absent
      /\ dict[k] # Absent => \E i \in 1 .. Len(s) : s[i].key = k
  BY <1>3, <1>4 DEF LeafHolds
<1>6. Search(k) = IF Holds(s, k) THEN s[LowerBound(s, k)].to ELSE Absent
  BY DEF Search
<1> HIDE DEF s
<1>7. /\ Holds(s, k) <=> \E i \in 1 .. Len(s) : s[i].key = k
      /\ \A i \in 1 .. Len(s) : s[i].key = k => LowerBound(s, k) = i
  BY <1>2, <1>5, HoldsIs
<1>8. Holds(s, k) <=> dict[k] # Absent
  BY <1>5, <1>7
<1>9. Search(k) = dict[k]
  BY <1>5, <1>6, <1>7
<1> QED BY <1>8, <1>9 DEF s

\* So the map that callers see is what was put in.
LEMMA ShownIs == TreeInv => Shown = Put
<1> SUFFICES ASSUME TreeInv PROVE Shown = Put
  OBVIOUS
<1>1. \A s \in Strings : Number(s) \in Keys /\ NumberOf[s] = Number(s)
  BY StringIs DEF NumberOf
<1> DEFINE found == IF Idle THEN [n \in Keys |-> Search(n)] ELSE dict
<1>2. \A n \in Keys : found[n] = dict[n]
  <2>1. CASE Idle
    BY <2>1, HeldIs
  <2>2. CASE ~Idle
    BY <2>2
  <2> QED BY <2>1, <2>2
<1>3. Shown = [s \in Strings |-> found[NumberOf[s]]]
  BY DEF Shown
<1> HIDE DEF found
<1>4. \A s \in Strings : found[NumberOf[s]] = dict[Number(s)]
  BY <1>1, <1>2
<1> QED BY <1>3, <1>4 DEF Put

\* What is put in for one key is put in for one string.
LEMMA PutOne ==
  ASSUME dict \in [Keys -> Vals \union {Absent}], NEW k \in Keys, NEW v, dict' = [dict EXCEPT ![k] = v]
  PROVE  /\ StringOf[k] \in Strings /\ Put[StringOf[k]] = dict[k]
         /\ Put' = [Put EXCEPT ![StringOf[k]] = v]
<1> DEFINE t == StringOf[k]
<1>1. t \in Strings /\ Number(t) = k
  BY StringOfIs
<1> HIDE DEF t
<1>2. \A s \in Strings : Number(s) \in Keys /\ (Number(s) = k <=> s = t)
  <2> SUFFICES ASSUME NEW s \in Strings PROVE Number(s) \in Keys /\ (Number(s) = k <=> s = t)
    OBVIOUS
  <2>1. s \in Seq(Char) /\ Len(s) = BPT_MOVE_STEP /\ Number(s) \in Keys
    BY StringIs
  <2>2. t \in Seq(Char) /\ Len(t) = BPT_MOVE_STEP
    BY <1>1, StringIs
  <2>3. Number(s) = k => s = t
    BY <1>1, <2>1, <2>2, NumbersTell
  <2> QED BY <1>1, <2>1, <2>3
<1>3. Put[t] = dict[k]
  BY <1>1 DEF Put
<1>4. Put' = [s \in Strings |-> dict'[Number(s)]]
  BY DEF Put
<1>5. \A s \in Strings : dict'[Number(s)] = IF s = t THEN v ELSE dict[Number(s)]
  BY <1>2
<1>6. [Put EXCEPT ![t] = v] = [s \in Strings |-> IF s = t THEN v ELSE dict[Number(s)]]
  BY <1>1 DEF Put
<1>7. Put' = [Put EXCEPT ![t] = v]
  BY <1>4, <1>5, <1>6
<1> QED BY <1>1, <1>3, <1>7 DEF t

\* Each step of the tree inserts or updates one string, or changes none.
LEMMA PutStep ==
  ASSUME TreeInv, [Next]_vars, Shown = Put, Shown' = Put'
  PROVE  [StringMap!Next]_Shown
<1>1. dict \in [Keys -> Vals \union {Absent}] /\ played \in 0 .. Len(Script)
  BY DEF TreeInv, Types
<1>2. ASSUME NEW k \in NextKeys, NEW v \in NewVals, Insert(k, v) PROVE [StringMap!Next]_Shown
  <2>1. k \in Keys /\ v \in Vals
    <3>1. NewVals \subseteq Vals /\ Script \in Seq(Keys)
      BY TreeAssumption DEF TreeAssumption
    <3>2. CASE Free
      BY <3>1, <3>2 DEF NextKeys
    <3>3. CASE ~Free
      <4>1. k = Script[played + 1]
        BY <3>3 DEF NextKeys
      <4>2. played + 1 \in 1 .. Len(Script)
        BY <1>1, <3>1, <3>3 DEF Free
      <4> QED BY <3>1, <4>1, <4>2
    <3> QED BY <3>2, <3>3
  <2>2. /\ Idle /\ ~Holds(block[SearchLeaf(k)].kids, k)
        /\ dict' = [dict EXCEPT ![k] = v]
    BY <1>2 DEF Insert
  <2>3. dict[k] = Absent
    BY <2>1, <2>2, HeldIs
  <2>4. /\ StringOf[k] \in Strings /\ Put[StringOf[k]] = Absent
        /\ Put' = [Put EXCEPT ![StringOf[k]] = v]
    BY <1>1, <2>1, <2>2, <2>3, PutOne
  <2>5. StringMap!Insert(StringOf[k], v)
    BY <2>4 DEF StringMap!Insert
  <2> QED BY <2>1, <2>4, <2>5 DEF StringMap!Next
<1>3. ASSUME NEW k \in Updatable, NEW v \in Vals, Update(k, v) PROVE [StringMap!Next]_Shown
  <2>1. k \in Keys
    BY TreeAssumption DEF TreeAssumption
  <2>2. Idle /\ Holds(block[SearchLeaf(k)].kids, k) /\ dict' = [dict EXCEPT ![k] = v]
    BY <1>3 DEF Update
  <2>3. dict[k] # Absent
    BY <2>1, <2>2, HeldIs
  <2>4. /\ StringOf[k] \in Strings /\ Put[StringOf[k]] # Absent
        /\ Put' = [Put EXCEPT ![StringOf[k]] = v]
    BY <1>1, <2>1, <2>2, <2>3, PutOne
  <2>5. StringMap!Update(StringOf[k], v)
    BY <2>4 DEF StringMap!Update
  <2> QED BY <2>4, <2>5 DEF StringMap!Next
<1>4. ASSUME Unmap \/ InsertKeyToIndex \/ Reopen \/ UNCHANGED vars PROVE [StringMap!Next]_Shown
  <2>1. dict' = dict
    BY <1>4 DEF Unmap, InsertKeyToIndex, Reopen, vars
  <2>2. Put' = Put
    BY <2>1 DEF Put
  <2> QED BY <2>2
<1> QED BY <1>2, <1>3, <1>4 DEF Next

\* The tree is the map of strings that index.cc takes it for: an insert of a
\* key of the engine is refused if it is there and else adds that key alone,
\* an update changes that key alone, and no other step, in whatever state it
\* leaves the file, changes what search finds: no two keys share a number.
THEOREM TreeIsAStringMap == Spec => ImplementsStringMap
<1>1. Spec => []TreeInv
  BY TreeInvariant
<1>2. TreeInv => Shown = Put
  BY ShownIs
<1>3. Init /\ TreeInv => StringMap!Init
  <2> SUFFICES ASSUME Init, TreeInv PROVE StringMap!Init
    OBVIOUS
  <2>1. Shown = Put /\ dict = [n \in Keys |-> Absent]
    BY <1>2 DEF Init
  <2>2. \A s \in Strings : Number(s) \in Keys
    BY StringIs
  <2>3. Put = [s \in Strings |-> Absent]
    BY <2>1, <2>2 DEF Put
  <2> QED BY <2>1, <2>3 DEF StringMap!Init
<1>4. TreeInv /\ Shown = Put /\ (Shown = Put)' /\ [Next]_vars => [StringMap!Next]_Shown
  BY PutStep
<1> QED BY <1>1, <1>2, <1>3, <1>4, PTL DEF Spec, ImplementsStringMap, StringMap!Spec
=============================================================================
