-------------------------- MODULE BPlusTreeRange ---------------------------
(***************************************************************************)
(* CPP/bt.cc: search_range, which copies at most max values of the keys    *)
(* from left to right and tells its caller where to go on.  It writes      *)
(* nothing, so it is an operator on the state of BPlusTree.                *)
(***************************************************************************)
EXTENDS BPlusTree

CONSTANT MaxRange   \* bound: the largest max of a call

ASSUME RangeAssumption == MaxRange \in Nat

\* Fault: the record of the right end itself is left out.
UpTo_Open(kids, right) == SubSeq(kids, 1, LowerBound(kids, right) - 1)
\* begin to upper_bound, and find to end, in a leaf
UpTo(kids, right) == SubSeq(kids, 1, Cardinality({i \in 1 .. Len(kids) : kids[i].key <= right}))
From(kids, left)  == SubSeq(kids, LowerBound(kids, left), Len(kids))

\* The records whose values are copied, whether there is more, and the left
\* end of the next call.  walk[off][i]: what the leaves from off on add when
\* i records have been copied, and what the last leaf visited still has.
\* With max = 0 the code reads uninitialized pointers (bt.cc:127).
SearchRange(left, right, max) ==
  LET first == SearchLeaf(left)
      last  == SearchLeaf(right)
      walk[off \in DOMAIN block] == [i \in 0 .. max |->
        LET here == IF off = last THEN UpTo(From(block[off].kids, left), right)
                    ELSE IF off = first THEN From(block[off].kids, left)
                    ELSE block[off].kids
            n    == IF Len(here) < max - i THEN Len(here) ELSE max - i
            on   == IF block[off].next = 0 THEN last ELSE block[off].next
        IN  IF off = last \/ i + n = max
            THEN [copied |-> SubSeq(here, 1, n), rest |-> SubSeq(here, n + 1, Len(here))]
            ELSE LET others == walk[on][i + n]
                 IN  [others EXCEPT !.copied = SubSeq(here, 1, n) \o @]]
      result == walk[first][0]
      next   == Len(result.copied) = max /\ result.rest # << >>
  IN  [copied |-> result.copied, next |-> next,
       left |-> IF next THEN result.rest[1].key ELSE left]

-----------------------------------------------------------------------------
\* What there is to find, in order: the i-th key has i - 1 smaller ones.
Present(left, right) ==
  LET found == {k \in Keys : left <= k /\ k <= right /\ dict[k] # Absent}
  IN  [i \in 1 .. Cardinality(found) |->
         CHOOSE k \in found : Cardinality({x \in found : x < k}) = i - 1]

Calls == {call \in Keys \X Keys \X (1 .. MaxRange) : call[1] <= call[2]}

\* A call of search_range copies the first max values of the range, in key
\* order, over any number of leaves; when it reports more, its left is the
\* next key: no record is skipped, repeated or from outside the range.  It
\* may report that there is no more although there is (bt.cc:127 looks at the
\* leaf at hand), but only if the last record it copied ends a leaf.
RangeExact ==
  Idle => \A call \in Calls :
    LET found == SearchRange(call[1], call[2], call[3])
        keys  == Present(call[1], call[2])
        more  == Len(keys) > call[3]
    IN
    /\ found.copied = [i \in 1 .. Len(found.copied) |-> [key |-> keys[i], to |-> dict[keys[i]]]]
    /\ Len(found.copied) = IF more THEN call[3] ELSE Len(keys)
    /\ found.next => more /\ found.left = keys[call[3] + 1]
    /\ more /\ ~found.next =>
         Last(block[SearchLeaf(keys[call[3]])].kids).key = keys[call[3]]
=============================================================================
