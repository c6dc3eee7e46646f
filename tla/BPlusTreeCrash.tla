--------------------------- MODULE BPlusTreeCrash ---------------------------
(***************************************************************************)
(* CPP/bt.cc when the process is killed inside insert or update and the    *)
(* tree is opened again.  Each unmap opens, writes and closes the file, so *)
(* a kill falls between two block writes; nothing repairs the file, the    *)
(* constructor only reads the meta block.                                  *)
(*                                                                         *)
(* After the kill, dict is what search still finds.                        *)
(***************************************************************************)
EXTENDS BPlusTree

CONSTANT MaxKills   \* bound on the kills

ASSUME CrashAssumption == MaxKills \in Nat

VARIABLES
  kills,
  before   \* dict and meta before the running operation

cvars == <<vars, kills, before>>

Now == [dict |-> dict, meta |-> meta]

\* meta, the new root and the parents of its children are written one after
\* the other, and so are meta, the root and the leaf of an empty tree.
\* Between these writes the file has no usable root: search would follow a
\* block that is not there, and the next split of a child of the root would
\* build a second root beside it.
Rooted ==
  /\ meta.root_offset \in DOMAIN block
  /\ \A kid \in ToSet(block[meta.root_offset].kids) :
       kid.to \in DOMAIN block /\ block[kid.to].parent = meta.root_offset

\* After a kill that leaves no usable root, what follows is undefined.
Usable == kills = 0 \/ Rooted

\* The constructor has created the file ("w+") and init_from_empty is about
\* to write.
NoMeta == [FirstMeta EXCEPT !.height = 0]
Birth  == <<Meta(FirstMeta), Whole(1, FirstRoot), Whole(2, FirstLeaf)>>
CrashInit ==
  /\ block = << >> /\ saved = NoMeta
  /\ meta = FirstMeta /\ todo = Birth /\ up = NoKey
  /\ dict = [k \in Keys |-> Absent] /\ played = 0
  /\ kills = 0
  /\ before = [dict |-> dict, meta |-> NoMeta]

\* The writes and levels still to come are lost.  bplus_tree::bplus_tree
\* reads meta, or starts anew when there is none.
Kill ==
  /\ kills < MaxKills /\ ~Idle
  /\ kills' = kills + 1
  /\ UNCHANGED <<block, saved, played>>
  /\ up' = NoKey
  /\ IF saved = NoMeta THEN todo' = Birth /\ UNCHANGED <<meta, dict, before>>
     ELSE /\ todo' = << >>
          /\ meta' = saved
          /\ dict' = IF Rooted' THEN [k \in Keys |-> Search(k)'] ELSE dict
          /\ before' = Now'

Operate ==
  /\ Idle => Usable
  /\ Next
  /\ before' = IF Idle' THEN Now' ELSE IF Idle THEN Now ELSE before
  /\ UNCHANGED kills

CrashSpec == CrashInit /\ [][Operate \/ Kill]_cvars

-----------------------------------------------------------------------------
\* The tree that a kill leaves is a tree: whatever is inserted and updated
\* afterwards, further kills included, search finds what was left and what
\* came later, and nothing else.  In particular lost blocks are not used
\* again, and a lost key that is inserted anew never meets its old record.
SurvivorsFound == Idle /\ Usable => \A k \in Keys : Search(k) = dict[k]

\* The parents that the next splits will follow are right in what is left.
SurvivorsParented == Idle /\ Usable => ParentsRight

\* What a kill can cost.  It invents nothing: a key keeps its value, or the
\* running operation's, or is gone.  Keys are lost only while a split is
\* being written, and then they are neighbours: no key between two lost ones
\* is kept.  Only a kill while the tree is created
\* or grows a level costs the root.
Lost(was) == {k \in Keys : was.dict[k] # Absent /\ dict'[k] = Absent}
KillCosts ==
  LET lost == Lost(before) IN
  /\ Idle' /\ ~Rooted' => meta.height # before.meta.height
  /\ Rooted' =>
       /\ \A k \in Keys : dict'[k] \in {before.dict[k], dict[k], Absent}
       /\ lost # {} => meta.slot # before.meta.slot
       /\ \A a, c \in lost : \A b \in Keys :
            a < b /\ b < c /\ before.dict[b] # Absent => b \in lost
KillConfined == [][kills' # kills => KillCosts]_cvars
=============================================================================
