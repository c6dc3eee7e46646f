------------------------------ MODULE IndexMap ------------------------------
(***************************************************************************)
(* What CPP/index.cc expects of its tree: a map from keys to values whose  *)
(* insert refuses a key it holds, whose update refuses one it does not.    *)
(* The tree's header promises remove too, which index.cc does not use.     *)
(***************************************************************************)
CONSTANTS Keys, Vals,
          Absent        \* the value of a key that is not in the map

VARIABLE map

Init == map = [k \in Keys |-> Absent]

Insert(k, v) == /\ map[k] = Absent
                /\ map' = [map EXCEPT ![k] = v]

Update(k, v) == /\ map[k] # Absent
                /\ map' = [map EXCEPT ![k] = v]

Remove(k) == /\ map[k] # Absent
             /\ map' = [map EXCEPT ![k] = Absent]

Next == \E k \in Keys : Remove(k) \/ \E v \in Vals : Insert(k, v) \/ Update(k, v)

Spec == Init /\ [][Next]_map
=============================================================================
