-------------------------- MODULE MCBPlusTreeCrash --------------------------
(* TLC instance of BPlusTreeCrash: 22 ascending keys of order 4 make the    *)
(* root grow once, so that there are leaves, nodes and a root; the next     *)
(* ascending key splits a node below the root.                              *)
EXTENDS BPlusTreeCrash

Ascending == [i \in 1 .. 22 |-> 10 * i]
CrashKeys == {Ascending[i] : i \in 1 .. 22} \union {15, 225}
CrashUpdated == {220}
=============================================================================
