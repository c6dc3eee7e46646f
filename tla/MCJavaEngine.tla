---------------------------- MODULE MCJavaEngine ----------------------------
(***************************************************************************)
(* Threads and values are interchangeable; keys, which share key.db with   *)
(* positions, are numbers.                                                 *)
(***************************************************************************)
EXTENDS JavaEngine

Symmetric == Permutations(Writers) \union Permutations(Vals)
=============================================================================
