-------------------------- MODULE MCValueResources --------------------------
(***************************************************************************)
(* TLC instances of ValueResources.  int is 4 bits wide and there are two  *)
(* value files, so the hash of "min" is the one int without a negation;    *)
(* "min" and "pos" share a file, "neg" has the other one.                  *)
(***************************************************************************)
EXTENDS ValueResources

MCRawHash == [k \in Keys |-> CASE k = "min" -> -8 [] k = "pos" -> 4 [] k = "neg" -> -5]
=============================================================================
