--------------------------- MODULE MCTestProgram ---------------------------
(* TLC instances of TestProgram: "min", whose hash has no negation, and     *)
(* "pos" share a value file.                                                *)
EXTENDS TestProgram

MCRawHash == [k \in Keys |-> CASE k = "min" -> -8 [] k = "pos" -> 4]
\* Two values of one key, so that writes overwrite; v3 has the other key.
MCKeyFromValue == [v \in Vals |-> IF v = "v3" THEN "pos" ELSE "min"]
=============================================================================
