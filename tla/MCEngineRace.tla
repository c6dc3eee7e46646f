---------------------------- MODULE MCEngineRace ----------------------------
(* TLC instances of EngineRace: "a" and "b" share a value file, "c" has the *)
(* other one.                                                               *)
EXTENDS EngineRace

MCRawHash == [k \in Keys |-> CASE k = "a" -> -8 [] k = "b" -> 4 [] k = "c" -> -5]

\* What tells two states apart: of a thread in no call, nothing that its last
\* call left behind, which no action and no invariant but the types looks at.
Shown ==
  <<file, buf, pos, lock, acked, counts, index, rooted, epc, done,
    [t \in Threads |->
       IF epc[t] = "idle" THEN << >>
       ELSE <<pc[t], key[t], val[t], at[t], got[t], want[t], ret[t], owed[t]>>]>>
=============================================================================
