-------------------------- MODULE EngineLifecycle --------------------------
(***************************************************************************)
(* CPP/engine_race.cc, engine_race.h: what Open and delete do to the       *)
(* pointers value_resources and index, which are static: every EngineRace  *)
(* of the process has the same two.  Open makes two new objects whatever   *)
(* the pointers hold, and the destructor of any engine deletes the two     *)
(* they address.                                                           *)
(*                                                                         *)
(* One thread (main) opens and deletes engines; other threads call.  main  *)
(* may break two habits of CPP/main.cc: alone says that no engine was      *)
(* opened beside another, apart that no call ran beside an Open or a       *)
(* delete.                                                                 *)
(***************************************************************************)
EXTENDS Naturals, Sequences

CONSTANTS
  Engines,    \* handles of EngineRace objects
  Callers,    \* threads that call Write and Read
  MaxOpens    \* bound on the calls of Open

ASSUME LifecycleAssumption == MaxOpens \in Nat

VARIABLES
  value_resources, index,   \* the Open whose object they address, 0: nullptr
  live,      \* objects that exist: [of |-> field, open |-> number of the Open]
  opens,     \* calls of Open so far
  engine,    \* per handle: the number of the Open that made it, 0: no engine
  main,      \* where main is in Open or in ~EngineRace
  owner,     \* per caller: the engine it is calling, 0: none
  todo,      \* per caller: pointers still to be followed, in order
  seen,      \* per caller: the objects the call has used
  fate,      \* of the process: "runs", "null" or "freed": what was dereferenced
  alone, apart

lvars == <<value_resources, index, live, opens, engine, main, owner, todo,
           seen, fate, alone, apart>>
pointers == <<value_resources, index, live>>
habits   == <<alone, apart>>

Fields == {"value_resources", "index"}
Opening == {"new_values", "new_index"}
Object(f, n) == [of |-> f, open |-> n]
Pointer(f)   == IF f = "index" THEN index ELSE value_resources

LifecycleInit ==
  /\ value_resources = 0 /\ index = 0 /\ live = {}
  /\ opens = 0
  /\ engine = [e \in Engines |-> 0]
  /\ main = "idle"
  /\ owner = [t \in Callers |-> 0]
  /\ todo = [t \in Callers |-> << >>]
  /\ seen = [t \in Callers |-> {}]
  /\ fate = "runs"
  /\ alone = TRUE /\ apart = TRUE

Quiet == \A t \in Callers : owner[t] = 0

Goto(from, to) == fate = "runs" /\ main = from /\ main' = to

-----------------------------------------------------------------------------
(* EngineRace::Open *)

BeginOpen(e) ==
  /\ Goto("idle", "new_values")
  /\ engine[e] = 0 /\ opens < MaxOpens
  /\ opens' = opens + 1
  /\ engine' = [engine EXCEPT ![e] = opens + 1]
  /\ alone' = (alone /\ \A d \in Engines : engine[d] = 0)
  /\ apart' = (apart /\ Quiet)
  /\ UNCHANGED <<pointers, owner, todo, seen, fate>>

NewValueResources ==
  /\ Goto("new_values", "new_index")
  /\ value_resources' = opens
  /\ live' = live \union {Object("value_resources", opens)}
  /\ UNCHANGED <<index, opens, engine, owner, todo, seen, fate, habits>>

\* Fault: an index that is there is kept.
NewIndex_Once ==
  /\ Goto("new_index", "idle")
  /\ index' = IF index = 0 THEN opens ELSE index
  /\ live' = live \union {Object("index", index')}
  /\ UNCHANGED <<value_resources, opens, engine, owner, todo, seen, fate, habits>>

NewIndex ==
  /\ Goto("new_index", "idle")
  /\ index' = opens
  /\ live' = live \union {Object("index", opens)}
  /\ UNCHANGED <<value_resources, opens, engine, owner, todo, seen, fate, habits>>

-----------------------------------------------------------------------------
(* EngineRace::~EngineRace; delete nullptr does nothing *)

Delete(f) ==
  /\ live' = live \ {Object(f, Pointer(f))}
  /\ fate' = IF Pointer(f) # 0 /\ Object(f, Pointer(f)) \notin live THEN "freed" ELSE fate

DeleteValues(e) ==
  /\ Goto("idle", "null_values")
  /\ engine[e] # 0
  /\ engine' = [engine EXCEPT ![e] = 0]
  /\ apart' = (apart /\ Quiet)
  /\ Delete("value_resources")
  /\ UNCHANGED <<value_resources, index, opens, owner, todo, seen, alone>>

\* Fault: the pointer keeps its value.
NullValues_Kept ==
  /\ Goto("null_values", "delete_index")
  /\ UNCHANGED <<pointers, opens, engine, owner, todo, seen, fate, habits>>

NullValues ==
  /\ Goto("null_values", "delete_index")
  /\ value_resources' = 0
  /\ UNCHANGED <<index, live, opens, engine, owner, todo, seen, fate, habits>>

\* Fault: the index is only forgotten.
DeleteIndex_Leak ==
  /\ Goto("delete_index", "null_index")
  /\ UNCHANGED <<pointers, opens, engine, owner, todo, seen, fate, habits>>

DeleteIndex ==
  /\ Goto("delete_index", "null_index")
  /\ Delete("index")
  /\ UNCHANGED <<value_resources, index, opens, engine, owner, todo, seen, habits>>

NullIndex ==
  /\ Goto("null_index", "idle")
  /\ index' = 0
  /\ UNCHANGED <<value_resources, live, opens, engine, owner, todo, seen, fate, habits>>

-----------------------------------------------------------------------------
\* Write follows value_resources, then index; Read the other way round.
Orders == {<<"value_resources", "index">>, <<"index", "value_resources">>}

\* Open hands its engine out when it is done.
Call(t, e) ==
  /\ fate = "runs"
  /\ owner[t] = 0 /\ engine[e] # 0
  /\ main \in Opening => engine[e] # opens
  /\ \E fields \in Orders : todo' = [todo EXCEPT ![t] = fields]
  /\ owner' = [owner EXCEPT ![t] = engine[e]]
  /\ seen' = [seen EXCEPT ![t] = {}]
  /\ apart' = (apart /\ main = "idle")
  /\ UNCHANGED <<pointers, opens, engine, main, fate, alone>>

\* value_resources->..., index->...
Follow(t) ==
  LET f == Head(todo[t])
      o == Object(f, Pointer(f))
  IN
  /\ fate = "runs"
  /\ todo[t] # << >>
  /\ fate' = IF Pointer(f) = 0 THEN "null" ELSE IF o \notin live THEN "freed" ELSE fate
  /\ todo' = [todo EXCEPT ![t] = Tail(@)]
  /\ seen' = [seen EXCEPT ![t] = @ \union {o}]
  /\ UNCHANGED <<pointers, opens, engine, main, owner, habits>>

CallReturns(t) ==
  /\ fate = "runs"
  /\ owner[t] # 0 /\ todo[t] = << >>
  /\ owner' = [owner EXCEPT ![t] = 0]
  /\ UNCHANGED <<pointers, opens, engine, main, todo, seen, fate, habits>>

LifecycleNext ==
  \/ \E e \in Engines : BeginOpen(e) \/ DeleteValues(e)
  \/ NewValueResources \/ NewIndex
  \/ NullValues \/ DeleteIndex \/ NullIndex
  \/ \E t \in Callers : Follow(t) \/ CallReturns(t) \/ \E e \in Engines : Call(t, e)

LifecycleSpec == LifecycleInit /\ [][LifecycleNext]_lvars

-----------------------------------------------------------------------------
\* With any number of engines open, nothing that was deleted is used or
\* deleted again, if calls keep apart from Open and delete: the destructor
\* of one engine deletes what another made, and resets the pointers.
NoFreedUse == apart => fate # "freed"

\* Then a call never mixes the index of one directory with the value files
\* of another: both belong to one Open, that of its engine or a later one,
\* so an offset is looked up beside the files it addresses.
OneOpenPerCall ==
  apart /\ fate = "runs" =>
    \A t \in Callers : owner[t] # 0 =>
      \E n \in owner[t] .. opens : \A o \in seen[t] : o.open = n

\* One engine at a time, as in main.cc: calls work on the objects of their own
\* engine, and when it is deleted nothing is left of them, the 64 open files
\* of ValueResources included.
AloneIsSafe ==
  apart /\ alone =>
    /\ fate = "runs"
    /\ \A t \in Callers : owner[t] # 0 => \A o \in seen[t] : o.open = owner[t]
    /\ main = "idle" /\ (\A e \in Engines : engine[e] = 0) => live = {}
-----------------------------------------------------------------------------
(* Why: the parts of the inductive invariant *)

LifecycleTypeOK ==
  /\ value_resources \in 0 .. opens /\ index \in 0 .. opens
  /\ opens \in Nat
  /\ live \subseteq [of : Fields, open : 1 .. opens]
  /\ engine \in [Engines -> 0 .. opens]
  /\ main \in {"idle", "null_values", "delete_index", "null_index"} \union Opening
  /\ owner \in [Callers -> 0 .. opens]
  /\ \A t \in Callers : todo[t] # << >> => owner[t] # 0
  /\ todo \in [Callers -> Seq(Fields)]
  /\ seen \in [Callers -> SUBSET [of : Fields, open : 0 .. opens]]
  /\ fate \in {"runs", "null", "freed"}
  /\ alone \in BOOLEAN /\ apart \in BOOLEAN

\* Both pointers are of the last Open, or null, but for the steps between.
Paired ==
  /\ main \in {"idle", "new_values", "null_values"} => value_resources = index
  /\ main \in {"idle", "null_values"} => value_resources \in {0, opens}
  /\ main = "new_index" => value_resources = opens
  /\ main \in {"delete_index", "null_index"} => value_resources = 0
  /\ main \in Opening => opens # 0

\* A pointer that is not about to be reset addresses an object.
Addressed ==
  /\ value_resources # 0 /\ main # "null_values" =>
       Object("value_resources", value_resources) \in live
  /\ index # 0 /\ main # "null_index" => Object("index", index) \in live

\* No call runs while main opens or deletes; calls see the last Open.
KeptApart ==
  apart => /\ fate # "freed"
           /\ main # "idle" => Quiet
           /\ \A t \in Callers : owner[t] # 0 /\ fate = "runs" =>
                \A o \in seen[t] : o.open = opens

\* One engine at a time: what there is of it at each step of main.
Objects == {Object("value_resources", value_resources), Object("index", index)}
KeptAlone ==
  alone =>
    /\ \A d, e \in Engines : engine[d] # 0 /\ engine[e] # 0 => d = e
    /\ \A e \in Engines : engine[e] # 0 =>
         /\ engine[e] = opens /\ main \in {"idle"} \union Opening
         /\ main = "idle" => value_resources = opens
    /\ main \in Opening \/ (main = "idle" /\ value_resources # 0) =>
         \E e \in Engines : engine[e] # 0
    /\ live = CASE main = "idle" -> IF value_resources = 0 THEN {} ELSE Objects
               [] main = "new_index" -> {Object("value_resources", opens)}
               [] main \in {"null_values", "delete_index"} ->
                    IF index = 0 THEN {} ELSE {Object("index", index)}
               [] main \in {"new_values", "null_index"} -> {}

\* Both habits: a call meets its engine's objects.
CallsAtHome ==
  apart /\ alone =>
    /\ fate = "runs"
    /\ \A t \in Callers : owner[t] # 0 => owner[t] = opens /\ value_resources = opens

LifecycleInv == LifecycleTypeOK /\ Paired /\ Addressed /\ KeptApart /\ KeptAlone /\ CallsAtHome
=============================================================================
