------------------------------ MODULE KVStore ------------------------------
(***************************************************************************)
(* What include/engine.h promises: Write(key, value) and Read(key) act on  *)
(* one map, each at a single instant between its call and its return.      *)
(*                                                                         *)
(* engine.h says nothing of a killed process.  Here a kill while no Write  *)
(* runs loses the calls and nothing else, but a kill before the map holds  *)
(* anything may break it.  A kill during a Write may take any keys with    *)
(* it, returned ones too, or break the map.  It stays broken, and what it  *)
(* answers then is open.                                                   *)
(***************************************************************************)
CONSTANTS Threads, Keys, Vals,
          NotFound      \* what a Read of an absent key reports, not a value

VARIABLES
  store,   \* the map: a value or NotFound for every key
  call,    \* per thread: the call it is in
  broken   \* has a kill broken the map?

Idle       == [op |-> "idle"]
Writing    == [op : {"write"}, key : Keys, val : Vals]
Written    == [op : {"written"}]
Reading    == [op : {"read"}, key : Keys]
Answered   == [op : {"answer"}, val : Vals \union {NotFound}]

Empty == [k \in Keys |-> NotFound]
Quiet == [t \in Threads |-> Idle]

Init == store = Empty /\ call = Quiet /\ broken = FALSE

Begin(t) == /\ call[t] = Idle
            /\ \E c \in Writing \union Reading : call' = [call EXCEPT ![t] = c]
            /\ UNCHANGED store

\* The instant of a Write, and of a Read.
Put(t) == /\ call[t].op = "write"
          /\ store' = [store EXCEPT ![call[t].key] = call[t].val]
          /\ call'  = [call EXCEPT ![t] = [op |-> "written"]]

Get(t) == /\ call[t].op = "read"
          /\ call' = [call EXCEPT ![t] = [op |-> "answer", val |-> store[call[t].key]]]
          /\ UNCHANGED store

Return(t) == /\ call[t].op \in {"written", "answer"}
             /\ call' = [call EXCEPT ![t] = Idle]
             /\ UNCHANGED store

\* A kill during t's Write: keys are lost, and no other value is changed.
Lose(t) ==
  \E lost \in SUBSET Keys :
    store' = [k \in Keys |-> IF k \in lost THEN NotFound
                             ELSE IF k = call[t].key THEN call[t].val ELSE store[k]]

\* The process is killed: the calls are gone.
Kill == /\ call' = Quiet
        /\ \/ UNCHANGED <<store, broken>>
           \/ store = Empty /\ call = Quiet /\ broken'
           \/ \E t \in Threads : /\ call[t].op = "write"
                                 /\ broken' \/ (Lose(t) /\ UNCHANGED broken)

Next == \/ /\ \E t \in Threads : Begin(t) \/ Put(t) \/ Get(t) \/ Return(t)
           /\ UNCHANGED broken
        \/ Kill
        \/ broken /\ broken'

Spec == Init /\ [][Next]_<<store, call, broken>>
=============================================================================
