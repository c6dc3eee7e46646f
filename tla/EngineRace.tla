----------------------------- MODULE EngineRace -----------------------------
(***************************************************************************)
(* CPP/engine_race.cc over CPP/value_resources.cc and CPP/index.cc.        *)
(*                                                                         *)
(* Write stores the value, then enters the offset in the index (insert, or *)
(* update when the key exists); Read asks the index for the offset, then   *)
(* reads the value file.  No lock spans the two halves.  The index is the  *)
(* map IndexMap promises: one tree operation under index_lock is one step, *)
(* for every thread but not for a kill.  An insert is several writes to    *)
(* the tree's file (bt.cc:265-270, 551-556, 595-603), and a kill between   *)
(* two of them costs what BPlusTreeCrash finds: keys, or the tree's root.  *)
(*                                                                         *)
(* Wired: the bodies of index.cc are commented out at this commit, while   *)
(* CPP/lib/libengine.a, the archive check.sh links, was built with them.   *)
(* TRUE is the program with them, FALSE the text as it stands: add() does  *)
(* nothing and get() ends without a return.                                *)
(***************************************************************************)
EXTENDS ValueResources

CONSTANTS Wired, NotFound

ASSUME EngineAssumption == Wired \in BOOLEAN /\ NotFound \notin Vals

VARIABLES
  index,   \* the B+ tree as a map: key -> offset, -1 when absent; it says
           \* nothing once the tree has lost its root
  rooted,  \* does the tree's file have a usable root (BPlusTreeCrash.Rooted)?
  epc,     \* per thread: where it is in Write or Read
  want,    \* per thread: Read's key
  ret,     \* per thread: Read's return code
  done,    \* history: the keys a Write returned kSucc for, with no kill
           \* inside an insert since
  owed     \* history, per thread: was Read's key done when Read began?

evars == <<vars, index, rooted, epc, want, ret, done, owed>>

InWrite == {"value_write", "insert", "update", "write_end"}
InRead  == {"get", "value_read", "read_end"}

\* main.cc joins the writers before it starts the readers.
Phase(steps) == Overlap \/ \A t \in Threads : epc[t] \notin steps

\* The promise BPlusTree is shown to keep.
Tree == INSTANCE IndexMap WITH Vals <- Nat, Absent <- -1, map <- index

\* Is there a tree that does what IndexMap promises?
HasTree == Wired /\ rooted

EGoto(t, from, to) == epc[t] = from /\ epc' = [epc EXCEPT ![t] = to]

EngineInit ==
  /\ Init
  /\ index = [k \in Keys |-> -1]
  /\ rooted = TRUE
  /\ epc  = [t \in Threads |-> "idle"]
  /\ want = NoKeys
  /\ ret  = [t \in Threads |-> "kSucc"]
  /\ done = {}
  /\ owed = [t \in Threads |-> FALSE]

-----------------------------------------------------------------------------
(* EngineRace::Write *)

Write(t, k, v) ==
  /\ Phase(InRead)
  /\ EGoto(t, "idle", "value_write")
  /\ CallWrite(t, k, v)
  /\ UNCHANGED <<index, rooted, want, ret, done, owed>>

\* Fault: the key is indexed before write() has returned.
ValueWrite_Early(t) ==
  /\ epc[t] = "value_write"
  /\ WriteStep(t)
  /\ epc' = [epc EXCEPT ![t] = IF pc'[t] = "unlock" THEN "insert" ELSE @]
  /\ UNCHANGED <<index, rooted, want, ret, done, owed>>

\* value_resources->write(), up to the offset it returns
ValueWrite(t) ==
  /\ epc[t] = "value_write"
  /\ WriteStep(t)
  /\ epc' = [epc EXCEPT ![t] = IF pc'[t] = "idle" THEN "insert" ELSE @]
  /\ UNCHANGED <<index, rooted, want, ret, done, owed>>

\* Fault: the offset is the end of the file once the mutex is released.
Insert_Late(t) ==
  /\ \/ EGoto(t, "insert", "write_end") /\ Tree!Insert(key[t], Len(file[Mine(t)]))
     \/ EGoto(t, "insert", "update") /\ index[key[t]] # -1 /\ UNCHANGED index
  /\ UNCHANGED <<vars, rooted, want, ret, done, owed>>

\* index->add(): tree->insert() refuses a key it holds, with 1.  In a tree
\* without a root it may find any key, and what it writes is lost.
Insert(t) ==
  /\ \/ EGoto(t, "insert", "write_end") /\ HasTree /\ Tree!Insert(key[t], at[t])
     \/ /\ EGoto(t, "insert", "update") /\ Wired
        /\ rooted => index[key[t]] # -1
        /\ UNCHANGED index
     \/ EGoto(t, "insert", "write_end") /\ ~HasTree /\ UNCHANGED index
  /\ UNCHANGED <<vars, rooted, want, ret, done, owed>>

\* Fault: a key that exists keeps its offset.
Update_None(t) ==
  /\ EGoto(t, "update", "write_end")
  /\ UNCHANGED <<vars, index, rooted, want, ret, done, owed>>

\* index->add(): the lock was released since insert().
Update(t) ==
  /\ EGoto(t, "update", "write_end")
  /\ IF rooted THEN Tree!Update(key[t], at[t]) ELSE UNCHANGED index
  /\ UNCHANGED <<vars, rooted, want, ret, done, owed>>

WriteReturns(t) ==
  /\ EGoto(t, "write_end", "idle")
  /\ done' = done \union {key[t]}
  /\ UNCHANGED <<vars, index, rooted, want, ret, owed>>

-----------------------------------------------------------------------------
(* EngineRace::Read *)

Read(t, k) ==
  /\ Phase(InWrite)
  /\ EGoto(t, "idle", "get")
  /\ want' = [want EXCEPT ![t] = k]
  /\ owed' = [owed EXCEPT ![t] = k \in done]
  /\ UNCHANGED <<vars, index, rooted, ret, done>>

\* Fault: search's value is off by one.
Offsets_OffByOne(k) == {index[k] + 1}

\* What index->get() may return.  Without its body the function has no
\* return, and search in a tree without a root reads a block that is not
\* there: any offset.
Offsets(k) == IF HasTree THEN {index[k]} ELSE -1 .. Len(file[Bucket(k)])

Get(t) ==
  /\ epc[t] = "get"
  /\ \E p \in Offsets(want[t]) :
       IF p = -1
       THEN /\ epc' = [epc EXCEPT ![t] = "read_end"]
            /\ ret' = [ret EXCEPT ![t] = "kNotFound"]
            /\ UNCHANGED vars
       ELSE /\ epc' = [epc EXCEPT ![t] = "value_read"]
            /\ ret' = [ret EXCEPT ![t] = "kSucc"]
            /\ CallRead(t, want[t], p)
  /\ UNCHANGED <<index, rooted, want, done, owed>>

ValueRead(t) ==
  /\ epc[t] = "value_read"
  /\ ReadStep(t)
  /\ epc' = [epc EXCEPT ![t] = IF pc'[t] = "idle" THEN "read_end" ELSE @]
  /\ UNCHANGED <<index, rooted, want, ret, done, owed>>

ReadReturns(t) ==
  /\ EGoto(t, "read_end", "idle")
  /\ UNCHANGED <<vars, index, rooted, want, ret, done, owed>>

-----------------------------------------------------------------------------
\* Fault: Open builds an empty tree.
KillAndOpen_Empty ==
  /\ Crash
  /\ epc' = [t \in Threads |-> "idle"]
  /\ index' = [k \in Keys |-> -1]
  /\ UNCHANGED <<rooted, want, ret, done, owed>>

\* What the tree's file holds after a kill inside t's tree->insert(), by
\* BPlusTreeCrash.KillConfined: a key keeps its offset, or it is t's and gets
\* the new one, or it is gone; or the tree was growing and has no root.
KillInInsert(t) ==
  /\ epc[t] = "insert" /\ index[key[t]] = -1
  /\ \/ /\ \E lost \in SUBSET Keys :
             index' = [k \in Keys |-> IF k \in lost THEN -1
                                     ELSE IF k = key[t] THEN at[t] ELSE index[k]]
        /\ done' = {}
        /\ UNCHANGED rooted
     \/ rooted' = FALSE /\ UNCHANGED <<index, done>>

\* tree->update() writes one block.
KillInUpdate(t) ==
  /\ epc[t] = "update" /\ Tree!Update(key[t], at[t])
  /\ UNCHANGED <<rooted, done>>

\* The first Open creates the tree with three writes (bt.cc:726-729).  The
\* kill may have come between them when the tree is empty and no call runs.
KillInCreation ==
  /\ \A t \in Threads : epc[t] = "idle"
  /\ \A k \in Keys : index[k] = -1
  /\ rooted' = FALSE
  /\ UNCHANGED <<index, done>>

\* A kill, and Open: the tree's file and the value files are what is left.
KillAndOpen ==
  /\ Crash
  /\ epc' = [t \in Threads |-> "idle"]
  /\ \/ UNCHANGED <<index, rooted, done>>
     \/ HasTree /\ \E t \in Threads : KillInInsert(t) \/ KillInUpdate(t)
     \/ HasTree /\ KillInCreation
  /\ want' = NoKeys
  /\ ret'  = [t \in Threads |-> "kSucc"]
  /\ owed' = [t \in Threads |-> FALSE]

\* delete engine; the tree has nothing in memory that is not in its file.
CloseEngine ==
  /\ CloseFiles
  /\ UNCHANGED <<index, rooted, epc, want, ret, done, owed>>

EngineNext ==
  \/ \E t \in Writers, k \in Keys, v \in Vals : Write(t, k, v)
  \/ \E t \in Readers, k \in Keys : Read(t, k)
  \/ \E t \in Threads : ValueWrite(t) \/ Insert(t) \/ Update(t) \/ WriteReturns(t)
                        \/ Get(t) \/ ValueRead(t) \/ ReadReturns(t)
  \/ KillAndOpen
  \/ (\A t \in Threads : epc[t] = "idle") /\ CloseEngine

EngineSpec == EngineInit /\ [][EngineNext]_evars

-----------------------------------------------------------------------------
EngineTypeOK ==
  /\ TypeOK
  /\ index \in [Keys -> Nat \union {-1}] /\ rooted \in BOOLEAN
  /\ epc  \in [Threads -> {"idle"} \union InWrite \union InRead]
  /\ want \in [Threads -> Keys]
  /\ ret  \in [Threads -> {"kSucc", "kNotFound"}]
  /\ done \subseteq Keys
  /\ owed \in [Threads -> BOOLEAN]

\* No offset enters the index before its value is in the file to stay: the
\* index never points at something that is not a value of that key.
IndexValid ==
  \A k \in Keys : index[k] # -1 => \E a \in acked : a.key = k /\ a.pos = index[k]

\* A Read that begins after some Write of its key has returned kSucc does not
\* report kNotFound, whatever runs beside it, unless a kill inside an insert
\* came between the two or the tree has lost its root: a kill anywhere else
\* loses no key.
WrittenIsFound ==
  rooted => \A t \in Threads : epc[t] = "read_end" /\ owed[t] => ret[t] = "kSucc"

\* The engine's place in a call and the value file's agree, and with a tree
\* that has its root a read is at an offset of its key.
Nested ==
  \A t \in Threads :
    /\ epc[t] = "value_write" <=> pc[t] \in WriteSteps
    /\ epc[t] = "value_read" <=> pc[t] \in ReadSteps
    /\ epc[t] = "value_read" => key[t] = want[t] /\ ret[t] = "kSucc"
    /\ epc[t] = "value_read" /\ rooted => at[t] \in Returned(key[t])
    /\ epc[t] \in InRead => t \in Readers
    /\ epc[t] \in {"insert", "update", "write_end"} =>
         [key |-> key[t], val |-> val[t], pos |-> at[t]] \in acked

\* A Write that returned is in the index and stays, up to a kill inside an
\* insert, so a Read that is owed an offset meets one.
DoneIndexed ==
  rooted =>
    /\ \A k \in done : index[k] # -1
    /\ \A t \in Threads :
         /\ epc[t] = "write_end" => index[key[t]] # -1
         /\ epc[t] = "get" /\ owed[t] => index[want[t]] # -1

\* The inductive invariant behind IndexValid and WrittenIsFound.
EngineInv == EngineTypeOK /\ IndexValid /\ Nested /\ DoneIndexed /\ WrittenIsFound

-----------------------------------------------------------------------------
(* The promise of engine.h: a linearizable map.  A Write takes effect when *)
(* the offset enters the index, a Read when it looks the offset up.  The   *)
(* map is broken when the tree has no root.                                *)

\* The value whose cells are in s at p, and the one whose cells c is.
ValueIn(s, p) == IF \E v \in Vals : Holds(s, p, v)
                 THEN CHOOSE v \in Vals : Holds(s, p, v) ELSE "garbage"
ValueOf(c)    == IF \E v \in Vals : c = Cells(v)
                 THEN CHOOSE v \in Vals : c = Cells(v) ELSE "garbage"

\* What an offset of the key addresses, and what Read hands its caller once
\* the value file has been read.
ValueAt(k, p) == ValueIn(file[Bucket(k)], p)
Delivered(t)  == ValueOf(got[t])

CallOf(t) ==
  CASE epc[t] = "idle" -> [op |-> "idle"]
    [] epc[t] \in {"value_write", "insert", "update"} ->
         [op |-> "write", key |-> key[t], val |-> val[t]]
    [] epc[t] = "write_end" -> [op |-> "written"]
    [] epc[t] = "get" -> [op |-> "read", key |-> want[t]]
    [] epc[t] = "value_read" ->
         [op |-> "answer", val |-> IF pc[t] = "read_done" THEN Delivered(t)
                                   ELSE ValueAt(want[t], at[t])]
    [] epc[t] = "read_end" ->
         [op |-> "answer", val |-> IF ret[t] = "kNotFound" THEN NotFound ELSE Delivered(t)]

Store == [k \in Keys |-> IF index[k] = -1 THEN NotFound ELSE ValueAt(k, index[k])]
Calls == [t \in Threads |-> CallOf(t)]
KV == INSTANCE KVStore WITH store <- Store, call <- Calls, broken <- ~rooted

Linearizable == KV!Spec

\* The engine calls the value files only as ValueResources expects it to: as
\* long as the tree has its root it reads only at offsets that write() has
\* returned for the key.
UsesValueFiles == Init /\ [][IF rooted THEN Next ELSE AnyNext]_vars
=============================================================================
