------------------------- MODULE TestProgramProofs -------------------------
(***************************************************************************)
(* main's joins are what keeps its threads inside an engine that exists,   *)
(* and reads apart from writes, for any number of threads, calls, rounds   *)
(* and kills.  With that the theorems on the engine and the value files    *)
(* hold of the program, up to its own check of what it reads.              *)
(***************************************************************************)
EXTENDS TestProgram, EngineRaceProofs

LEMMA ProgramInitJoined == ProgramInit => Joined
BY DEF ProgramInit, EngineInit, Joined, InWrite, InRead

\* A step inside a call keeps the thread in its half of the engine.
LEMMA CallStepStays ==
  ASSUME Joined, NEW t \in Threads, CallStep(t)
  PROVE  /\ epc' \in [Threads -> {"idle"} \union InWrite \union InRead]
         /\ \A s \in Threads : /\ epc'[s] \in InWrite => epc[s] \in InWrite
                               /\ epc'[s] \in InRead => epc[s] \in InRead
         /\ UNCHANGED <<mpc, live, left>>
<1> USE DEF Joined, InWrite, InRead
<1>1. CASE ValueWrite(t)
  BY <1>1 DEF CallStep, ValueWrite
<1>2. CASE Insert(t)
  BY <1>2 DEF CallStep, Insert, EGoto
<1>3. CASE Update(t)
  BY <1>3 DEF CallStep, Update, EGoto
<1>4. CASE Get(t)
  BY <1>4 DEF CallStep, Get
<1>5. CASE ValueRead(t)
  BY <1>5 DEF CallStep, ValueRead
<1> QED BY <1>1, <1>2, <1>3, <1>4, <1>5 DEF CallStep

\* After a join nobody is inside.
LEMMA JoinEmpties ==
  ASSUME Joined
  PROVE  /\ mpc = "write" /\ Finished(Writers) => \A t \in Threads : epc[t] = "idle"
         /\ mpc = "read" /\ Finished(Readers) => \A t \in Threads : epc[t] = "idle"
         /\ mpc \in {"open", "reopen"} => \A t \in Threads : epc[t] = "idle"
BY DEF Joined, Finished, InWrite, InRead

LEMMA ProgramStepJoined ==
  ASSUME Joined, [ProgramNext]_pvars
  PROVE  Joined'
<1> USE DEF InWrite, InRead
<1>1. CASE StartWriters
  <2>1. numWrite \div numKills \in Int
    BY ProgramAssumption
  <2> QED BY <1>1, <2>1, JoinEmpties DEF StartWriters, Give, Joined, evars
<1>2. CASE CloseWritten
  BY <1>2, JoinEmpties DEF CloseWritten, DeleteEngine, CloseEngine, Joined
<1>3. CASE StartReaders
  BY <1>3, JoinEmpties, ProgramAssumption DEF StartReaders, Give, Joined, evars
<1>4. CASE CloseRead
  BY <1>4, JoinEmpties DEF CloseRead, DeleteEngine, CloseEngine, Joined
<1>5. ASSUME NEW t \in Threads, NEW v \in Vals, WriteOne(t, v)
      PROVE  Joined'
  BY <1>5 DEF WriteOne, Write, EGoto, Joined
<1>6. ASSUME NEW t \in Threads, NEW k \in listed, ReadOne(t, k)
      PROVE  Joined'
  BY <1>6 DEF ReadOne, Read, EGoto, Joined
<1>7. ASSUME NEW t \in Threads, CallStep(t)
      PROVE  Joined'
  BY <1>7, CallStepStays DEF Joined
<1>8. ASSUME NEW t \in Threads, AddKey(t)
      PROVE  Joined'
  BY <1>8 DEF AddKey, WriteReturns, EGoto, Joined
<1>9. ASSUME NEW t \in Threads, CompareKey(t), mpc # "error"
      PROVE  Joined'
  <2>1. mpc = "read" /\ mpc' \in {"read", "error"}
    BY <1>9 DEF CompareKey, ReadReturns, EGoto, Joined
  <2> QED BY <1>9, <2>1 DEF CompareKey, ReadReturns, EGoto, Joined
<1>10. CASE KillAndRun
  BY <1>10 DEF KillAndRun, KillAndOpen, Joined
<1>11. CASE UNCHANGED pvars
  BY <1>11 DEF pvars, evars, Joined
<1> QED BY <1>1, <1>2, <1>3, <1>4, <1>5, <1>6, <1>7, <1>8, <1>9, <1>10, <1>11
       DEF ProgramNext, MainStep, ThreadStep

-----------------------------------------------------------------------------
\* No thread of the program is inside the engine while main has none: each
\* delete (main.cc:298, 353) comes after the joins of the round.
THEOREM NoCallWithoutEngine == ProgramSpec => []NoNullUse
<1>1. Joined => NoNullUse
  BY DEF Joined, NoNullUse
<1> QED BY <1>1, ProgramInitJoined, ProgramStepJoined, PTL DEF ProgramSpec

\* Reads and writes of the program keep apart (main.cc:287-290, 323-326), so
\* that the value files return right offsets though read() takes no lock.
THEOREM ProgramPhased == ProgramSpec => []Phased
<1>1. Joined => Phased
  BY DEF Joined, Phased, InWrite, InRead
<1> QED BY <1>1, ProgramInitJoined, ProgramStepJoined, PTL DEF ProgramSpec

-----------------------------------------------------------------------------
(* The program calls the engine as EngineRace lets it be called.           *)

LEMMA ProgramStepIsEngineStep ==
  ASSUME Joined, listed \subseteq Keys, [ProgramNext]_pvars
  PROVE  [EngineNext]_evars
<1>1. CASE StartWriters \/ StartReaders \/ UNCHANGED pvars
  BY <1>1 DEF StartWriters, StartReaders, pvars
<1>2. CASE CloseWritten
  BY <1>2, JoinEmpties DEF CloseWritten, DeleteEngine, EngineNext
<1>3. CASE CloseRead
  BY <1>3, JoinEmpties DEF CloseRead, DeleteEngine, EngineNext
<1>4. ASSUME NEW t \in Threads, NEW v \in Vals, WriteOne(t, v)
      PROVE  [EngineNext]_evars
  <2>1. t \in Writers
    BY <1>4 DEF WriteOne, Joined
  <2>2. KeyFromValue[v] \in Keys
    BY ProgramAssumption
  <2> QED BY <1>4, <2>1, <2>2 DEF WriteOne, EngineNext
<1>5. ASSUME NEW t \in Threads, NEW k \in listed, ReadOne(t, k)
      PROVE  [EngineNext]_evars
  <2>1. t \in Readers
    BY <1>5 DEF ReadOne, Joined
  <2> QED BY <1>5, <2>1 DEF ReadOne, EngineNext
<1>6. ASSUME NEW t \in Threads, CallStep(t) \/ AddKey(t) \/ CompareKey(t)
      PROVE  [EngineNext]_evars
  BY <1>6 DEF CallStep, AddKey, CompareKey, EngineNext
<1>7. CASE KillAndRun
  BY <1>7 DEF KillAndRun, EngineNext
<1> QED BY <1>1, <1>2, <1>3, <1>4, <1>5, <1>6, <1>7 DEF ProgramNext, MainStep, ThreadStep

\* Where main and the engine are, whatever readers there are.
ProgramPlace == Joined /\ EngineInv /\ listed \subseteq Keys

LEMMA ProgramInitPlace == ProgramInit => ProgramPlace
BY ProgramInitJoined, EngineInitInv DEF ProgramInit, ProgramPlace

LEMMA ProgramStepPlace ==
  ASSUME Wired, ProgramPlace, [ProgramNext]_pvars
  PROVE  ProgramPlace' /\ [EngineNext]_evars
<1>1. [EngineNext]_evars
  BY ProgramStepIsEngineStep DEF ProgramPlace
<1>2. Joined' /\ EngineInv'
  BY <1>1, ProgramStepJoined, EngineStepInv DEF ProgramPlace
<1>3. \A t \in Threads : key[t] \in Keys
  BY DEF ProgramPlace, EngineInv, EngineTypeOK, TypeOK
<1>4. listed' \subseteq Keys
  BY <1>3 DEF ProgramPlace, ProgramNext, MainStep, ThreadStep, StartWriters, CloseWritten,
     StartReaders, CloseRead, WriteOne, ReadOne, CallStep, AddKey, CompareKey, KillAndRun, pvars
<1> QED BY <1>1, <1>2, <1>4 DEF ProgramPlace

\* The joins make the value files' condition true.
LEMMA PhasedSeparate ==
  ASSUME ProgramPlace
  PROVE  Separate
<1>1. \A t \in Threads : /\ pc[t] \in WriteSteps => mpc = "write"
                         /\ pc[t] \in ReadSteps => mpc # "write"
  <2>1. Joined /\ Nested
    BY DEF ProgramPlace, EngineInv
  <2>2. \A t \in Threads : /\ pc[t] \in WriteSteps => epc[t] = "value_write"
                           /\ pc[t] \in ReadSteps => epc[t] = "value_read"
    BY <2>1 DEF Nested
  <2> QED BY <2>1, <2>2 DEF Joined, InWrite, InRead
<1> QED BY <1>1 DEF Separate, WriteBusy, ReadBusy

\* Whatever main does, the engine is used as it may be used: the theorems of
\* EngineRaceProofs that need no condition on overlap hold of the program.
THEOREM ProgramUsesEngine ==
  ASSUME Wired
  PROVE  ProgramSpec => EngineSpec
<1>1. ProgramInit => ProgramPlace /\ EngineInit
  BY ProgramInitPlace DEF ProgramInit
<1>2. ProgramPlace /\ [ProgramNext]_pvars => ProgramPlace' /\ [EngineNext]_evars
  BY ProgramStepPlace
<1> QED BY <1>1, <1>2, PTL DEF ProgramSpec, EngineSpec

LEMMA ProgramStepPlaced ==
  ASSUME Wired, MaxShort = 0, ProgramPlace, PlacedInv, [ProgramNext]_pvars
  PROVE  ProgramPlace' /\ PlacedInv' /\ Separate' /\ [AnyNext]_vars
<1>1. ProgramPlace' /\ [EngineNext]_evars
  BY ProgramStepPlace
<1>2. [AnyNext]_vars
  BY <1>1, EngineStepIsValueStep DEF ProgramPlace
<1>3. (ProgramPlace => Separate)'
  BY PhasedSeparate, PTL
<1> QED BY <1>1, <1>2, <1>3, PlacedStep

\* Every offset that the program's writes were given is right, for any number
\* of writers and readers, and wherever it was killed: nothing but the joins
\* keeps its readers from moving a stream under a writer.
THEOREM ProgramOffsetsRight ==
  ASSUME Wired, MaxShort = 0
  PROVE  ProgramSpec => []AckedPlaced
<1>1. ProgramInit => ProgramPlace /\ PlacedInv
  BY ProgramInitPlace, InitPlaced DEF ProgramInit, EngineInit
<1>2. ProgramPlace /\ PlacedInv /\ [ProgramNext]_pvars => ProgramPlace' /\ PlacedInv'
  BY ProgramStepPlaced
<1>3. PlacedInv => AckedPlaced
  BY DEF PlacedInv
<1> QED BY <1>1, <1>2, <1>3, PTL DEF ProgramSpec

-----------------------------------------------------------------------------
(* What the readers get.                                                   *)

\* The record that write() leaves behind is the writer's own.
LEMMA AckedByWrite ==
  ASSUME TypeOK, NEW t \in Threads, WriteStep(t), NEW a \in acked'
  PROVE  a \in acked \/ (a.key = key[t] /\ a.val = val[t])
<1>1. CASE Unlock(t)
  BY <1>1 DEF Unlock
<1>2. CASE ~Unlock(t)
  BY <1>2 DEF WriteStep, Lock, FSeekEnd, FTell, FWrite, FFlush
<1> QED BY <1>1, <1>2

\* One thread's part of Told.
Knows(t) ==
  /\ epc[t] = "value_write" => key[t] = KeyFromValue[val[t]]
  /\ rooted =>
       /\ epc[t] \in InRead => owed[t]
       /\ epc[t] = "read_end" =>
            \E v \in Vals : got[t] = Cells(v) /\ KeyFromValue[v] = want[t]
Named  == \A a \in acked : a.key = KeyFromValue[a.val]
Listed == rooted => mpc # "error" /\ listed \subseteq done

LEMMA ToldParts == Told <=> Named /\ Listed /\ \A t \in Threads : Knows(t)
BY DEF Told, Named, Listed, Knows

\* What a call does to its own thread's knowledge.
LEMMA CallStepKnows ==
  ASSUME Wired, ProgramPlace, ReadInv, Told, NEW t \in Threads, CallStep(t)
  PROVE  Knows(t)' /\ Named' /\ UNCHANGED <<mpc, listed, done, rooted>>
<1> USE ToldParts DEF ProgramPlace, InRead
<1>0. EngineTypeOK /\ TypeOK /\ Nested /\ DoneIndexed /\ Knows(t) /\ Named
  BY DEF EngineInv, EngineTypeOK
<1>1. CASE ValueWrite(t)
  <2>1. WriteStep(t) /\ key' = key /\ val' = val /\ epc[t] = "value_write"
        /\ epc'[t] \in {"value_write", "insert"} /\ UNCHANGED <<mpc, listed, done, rooted>>
    BY <1>0, <1>1, Frame DEF CallStep, ValueWrite, EngineTypeOK
  <2>2. Named'
    BY <1>0, <2>1, AckedByWrite DEF Named, Knows
  <2>3. Knows(t)'
    BY <1>0, <2>1 DEF Knows
  <2> QED BY <2>1, <2>2, <2>3
<1>2. CASE Insert(t) \/ Update(t)
  <2>1. /\ epc'[t] \in {"update", "write_end"} /\ acked' = acked
        /\ UNCHANGED <<mpc, listed, done, rooted>>
    BY <1>0, <1>2 DEF CallStep, Insert, Update, EGoto, vars, EngineTypeOK
  <2> QED BY <1>0, <2>1 DEF Named, Knows
<1>3. CASE Get(t)
  <2>0. acked' = acked /\ epc[t] = "get" /\ UNCHANGED <<mpc, listed, done, rooted>>
    BY <1>3 DEF CallStep, Get, CallRead, vars
  <2>1. CASE rooted
    <3>1. owed[t] /\ want[t] \in Keys
      BY <1>0, <2>0, <2>1 DEF Knows, EngineTypeOK
    <3>2. index[want[t]] # -1
      BY <1>0, <2>0, <2>1, <3>1 DEF DoneIndexed
    <3>3. epc'[t] = "value_read" /\ owed' = owed
      BY <1>0, <1>3, <2>1, <3>2 DEF Get, Offsets, HasTree, EngineTypeOK
    <3> QED BY <1>0, <2>0, <3>1, <3>3 DEF Named, Knows
  <2>2. CASE ~rooted
    <3>1. epc'[t] \in {"value_read", "read_end"}
      BY <1>0, <1>3 DEF Get, EngineTypeOK
    <3> QED BY <1>0, <2>0, <2>2, <3>1 DEF Named, Knows
  <2> QED BY <2>1, <2>2
<1>4. CASE ValueRead(t)
  <2>1. /\ ReadStep(t) /\ epc[t] = "value_read" /\ key[t] = want[t]
        /\ key' = key /\ want' = want /\ owed' = owed /\ acked' = acked
        /\ epc'[t] = IF pc'[t] = "idle" THEN "read_end" ELSE "value_read"
        /\ UNCHANGED <<mpc, listed, done, rooted>>
    BY ZenonT(60), <1>0, <1>4, Frame, InsideRead DEF CallStep, ValueRead, Nested, EngineTypeOK
  <2>2. CASE pc'[t] # "idle"
    <3>1. rooted => owed[t]
      BY <1>0, <2>1 DEF Knows
    <3> QED BY <1>0, <2>1, <2>2, <3>1 DEF Named, Knows
  <2>3. CASE pc'[t] = "idle" /\ rooted
    <3>0. owed[t]
      BY <1>0, <2>1, <2>3 DEF Knows
    <3>1. pc[t] = "read_done" /\ got' = got
      BY <1>0, <2>1, <2>3 DEF ReadStep, FSeekSet, FRead, ReturnRead, Goto, TypeOK, thread
    <3>2. PICK a \in acked : a.key = key[t] /\ a.pos = at[t]
      BY <1>0, <2>1, <2>3 DEF Nested, Returned
    <3>3. a.val \in Vals /\ got[t] = Cells(a.val) /\ KeyFromValue[a.val] = want[t]
      BY <1>0, <2>1, <3>1, <3>2 DEF ReadInv, ReadReturnsWritten, Named, TypeOK
    <3> QED BY <1>0, <2>1, <2>3, <3>0, <3>1, <3>3 DEF Named, Knows, Cells
  <2>4. CASE pc'[t] = "idle" /\ ~rooted
    BY <1>0, <2>1, <2>4 DEF Named, Knows
  <2> QED BY <2>2, <2>3, <2>4
<1> QED BY <1>1, <1>2, <1>3, <1>4 DEF CallStep

\* A thread's step leaves the others alone.
LEMMA OthersKnow ==
  ASSUME EngineTypeOK, NEW t \in Threads, NEW s \in Threads, s # t, Knows(s),
         \/ CallStep(t) \/ AddKey(t) \/ CompareKey(t)
         \/ \E v \in Vals : WriteOne(t, v)
         \/ \E k \in listed : ReadOne(t, k)
  PROVE  Knows(s)'
<1> DEFINE Still == /\ epc'[s] = epc[s] /\ key'[s] = key[s] /\ val'[s] = val[s]
                    /\ owed'[s] = owed[s] /\ want'[s] = want[s] /\ got'[s] = got[s]
                    /\ rooted' = rooted
<1> USE DEF EngineTypeOK, TypeOK
<1>1. CASE ValueWrite(t) \/ ValueRead(t)
  <2>1. WriteStep(t) \/ ReadStep(t)
    BY <1>1 DEF ValueWrite, ValueRead
  <2>2. key' = key /\ val' = val /\ got'[s] = got[s]
    BY <2>1, Frame
  <2>3. epc'[s] = epc[s] /\ owed' = owed /\ want' = want /\ rooted' = rooted
    BY <1>1 DEF ValueWrite, ValueRead
  <2> QED BY <2>2, <2>3 DEF Knows, Cells, InRead
<1>2. CASE Insert(t) \/ Update(t) \/ AddKey(t) \/ CompareKey(t)
  <2>1. Still
    BY <1>2 DEF Insert, Update, AddKey, WriteReturns, CompareKey, ReadReturns, EGoto, vars
  <2> QED BY <2>1 DEF Knows, Cells, InRead
<1>3. CASE Get(t)
  <2>1. Still
    BY <1>3 DEF Get, CallRead, vars
  <2> QED BY <2>1 DEF Knows, Cells, InRead
<1>4. ASSUME NEW v \in Vals, WriteOne(t, v)
      PROVE  Knows(s)'
  <2>1. Still
    BY <1>4 DEF WriteOne, Write, EGoto, CallWrite
  <2> QED BY <2>1 DEF Knows, Cells, InRead
<1>5. ASSUME NEW k \in listed, ReadOne(t, k)
      PROVE  Knows(s)'
  <2>1. Still
    BY <1>5 DEF ReadOne, Read, EGoto, vars
  <2> QED BY <2>1 DEF Knows, Cells, InRead
<1> QED BY <1>1, <1>2, <1>3, <1>4, <1>5 DEF CallStep

LEMMA ToldStep ==
  ASSUME Wired, ProgramPlace, ReadInv, Told, [ProgramNext]_pvars
  PROVE  Told'
<1> SUFFICES Listed' /\ Named' /\ \A s \in Threads : Knows(s)'
  BY DEF Told, Named, Listed, Knows, Cells, InRead
<1>0. /\ Listed /\ Named /\ \A s \in Threads : Knows(s)
      /\ EngineTypeOK /\ TypeOK /\ WrittenIsFound
  BY ToldParts DEF ProgramPlace, EngineInv, EngineTypeOK
<1>1. ASSUME /\ mpc' = mpc \/ mpc' # "error"
             /\ UNCHANGED <<listed, done, rooted, acked, epc, key, val, owed, want, got>>
      PROVE  Listed' /\ Named' /\ \A s \in Threads : Knows(s)'
  BY <1>0, <1>1 DEF Listed, Named, Knows, Cells, InRead
<1>2. CASE StartWriters \/ StartReaders \/ UNCHANGED pvars
  BY <1>0, <1>1, <1>2 DEF StartWriters, StartReaders, pvars, evars, vars
<1>3. CASE CloseWritten \/ CloseRead
  BY <1>1, <1>3 DEF CloseWritten, CloseRead, DeleteEngine, CloseEngine, CloseFiles, thread
<1>4. ASSUME NEW t \in Threads, NEW v \in Vals, WriteOne(t, v)
      PROVE  Listed' /\ Named' /\ \A s \in Threads : Knows(s)'
  <2>1. /\ epc'[t] = "value_write" /\ key'[t] = KeyFromValue[v] /\ val'[t] = v
        /\ UNCHANGED <<mpc, listed, done, rooted, acked>>
    BY <1>0, <1>4 DEF WriteOne, Write, EGoto, CallWrite, EngineTypeOK, TypeOK
  <2>2. Knows(t)'
    BY <2>1 DEF Knows, InRead
  <2> QED BY <1>0, <1>4, <2>1, <2>2, OthersKnow DEF Listed, Named
<1>5. ASSUME NEW t \in Threads, NEW k \in listed, ReadOne(t, k)
      PROVE  Listed' /\ Named' /\ \A s \in Threads : Knows(s)'
  <2>1. epc'[t] = "get" /\ UNCHANGED <<mpc, listed, done, rooted, acked>>
    BY <1>0, <1>5 DEF ReadOne, Read, EGoto, EngineTypeOK, vars
  <2>2. rooted => owed'[t]
    <3>1. owed'[t] = (k \in done)
      BY <1>0, <1>5 DEF ReadOne, Read, EngineTypeOK
    <3>2. rooted => k \in done
      BY <1>0, <1>5 DEF Listed
    <3> QED BY <3>1, <3>2
  <2>3. Knows(t)'
    BY <2>1, <2>2 DEF Knows, InRead
  <2> QED BY <1>0, <1>5, <2>1, <2>3, OthersKnow DEF Listed, Named
<1>6. ASSUME NEW t \in Threads, CallStep(t)
      PROVE  Listed' /\ Named' /\ \A s \in Threads : Knows(s)'
  BY <1>0, <1>6, CallStepKnows, OthersKnow DEF Listed
<1>7. ASSUME NEW t \in Threads, AddKey(t)
      PROVE  Listed' /\ Named' /\ \A s \in Threads : Knows(s)'
  <2>1. /\ epc'[t] = "idle" /\ UNCHANGED <<mpc, rooted, acked>>
        /\ listed' = listed \union {key[t]} /\ done' = done \union {key[t]}
    BY <1>0, <1>7 DEF AddKey, WriteReturns, EGoto, EngineTypeOK, vars
  <2>2. Knows(t)'
    BY <2>1 DEF Knows, InRead
  <2> QED BY <1>0, <1>7, <2>1, <2>2, OthersKnow DEF Listed, Named
<1>8. ASSUME NEW t \in Threads, CompareKey(t)
      PROVE  Listed' /\ Named' /\ \A s \in Threads : Knows(s)'
  <2>1. epc[t] = "read_end" /\ epc'[t] = "idle" /\ UNCHANGED <<acked, listed, done, rooted>>
    BY <1>0, <1>8 DEF CompareKey, ReadReturns, EGoto, EngineTypeOK, vars
  <2>2. ASSUME rooted
        PROVE  mpc' = mpc
    <3>1. PICK v \in Vals : got[t] = Cells(v) /\ KeyFromValue[v] = want[t]
      BY <1>0, <2>1, <2>2 DEF Knows
    <3>2. owed[t]
      BY <1>0, <2>1, <2>2 DEF Knows, InRead
    <3>3. ret[t] = "kSucc" /\ Delivered(t) = v
      BY <1>0, <2>1, <2>2, <3>1, <3>2, ValueOfCells DEF Delivered, WrittenIsFound
    <3>4. Outcomes(t) = {TRUE}
      BY <3>1, <3>3 DEF Outcomes
    <3> QED BY <1>8, <3>4 DEF CompareKey
  <2>3. Listed'
    BY <1>0, <2>1, <2>2 DEF Listed
  <2>4. Knows(t)'
    BY <2>1 DEF Knows, InRead
  <2> QED BY <1>0, <1>8, <2>1, <2>3, <2>4, OthersKnow DEF Named
<1>9. CASE KillAndRun
  <2>1. /\ mpc' = "open" /\ listed' = {} /\ acked' = acked
        /\ \A s \in Threads : epc'[s] = "idle"
    BY <1>9 DEF KillAndRun, KillAndOpen, Crash
  <2> QED BY <1>0, <2>1 DEF Listed, Named, Knows, InRead
<1> QED BY <1>2, <1>3, <1>4, <1>5, <1>6, <1>7, <1>8, <1>9 DEF ProgramNext, MainStep, ThreadStep

\* main.cc's own check of what it reads (161-169) never fails with one reader
\* and a tree that has its root, if no fwrite comes up short: for any number of
\* writers, keys, values, overwritings, rounds and kills that leave the root,
\* those that lost keys included, joins, append-only files, the offset's way
\* through the index and the reader's two unlocked calls work together.
THEOREM ProgramReadsRight ==
  ASSUME Wired, MaxShort = 0, \A r, s \in Readers : r = s
  PROVE  ProgramSpec => []NoReadError
<1>1. ProgramInit => ProgramPlace /\ ReadInv /\ Told
  BY ProgramInitPlace, InitRead
     DEF ProgramInit, EngineInit, Init, Told, InRead
<1>2. ProgramPlace /\ ReadInv /\ Told /\ [ProgramNext]_pvars =>
        ProgramPlace' /\ ReadInv' /\ Told'
  BY ProgramStepPlaced, ReadStepInv, ToldStep DEF ReadInv
<1>3. Told => NoReadError
  BY DEF Told, NoReadError
<1> QED BY <1>1, <1>2, <1>3, PTL DEF ProgramSpec

\* The program, too, sees one map through its engine (include/engine.h), up to
\* what KVStore lets a kill cost: its joins stand in for the condition that
\* reads keep away from writes.
THEOREM ProgramSeesAStore ==
  ASSUME Wired, MaxShort = 0, \A r, s \in Readers : r = s
  PROVE  ProgramSpec => Linearizable
<1>1. ProgramInit => ProgramPlace /\ ReadInv /\ KV!Init
  BY ProgramInitPlace, InitRead, StoreInit DEF ProgramInit, EngineInit
<1>2. ProgramPlace /\ ReadInv /\ [ProgramNext]_pvars =>
        ProgramPlace' /\ ReadInv' /\ [EngineNext]_evars
  BY ProgramStepPlace, ProgramStepPlaced, ReadStepInv DEF ReadInv
<1>3. ASSUME ProgramPlace, ReadInv, ProgramPlace', ReadInv', [EngineNext]_evars
      PROVE  [KV!Next]_<<Store, Calls, ~rooted>>
  <2>1. Sound /\ Sound'
    BY <1>3 DEF Sound, ProgramPlace
  <2> QED BY <1>3, <2>1, StoreStep
<1> QED BY <1>1, <1>2, <1>3, PTL DEF ProgramSpec, Linearizable, KV!Spec
=============================================================================
