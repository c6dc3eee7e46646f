-------------------------- MODULE EngineRaceProofs --------------------------
(***************************************************************************)
(* Theorems about the engine with its index wired in.  The engine's steps  *)
(* are steps of ValueResources, so what ValueResourcesProofs shows of the  *)
(* value files carries over.                                               *)
(***************************************************************************)
EXTENDS EngineRace, ValueResourcesProofs

LEMMA EngineInitInv == EngineInit => EngineInv
<1> SUFFICES ASSUME EngineInit PROVE EngineInv
  OBVIOUS
<1>1. TypeOK
  BY InitType DEF EngineInit
<1>2. EngineTypeOK
  BY <1>1, NewType DEF EngineInit, EngineTypeOK, TypeOK, InWrite, InRead
<1> QED
  BY <1>2, ValueAssumption
     DEF EngineInit, Init, EngineInv, IndexValid, Nested, DoneIndexed, WrittenIsFound, WriteSteps,
         ReadSteps, InWrite, InRead

\* A root that is lost does not come back.
LEMMA RootStays ==
  ASSUME EngineTypeOK, [EngineNext]_evars
  PROVE  /\ rooted' \in BOOLEAN /\ (rooted' => rooted)
         /\ ~KillAndOpen => rooted' = rooted
<1>1. CASE rooted' = rooted
  BY <1>1 DEF EngineTypeOK
<1>2. CASE KillAndOpen /\ rooted' = FALSE
  BY <1>2
<1>3. CASE KillAndOpen
  <2>1. rooted' = rooted \/ rooted' = FALSE
    BY ZenonT(60), <1>3 DEF KillAndOpen, KillInInsert, KillInUpdate, KillInCreation
  <2> QED BY <1>1, <1>2, <1>3, <2>1
<1>4. CASE ~KillAndOpen
  <2>1. rooted' = rooted
    BY ZenonT(60), <1>4 DEF EngineNext, evars, Write, ValueWrite, Insert, Update, WriteReturns, Read,
       Get, ValueRead, ReadReturns, CloseEngine
  <2> QED BY <1>1, <2>1
<1> QED BY <1>3, <1>4

\* The engine makes no other use of the value files than ValueResources
\* allows its callers: with a tree that has its root, it reads only at
\* offsets that write() has returned.
LEMMA EngineStepIsValueStep ==
  ASSUME Wired, EngineInv, [EngineNext]_evars
  PROVE  [AnyNext]_vars /\ (rooted => [Next]_vars)
<1> USE DEF AnyNext
<1>1. ASSUME NEW t \in Threads, Get(t)
      PROVE  [AnyNext]_vars /\ (rooted => [Next]_vars)
  <2>1. want[t] \in Keys /\ t \in Readers
    BY <1>1 DEF Get, EngineInv, EngineTypeOK, Nested, InRead
  <2>2. CASE UNCHANGED vars
    BY <2>2
  <2>3. ASSUME rooted, CallRead(t, want[t], index[want[t]]), index[want[t]] # -1
        PROVE  [Next]_vars
    <3>1. index[want[t]] \in Returned(want[t])
      BY <2>1, <2>3 DEF EngineInv, IndexValid, Returned
    <3> QED BY <2>1, <2>3, <3>1 DEF Next
  <2>4. ASSUME NEW p \in -1 .. Len(file[Bucket(want[t])]), p # -1, CallRead(t, want[t], p)
        PROVE  AnyRead
    <3>1. Len(file[Bucket(want[t])]) \in Nat
      BY <2>1, BucketType DEF EngineInv, EngineTypeOK, TypeOK
    <3>2. p \in 0 .. Len(file[Bucket(want[t])])
      BY <2>4, <3>1
    <3> QED BY <2>1, <2>4, <3>2 DEF AnyRead
  <2>5. CASE rooted
    BY <1>1, <2>2, <2>3, <2>5 DEF Get, Offsets, HasTree
  <2>6. CASE ~rooted
    BY <1>1, <2>2, <2>4, <2>6 DEF Get, Offsets, HasTree
  <2> QED BY <2>5, <2>6
<1>2. ASSUME NEW t \in Writers, NEW k \in Keys, NEW v \in Vals, Write(t, k, v)
      PROVE  [Next]_vars
  BY <1>2 DEF Write, Next
<1>3. ASSUME NEW t \in Threads, ValueWrite(t) \/ ValueRead(t)
      PROVE  [Next]_vars
  BY <1>3 DEF ValueWrite, ValueRead, Next
<1>4. ASSUME NEW t \in Threads,
             Insert(t) \/ Update(t) \/ WriteReturns(t) \/ ReadReturns(t) \/ \E k \in Keys : Read(t, k)
      PROVE  [Next]_vars
  BY <1>4 DEF Insert, Update, WriteReturns, ReadReturns, Read
<1>5. CASE KillAndOpen
  BY <1>5 DEF KillAndOpen, Next
<1>6. CASE UNCHANGED evars
  BY <1>6 DEF evars
<1>7. CASE (\A t \in Threads : epc[t] = "idle") /\ CloseEngine
  <2>1. \A t \in Threads : pc[t] = "idle"
    BY <1>7 DEF EngineInv, EngineTypeOK, TypeOK, Nested
  <2> QED BY <1>7, <2>1 DEF CloseEngine, Next
<1> QED BY <1>1, <1>2, <1>3, <1>4, <1>5, <1>6, <1>7, ValueAssumption DEF EngineNext

\* What returns of write() leaves: acked only grows, and it grows by the
\* writer's own record when its write() returns.
LEMMA AckedGrows ==
  ASSUME [AnyNext]_vars
  PROVE  acked \subseteq acked'
BY ValueAssumption DEF AnyNext, AnyRead, Next, CallWrite, CallRead, Crash, CloseFiles, vars, WriteStep, ReadStep, Lock,
   FSeekEnd, FTell, FWrite, FFlush, Unlock, FSeekSet, FRead, ReturnRead

\* A step inside value_resources->write() or read(): the thread's place, and
\* what it has when it leaves.
LEMMA InsideWrite ==
  ASSUME TypeOK, NEW t \in Threads, WriteStep(t)
  PROVE  /\ pc[t] \in WriteSteps /\ pc'[t] \in WriteSteps \union {"idle"}
         /\ pc'[t] = "idle" => [key |-> key[t], val |-> val[t], pos |-> at[t]] \in acked'
                               /\ at' = at
<1> USE DEF WriteSteps
<1>1. CASE Unlock(t)
  BY <1>1 DEF Unlock, Goto, thread, TypeOK
<1>2. CASE ~Unlock(t)
  BY <1>2 DEF WriteStep, Lock, FSeekEnd, FTell, FWrite, FFlush, Goto, TypeOK
<1> QED BY <1>1, <1>2

LEMMA InsideRead ==
  ASSUME TypeOK, NEW t \in Threads, ReadStep(t)
  PROVE  /\ pc[t] \in ReadSteps /\ pc'[t] \in ReadSteps \union {"idle"}
         /\ acked' = acked
BY DEF ReadStep, FSeekSet, FRead, ReturnRead, Goto, TypeOK, ReadSteps

\* A kill takes every thread out of its call, and leaves the index as it was
\* or as a kill inside a tree operation leaves it.
LEMMA KillLeaves ==
  ASSUME EngineTypeOK, KillAndOpen
  PROVE  /\ epc' = [t \in Threads |-> "idle"] /\ want' = NoKeys
         /\ ret' = [t \in Threads |-> "kSucc"] /\ owed' = [t \in Threads |-> FALSE]
         /\ \/ index' = index /\ done' = done
            \/ \E t \in Threads :
                 /\ epc[t] = "insert" /\ done' = {}
                 /\ \E lost \in SUBSET Keys :
                      index' = [k \in Keys |-> IF k \in lost THEN -1
                                              ELSE IF k = key[t] THEN at[t] ELSE index[k]]
            \/ \E t \in Threads :
                 /\ epc[t] = "update" /\ done' = done
                 /\ index' = [index EXCEPT ![key[t]] = at[t]]
<1>1. CASE UNCHANGED <<index, done>>
  BY <1>1 DEF KillAndOpen
<1>2. CASE \E t \in Threads : KillInInsert(t) /\ ~UNCHANGED <<index, done>>
  BY <1>2 DEF KillAndOpen, KillInInsert
<1>3. CASE \E t \in Threads : KillInUpdate(t)
  BY <1>3 DEF KillAndOpen, KillInUpdate, Tree!Update
<1> QED BY <1>1, <1>2, <1>3 DEF KillAndOpen, KillInCreation

\* An offset is new in the index only when a thread enters its own.
LEMMA NewOffset ==
  ASSUME EngineTypeOK, [EngineNext]_evars, NEW k \in Keys, index'[k] # index[k], index'[k] # -1
  PROVE  \E t \in Threads : epc[t] \in {"insert", "update"} /\ k = key[t] /\ index'[k] = at[t]
<1>1. CASE KillAndOpen
  BY <1>1, KillLeaves DEF EngineTypeOK
<1>2. ASSUME NEW t \in Threads, epc[t] \in {"insert", "update"},
             index' = [index EXCEPT ![key[t]] = at[t]]
      PROVE  k = key[t] /\ index'[k] = at[t]
  BY <1>2 DEF EngineTypeOK
<1>3. CASE ~KillAndOpen
  <2>1. PICK t \in Threads : Insert(t) \/ Update(t)
    BY <1>3, ValueAssumption DEF EngineNext, evars, Write, ValueWrite, WriteReturns, Read, Get,
       ValueRead, ReadReturns, CloseEngine
  <2>2. epc[t] \in {"insert", "update"} /\ index' = [index EXCEPT ![key[t]] = at[t]]
    BY <2>1 DEF Insert, Update, Tree!Insert, Tree!Update, EGoto
  <2> QED BY <1>2, <2>2
<1> QED BY <1>1, <1>3

LEMMA EngineTypeStep ==
  ASSUME EngineTypeOK, EngineInv, Wired, [EngineNext]_evars
  PROVE  EngineTypeOK'
<1> USE DEF InWrite, InRead
<1>0. TypeOK' /\ TypeOK
  BY EngineStepIsValueStep, StepType DEF EngineTypeOK
<1>1. \A t \in Threads : key[t] \in Keys /\ val[t] \in Vals /\ at[t] \in Nat
  BY <1>0 DEF TypeOK
<1>2. epc' \in [Threads -> {"idle"} \union InWrite \union InRead]
  BY DEF EngineNext, evars, EngineTypeOK, Write, ValueWrite, Insert, Update, WriteReturns, Read,
         Get, ValueRead, ReadReturns, KillAndOpen, CloseEngine, EGoto
<1>3. index' \in [Keys -> Nat \union {-1}]
  <2>1. CASE KillAndOpen
    BY <1>1, <2>1, KillLeaves DEF EngineTypeOK
  <2>2. CASE ~KillAndOpen
    BY <1>1, <2>2 DEF EngineNext, evars, EngineTypeOK, Write, ValueWrite, Insert, Update, Tree!Insert,
       Tree!Update, WriteReturns, Read, Get, ValueRead, ReadReturns, CloseEngine
  <2> QED BY <2>1, <2>2
<1>4. want' \in [Threads -> Keys]
  BY ValueAssumption, NewType DEF EngineNext, evars, EngineTypeOK, Write, ValueWrite, Insert, Update,
         WriteReturns, Read, Get, ValueRead, ReadReturns, KillAndOpen, CloseEngine
<1>5. ret' \in [Threads -> {"kSucc", "kNotFound"}]
  BY DEF EngineNext, evars, EngineTypeOK, Write, ValueWrite, Insert, Update, WriteReturns, Read,
         Get, ValueRead, ReadReturns, KillAndOpen, CloseEngine
<1>6. done' \subseteq Keys
  <2>1. CASE KillAndOpen
    BY <2>1, KillLeaves DEF EngineTypeOK
  <2>2. CASE ~KillAndOpen
    BY <1>1, <2>2 DEF EngineNext, evars, EngineTypeOK, Write, ValueWrite, Insert, Update, WriteReturns,
         Read, Get, ValueRead, ReadReturns, CloseEngine
  <2> QED BY <2>1, <2>2
<1>7. owed' \in [Threads -> BOOLEAN]
  <2>1. CASE owed' = owed
    BY <2>1 DEF EngineTypeOK
  <2>2. ASSUME NEW t \in Threads, NEW b \in BOOLEAN, owed' = [owed EXCEPT ![t] = b]
        PROVE  owed' \in [Threads -> BOOLEAN]
    BY <2>2 DEF EngineTypeOK
  <2>3. ASSUME NEW t \in Threads, NEW k \in Keys, Read(t, k)
        PROVE  owed' \in [Threads -> BOOLEAN]
    <3>1. CASE k \in done
      BY <2>2, <2>3, <3>1 DEF Read
    <3>2. CASE k \notin done
      <4>1. owed' = [owed EXCEPT ![t] = FALSE]
        <5>1. (k \in done) = FALSE
          BY <3>2
        <5>2. owed' = [owed EXCEPT ![t] = (k \in done)]
          BY <2>3 DEF Read
        <5> QED BY ONLY <5>1, <5>2, Zenon
      <4> QED BY <2>2, <4>1
    <3> QED BY <3>1, <3>2
  <2>4. CASE KillAndOpen
    BY <2>4 DEF KillAndOpen
  <2>5. CASE ~KillAndOpen
    BY <2>1, <2>3, <2>5, ValueAssumption DEF EngineNext, evars, Write, ValueWrite, Insert,
        Update, WriteReturns, Get, ValueRead, ReadReturns, CloseEngine
  <2> QED BY <2>4, <2>5
<1>8. rooted' \in BOOLEAN
  BY RootStays
<1> QED BY <1>0, <1>2, <1>3, <1>4, <1>5, <1>6, <1>7, <1>8 DEF EngineTypeOK

LEMMA IndexValidStep ==
  ASSUME Wired, EngineInv, [EngineNext]_evars
  PROVE  IndexValid'
<1> SUFFICES ASSUME NEW k \in Keys, index'[k] # -1
             PROVE  \E a \in acked' : a.key = k /\ a.pos = index'[k]
  BY DEF IndexValid
<1>0. acked \subseteq acked'
  BY EngineStepIsValueStep, AckedGrows
<1>1. CASE index'[k] = index[k]
  BY <1>0, <1>1 DEF EngineInv, IndexValid
<1>2. CASE index'[k] # index[k]
  <2>1. PICK t \in Threads : /\ epc[t] \in {"insert", "update"}
                             /\ k = key[t] /\ index'[k] = at[t]
    BY <1>2, NewOffset DEF EngineInv
  <2>2. [key |-> key[t], val |-> val[t], pos |-> at[t]] \in acked
    BY <2>1 DEF EngineInv, Nested
  <2> QED BY <1>0, <2>1, <2>2
<1> QED BY <1>1, <1>2

LEMMA NestedStep ==
  ASSUME Wired, EngineInv, [EngineNext]_evars
  PROVE  Nested'
<1> USE DEF InWrite, InRead, EngineInv, EngineTypeOK
<1> DEFINE N(s) ==
      /\ epc[s] = "value_write" <=> pc[s] \in WriteSteps
      /\ epc[s] = "value_read" <=> pc[s] \in ReadSteps
      /\ epc[s] = "value_read" => key[s] = want[s] /\ ret[s] = "kSucc"
      /\ epc[s] = "value_read" /\ rooted => \E a \in acked : a.key = key[s] /\ a.pos = at[s]
      /\ epc[s] \in InRead => s \in Readers
      /\ epc[s] \in {"insert", "update", "write_end"} =>
           [key |-> key[s], val |-> val[s], pos |-> at[s]] \in acked
<1>a. \A s \in Threads : (at[s] \in Returned(key[s])
                          <=> \E a \in acked : a.key = key[s] /\ a.pos = at[s])'
  BY DEF Returned
<1> SUFFICES ASSUME NEW s \in Threads PROVE N(s)'
  BY <1>a, ZenonT(60) DEF Nested
<1>0. N(s) /\ acked \subseteq acked' /\ (rooted' => rooted)
  BY EngineStepIsValueStep, AckedGrows, RootStays DEF Nested, Returned
<1>1. ASSUME epc'[s] = epc[s], pc'[s] = pc[s], key'[s] = key[s], val'[s] = val[s], at'[s] = at[s],
             want'[s] = want[s], ret'[s] = ret[s]
      PROVE  N(s)'
  BY <1>0, <1>1
<1>2. ASSUME NEW t \in Threads, NEW k, NEW v, Write(t, k, v)
      PROVE  N(s)'
  <2>1. CASE s = t
    BY <1>0, <1>2, <2>1 DEF Write, EGoto, CallWrite, Goto, TypeOK, WriteSteps, ReadSteps
  <2>2. CASE s # t
    BY <1>1, <1>2, <2>2 DEF Write, EGoto, CallWrite, Goto, TypeOK
  <2> QED BY <2>1, <2>2
<1>3. ASSUME NEW t \in Threads, ValueWrite(t)
      PROVE  N(s)'
  <2>1. WriteStep(t) /\ epc[t] = "value_write"
        /\ epc' = [epc EXCEPT ![t] = IF pc'[t] = "idle" THEN "insert" ELSE @]
        /\ want' = want /\ ret' = ret
    BY <1>3 DEF ValueWrite
  <2>2. CASE s = t
    <3>1. key' = key /\ val' = val
      BY <2>1, Frame
    <3> QED BY <2>1, <2>2, <3>1, InsideWrite DEF WriteSteps, ReadSteps
  <2>3. CASE s # t
    <3>1. pc'[s] = pc[s] /\ key'[s] = key[s] /\ val'[s] = val[s] /\ at'[s] = at[s]
      BY <2>1, <2>3, Frame
    <3> QED BY <1>1, <2>1, <2>3, <3>1
  <2> QED BY <2>2, <2>3
<1>4. ASSUME NEW t \in Threads, ValueRead(t)
      PROVE  N(s)'
  <2>1. ReadStep(t) /\ epc[t] = "value_read"
        /\ epc' = [epc EXCEPT ![t] = IF pc'[t] = "idle" THEN "read_end" ELSE @]
        /\ want' = want /\ ret' = ret
    BY <1>4 DEF ValueRead
  <2>2. CASE s = t
    <3>1. key' = key /\ at' = at
      BY <2>1, Frame DEF ReadStep, FSeekSet, FRead, ReturnRead, thread
    <3> QED BY <1>0, <2>1, <2>2, <3>1, InsideRead DEF WriteSteps, ReadSteps
  <2>3. CASE s # t
    <3>1. pc'[s] = pc[s] /\ key'[s] = key[s] /\ val'[s] = val[s] /\ at'[s] = at[s]
      BY <2>1, <2>3, Frame
    <3> QED BY <1>1, <2>1, <2>3, <3>1
  <2> QED BY <2>2, <2>3
<1>5. ASSUME NEW t \in Threads, Insert(t) \/ Update(t) \/ WriteReturns(t) \/ ReadReturns(t)
      PROVE  N(s)'
  <2>1. UNCHANGED vars
    BY <1>5 DEF Insert, Update, WriteReturns, ReadReturns
  <2>2. pc' = pc /\ key' = key /\ val' = val /\ at' = at /\ want' = want /\ ret' = ret
    BY <1>5, <2>1 DEF Insert, Update, WriteReturns, ReadReturns, vars
  <2>3. CASE s = t
    BY <1>0, <1>5, <2>2, <2>3 DEF Insert, Update, WriteReturns, ReadReturns, EGoto
  <2>4. CASE s # t
    BY <1>1, <1>5, <2>2, <2>4 DEF Insert, Update, WriteReturns, ReadReturns, EGoto
  <2> QED BY <2>3, <2>4
<1>6. ASSUME NEW t \in Readers, NEW k, Read(t, k)
      PROVE  N(s)'
  <2>1. pc' = pc /\ key' = key /\ val' = val /\ at' = at
    BY <1>6 DEF Read, vars
  <2>2. CASE s = t
    BY <1>0, <1>6, <2>1, <2>2 DEF Read, EGoto
  <2>3. CASE s # t
    BY <1>1, <1>6, <2>1, <2>3 DEF Read, EGoto
  <2> QED BY <2>2, <2>3
<1>7. ASSUME NEW t \in Threads, Get(t)
      PROVE  N(s)'
  <2>0. want' = want /\ epc[t] = "get" /\ rooted' = rooted
    BY <1>7 DEF Get
  <2>1. CASE s # t
    BY <1>1, <1>7, <2>1 DEF Get, CallRead, Goto, TypeOK, vars
  <2>2. CASE s = t /\ UNCHANGED vars
    <3>1. pc' = pc /\ key' = key /\ val' = val /\ at' = at
      BY <2>2 DEF vars
    <3>2. \/ epc' = [epc EXCEPT ![t] = "read_end"]
          \/ \E p : CallRead(t, want[t], p)
      BY <1>7 DEF Get
    <3>3. ~ \E p : CallRead(t, want[t], p)
      BY <3>1 DEF CallRead, Goto, TypeOK
    <3> QED BY <1>0, <2>0, <2>2, <3>1, <3>2, <3>3
  <2>3. ASSUME NEW p, CallRead(t, want[t], p), epc' = [epc EXCEPT ![t] = "value_read"],
               ret' = [ret EXCEPT ![t] = "kSucc"], s = t,
               rooted => p = index[want[t]] /\ p # -1
        PROVE  N(s)'
    <3>1. /\ pc'[s] = "fseek_set" /\ epc'[s] = "value_read" /\ key'[s] = want[s] /\ at'[s] = p
          /\ ret'[s] = "kSucc"
      BY <2>3 DEF CallRead, Goto, TypeOK
    <3>2. rooted => \E a \in acked : a.key = want[s] /\ a.pos = p
      BY <2>3 DEF IndexValid
    <3>3. s \in Readers
      BY <1>0, <2>0, <2>3
    <3> QED BY <1>0, <2>0, <3>1, <3>2, <3>3 DEF WriteSteps, ReadSteps
  <2>4. \/ UNCHANGED vars
        \/ \E p : /\ CallRead(t, want[t], p) /\ epc' = [epc EXCEPT ![t] = "value_read"]
                  /\ ret' = [ret EXCEPT ![t] = "kSucc"]
                  /\ rooted => p = index[want[t]] /\ p # -1
    BY <1>7 DEF Get, Offsets, HasTree
  <2> QED BY <2>1, <2>2, <2>3, <2>4
<1>8. CASE KillAndOpen
  BY <1>0, <1>8 DEF KillAndOpen, Crash, WriteSteps, ReadSteps
<1>9. CASE UNCHANGED evars
  BY <1>1, <1>9 DEF evars, vars
<1>10. CASE CloseEngine
  BY <1>1, <1>10 DEF CloseEngine, CloseFiles, thread
<1> QED
  BY <1>2, <1>3, <1>4, <1>5, <1>6, <1>7, <1>8, <1>9, <1>10, ValueAssumption DEF EngineNext

\* Offsets leave the index only in a kill.
LEMMA IndexGrows ==
  ASSUME EngineInv, [EngineNext]_evars, ~KillAndOpen
  PROVE  \A k \in Keys : index[k] # -1 => index'[k] # -1
<1>1. CASE index' = index
  BY <1>1
<1>2. ASSUME NEW t \in Threads, index' = [index EXCEPT ![key[t]] = at[t]]
      PROVE  \A k \in Keys : index[k] # -1 => index'[k] # -1
  BY <1>2 DEF EngineInv, EngineTypeOK, TypeOK
<1> QED BY <1>1, <1>2, ValueAssumption
       DEF EngineNext, evars, Write, ValueWrite, Insert, Update, Tree!Insert, Tree!Update, WriteReturns, Read, Get,
           ValueRead, ReadReturns, CloseEngine

\* Where a thread's call can be on its way: the actions of the other threads
\* leave it alone.
LEMMA OnlyOwnSteps ==
  ASSUME EngineInv, [EngineNext]_evars, NEW s \in Threads, epc'[s] # "idle"
  PROVE  \/ /\ epc'[s] = epc[s] /\ want'[s] = want[s] /\ owed'[s] = owed[s]
            /\ ret'[s] = ret[s]
            /\ epc[s] = "write_end" => key'[s] = key[s]
         \/ \E k \in Keys, v \in Vals : Write(s, k, v)
         \/ \E k \in Keys : Read(s, k)
         \/ ValueWrite(s) \/ Insert(s) \/ Update(s) \/ Get(s) \/ ValueRead(s)
<1> USE DEF EngineInv, EngineTypeOK, TypeOK
<1>1. ASSUME NEW t \in Threads, t # s,
             \/ \E k \in Keys, v \in Vals : Write(t, k, v)
             \/ \E k \in Keys : Read(t, k)
             \/ ValueWrite(t) \/ ValueRead(t) \/ Get(t)
      PROVE  epc'[s] = epc[s] /\ want'[s] = want[s] /\ owed'[s] = owed[s]
             /\ ret'[s] = ret[s] /\ key'[s] = key[s]
  <2>1. CASE \E k \in Keys, v \in Vals : Write(t, k, v)
    BY <1>1, <2>1 DEF Write, EGoto, CallWrite
  <2>2. CASE \E k \in Keys : Read(t, k)
    BY <1>1, <2>2 DEF Read, EGoto, vars
  <2>3. CASE ValueWrite(t) \/ ValueRead(t)
    <3>1. key' = key
      BY <2>3, Frame DEF ValueWrite, ValueRead
    <3> QED BY <1>1, <2>3, <3>1 DEF ValueWrite, ValueRead
  <2>4. CASE Get(t)
    BY <1>1, <2>4 DEF Get, CallRead, vars
  <2> QED BY <1>1, <2>1, <2>2, <2>3, <2>4
<1>2. ASSUME NEW t \in Threads, t # s \/ WriteReturns(t) \/ ReadReturns(t),
             Insert(t) \/ Update(t) \/ WriteReturns(t) \/ ReadReturns(t)
      PROVE  epc'[s] = epc[s] /\ want'[s] = want[s] /\ owed'[s] = owed[s]
             /\ ret'[s] = ret[s] /\ key'[s] = key[s]
  BY <1>2 DEF Insert, Update, WriteReturns, ReadReturns, EGoto, vars
<1>3. ~KillAndOpen
  BY DEF KillAndOpen
<1>4. CASE UNCHANGED evars
  BY <1>4 DEF evars, vars
<1>5. ASSUME NEW t \in Writers, NEW k \in Keys, NEW v \in Vals, Write(t, k, v), t # s
      PROVE  epc'[s] = epc[s] /\ want'[s] = want[s] /\ owed'[s] = owed[s]
             /\ ret'[s] = ret[s] /\ key'[s] = key[s]
  BY <1>1, <1>5, ValueAssumption
<1>6. ASSUME NEW t \in Readers, NEW k \in Keys, Read(t, k), t # s
      PROVE  epc'[s] = epc[s] /\ want'[s] = want[s] /\ owed'[s] = owed[s]
             /\ ret'[s] = ret[s] /\ key'[s] = key[s]
  BY <1>1, <1>6, ValueAssumption
<1>7. CASE CloseEngine
  BY <1>7 DEF CloseEngine, CloseFiles, thread
<1> QED BY <1>1, <1>2, <1>3, <1>4, <1>5, <1>6, <1>7 DEF EngineNext

LEMMA DoneIndexedStep ==
  ASSUME Wired, EngineInv, EngineTypeOK', [EngineNext]_evars
  PROVE  DoneIndexed' /\ WrittenIsFound'
<1> USE DEF EngineInv, EngineTypeOK, TypeOK
<1> SUFFICES ASSUME rooted'
             PROVE  DoneIndexed' /\ WrittenIsFound'
  BY DEF DoneIndexed, WrittenIsFound
<1>0. rooted
  BY RootStays
<1>1. ASSUME NEW k \in done'
      PROVE  index'[k] # -1
  <2>1. CASE k \in done /\ ~KillAndOpen
    BY <1>0, <2>1, IndexGrows DEF DoneIndexed
  <2>2. CASE k \notin done /\ ~KillAndOpen
    <3>1. PICK t \in Threads : WriteReturns(t)
      BY <1>1, <2>2, ValueAssumption DEF EngineNext, evars, Write, ValueWrite, Insert, Update, Read,
         Get, ValueRead, ReadReturns, CloseEngine
    <3>2. epc[t] = "write_end" /\ k = key[t] /\ index' = index
      BY <1>1, <2>2, <3>1 DEF WriteReturns, EGoto
    <3> QED BY <1>0, <3>2 DEF DoneIndexed
  <2>3. CASE KillAndOpen
    <3>1. CASE index' = index /\ done' = done
      BY <1>0, <1>1, <3>1 DEF DoneIndexed
    <3>2. CASE done' = {}
      BY <1>1, <3>2
    <3>3. CASE done' = done /\ \E t \in Threads : index' = [index EXCEPT ![key[t]] = at[t]]
      BY <1>0, <1>1, <3>3 DEF DoneIndexed
    <3> QED BY <2>3, <3>1, <3>2, <3>3, KillLeaves
  <2> QED BY <2>1, <2>2, <2>3
<1>2. ASSUME NEW s \in Threads, epc'[s] # "idle"
      PROVE  /\ epc'[s] = "write_end" => index'[key'[s]] # -1
             /\ epc'[s] = "get" /\ owed'[s] => index'[want'[s]] # -1
             /\ epc'[s] = "read_end" /\ owed'[s] => ret'[s] = "kSucc"
  <2>0. ~KillAndOpen
    BY <1>2 DEF KillAndOpen
  <2>1. CASE /\ epc'[s] = epc[s] /\ want'[s] = want[s] /\ owed'[s] = owed[s]
             /\ ret'[s] = ret[s]
             /\ epc[s] = "write_end" => key'[s] = key[s]
    BY <1>0, <2>0, <2>1, IndexGrows DEF DoneIndexed, WrittenIsFound
  <2>2. CASE \E k \in Keys, v \in Vals : Write(s, k, v)
    BY <2>2 DEF Write, EGoto
  <2>3. ASSUME NEW k \in Keys, Read(s, k)
        PROVE  epc'[s] = "get" /\ (owed'[s] => index'[want'[s]] # -1)
    <3>1. epc'[s] = "get" /\ want'[s] = k /\ index' = index
      BY <2>3 DEF Read, EGoto
    <3>2. owed'[s] = (k \in done)
      BY <2>3 DEF Read
    <3> QED BY <1>0, <3>1, <3>2 DEF DoneIndexed
  <2>4. CASE ValueWrite(s)
    BY <2>4, InsideWrite DEF ValueWrite
  <2>5. CASE Insert(s) \/ Update(s)
    BY <1>0, <2>5 DEF Insert, Update, HasTree, Tree!Insert, Tree!Update, EGoto, vars
  <2>6. CASE Get(s)
    BY <1>0, <2>6 DEF Get, Offsets, HasTree, DoneIndexed
  <2>7. CASE ValueRead(s)
    BY <2>7 DEF ValueRead, Nested
  <2> QED BY <1>2, <2>1, <2>2, <2>3, <2>4, <2>5, <2>6, <2>7, OnlyOwnSteps
<1> QED BY <1>1, <1>2 DEF DoneIndexed, WrittenIsFound

LEMMA EngineStepInv ==
  ASSUME Wired, EngineInv, [EngineNext]_evars
  PROVE  EngineInv'
<1>1. EngineTypeOK'
  BY EngineTypeStep DEF EngineInv
<1>2. IndexValid' /\ Nested' /\ DoneIndexed' /\ WrittenIsFound'
  BY <1>1, IndexValidStep, NestedStep, DoneIndexedStep
<1> QED BY <1>1, <1>2 DEF EngineInv

\* The engine is a correct caller of the value files, so that the theorems of
\* ValueResourcesProofs hold of it as long as the tree has its root: it reads
\* only at offsets that write() has returned for the key.
THEOREM EngineUsesValueFiles ==
  ASSUME Wired
  PROVE  EngineSpec => UsesValueFiles
<1>1. EngineInit => EngineInv /\ Init
  BY EngineInitInv DEF EngineInit
<1>2. EngineInv /\ [EngineNext]_evars =>
        EngineInv' /\ [IF rooted THEN Next ELSE AnyNext]_vars
  BY EngineStepInv, EngineStepIsValueStep
<1> QED BY <1>1, <1>2, PTL DEF EngineSpec, UsesValueFiles

\* The engine's place in a call and the value files' place in theirs agree,
\* what the index holds was returned for that key, and, with a tree that has
\* its root, what was written since the last kill inside an insert is in the
\* index: the invariant behind the two theorems that follow.
THEOREM EngineInvariant ==
  ASSUME Wired
  PROVE  EngineSpec => []EngineInv
<1>1. EngineInit => EngineInv
  BY EngineInitInv
<1>2. EngineInv /\ [EngineNext]_evars => EngineInv'
  BY EngineStepInv
<1> QED BY <1>1, <1>2, PTL DEF EngineSpec

\* The index never points at an offset that write() has not returned for
\* that key, whatever writers run and wherever the process is killed,
\* tree operations included (engine_race.cc:42-49).
THEOREM IndexAlwaysValid ==
  ASSUME Wired
  PROVE  EngineSpec => []IndexValid
<1>1. EngineInv => IndexValid
  BY DEF EngineInv
<1> QED BY <1>1, EngineInvariant, PTL

\* A Read that begins after a Write of its key returned never answers
\* kNotFound, whatever runs beside it (engine_race.cc:42-62), unless a kill
\* inside an insert came between the two or the tree has lost its root: a
\* kill at any other place loses no key.
THEOREM WrittenKeysFound ==
  ASSUME Wired
  PROVE  EngineSpec => []WrittenIsFound
<1>1. EngineInv => WrittenIsFound
  BY DEF EngineInv
<1> QED BY <1>1, EngineInvariant, PTL

-----------------------------------------------------------------------------
(* The engine implements the store of include/engine.h: every step of a    *)
(* call is a step of KVStore, or leaves its map and its calls alone, as    *)
(* long as the value files' offsets are right and its reads exact.         *)


\* Different values have different cells.
LEMMA CellsTell ==
  ASSUME NEW v \in Vals, NEW w \in Vals, Cells(v) = Cells(w)
  PROVE  v = w
<1>1. 1 \in 1 .. VALUE_SIZE
  BY ValueAssumption
<1>2. Cells(v)[1] = <<v, 1>> /\ Cells(w)[1] = <<w, 1>>
  BY <1>1 DEF Cells
<1> QED BY <1>2

LEMMA ValueOfCells ==
  ASSUME NEW v \in Vals
  PROVE  ValueOf(Cells(v)) = v
<1> DEFINE w == CHOOSE x \in Vals : Cells(v) = Cells(x)
<1>1. w \in Vals /\ Cells(v) = Cells(w)
  OBVIOUS
<1>2. w = v
  BY <1>1, CellsTell
<1> QED BY <1>2 DEF ValueOf

\* An offset tells which value is there.
LEMMA ValueInHolds ==
  ASSUME NEW s, NEW p \in Nat, NEW v \in Vals, Holds(s, p, v)
  PROVE  ValueIn(s, p) = v
<1> DEFINE w == CHOOSE x \in Vals : Holds(s, p, x)
<1>1. w \in Vals /\ Holds(s, p, w)
  OBVIOUS
<1>2. 1 \in 1 .. VALUE_SIZE
  BY ValueAssumption
<1>3. s[p + 1] = <<v, 1>> /\ s[p + 1] = <<w, 1>>
  BY <1>1, <1>2 DEF Holds
<1>4. w = v
  BY <1>3
<1> QED BY <1>4 DEF ValueIn

\* A written value is what its offset addresses, before a step and after.
LEMMA AckedValue ==
  ASSUME TypeOK, AckedPlaced, TypeOK', AckedPlaced', [AnyNext]_vars, NEW a \in acked
  PROVE  /\ a.val \in Vals /\ a.key \in Keys /\ a.pos \in Nat
         /\ ValueIn(file[Bucket(a.key)], a.pos) = a.val
         /\ ValueIn(file'[Bucket(a.key)], a.pos) = a.val
<1>1. a.val \in Vals /\ a.key \in Keys /\ a.pos \in Nat /\ a \in acked'
  BY AckedGrows DEF TypeOK
<1>2. Holds(file[Bucket(a.key)], a.pos, a.val)
  BY DEF AckedPlaced
<1>3. Holds(file'[Bucket(a.key)], a.pos, a.val)
  BY <1>1 DEF AckedPlaced, Holds, Bucket
<1> QED BY <1>1, <1>2, <1>3, ValueInHolds

\* What a step meets: the engine and the value files in order, before it and
\* after it.
Sound == EngineInv /\ ReadInv

LEMMA SoundParts ==
  ASSUME Sound
  PROVE  /\ EngineTypeOK /\ IndexValid /\ Nested /\ DoneIndexed
         /\ TypeOK /\ AckedPlaced /\ ReadersRead /\ ReadReturnsWritten
BY DEF Sound, EngineInv, ReadInv, PlacedInv

LEMMA SoundPartsAfter ==
  ASSUME Sound'
  PROVE  /\ EngineTypeOK' /\ IndexValid' /\ Nested' /\ DoneIndexed'
         /\ TypeOK' /\ AckedPlaced' /\ ReadersRead' /\ ReadReturnsWritten'
BY DEF Sound, EngineInv, ReadInv, PlacedInv

LEMMA StoreKept ==
  ASSUME Sound, Sound', [AnyNext]_vars, NEW k \in Keys, index'[k] = index[k]
  PROVE  Store'[k] = Store[k]
<1>1. CASE index[k] = -1
  BY <1>1 DEF Store
<1>2. CASE index[k] # -1
  <2>1. PICK a \in acked : a.key = k /\ a.pos = index[k]
    BY <1>2, SoundParts DEF IndexValid
  <2>2. ValueIn(file[Bucket(k)], index[k]) = a.val /\ ValueIn(file'[Bucket(k)], index[k]) = a.val
    BY <2>1, AckedValue, SoundParts, SoundPartsAfter
  <2> QED BY <2>2 DEF Store, ValueAt, Bucket
<1> QED BY <1>1, <1>2

LEMMA StoreSame ==
  ASSUME Sound, Sound', [AnyNext]_vars, index' = index
  PROVE  Store' = Store
<1>1. \A k \in Keys : Store'[k] = Store[k]
  BY StoreKept
<1> QED BY <1>1 DEF Store

\* What the thread is in, seen from outside.
Same(s) == /\ epc'[s] = epc[s] /\ pc'[s] = pc[s] /\ key'[s] = key[s] /\ val'[s] = val[s]
           /\ at'[s] = at[s] /\ got'[s] = got[s] /\ want'[s] = want[s] /\ ret'[s] = ret[s]

\* Inside read() the answer is already settled: the value at the offset.
LEMMA AnswerIs ==
  ASSUME rooted, Sound, Sound', [AnyNext]_vars, NEW s \in Threads, epc[s] = "value_read"
  PROVE  \E a \in acked : /\ a.key = want[s] /\ a.pos = at[s] /\ a.val \in Vals
                          /\ ValueIn(file'[Bucket(a.key)], a.pos) = a.val
                          /\ pc[s] = "read_done" => got[s] = Cells(a.val)
                          /\ CallOf(s) = [op |-> "answer", val |-> a.val]
<1>1. key[s] = want[s] /\ at[s] \in Returned(key[s])
  BY SoundParts DEF Nested
<1>2. PICK a \in acked : a.key = key[s] /\ a.pos = at[s]
  BY <1>1 DEF Returned
<1>3. /\ ValueIn(file[Bucket(a.key)], a.pos) = a.val /\ a.val \in Vals
      /\ ValueIn(file'[Bucket(a.key)], a.pos) = a.val
  BY AckedValue, SoundParts, SoundPartsAfter
<1>4. pc[s] = "read_done" => got[s] = Cells(a.val)
  BY <1>2, SoundParts DEF ReadReturnsWritten
<1>5. pc[s] = "read_done" => Delivered(s) = a.val
  BY <1>3, <1>4, ValueOfCells DEF Delivered
<1>6. ValueAt(want[s], at[s]) = a.val
  BY <1>1, <1>2, <1>3 DEF ValueAt
<1>7. CallOf(s) = [op |-> "answer", val |-> a.val]
  BY <1>5, <1>6 DEF CallOf
<1> QED BY <1>1, <1>2, <1>3, <1>4, <1>7

LEMMA CallKept ==
  ASSUME rooted, Sound, Sound', [AnyNext]_vars, NEW s \in Threads, Same(s)
  PROVE  Calls'[s] = Calls[s]
<1>1. CASE epc[s] = "value_read"
  <2>1. PICK a \in acked : /\ a.key = want[s] /\ a.pos = at[s] /\ a.val \in Vals
                           /\ ValueIn(file'[Bucket(a.key)], a.pos) = a.val
                           /\ pc[s] = "read_done" => got[s] = Cells(a.val)
                           /\ CallOf(s) = [op |-> "answer", val |-> a.val]
    BY <1>1, AnswerIs
  <2>2. Delivered(s)' = ValueOf(got[s])
    BY DEF Same, Delivered, ValueOf, Cells
  <2>3. ValueAt(want[s], at[s])' = a.val
    BY <2>1 DEF Same, ValueAt, Bucket
  <2>4. CallOf(s)' = [op |-> "answer", val |-> a.val]
    BY <1>1, <2>1, <2>2, <2>3, ValueOfCells DEF CallOf, Same
  <2> QED BY <2>1, <2>4 DEF Calls
<1>2. CASE epc[s] # "value_read"
  <2>1. CallOf(s)' = CallOf(s)
    BY <1>2 DEF CallOf, Same, Delivered, ValueOf, Cells
  <2> QED BY <2>1 DEF Calls
<1> QED BY <1>1, <1>2

\* When one thread moves, its call is the only one that can.
LEMMA CallsMove ==
  ASSUME rooted, Sound, Sound', [AnyNext]_vars, NEW t \in Threads, \A s \in Threads \ {t} : Same(s)
  PROVE  Calls' = [Calls EXCEPT ![t] = Calls'[t]]
<1>1. \A s \in Threads \ {t} : Calls'[s] = Calls[s]
  BY CallKept
<1>2. Calls = [s \in Threads |-> Calls[s]] /\ Calls' = [s \in Threads |-> Calls'[s]]
  BY DEF Calls
<1> QED BY <1>1, <1>2

LEMMA OthersSame ==
  ASSUME Sound, NEW t \in Threads,
         \/ \E k \in Keys, v \in Vals : Write(t, k, v)
         \/ \E k \in Keys : Read(t, k)
         \/ ValueWrite(t) \/ Insert(t) \/ Update(t) \/ WriteReturns(t)
         \/ Get(t) \/ ValueRead(t) \/ ReadReturns(t)
  PROVE  \A s \in Threads \ {t} : Same(s)
<1> SUFFICES ASSUME NEW s \in Threads \ {t} PROVE Same(s)
  OBVIOUS
<1> USE SoundParts DEF EngineTypeOK, TypeOK, Same
<1>1. CASE ValueWrite(t) \/ ValueRead(t)
  <2>1. WriteStep(t) \/ ReadStep(t)
    BY <1>1 DEF ValueWrite, ValueRead
  <2>2. /\ key' = key /\ val' = val
        /\ pc'[s] = pc[s] /\ at'[s] = at[s] /\ got'[s] = got[s]
    BY <2>1, Frame
  <2> QED BY <1>1, <2>2 DEF ValueWrite, ValueRead
<1>2. CASE Insert(t) \/ Update(t) \/ WriteReturns(t) \/ ReadReturns(t)
  BY <1>2 DEF Insert, Update, WriteReturns, ReadReturns, EGoto, vars
<1>3. CASE Get(t)
  BY <1>3 DEF Get, CallRead, Goto, vars
<1>4. CASE \E k \in Keys, v \in Vals : Write(t, k, v)
  BY <1>4 DEF Write, EGoto, CallWrite, Goto
<1>5. CASE \E k \in Keys : Read(t, k)
  BY <1>5 DEF Read, EGoto, vars
<1> QED BY <1>1, <1>2, <1>3, <1>4, <1>5

-----------------------------------------------------------------------------
(* The steps that KVStore takes too.                                       *)

LEMMA WriteBegins ==
  ASSUME rooted, Sound, Sound', [AnyNext]_vars,
         NEW t \in Threads, NEW k \in Keys, NEW v \in Vals, Write(t, k, v)
  PROVE  KV!Next
<1>1. Store' = Store /\ Calls' = [Calls EXCEPT ![t] = Calls'[t]]
  BY StoreSame, CallsMove, OthersSame DEF Write
<1>2. Calls[t] = [op |-> "idle"]
  BY DEF Write, EGoto, Calls, CallOf
<1>3. Calls'[t] = [op |-> "write", key |-> k, val |-> v]
  BY SoundParts DEF Write, EGoto, CallWrite, Calls, CallOf, EngineTypeOK, TypeOK
<1>4. Calls'[t] \in KV!Writing
  BY <1>3 DEF KV!Writing
<1>5. rooted' = rooted
  BY DEF Write
<1> QED BY <1>1, <1>2, <1>4, <1>5 DEF KV!Next, KV!Begin, KV!Idle

LEMMA ReadBegins ==
  ASSUME rooted, Sound, Sound', [AnyNext]_vars,
         NEW t \in Threads, NEW k \in Keys, Read(t, k)
  PROVE  KV!Next
<1>1. Store' = Store /\ Calls' = [Calls EXCEPT ![t] = Calls'[t]]
  BY StoreSame, CallsMove, OthersSame DEF Read
<1>2. Calls[t] = [op |-> "idle"]
  BY DEF Read, EGoto, Calls, CallOf
<1>3. Calls'[t] = [op |-> "read", key |-> k]
  BY SoundParts DEF Read, EGoto, Calls, CallOf, EngineTypeOK
<1>4. Calls'[t] \in KV!Reading
  BY <1>3 DEF KV!Reading
<1>5. rooted' = rooted
  BY DEF Read
<1> QED BY <1>1, <1>2, <1>4, <1>5 DEF KV!Next, KV!Begin, KV!Idle

\* The instant of a Write: its offset enters the index.
LEMMA WritePuts ==
  ASSUME rooted, Sound, Sound', [AnyNext]_vars, NEW t \in Threads, Insert(t) \/ Update(t),
         index' = [index EXCEPT ![key[t]] = at[t]], epc'[t] = "write_end"
  PROVE  KV!Next
<1>1. Calls' = [Calls EXCEPT ![t] = Calls'[t]]
  BY CallsMove, OthersSame
<1>2. /\ epc[t] \in {"insert", "update"} /\ key[t] \in Keys /\ val[t] \in Vals /\ at[t] \in Nat
      /\ file' = file
  BY SoundParts DEF Insert, Update, EGoto, TypeOK, vars
<1>3. Calls[t] = [op |-> "write", key |-> key[t], val |-> val[t]]
  BY <1>2 DEF Calls, CallOf
<1>4. Calls'[t] = [op |-> "written"]
  BY DEF Calls, CallOf
<1>5. [key |-> key[t], val |-> val[t], pos |-> at[t]] \in acked
  BY <1>2, SoundParts DEF Nested
<1>6. ValueIn(file'[Bucket(key[t])], at[t]) = val[t]
  BY <1>5, AckedValue, SoundParts, SoundPartsAfter
<1>7. Store'[key[t]] = val[t]
  <2>1. index'[key[t]] = at[t] /\ at[t] # -1
    BY <1>2, SoundParts DEF EngineTypeOK
  <2> QED BY <1>2, <1>6, <2>1 DEF Store, ValueAt, Bucket
<1>8. \A k \in Keys \ {key[t]} : Store'[k] = Store[k]
  BY StoreKept, SoundParts DEF EngineTypeOK
<1>9. Store' = [Store EXCEPT ![key[t]] = val[t]]
  <2>1. Store = [k \in Keys |-> Store[k]] /\ Store' = [k \in Keys |-> Store'[k]]
    BY DEF Store
  <2> QED BY <1>7, <1>8, <2>1
<1>10. Calls[t].op = "write" /\ Calls[t].key = key[t] /\ Calls[t].val = val[t]
  BY <1>3
<1>11. Calls' = [Calls EXCEPT ![t] = [op |-> "written"]]
  BY <1>1, <1>4, Zenon
<1>12. Store' = [Store EXCEPT ![Calls[t].key] = Calls[t].val]
  BY <1>9, <1>10, Zenon
<1>13. rooted' = rooted
  BY DEF Insert, Update
<1> QED BY <1>10, <1>11, <1>12, <1>13 DEF KV!Next, KV!Put

\* The instant of a Read: it looks the offset up.
LEMMA ReadGets ==
  ASSUME Wired, rooted, Sound, Sound', [AnyNext]_vars, NEW t \in Threads, Get(t)
  PROVE  KV!Next
<1>1. Store' = Store /\ Calls' = [Calls EXCEPT ![t] = Calls'[t]]
  BY StoreSame, CallsMove, OthersSame DEF Get
<1>2. want[t] \in Keys /\ want' = want /\ epc[t] = "get"
  BY SoundParts DEF Get, EngineTypeOK
<1>3. Calls[t] = [op |-> "read", key |-> want[t]]
  BY <1>2 DEF Calls, CallOf
<1>4. Calls'[t] = [op |-> "answer", val |-> Store[want[t]]]
  <2>1. CASE index[want[t]] = -1
    <3>1. epc'[t] = "read_end" /\ ret'[t] = "kNotFound"
      BY <2>1, SoundParts DEF Get, Offsets, HasTree, EngineTypeOK
    <3> QED BY <1>2, <2>1, <3>1 DEF Calls, CallOf, Store
  <2>2. CASE index[want[t]] # -1
    <3>1. /\ epc'[t] = "value_read" /\ pc'[t] = "fseek_set" /\ at'[t] = index[want[t]]
          /\ file' = file
      BY <2>2, SoundParts DEF Get, Offsets, HasTree, CallRead, Goto, stream, EngineTypeOK, TypeOK
    <3>2. ValueAt(want[t], at[t])' = ValueAt(want[t], index[want[t]])
      BY <1>2, <3>1 DEF ValueAt, ValueIn, Holds, Bucket
    <3> QED BY <1>2, <2>2, <3>1, <3>2 DEF Calls, CallOf, Store
  <2> QED BY <2>1, <2>2
<1>5. rooted' = rooted
  BY DEF Get
<1> QED BY <1>1, <1>3, <1>4, <1>5 DEF KV!Next, KV!Get

LEMMA CallEnds ==
  ASSUME rooted, Sound, Sound', [AnyNext]_vars, NEW t \in Threads, WriteReturns(t) \/ ReadReturns(t)
  PROVE  KV!Next
<1>1. Store' = Store /\ Calls' = [Calls EXCEPT ![t] = Calls'[t]]
  BY StoreSame, CallsMove, OthersSame DEF WriteReturns, ReadReturns
<1>2. Calls[t].op \in {"written", "answer"}
  BY DEF WriteReturns, ReadReturns, EGoto, Calls, CallOf
<1>3. Calls'[t] = [op |-> "idle"]
  BY SoundParts DEF WriteReturns, ReadReturns, EGoto, Calls, CallOf, EngineTypeOK
<1>4. rooted' = rooted
  BY DEF WriteReturns, ReadReturns
<1> QED BY <1>1, <1>2, <1>3, <1>4 DEF KV!Next, KV!Return, KV!Idle

-----------------------------------------------------------------------------
(* The steps that KVStore does not see.                                    *)

LEMMA ValueWriteUnseen ==
  ASSUME rooted, Sound, Sound', [AnyNext]_vars, NEW t \in Threads, ValueWrite(t)
  PROVE  UNCHANGED <<Store, Calls, rooted>>
<1>1. Store' = Store /\ Calls' = [Calls EXCEPT ![t] = Calls'[t]]
  BY StoreSame, CallsMove, OthersSame DEF ValueWrite
<1>2. /\ key' = key /\ val' = val /\ epc[t] = "value_write"
      /\ epc'[t] \in {"value_write", "insert"}
  BY Frame, SoundParts DEF ValueWrite, EngineTypeOK
<1>3. Calls'[t] = Calls[t]
  BY <1>2 DEF Calls, CallOf
<1>4. Calls' = Calls
  BY <1>1, <1>3 DEF Calls
<1> QED BY <1>1, <1>4 DEF ValueWrite

LEMMA RefusedInsertUnseen ==
  ASSUME rooted, Sound, Sound', [AnyNext]_vars, NEW t \in Threads, Insert(t),
         index' = index, epc'[t] = "update"
  PROVE  UNCHANGED <<Store, Calls, rooted>>
<1>1. Store' = Store /\ Calls' = [Calls EXCEPT ![t] = Calls'[t]]
  BY StoreSame, CallsMove, OthersSame
<1>2. key' = key /\ val' = val /\ epc[t] = "insert"
  BY DEF Insert, EGoto, vars
<1>3. Calls'[t] = Calls[t]
  BY <1>2 DEF Calls, CallOf
<1>4. Calls' = Calls
  BY <1>1, <1>3 DEF Calls
<1> QED BY <1>1, <1>4 DEF Insert

LEMMA ValueReadUnseen ==
  ASSUME rooted, Sound, Sound', [AnyNext]_vars, NEW t \in Threads, ValueRead(t)
  PROVE  UNCHANGED <<Store, Calls, rooted>>
<1>1. Store' = Store /\ Calls' = [Calls EXCEPT ![t] = Calls'[t]]
  BY StoreSame, CallsMove, OthersSame DEF ValueRead
<1>2. /\ ReadStep(t) /\ epc[t] = "value_read" /\ ret[t] = "kSucc" /\ key[t] = want[t]
      /\ want' = want /\ ret' = ret /\ key' = key
      /\ epc'[t] = IF pc'[t] = "idle" THEN "read_end" ELSE "value_read"
  BY Frame, SoundParts DEF ValueRead, Nested, EngineTypeOK
<1>3. PICK a \in acked : /\ a.key = want[t] /\ a.pos = at[t] /\ a.val \in Vals
                         /\ ValueIn(file'[Bucket(a.key)], a.pos) = a.val
                         /\ pc[t] = "read_done" => got[t] = Cells(a.val)
                         /\ CallOf(t) = [op |-> "answer", val |-> a.val]
  BY <1>2, AnswerIs
<1>4. at' = at
  BY <1>2 DEF ReadStep, FSeekSet, FRead, ReturnRead, thread
<1>5. ASSUME pc'[t] = "idle"
      PROVE  CallOf(t)' = [op |-> "answer", val |-> a.val]
  <2>1. pc[t] = "read_done" /\ got' = got
    BY <1>2, <1>5, SoundParts
       DEF ReadStep, FSeekSet, FRead, ReturnRead, Goto, TypeOK, thread
  <2>2. Delivered(t)' = ValueOf(got[t])
    BY <2>1 DEF Delivered, ValueOf, Cells
  <2>3. Delivered(t)' = a.val
    BY <1>3, <2>1, <2>2, ValueOfCells
  <2>4. epc'[t] = "read_end" /\ ret'[t] # "kNotFound"
    BY <1>2, <1>5
  <2> QED BY <2>3, <2>4 DEF CallOf
<1>6. ASSUME pc'[t] = "read_done"
      PROVE  CallOf(t)' = [op |-> "answer", val |-> a.val]
  <2>1. a \in acked' /\ a.key = key'[t] /\ a.pos = at'[t]
    BY <1>2, <1>3, <1>4, AckedGrows
  <2>2. got'[t] = Cells(a.val)
    BY <1>6, <2>1, SoundPartsAfter DEF ReadReturnsWritten, Cells
  <2>3. Delivered(t)' = ValueOf(got'[t])
    BY DEF Delivered, ValueOf, Cells
  <2>4. Delivered(t)' = a.val
    BY <1>3, <2>2, <2>3, ValueOfCells
  <2>5. epc'[t] = "value_read"
    BY <1>2, <1>6
  <2> QED BY <1>6, <2>4, <2>5 DEF CallOf
<1>7. ASSUME pc'[t] \notin {"idle", "read_done"}
      PROVE  CallOf(t)' = [op |-> "answer", val |-> a.val]
  <2>1. ValueAt(want[t], at[t])' = a.val
    BY <1>2, <1>3, <1>4 DEF ValueAt, Bucket
  <2>2. epc'[t] = "value_read"
    BY <1>2, <1>7
  <2> QED BY <1>7, <2>1, <2>2 DEF CallOf
<1>8. Calls'[t] = Calls[t]
  <2>1. CallOf(t)' = CallOf(t)
    BY <1>3, <1>5, <1>6, <1>7
  <2> QED BY <2>1 DEF Calls
<1>9. Calls' = Calls
  BY <1>1, <1>8 DEF Calls
<1> QED BY <1>1, <1>9 DEF ValueRead

LEMMA CloseUnseen ==
  ASSUME rooted, Sound, Sound', [AnyNext]_vars, CloseEngine \/ UNCHANGED evars
  PROVE  UNCHANGED <<Store, Calls, rooted>>
<1>1. \A s \in Threads : Same(s)
  BY DEF CloseEngine, CloseFiles, thread, evars, vars, Same
<1>2. Store' = Store
  BY StoreSame DEF CloseEngine, evars
<1>3. \A s \in Threads : Calls'[s] = Calls[s]
  BY <1>1, CallKept
<1> QED BY <1>2, <1>3 DEF Calls, CloseEngine, evars

\* What a kill does to the store: nothing, or what it does inside an insert
\* or an update, whose Write has not returned.
LEMMA KillKills ==
  ASSUME rooted, Sound, Sound', [AnyNext]_vars, KillAndOpen
  PROVE  KV!Next
<1> USE SoundParts DEF EngineTypeOK
<1>1. Calls' = KV!Quiet
  BY DEF KillAndOpen, Calls, CallOf, KV!Quiet, KV!Idle
<1>2. SUFFICES \/ UNCHANGED <<Store, rooted>>
               \/ Store = KV!Empty /\ Calls = KV!Quiet /\ ~rooted'
               \/ \E t \in Threads : /\ Calls[t].op = "write"
                                     /\ ~rooted' \/ (KV!Lose(t) /\ rooted' = rooted)
  BY <1>1 DEF KV!Next, KV!Kill
<1>3. CASE UNCHANGED <<index, rooted, done>>
  BY <1>3, StoreSame
<1>4. CASE KillInCreation
  <2>1. Store = KV!Empty
    BY <1>4 DEF KillInCreation, Store, KV!Empty
  <2>2. Calls = KV!Quiet
    BY <1>4 DEF KillInCreation, Calls, CallOf, KV!Quiet, KV!Idle
  <2> QED BY <1>4, <2>1, <2>2 DEF KillInCreation
<1>5. ASSUME NEW t \in Threads, epc[t] \in {"insert", "update"}
      PROVE  /\ Calls[t].op = "write" /\ Calls[t].key = key[t] /\ Calls[t].val = val[t]
             /\ key[t] \in Keys /\ at[t] # -1
             /\ index'[key[t]] = at[t] => Store'[key[t]] = val[t]
  <2>1. key[t] \in Keys /\ val[t] \in Vals /\ at[t] \in Nat
    BY DEF TypeOK
  <2>2. [key |-> key[t], val |-> val[t], pos |-> at[t]] \in acked
    BY <1>5 DEF Nested
  <2>3. ValueIn(file'[Bucket(key[t])], at[t]) = val[t]
    BY <2>2, AckedValue, SoundPartsAfter
  <2>4. index'[key[t]] = at[t] => Store'[key[t]] = val[t]
    BY <2>1, <2>3 DEF Store, ValueAt, Bucket
  <2>5. Calls[t] = [op |-> "write", key |-> key[t], val |-> val[t]]
    BY <1>5 DEF Calls, CallOf
  <2>6. Calls[t].op = "write" /\ Calls[t].key = key[t] /\ Calls[t].val = val[t]
    BY ONLY <2>5
  <2> QED BY <2>1, <2>4, <2>6
<1>6. ASSUME NEW t \in Threads, epc[t] \in {"insert", "update"}, NEW lost \in SUBSET Keys,
             index' = [k \in Keys |-> IF k \in lost THEN -1
                                     ELSE IF k = key[t] THEN at[t] ELSE index[k]]
      PROVE  KV!Lose(t)
  <2>1. Calls[t].key = key[t] /\ Calls[t].val = val[t]
    BY <1>5, <1>6
  <2>2. ASSUME NEW k \in Keys
        PROVE  Store'[k] = IF k \in lost THEN NotFound
                           ELSE IF k = key[t] THEN val[t] ELSE Store[k]
    <3>1. CASE k \in lost
      BY <1>6, <3>1 DEF Store
    <3>2. CASE k \notin lost /\ k = key[t]
      BY <1>5, <1>6, <3>2
    <3>3. CASE k \notin lost /\ k # key[t]
      BY <1>6, <3>3, StoreKept
    <3> QED BY <3>1, <3>2, <3>3
  <2>3. Store' = [k \in Keys |-> IF k \in lost THEN NotFound
                                ELSE IF k = key[t] THEN val[t] ELSE Store[k]]
    BY <2>2 DEF Store
  <2> QED BY <2>1, <2>3 DEF KV!Lose
<1>7. ASSUME NEW t \in Threads, KillInInsert(t)
      PROVE  Calls[t].op = "write" /\ (~rooted' \/ (KV!Lose(t) /\ rooted' = rooted))
  <2>1. Calls[t].op = "write"
    BY <1>5, <1>7 DEF KillInInsert
  <2>2. CASE ~rooted'
    BY <2>1, <2>2
  <2>3. CASE rooted'
    BY <1>6, <1>7, <2>1, <2>3 DEF KillInInsert
  <2> QED BY <2>2, <2>3
<1>8. ASSUME NEW t \in Threads, KillInUpdate(t)
      PROVE  Calls[t].op = "write" /\ KV!Lose(t) /\ rooted' = rooted
  <2>1. epc[t] = "update" /\ index' = [index EXCEPT ![key[t]] = at[t]] /\ rooted' = rooted
    BY <1>8 DEF KillInUpdate, Tree!Update
  <2>2. \A k \in Keys : index'[k] = IF k \in {} THEN -1
                                     ELSE IF k = key[t] THEN at[t] ELSE index[k]
    BY <2>1
  <2>3. \E lost \in SUBSET Keys :
          index' = [k \in Keys |-> IF k \in lost THEN -1
                                  ELSE IF k = key[t] THEN at[t] ELSE index[k]]
    <3> WITNESS {} \in SUBSET Keys
    <3> QED BY <2>1, <2>2
  <2>4. KV!Lose(t)
    BY <1>6, <2>1, <2>3
  <2>5. Calls[t].op = "write"
    BY <1>5, <2>1
  <2> QED BY <2>1, <2>4, <2>5
<1> QED BY <1>3, <1>4, <1>7, <1>8 DEF KillAndOpen

LEMMA StoreStep ==
  ASSUME Wired, Sound, Sound', [EngineNext]_evars
  PROVE  [KV!Next]_<<Store, Calls, ~rooted>>
<1>0. [AnyNext]_vars
  BY EngineStepIsValueStep DEF Sound
<1>a. CASE ~rooted
  BY <1>a, RootStays, SoundParts DEF KV!Next
<1>1. ASSUME rooted, NEW t \in Threads, Insert(t) \/ Update(t)
      PROVE  [KV!Next]_<<Store, Calls, ~rooted>>
  <2>1. \/ index' = [index EXCEPT ![key[t]] = at[t]] /\ epc'[t] = "write_end"
        \/ Insert(t) /\ index' = index /\ epc'[t] = "update"
    BY <1>1, SoundParts DEF Insert, Update, HasTree, Tree!Insert, Tree!Update, EGoto, EngineTypeOK
  <2> QED BY <1>0, <1>1, <2>1, WritePuts, RefusedInsertUnseen
<1>2. ASSUME rooted, NEW t \in Writers, NEW k \in Keys, NEW v \in Vals, Write(t, k, v)
      PROVE  [KV!Next]_<<Store, Calls, ~rooted>>
  BY <1>0, <1>2, WriteBegins, ValueAssumption
<1>3. ASSUME rooted, NEW t \in Readers, NEW k \in Keys, Read(t, k)
      PROVE  [KV!Next]_<<Store, Calls, ~rooted>>
  BY <1>0, <1>3, ReadBegins, ValueAssumption
<1>4. ASSUME rooted, NEW t \in Threads,
             \/ ValueWrite(t) \/ WriteReturns(t)
             \/ Get(t) \/ ValueRead(t) \/ ReadReturns(t)
      PROVE  [KV!Next]_<<Store, Calls, ~rooted>>
  BY <1>0, <1>4, ReadGets, CallEnds, ValueWriteUnseen, ValueReadUnseen
<1>5. ASSUME rooted, CloseEngine \/ UNCHANGED evars \/ KillAndOpen
      PROVE  [KV!Next]_<<Store, Calls, ~rooted>>
  BY <1>0, <1>5, CloseUnseen, KillKills
<1> QED BY <1>a, <1>1, <1>2, <1>3, <1>4, <1>5 DEF EngineNext

LEMMA StoreInit == EngineInit => KV!Init
<1> SUFFICES ASSUME EngineInit PROVE KV!Init
  OBVIOUS
<1>1. Store = [k \in Keys |-> NotFound]
  BY DEF EngineInit, Store
<1>2. Calls = [t \in Threads |-> [op |-> "idle"]]
  BY DEF EngineInit, Calls, CallOf
<1>3. rooted
  BY DEF EngineInit
<1> QED BY <1>1, <1>2, <1>3 DEF KV!Init, KV!Empty, KV!Quiet, KV!Idle

\* Where reads keep away from writes and one thread reads, the engine keeps
\* the promise of include/engine.h: every Write and Read acts on one map at an
\* instant between its call and its return (engine_race.cc:42-62), for any
\* number of writers, keys, values, calls and kills, if no fwrite comes up
\* short.  A kill while no Write runs loses nothing that a call has returned,
\* once the map holds something; a kill during a Write can lose keys or break
\* the map, and of a broken map the theorem says nothing.
THEOREM EngineIsAStore ==
  ASSUME Wired, ~Overlap, MaxShort = 0, \A r, s \in Readers : r = s
  PROVE  EngineSpec => Linearizable
<1>1. EngineInit => Sound /\ KV!Init
  BY EngineInitInv, InitRead, StoreInit DEF EngineInit, Sound
<1>2. Sound /\ [EngineNext]_evars => Sound'
  BY EngineStepInv, EngineStepIsValueStep, ReadStepInv, SeparateStep
     DEF Sound, ReadInv, PlacedInv
<1>3. Sound /\ Sound' /\ [EngineNext]_evars => [KV!Next]_<<Store, Calls, ~rooted>>
  BY StoreStep
<1> QED BY <1>1, <1>2, <1>3, PTL DEF EngineSpec, Linearizable, KV!Spec
=============================================================================
