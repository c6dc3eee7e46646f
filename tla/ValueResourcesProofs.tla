------------------------ MODULE ValueResourcesProofs ------------------------
(***************************************************************************)
(* Theorems about the value files, for any number of threads, keys, values *)
(* and files, any hash, and any interleaving of the stdio calls.           *)
(***************************************************************************)
EXTENDS ValueResources, SequenceTheorems, TLAPS

\* The index computed from the hash is always one of the value files: also
\* for INT_MIN, whose negation does not exist, because the number of files
\* divides 2^31 (Hash.cc:7-13, value_resources.cc:18).
LEMMA BucketInRange ==
  ASSUME NEW raw \in CInt
  PROVE  BucketOf(raw) \in Buckets
<1> USE HashAssumption DEF CInt, Buckets
<1>1. ASSUME NEW a \in Nat
      PROVE  a % WRITE_RESOURCES_NUMBER \in Buckets
  OBVIOUS
<1>2. CASE raw >= 0
  <2>1. raw \in Nat
    BY <1>2
  <2> QED BY <1>1, <1>2, <2>1 DEF BucketOf, HashInt, CRem
<1>3. CASE raw < 0 /\ raw # -HalfRange
  <2>1. -raw \in Nat /\ HashInt(raw) = -raw /\ -raw >= 0
    BY <1>3 DEF HashInt, Negate
  <2> QED BY <1>1, <2>1 DEF BucketOf, CRem
<1>4. CASE raw = -HalfRange
  <2>1. HashInt(raw) = -HalfRange /\ ~(-HalfRange >= 0) /\ -(-HalfRange) = HalfRange
    BY <1>4 DEF HashInt, Negate
  <2>2. BucketOf(raw) = -(HalfRange % WRITE_RESOURCES_NUMBER)
    BY <2>1 DEF BucketOf, CRem
  <2> QED BY <2>2
<1> QED BY <1>2, <1>3, <1>4

LEMMA BucketType == \A k \in Keys : Bucket(k) \in Buckets
BY BucketInRange, ValueAssumption DEF Bucket

LEMMA CellsType ==
  \A v \in Vals : Cells(v) \in Seq(Cell) /\ Len(Cells(v)) = VALUE_SIZE
BY ValueAssumption DEF Cells, Cell

\* Any stretch of a value's cells: what one fwrite hands on, and keeps.
LEMMA PartType ==
  ASSUME NEW v \in Vals, NEW a \in Nat, NEW c \in Nat, c <= VALUE_SIZE
  PROVE  /\ SubSeq(Cells(v), a + 1, c) \in Seq(Cell)
         /\ SubSeq(Cells(v), 1, c) \in Seq(Cell)
<1>1. \A i \in 1 .. VALUE_SIZE : Cells(v)[i] \in Cell
  BY CellsType, ElementOfSeq
<1>2. ASSUME NEW b \in Nat, b >= 1
      PROVE  SubSeq(Cells(v), b, c) \in Seq(Cell)
  <2>1. \A i \in b .. c : Cells(v)[i] \in Cell
    BY <1>1, <1>2, ValueAssumption
  <2> QED BY <2>1, SubSeqProperties
<1> QED BY <1>2

\* A new thread's key and value are some key and some value.
LEMMA NewType == NoKeys \in [Threads -> Keys] /\ NoVals \in [Threads -> Vals]
<1>1. (CHOOSE k \in Keys : TRUE) \in Keys /\ (CHOOSE v \in Vals : TRUE) \in Vals
  BY ValueAssumption
<1> QED BY <1>1 DEF NoKeys, NoVals

LEMMA InitType == Init => TypeOK
BY NewType, ValueAssumption DEF Init, TypeOK

\* What a flush leaves: well-typed streams, and the same cells all in all.
LEMMA FlushType ==
  ASSUME TypeOK, NEW b \in Buckets, Flush(b)
  PROVE  /\ file' \in [Buckets -> Seq(Cell)] /\ buf' \in [Buckets -> Seq(Cell)]
         /\ file'[b] = file[b] \o buf[b] /\ buf'[b] = << >>
         /\ \A c \in Buckets : c # b => file'[c] = file[c] /\ buf'[c] = buf[c]
<1>1. file[b] \o buf[b] \in Seq(Cell)
  BY DEF TypeOK
<1> QED BY <1>1 DEF TypeOK, Flush

LEMMA StepType ==
  ASSUME TypeOK, [AnyNext]_vars
  PROVE  TypeOK'
<1> USE ValueAssumption DEF TypeOK, Goto, WriteSteps, ReadSteps
<1>0. \A t \in Threads : Mine(t) \in Buckets
  BY BucketType DEF Mine
<1>1. ASSUME NEW t \in Writers, NEW k \in Keys, NEW v \in Vals, CallWrite(t, k, v)
      PROVE  TypeOK'
  BY <1>1 DEF CallWrite, stream
<1>2. ASSUME NEW t \in Readers, NEW k \in Keys, NEW p \in Nat, CallRead(t, k, p)
      PROVE  TypeOK'
  BY <1>2 DEF CallRead, stream, counts
<1>3. ASSUME NEW t \in Threads, Lock(t)
      PROVE  TypeOK'
  BY <1>3, <1>0 DEF Lock, stream, thread, counts
<1>4. ASSUME NEW t \in Threads, FSeekEnd(t)
      PROVE  TypeOK'
  <2>1. Flush(Mine(t)) /\ Mine(t) \in Buckets
    BY <1>4, <1>0 DEF FSeekEnd
  <2> QED BY SMTT(30), <1>4, <2>1, FlushType DEF FSeekEnd, thread, counts
<1>5. ASSUME NEW t \in Threads, FTell(t)
      PROVE  TypeOK'
  BY <1>5, <1>0 DEF FTell, stream, counts
<1>6. ASSUME NEW t \in Threads, FWrite(t)
      PROVE  TypeOK'
  <2>1. PICK n \in 0 .. VALUE_SIZE, m \in 0 .. VALUE_SIZE :
          /\ n < VALUE_SIZE => shorts < MaxShort
          /\ shorts' = IF n < VALUE_SIZE THEN shorts + 1 ELSE shorts
          /\ Accept(t, Mine(t), n, m)
    BY <1>6 DEF FWrite
  <2>2. SubSeq(Cells(val[t]), 1, m) \in Seq(Cell) /\ SubSeq(Cells(val[t]), m + 1, n) \in Seq(Cell)
    <3>1. val[t] \in Vals /\ n \in Nat /\ m \in Nat /\ n <= VALUE_SIZE /\ m <= VALUE_SIZE
      OBVIOUS
    <3> QED BY <3>1, PartType
  <2>3. file' \in [Buckets -> Seq(Cell)] /\ buf' \in [Buckets -> Seq(Cell)]
    BY <2>1, <2>2, <1>0 DEF Accept
  <2>4. pos' \in [Buckets -> Nat] /\ shorts' \in 0 .. MaxShort
    BY <2>1, <1>0 DEF Accept
  <2> QED BY <1>6, <2>3, <2>4 DEF FWrite, thread
<1>7. ASSUME NEW t \in Threads, FFlush(t)
      PROVE  TypeOK'
  <2>1. Flush(Mine(t)) /\ Mine(t) \in Buckets
    BY <1>7, <1>0 DEF FFlush
  <2> QED BY <1>7, <2>1, FlushType DEF FFlush, thread, counts
<1>8. ASSUME NEW t \in Threads, Unlock(t)
      PROVE  TypeOK'
  BY <1>8, <1>0 DEF Unlock, stream, thread, counts
<1>9. ASSUME NEW t \in Threads, FSeekSet(t)
      PROVE  TypeOK'
  <2>1. Flush(Mine(t)) /\ Mine(t) \in Buckets
    BY <1>9, <1>0 DEF FSeekSet
  <2> QED BY <1>9, <2>1, FlushType DEF FSeekSet, thread, counts
<1>10. ASSUME NEW t \in Threads, FRead(t)
       PROVE  TypeOK'
  <2>1. Flush(Mine(t)) /\ Mine(t) \in Buckets
    BY <1>10, <1>0 DEF FRead
  <2>2. file'[Mine(t)] \in Seq(Cell) /\ pos[Mine(t)] \in Nat
    BY <2>1, FlushType
  <2> DEFINE last == ReadEnd(file'[Mine(t)], pos[Mine(t)])
  <2>3. /\ last \in Nat /\ last <= Len(file'[Mine(t)])
        /\ got' = [got EXCEPT ![t] = SubSeq(file'[Mine(t)], pos[Mine(t)] + 1, last)]
        /\ pos' = [pos EXCEPT ![Mine(t)] = IF last > @ THEN last ELSE @]
    BY <1>10, <2>2 DEF FRead, ReadEnd
  <2>4. SubSeq(file'[Mine(t)], pos[Mine(t)] + 1, last) \in Seq(Cell)
    <3>1. \A i \in 1 .. Len(file'[Mine(t)]) : file'[Mine(t)][i] \in Cell
      BY <2>2, ElementOfSeq
    <3> HIDE DEF last
    <3> QED BY SMTT(30), <2>2, <2>3, <3>1, SubSeqProperties
  <2>5. got' \in [Threads -> Seq(Cell)]
    BY <2>3, <2>4
  <2>6. pos' \in [Buckets -> Nat]
    BY <2>3, <2>2
  <2> QED BY <1>10, <2>1, <2>5, <2>6, FlushType DEF FRead, counts
<1>11. ASSUME NEW t \in Threads, ReturnRead(t)
       PROVE  TypeOK'
  BY <1>11 DEF ReturnRead, stream, thread, counts
<1>12. CASE Crash
  BY <1>12, NewType DEF Crash
<1>13. CASE CloseFiles
  BY <1>13 DEF CloseFiles, thread, counts
<1>14. CASE UNCHANGED vars
  BY <1>14 DEF vars
<1>15. \A k \in Keys : \A p \in Returned(k) \union 0 .. Len(file[Bucket(k)]) : p \in Nat
  <2>1. \A k \in Keys : Bucket(k) \in Buckets
    BY BucketType
  <2> QED BY <2>1 DEF Returned
<1> QED
  BY <1>1, <1>2, <1>3, <1>4, <1>5, <1>6, <1>7, <1>8, <1>9, <1>10, <1>11, <1>12,
     <1>13, <1>14, <1>15 DEF AnyNext, AnyRead, Next, WriteStep, ReadStep

\* Every variable keeps its type: offsets are naturals, what is in a file or
\* in a stream's buffer is cells of values, a mutex has one owner.
THEOREM TypeCorrect == Spec => []TypeOK
<1>1. TypeOK /\ [Next]_vars => TypeOK'
  BY StepType DEF AnyNext
<1> QED BY <1>1, InitType, PTL DEF Spec

-----------------------------------------------------------------------------
(* Files only grow.                                                        *)

\* Whatever a step does to a file is to append cells to it.
LEMMA StepGrows ==
  ASSUME TypeOK, [AnyNext]_vars
  PROVE  \A b \in Buckets : \E u \in Seq(Cell) : file'[b] = file[b] \o u
<1> SUFFICES ASSUME NEW b \in Buckets
             PROVE  \E u \in Seq(Cell) : file'[b] = file[b] \o u
  OBVIOUS
<1>0. file[b] \in Seq(Cell) /\ buf[b] \in Seq(Cell) /\ << >> \in Seq(Cell)
  BY DEF TypeOK
<1>1. file[b] \o << >> = file[b]
  BY <1>0
<1>2. ASSUME file' = file
      PROVE  \E u \in Seq(Cell) : file'[b] = file[b] \o u
  BY <1>0, <1>1, <1>2
<1>3. ASSUME NEW c \in Buckets, Flush(c)
      PROVE  \E u \in Seq(Cell) : file'[b] = file[b] \o u
  <2>1. CASE b = c
    BY <1>0, <1>3, <2>1, FlushType
  <2>2. CASE b # c
    BY <1>0, <1>1, <1>3, <2>2, FlushType
  <2> QED BY <2>1, <2>2
<1>4. ASSUME NEW t \in Threads, FWrite(t)
      PROVE  \E u \in Seq(Cell) : file'[b] = file[b] \o u
  <2>1. PICK n \in 0 .. VALUE_SIZE, m \in 0 .. VALUE_SIZE : Accept(t, Mine(t), n, m)
    BY <1>4, ValueAssumption DEF FWrite
  <2>2. val[t] \in Vals /\ m \in Nat /\ m <= VALUE_SIZE
    BY <2>1, ValueAssumption DEF TypeOK
  <2>3. SubSeq(Cells(val[t]), 1, m) \in Seq(Cell)
    BY <2>2, PartType
  <2>4. buf[b] \o SubSeq(Cells(val[t]), 1, m) \in Seq(Cell)
    BY <1>0, <2>3
  <2>5. file'[b] = IF b = Mine(t) THEN file[b] \o (buf[b] \o SubSeq(Cells(val[t]), 1, m))
                   ELSE file[b]
    BY <2>1 DEF Accept, TypeOK
  <2> QED BY <1>0, <1>1, <2>4, <2>5
<1>5. \A t \in Threads : Mine(t) \in Buckets
  BY BucketType DEF Mine, TypeOK
<1>6. ASSUME NEW t \in Threads, WriteStep(t) \/ ReadStep(t)
      PROVE  \E u \in Seq(Cell) : file'[b] = file[b] \o u
  <2>1. FWrite(t) \/ Flush(Mine(t)) \/ file' = file
    BY <1>6 DEF WriteStep, ReadStep, Lock, FSeekEnd, FTell, FFlush, Unlock, FSeekSet,
                FRead, ReturnRead, stream
  <2> QED BY <1>2, <1>3, <1>4, <1>5, <2>1
<1>7. ASSUME NEW t \in Threads, NEW k, NEW v, CallWrite(t, k, v) \/ CallRead(t, k, v)
      PROVE  file' = file
  BY <1>7 DEF CallWrite, CallRead, stream
<1>8. Crash \/ UNCHANGED vars => file' = file
  BY DEF Crash, vars
<1>9. ASSUME CloseFiles
      PROVE  \E u \in Seq(Cell) : file'[b] = file[b] \o u
  BY <1>0, <1>9 DEF CloseFiles
<1> QED BY <1>2, <1>6, <1>7, <1>8, <1>9, ValueAssumption DEF AnyNext, AnyRead, Next

\* No step overwrites or drops a cell that has reached a file: the mode "a+"
\* of the streams protects stored values from every misplaced seek.
THEOREM FilesAppendOnly == Spec => AppendOnly
<1>1. ASSUME TypeOK, [AnyNext]_vars, NEW b \in Buckets
      PROVE  /\ Len(file[b]) <= Len(file'[b])
             /\ \A i \in 1 .. Len(file[b]) : file'[b][i] = file[b][i]
  <2>1. PICK u \in Seq(Cell) : file'[b] = file[b] \o u
    BY <1>1, StepGrows
  <2>2. file[b] \in Seq(Cell)
    BY <1>1 DEF TypeOK
  <2> QED BY <2>1, <2>2, ConcatProperties
<1>2. TypeOK /\ [Next]_vars =>
        [\A b \in Buckets :
           /\ Len(file[b]) <= Len(file'[b])
           /\ \A i \in 1 .. Len(file[b]) : file'[b][i] = file[b][i]]_vars
  BY <1>1 DEF AnyNext
<1> QED BY <1>2, TypeCorrect, PTL DEF Spec, AppendOnly

-----------------------------------------------------------------------------
(* Stored values.                                                          *)

LEMMA HoldsAppend ==
  ASSUME NEW s \in Seq(Cell), NEW u \in Seq(Cell), NEW p \in Nat, NEW v \in Vals,
         Holds(s, p, v)
  PROVE  Holds(s \o u, p, v)
<1>1. /\ Len(s \o u) = Len(s) + Len(u)
      /\ \A i \in 1 .. Len(s) + Len(u) : (s \o u)[i] = IF i <= Len(s) THEN s[i] ELSE u[i - Len(s)]
  BY ConcatProperties
<1>2. Len(s) \in Nat /\ Len(u) \in Nat /\ VALUE_SIZE \in Nat
  BY ValueAssumption
<1>3. p + VALUE_SIZE <= Len(s) /\ \A i \in 1 .. VALUE_SIZE : s[p + i] = <<v, i>>
  BY DEF Holds
<1>4. ASSUME NEW i \in 1 .. VALUE_SIZE
      PROVE  (s \o u)[p + i] = <<v, i>>
  <2>1. p + i \in 1 .. Len(s) + Len(u) /\ p + i <= Len(s)
    BY <1>2, <1>3
  <2>2. (s \o u)[p + i] = s[p + i]
    BY <1>1, <2>1
  <2> QED BY <1>3, <2>2
<1>5. p + VALUE_SIZE <= Len(s \o u)
  BY <1>1, <1>2, <1>3
<1> QED BY <1>4, <1>5 DEF Holds

\* A whole value behind what the file held.
LEMMA HoldsNew ==
  ASSUME NEW s \in Seq(Cell), NEW v \in Vals
  PROVE  Holds(s \o Cells(v), Len(s), v)
BY CellsType, ConcatProperties, ValueAssumption DEF Holds, Cells

\* However fwrite splits the value between the kernel and its buffer, file
\* and buffer together end with the whole of it.
LEMMA SplitWhole ==
  ASSUME NEW v \in Vals, NEW m \in 0 .. VALUE_SIZE
  PROVE  SubSeq(Cells(v), 1, m) \o SubSeq(Cells(v), m + 1, VALUE_SIZE) = Cells(v)
<1>1. Cells(v) \in Seq(Cell) /\ Len(Cells(v)) = VALUE_SIZE
  BY CellsType
<1> QED BY <1>1, ValueAssumption, SubSeqProperties, ConcatProperties

LEMMA SplitHolds ==
  ASSUME NEW f \in Seq(Cell), NEW v \in Vals, NEW m \in 0 .. VALUE_SIZE
  PROVE  Holds((f \o SubSeq(Cells(v), 1, m)) \o SubSeq(Cells(v), m + 1, VALUE_SIZE), Len(f), v)
<1>1. m \in Nat /\ m <= VALUE_SIZE /\ VALUE_SIZE \in Nat /\ VALUE_SIZE <= VALUE_SIZE
  BY ValueAssumption
<1>2. PICK x \in Seq(Cell), y \in Seq(Cell) :
        x = SubSeq(Cells(v), 1, m) /\ y = SubSeq(Cells(v), m + 1, VALUE_SIZE)
  BY <1>1, PartType
<1>3. (f \o x) \o y = f \o (x \o y)
  BY ONLY SMTT(30), ConcatAssociative
<1>4. x \o y = Cells(v)
  BY <1>2, SplitWhole
<1>5. Holds((f \o x) \o y, Len(f), v)
  BY <1>3, <1>4, HoldsNew
<1> QED BY <1>2, <1>5

-----------------------------------------------------------------------------
(* The mutex and the frame of a step.                                      *)

\* A thread's step leaves the other threads alone and touches one stream.
LEMMA Frame ==
  ASSUME TypeOK, NEW t \in Threads, WriteStep(t) \/ ReadStep(t)
  PROVE  /\ key' = key /\ val' = val /\ Mine(t)' = Mine(t)
         /\ \A s \in Threads \ {t} : pc'[s] = pc[s] /\ at'[s] = at[s] /\ got'[s] = got[s]
         /\ \A b \in Buckets \ {Mine(t)} :
              file'[b] = file[b] /\ buf'[b] = buf[b] /\ pos'[b] = pos[b] /\ lock'[b] = lock[b]
<1>0. Mine(t) \in Buckets
  BY BucketType DEF Mine, TypeOK
<1> USE DEF TypeOK, Goto, stream, thread, counts
<1>1. key' = key /\ val' = val
  BY DEF WriteStep, ReadStep, Lock, FSeekEnd, FTell, FWrite, FFlush, Unlock, FSeekSet, FRead,
         ReturnRead
<1>2. \A s \in Threads \ {t} : pc'[s] = pc[s] /\ at'[s] = at[s] /\ got'[s] = got[s]
  BY DEF WriteStep, ReadStep, Lock, FSeekEnd, FTell, FWrite, FFlush, Unlock, FSeekSet, FRead,
         ReturnRead
<1>3. \A b \in Buckets \ {Mine(t)} :
         file'[b] = file[b] /\ buf'[b] = buf[b] /\ pos'[b] = pos[b] /\ lock'[b] = lock[b]
  <2>1. CASE FWrite(t)
    BY <1>0, <2>1 DEF FWrite, Accept
  <2>2. CASE Lock(t) \/ FSeekEnd(t) \/ FTell(t) \/ FFlush(t) \/ Unlock(t) \/ ReadStep(t)
    BY <1>0, <2>2 DEF ReadStep, Lock, FSeekEnd, FTell, FFlush, Unlock, FSeekSet, FRead,
                      ReturnRead, Flush
  <2> QED BY <2>1, <2>2 DEF WriteStep
<1> QED BY <1>1, <1>2, <1>3 DEF Mine

LEMMA LockOwnedStep ==
  ASSUME TypeOK, LockOwned, [AnyNext]_vars
  PROVE  LockOwned'
<1> USE DEF Critical, WriteSteps
<1> SUFFICES ASSUME NEW s \in Threads, pc'[s] \in Critical
             PROVE  lock'[Mine(s)'] = s
  BY DEF LockOwned
<1>1. ASSUME NEW t \in Threads, NEW k, NEW v, CallWrite(t, k, v) \/ CallRead(t, k, v)
      PROVE  lock'[Mine(s)'] = s
  <2>1. s # t /\ pc[s] = pc'[s] /\ key'[s] = key[s] /\ lock' = lock
    BY <1>1 DEF CallWrite, CallRead, Goto, TypeOK, ReadSteps
  <2> QED BY <2>1 DEF LockOwned, Mine
<1>2. ASSUME NEW t \in Threads, WriteStep(t) \/ ReadStep(t)
      PROVE  lock'[Mine(s)'] = s
  <2>1. Mine(s)' = Mine(s) /\ Mine(s) \in Buckets /\ Mine(t) \in Buckets
    BY <1>2, Frame, BucketType DEF Mine, TypeOK
  <2>2. CASE s # t
    <3>1. pc[s] = pc'[s] /\ lock[Mine(s)] = s
      BY <1>2, <2>2, Frame DEF LockOwned
    <3>2. CASE Mine(s) # Mine(t)
      BY <1>2, <2>1, <3>1, <3>2, Frame
    <3>3. CASE Mine(s) = Mine(t)
      <4>1. ~Lock(t)
        BY <3>1, <3>3, ValueAssumption DEF Lock
      <4>2. ~Unlock(t)
        BY <2>2, <3>1, <3>3 DEF Unlock, Goto, LockOwned
      <4>3. lock' = lock
        BY <1>2, <4>1, <4>2 DEF WriteStep, ReadStep, FSeekEnd, FTell, FWrite, FFlush,
                                FSeekSet, FRead, ReturnRead
      <4> QED BY <2>1, <3>1, <4>3
    <3> QED BY <3>2, <3>3
  <2>3. CASE s = t
    <3>1. CASE Lock(t)
      BY <2>1, <2>3, <3>1 DEF Lock, TypeOK
    <3>2. CASE ~Lock(t)
      <4>1. pc[t] \in Critical /\ lock' = lock
        BY <1>2, <2>3, <3>2 DEF WriteStep, ReadStep, FSeekEnd, FTell, FWrite, FFlush,
                                FSeekSet, FRead, ReturnRead, Unlock, Goto, TypeOK
      <4> QED BY <2>1, <2>3, <4>1 DEF LockOwned
    <3> QED BY <3>1, <3>2
  <2> QED BY <2>2, <2>3
<1>3. CASE Crash
  BY <1>3 DEF Crash
<1>4. CASE UNCHANGED vars
  BY <1>4 DEF vars, LockOwned, Mine
<1>5. CASE (\A t \in Threads : pc[t] = "idle") /\ CloseFiles
  BY <1>5 DEF CloseFiles
<1> QED BY <1>1, <1>2, <1>3, <1>4, <1>5, ValueAssumption DEF AnyNext, AnyRead, Next

\* While a thread is in the critical section, no other writer's step touches
\* the stream it works on.
LEMMA Quiet ==
  ASSUME TypeOK, LockOwned, NEW s \in Threads, NEW t \in Threads, s # t,
         pc[s] \in Critical, WriteStep(t)
  PROVE  LET b == Mine(s) IN file'[b] = file[b] /\ buf'[b] = buf[b] /\ pos'[b] = pos[b]
<1>1. Mine(s) \in Buckets
  BY BucketType DEF Mine, TypeOK
<1>2. CASE Mine(s) # Mine(t)
  BY <1>1, <1>2, Frame
<1>3. CASE Mine(s) = Mine(t)
  <2>1. pc[t] \notin Critical
    BY <1>3 DEF LockOwned
  <2>2. Lock(t)
    BY <2>1 DEF WriteStep, FSeekEnd, FTell, FWrite, FFlush, Unlock, Goto, Critical, WriteSteps
  <2> QED BY <2>2 DEF Lock, stream
<1> QED BY <1>2, <1>3

-----------------------------------------------------------------------------
(* Every acknowledged value is in its file.                                *)

\* A complete fwrite, in terms of the writer's own file.
LEMMA WholeWrite ==
  ASSUME TypeOK, MaxShort = 0, NEW t \in Threads, FWrite(t), buf[Mine(t)] = << >>
  PROVE  Holds(file'[Mine(t)] \o buf'[Mine(t)], Len(file[Mine(t)]), val[t])
<1>1. /\ Mine(t) \in Buckets /\ file[Mine(t)] \in Seq(Cell) /\ val[t] \in Vals
      /\ VALUE_SIZE \in Nat /\ shorts = 0
  BY BucketType, ValueAssumption DEF Mine, TypeOK
<1>2. PICK m \in 0 .. VALUE_SIZE : Accept(t, Mine(t), VALUE_SIZE, m)
  BY <1>1 DEF FWrite
<1>3. m \in Nat /\ m <= VALUE_SIZE
  BY <1>1, <1>2
<1>4. SubSeq(Cells(val[t]), 1, m) \in Seq(Cell)
  BY <1>1, <1>3, PartType
<1>5. << >> \o SubSeq(Cells(val[t]), 1, m) = SubSeq(Cells(val[t]), 1, m)
  BY <1>4, ConcatEmptySeq
<1>6. /\ file'[Mine(t)] = file[Mine(t)] \o SubSeq(Cells(val[t]), 1, m)
      /\ buf'[Mine(t)] = SubSeq(Cells(val[t]), m + 1, VALUE_SIZE)
  BY <1>1, <1>2, <1>5 DEF Accept, TypeOK
<1> QED BY <1>1, <1>6, SplitHolds

\* A flush moves cells from the buffer to the file, none is lost.
LEMMA FlushKeeps ==
  ASSUME TypeOK, NEW b \in Buckets, Flush(b)
  PROVE  /\ file'[b] = file[b] \o buf[b] /\ buf'[b] = << >>
         /\ file'[b] \o buf'[b] = file[b] \o buf[b]
<1>1. file[b] \o buf[b] \in Seq(Cell)
  BY DEF TypeOK
<1>2. (file[b] \o buf[b]) \o << >> = file[b] \o buf[b]
  BY <1>1, ConcatEmptySeq
<1> QED BY <1>2, FlushType

LEMMA HoldsStored ==
  ASSUME NEW f \in Seq(Cell), NEW p \in Nat, NEW v \in Vals, Holds(f, p, v)
  PROVE  Stored(f, v)
<1>1. Len(f) \in Nat /\ p + VALUE_SIZE <= Len(f) /\ VALUE_SIZE \in Nat
  BY ValueAssumption DEF Holds
<1> QED BY <1>1 DEF Stored

LEMMA StoredAppend ==
  ASSUME NEW f \in Seq(Cell), NEW u \in Seq(Cell), NEW v \in Vals, Stored(f, v)
  PROVE  Stored(f \o u, v)
<1>1. PICK p \in 0 .. Len(f) : Holds(f, p, v)
  BY DEF Stored
<1>2. p \in Nat /\ p \in 0 .. Len(f \o u)
  BY ConcatProperties
<1>3. Holds(f \o u, p, v)
  BY <1>1, <1>2, HoldsAppend
<1> QED BY <1>2, <1>3 DEF Stored

\* What is in a file stays there, at its place.
LEMMA KeepsHolding ==
  ASSUME TypeOK, [AnyNext]_vars, NEW b \in Buckets, NEW v \in Vals
  PROVE  /\ Stored(file[b], v) => Stored(file'[b], v)
         /\ \A p \in Nat : Holds(file[b], p, v) => Holds(file'[b], p, v)
<1>1. PICK u \in Seq(Cell) : file'[b] = file[b] \o u
  BY StepGrows
<1>2. file[b] \in Seq(Cell)
  BY DEF TypeOK
<1> QED BY <1>1, <1>2, StoredAppend, HoldsAppend

LEMMA WriterStoredStep ==
  ASSUME MaxShort = 0, TypeOK, TypeOK', LockOwned, WriterStored, [AnyNext]_vars
  PROVE  WriterStored'
<1> USE DEF Critical, WriteSteps, ReadSteps
<1> SUFFICES ASSUME NEW s \in Threads, pc'[s] \in Critical
             PROVE  LET b == Mine(s)' IN
                    /\ pc'[s] \in {"ftell", "fwrite"} => buf'[b] = << >>
                    /\ pc'[s] = "fflush" => Stored(file'[b] \o buf'[b], val'[s])
                    /\ pc'[s] = "unlock" => Stored(file'[b], val'[s])
  BY DEF WriterStored, Stored, Holds
<1>0. Mine(s) \in Buckets /\ val[s] \in Vals
  BY BucketType DEF Mine, TypeOK
<1>1. ASSUME pc[s] = pc'[s], key'[s] = key[s], val'[s] = val[s],
             file'[Mine(s)] = file[Mine(s)], buf'[Mine(s)] = buf[Mine(s)]
      PROVE  LET b == Mine(s)' IN
             /\ pc'[s] \in {"ftell", "fwrite"} => buf'[b] = << >>
             /\ pc'[s] = "fflush" => Stored(file'[b] \o buf'[b], val'[s])
             /\ pc'[s] = "unlock" => Stored(file'[b], val'[s])
  BY <1>1 DEF WriterStored, Mine
<1> DEFINE Goal == LET b == Mine(s)' IN
             /\ pc'[s] \in {"ftell", "fwrite"} => buf'[b] = << >>
             /\ pc'[s] = "fflush" => Stored(file'[b] \o buf'[b], val'[s])
             /\ pc'[s] = "unlock" => Stored(file'[b], val'[s])
<1>2. ASSUME NEW t \in Threads, NEW k, NEW v, CallWrite(t, k, v) \/ CallRead(t, k, v)
      PROVE  Goal
  <2>1. s # t /\ pc[s] = pc'[s] /\ key'[s] = key[s] /\ val'[s] = val[s]
        /\ file' = file /\ buf' = buf
    BY <1>2 DEF CallWrite, CallRead, Goto, TypeOK, stream
  <2> QED BY <1>1, <2>1
<1>3. ASSUME NEW t \in Threads, WriteStep(t) \/ ReadStep(t), s # t
      PROVE  Goal
  <2>1. pc[s] = pc'[s] /\ key'[s] = key[s] /\ val'[s] = val[s] /\ Mine(s)' = Mine(s)
    BY <1>3, Frame DEF Mine
  <2>2. CASE WriteStep(t)
    BY <1>1, <1>3, <2>1, <2>2, Quiet
  <2>3. CASE ReadStep(t) /\ Mine(s) # Mine(t)
    BY <1>0, <1>1, <1>3, <2>1, <2>3, Frame
  <2>4. CASE ReturnRead(t)
    BY <1>1, <2>1, <2>4 DEF ReturnRead, stream
  <2>5. CASE (FSeekSet(t) \/ FRead(t)) /\ Mine(s) = Mine(t)
    <3>1. Flush(Mine(s))
      BY <2>5 DEF FSeekSet, FRead
    <3>2. /\ buf'[Mine(s)] = << >>
          /\ file'[Mine(s)] \o buf'[Mine(s)] = file[Mine(s)] \o buf[Mine(s)]
      BY <1>0, <3>1, FlushKeeps
    <3>3. Stored(file[Mine(s)], val[s]) => Stored(file'[Mine(s)], val[s])
      BY <1>0, KeepsHolding
    <3> QED BY <2>1, <3>2, <3>3 DEF WriterStored
  <2> QED BY <1>3, <2>2, <2>3, <2>4, <2>5 DEF ReadStep
<1>4. ASSUME WriteStep(s) \/ ReadStep(s)
      PROVE  Goal
  <2>0. Mine(s)' = Mine(s) /\ val'[s] = val[s]
    BY <1>4, Frame
  <2>1. CASE FSeekEnd(s)
    <3>1. pc'[s] = "ftell" /\ Flush(Mine(s))
      BY <2>1 DEF FSeekEnd, Goto, TypeOK
    <3> QED BY <1>0, <2>0, <3>1, FlushType
  <2>2. CASE FTell(s)
    <3>1. pc[s] = "ftell" /\ pc'[s] = "fwrite" /\ buf' = buf
      BY <2>2 DEF FTell, Goto, TypeOK, stream
    <3> QED BY <2>0, <3>1 DEF WriterStored
  <2>3. CASE FWrite(s)
    <3>1. pc[s] = "fwrite" /\ pc'[s] = "fflush" /\ buf[Mine(s)] = << >>
      BY <2>3 DEF FWrite, Goto, TypeOK, WriterStored
    <3>2. Holds(file'[Mine(s)] \o buf'[Mine(s)], Len(file[Mine(s)]), val[s])
      BY <2>3, <3>1, WholeWrite
    <3>3. file[Mine(s)] \in Seq(Cell) /\ file'[Mine(s)] \in Seq(Cell)
          /\ buf'[Mine(s)] \in Seq(Cell)
      BY <1>0 DEF TypeOK
    <3>4. Len(file[Mine(s)]) \in Nat /\ file'[Mine(s)] \o buf'[Mine(s)] \in Seq(Cell)
      BY <3>3, ConcatProperties
    <3>5. Stored(file'[Mine(s)] \o buf'[Mine(s)], val[s])
      BY <1>0, <3>2, <3>4, HoldsStored
    <3> QED BY <2>0, <3>1, <3>5
  <2>4. CASE FFlush(s)
    <3>1. pc[s] = "fflush" /\ pc'[s] = "unlock" /\ Flush(Mine(s))
      BY <2>4 DEF FFlush, Goto, TypeOK
    <3>2. file'[Mine(s)] = file[Mine(s)] \o buf[Mine(s)]
      BY <1>0, <3>1, FlushKeeps
    <3> QED BY <2>0, <3>1, <3>2 DEF WriterStored
  <2>5. CASE Lock(s) \/ Unlock(s) \/ ReadStep(s)
    <3>1. pc'[s] \notin {"ftell", "fwrite", "fflush", "unlock"}
      BY <2>5 DEF Lock, Unlock, ReadStep, FSeekSet, FRead, ReturnRead, Goto, TypeOK
    <3> QED BY <3>1
  <2> QED BY <1>4, <2>1, <2>2, <2>3, <2>4, <2>5 DEF WriteStep
<1>5. CASE Crash
  BY <1>5 DEF Crash
<1>6. CASE UNCHANGED vars
  BY <1>1, <1>6 DEF vars
<1>7. CASE (\A t \in Threads : pc[t] = "idle") /\ CloseFiles
  BY <1>7 DEF CloseFiles
<1> QED BY <1>2, <1>3, <1>4, <1>5, <1>6, <1>7, ValueAssumption DEF AnyNext, AnyRead, Next

LEMMA AckedStoredStep ==
  ASSUME TypeOK, TypeOK', WriterStored, AckedStored, [AnyNext]_vars
  PROVE  AckedStored'
<1> SUFFICES ASSUME NEW a \in acked'
             PROVE  Stored(file'[Bucket(a.key)], a.val)
  BY DEF AckedStored, Stored, Holds, Bucket
<1>0. a.val \in Vals /\ Bucket(a.key) \in Buckets
  BY BucketType DEF TypeOK
<1>1. CASE a \in acked
  BY <1>0, <1>1, KeepsHolding DEF AckedStored
<1>2. CASE a \notin acked
  <2>1. PICK t \in Threads : Unlock(t)
    BY <1>2, ValueAssumption DEF AnyNext, AnyRead, Next, CallWrite, CallRead, Crash, CloseFiles, vars, WriteStep, ReadStep, Lock, FSeekEnd,
       FTell, FWrite, FFlush, FSeekSet, FRead, ReturnRead
  <2>2. pc[t] = "unlock" /\ a.key = key[t] /\ a.val = val[t] /\ file' = file
    BY <1>2, <2>1 DEF Unlock, Goto, stream
  <2> QED BY <2>2 DEF WriterStored, Mine
<1> QED BY <1>1, <1>2

LEMMA InitStored == Init => StoredInv
<1> SUFFICES ASSUME Init PROVE StoredInv
  OBVIOUS
<1>1. TypeOK
  BY InitType
<1> QED BY <1>1 DEF Init, StoredInv, LockOwned, WriterStored, AckedStored, Critical, WriteSteps

\* Who is inside the critical section of write() holds the file's mutex, the
\* buffer is empty from the seek to the fwrite, and the value is on its way
\* to the file from the fwrite on, whatever reads move the stream meanwhile.
THEOREM WriterInvariant ==
  ASSUME MaxShort = 0
  PROVE  Spec => []StoredInv
<1>1. StoredInv /\ [Next]_vars => StoredInv'
  <2> SUFFICES ASSUME StoredInv, [AnyNext]_vars PROVE StoredInv'
    BY DEF AnyNext
  <2>1. TypeOK'
    BY StepType DEF StoredInv
  <2>2. LockOwned'
    BY LockOwnedStep DEF StoredInv
  <2>3. WriterStored'
    BY <2>1, WriterStoredStep DEF StoredInv
  <2>4. AckedStored'
    BY <2>1, AckedStoredStep DEF StoredInv
  <2> QED BY <2>1, <2>2, <2>3, <2>4 DEF StoredInv
<1> QED BY <1>1, InitStored, PTL DEF Spec

\* Whatever reads run, on whatever threads, and whenever the process is
\* killed: a value that write() has returned from is in its file, whole
\* (value_resources.cc:17-26), as long as fwrite is never short.
THEOREM AcknowledgedValuesStored ==
  ASSUME MaxShort = 0
  PROVE  Spec => []AckedStored
<1>1. StoredInv => AckedStored
  BY DEF StoredInv
<1> QED BY <1>1, WriterInvariant, PTL

-----------------------------------------------------------------------------
(* Without reads during writes, the offsets are right too.                 *)

LEMMA SeparateStep ==
  ASSUME ~Overlap, TypeOK, Separate, [AnyNext]_vars
  PROVE  Separate'
<1> USE DEF Separate, WriteBusy, ReadBusy, WriteSteps, ReadSteps
<1>1. ASSUME NEW t \in Threads, NEW k, NEW v, CallWrite(t, k, v)
      PROVE  Separate'
  BY <1>1 DEF CallWrite, Goto, TypeOK
<1>2. ASSUME NEW t \in Threads, NEW k, NEW v, CallRead(t, k, v)
      PROVE  Separate'
  BY <1>2 DEF CallRead, Goto, TypeOK
<1>3. ASSUME NEW t \in Threads, WriteStep(t)
      PROVE  Separate'
  BY <1>3 DEF WriteStep, Lock, FSeekEnd, FTell, FWrite, FFlush, Unlock, Goto, TypeOK
<1>4. ASSUME NEW t \in Threads, ReadStep(t)
      PROVE  Separate'
  BY <1>4 DEF ReadStep, FSeekSet, FRead, ReturnRead, Goto, TypeOK
<1>5. CASE Crash
  BY <1>5 DEF Crash
<1>6. CASE CloseFiles \/ UNCHANGED vars
  BY <1>6 DEF CloseFiles, vars
<1> QED BY <1>1, <1>2, <1>3, <1>4, <1>5, <1>6, ValueAssumption DEF AnyNext, AnyRead, Next

LEMMA WriterKnowsStep ==
  ASSUME MaxShort = 0, TypeOK, TypeOK', LockOwned, Separate, WriterKnows, [AnyNext]_vars
  PROVE  WriterKnows'
<1> USE DEF Critical, WriteSteps, ReadSteps
<1> DEFINE Known(s) ==
      LET b == Mine(s) IN
      /\ pc[s] = "ftell"  => buf[b] = << >> /\ pos[b] = Len(file[b])
      /\ pc[s] = "fwrite" => buf[b] = << >> /\ at[s] = Len(file[b])
      /\ pc[s] = "fflush" => Holds(file[b] \o buf[b], at[s], val[s])
      /\ pc[s] = "unlock" => Holds(file[b], at[s], val[s])
<1> SUFFICES ASSUME NEW s \in Threads, pc'[s] \in Critical
             PROVE  Known(s)'
  BY DEF WriterKnows
<1>0. Mine(s) \in Buckets /\ val[s] \in Vals /\ Known(s)
  BY BucketType DEF Mine, TypeOK, WriterKnows
<1>1. ASSUME pc'[s] = pc[s], key'[s] = key[s], val'[s] = val[s], at'[s] = at[s],
             file'[Mine(s)] = file[Mine(s)], buf'[Mine(s)] = buf[Mine(s)],
             pos'[Mine(s)] = pos[Mine(s)]
      PROVE  Known(s)'
  <2>1. Mine(s)' = Mine(s)
    BY <1>1 DEF Mine
  <2> QED BY <1>0, <1>1, <2>1 DEF Holds
<1>2. ASSUME NEW t \in Threads, NEW k, NEW v, CallWrite(t, k, v) \/ CallRead(t, k, v)
      PROVE  Known(s)'
  <2>1. s # t /\ pc[s] = pc'[s] /\ key'[s] = key[s] /\ val'[s] = val[s] /\ at'[s] = at[s]
        /\ file' = file /\ buf' = buf /\ pos' = pos
    BY <1>2 DEF CallWrite, CallRead, Goto, TypeOK, stream
  <2> QED BY <1>1, <2>1
<1>3. ASSUME NEW t \in Threads, WriteStep(t) \/ ReadStep(t), s # t
      PROVE  Known(s)'
  <2>1. pc[s] = pc'[s] /\ key'[s] = key[s] /\ val'[s] = val[s] /\ at'[s] = at[s]
    BY <1>3, Frame
  <2>2. ~ReadStep(t)
    BY <2>1 DEF ReadStep, FSeekSet, FRead, ReturnRead, Goto, Separate, WriteBusy, ReadBusy
  <2>3. LET b == Mine(s) IN file'[b] = file[b] /\ buf'[b] = buf[b] /\ pos'[b] = pos[b]
    BY <1>3, <2>1, <2>2, Quiet
  <2> QED BY <1>1, <2>1, <2>3
<1>4. ASSUME WriteStep(s) \/ ReadStep(s)
      PROVE  Known(s)'
  <2>0. Mine(s)' = Mine(s) /\ val'[s] = val[s]
    BY <1>4, Frame
  <2>1. CASE FSeekEnd(s)
    <3>1. pc'[s] = "ftell" /\ Flush(Mine(s)) /\ pos'[Mine(s)] = Len(file'[Mine(s)])
      BY <1>0, <2>1 DEF FSeekEnd, Goto, TypeOK
    <3>2. buf'[Mine(s)] = << >>
      BY <1>0, <3>1, FlushType
    <3> QED BY <2>0, <3>1, <3>2
  <2>2. CASE FTell(s)
    <3>1. pc[s] = "ftell" /\ pc'[s] = "fwrite" /\ buf' = buf /\ file' = file
          /\ at'[s] = pos[Mine(s)]
      BY <2>2 DEF FTell, Goto, TypeOK, stream
    <3> QED BY <1>0, <2>0, <3>1
  <2>3. CASE FWrite(s)
    <3>1. pc[s] = "fwrite" /\ pc'[s] = "fflush" /\ at'[s] = at[s]
      BY <2>3 DEF FWrite, Goto, TypeOK, thread
    <3>2. Holds(file'[Mine(s)] \o buf'[Mine(s)], at[s], val[s])
      BY <1>0, <2>3, <3>1, WholeWrite
    <3> QED BY <2>0, <3>1, <3>2 DEF Holds
  <2>4. CASE FFlush(s)
    <3>1. pc[s] = "fflush" /\ pc'[s] = "unlock" /\ Flush(Mine(s)) /\ at'[s] = at[s]
      BY <2>4 DEF FFlush, Goto, TypeOK, thread
    <3>2. file'[Mine(s)] = file[Mine(s)] \o buf[Mine(s)]
      BY <1>0, <3>1, FlushKeeps
    <3> QED BY <1>0, <2>0, <3>1, <3>2 DEF Holds
  <2>5. CASE Lock(s) \/ Unlock(s) \/ ReadStep(s)
    <3>1. pc'[s] \notin {"ftell", "fwrite", "fflush", "unlock"}
      BY <2>5 DEF Lock, Unlock, ReadStep, FSeekSet, FRead, ReturnRead, Goto, TypeOK
    <3> QED BY <3>1
  <2> QED BY <1>4, <2>1, <2>2, <2>3, <2>4, <2>5 DEF WriteStep
<1>5. CASE Crash
  BY <1>5 DEF Crash
<1>6. CASE UNCHANGED vars
  BY <1>1, <1>6 DEF vars
<1>7. CASE (\A t \in Threads : pc[t] = "idle") /\ CloseFiles
  BY <1>7 DEF CloseFiles
<1> QED BY <1>2, <1>3, <1>4, <1>5, <1>6, <1>7, ValueAssumption DEF AnyNext, AnyRead, Next

LEMMA AckedPlacedStep ==
  ASSUME TypeOK, TypeOK', WriterKnows, AckedPlaced, [AnyNext]_vars
  PROVE  AckedPlaced'
<1> SUFFICES ASSUME NEW a \in acked'
             PROVE  Holds(file'[Bucket(a.key)], a.pos, a.val)
  BY DEF AckedPlaced, Holds, Bucket
<1>0. a.val \in Vals /\ a.pos \in Nat /\ Bucket(a.key) \in Buckets
  BY BucketType DEF TypeOK
<1>1. CASE a \in acked
  BY <1>0, <1>1, KeepsHolding DEF AckedPlaced
<1>2. CASE a \notin acked
  <2>1. PICK t \in Threads : Unlock(t)
    BY <1>2, ValueAssumption DEF AnyNext, AnyRead, Next, CallWrite, CallRead, Crash, CloseFiles, vars, WriteStep, ReadStep, Lock, FSeekEnd,
       FTell, FWrite, FFlush, FSeekSet, FRead, ReturnRead
  <2>2. /\ pc[t] = "unlock" /\ file' = file
        /\ a.key = key[t] /\ a.val = val[t] /\ a.pos = at[t]
    BY <1>2, <2>1 DEF Unlock, Goto, stream
  <2> QED BY <2>2 DEF WriterKnows, Mine
<1> QED BY <1>1, <1>2

LEMMA InitPlaced == Init => PlacedInv
<1> SUFFICES ASSUME Init PROVE PlacedInv
  OBVIOUS
<1>1. TypeOK
  BY InitType
<1> QED BY <1>1 DEF Init, PlacedInv, LockOwned, Separate, WriterKnows, AckedPlaced, Critical,
                     WriteSteps, ReadSteps, WriteBusy, ReadBusy

\* All that is needed of the callers is that they keep apart.
LEMMA PlacedStep ==
  ASSUME MaxShort = 0, PlacedInv, Separate', [AnyNext]_vars
  PROVE  PlacedInv'
<1>1. TypeOK'
  BY StepType DEF PlacedInv
<1>2. LockOwned'
  BY LockOwnedStep DEF PlacedInv
<1>3. WriterKnows' /\ AckedPlaced'
  BY <1>1, WriterKnowsStep, AckedPlacedStep DEF PlacedInv
<1> QED BY <1>1, <1>2, <1>3 DEF PlacedInv

\* When reads wait for the writes to end, as the two phases of main.cc do
\* (main.cc:287-325), the offset that write() returned is the offset of the
\* value, for any number of writers, and a kill after the return changes
\* nothing.
THEOREM AcknowledgedOffsetsRight ==
  ASSUME ~Overlap, MaxShort = 0
  PROVE  Spec => []AckedPlaced
<1>1. PlacedInv /\ [Next]_vars => PlacedInv'
  BY PlacedStep, SeparateStep DEF PlacedInv, AnyNext
<1>2. PlacedInv => AckedPlaced
  BY DEF PlacedInv
<1> QED BY <1>1, <1>2, InitPlaced, PTL DEF Spec

-----------------------------------------------------------------------------
(* What one reader gets.                                                   *)

\* A read of VALUE_SIZE cells from where a value lies delivers it.
LEMMA ReadWhole ==
  ASSUME NEW s \in Seq(Cell), NEW p \in Nat, NEW v \in Vals, Holds(s, p, v)
  PROVE  SubSeq(s, p + 1, ReadEnd(s, p)) = Cells(v)
<1>0. VALUE_SIZE \in Nat /\ Len(s) \in Nat
  BY ValueAssumption
<1>1. p + VALUE_SIZE <= Len(s) /\ \A i \in 1 .. VALUE_SIZE : s[p + i] = <<v, i>>
  BY DEF Holds
<1>2. ReadEnd(s, p) = p + VALUE_SIZE
  BY <1>1 DEF ReadEnd
<1>3. \A i \in p + 1 .. p + VALUE_SIZE : s[i] \in Cell
  BY <1>0, <1>1, ElementOfSeq
<1>4. /\ SubSeq(s, p + 1, p + VALUE_SIZE) \in Seq(Cell)
      /\ Len(SubSeq(s, p + 1, p + VALUE_SIZE)) = VALUE_SIZE
      /\ \A i \in 1 .. VALUE_SIZE : SubSeq(s, p + 1, p + VALUE_SIZE)[i] = s[p + i]
  <2>1. p + 1 \in Int /\ p + VALUE_SIZE \in Int
    BY <1>0
  <2>2. (p + VALUE_SIZE) - (p + 1) + 1 = VALUE_SIZE /\ \A i \in Int : (p + 1) + i - 1 = p + i
    BY <1>0
  <2> QED BY <1>0, <1>3, <2>1, <2>2, SubSeqProperties, ValueAssumption
<1>5. \A i \in 1 .. VALUE_SIZE : SubSeq(s, p + 1, p + VALUE_SIZE)[i] = Cells(v)[i]
  BY <1>1, <1>4 DEF Cells
<1> QED BY <1>2, <1>4, <1>5, CellsType, SeqEqual

LEMMA ReadersReadStep ==
  ASSUME TypeOK, ReadersRead, [AnyNext]_vars
  PROVE  ReadersRead'
<1> USE DEF ReadSteps
<1> SUFFICES ASSUME NEW s \in Threads, pc'[s] \in ReadSteps
             PROVE  s \in Readers
  BY DEF ReadersRead
<1>1. CASE pc[s] \in ReadSteps
  BY <1>1 DEF ReadersRead
<1>2. ASSUME NEW t \in Threads, NEW k, NEW v, CallWrite(t, k, v)
      PROVE  pc[s] \in ReadSteps
  BY <1>2 DEF CallWrite, Goto, TypeOK
<1>3. ASSUME NEW t \in Readers, NEW k, NEW p, CallRead(t, k, p)
      PROVE  s \in Readers
  BY <1>1, <1>3 DEF CallRead, Goto, TypeOK
<1>4. ASSUME NEW t \in Threads, WriteStep(t) \/ ReadStep(t)
      PROVE  pc[s] \in ReadSteps
  <2>1. CASE s # t
    BY <1>4, <2>1, Frame
  <2>2. CASE s = t
    BY <1>4, <2>2 DEF WriteStep, ReadStep, Lock, FSeekEnd, FTell, FWrite, FFlush, Unlock,
                      FSeekSet, FRead, ReturnRead, Goto, TypeOK, thread
  <2> QED BY <2>1, <2>2
<1>5. CASE Crash
  BY <1>5 DEF Crash
<1>6. CASE UNCHANGED vars
  BY <1>1, <1>6 DEF vars
<1>7. CASE (\A t \in Threads : pc[t] = "idle") /\ CloseFiles
  BY <1>7 DEF CloseFiles
<1> QED BY <1>1, <1>2, <1>3, <1>4, <1>5, <1>6, <1>7, ValueAssumption DEF AnyNext, AnyRead, Next

\* The reader is the only thread that moves a stream, and its own steps put
\* it where it is going to read.
LEMMA ReaderStep ==
  ASSUME \A r, s \in Readers : r = s, PlacedInv, ReadersRead, ReaderPlaced,
         ReadReturnsWritten, TypeOK', ReadersRead', Separate', [AnyNext]_vars
  PROVE  ReaderPlaced' /\ ReadReturnsWritten'
<1> USE DEF ReadSteps, WriteSteps, PlacedInv
<1> DEFINE Good(s) ==
      /\ pc[s] = "fread" => pos[Mine(s)] = at[s]
      /\ pc[s] = "read_done" =>
           \A a \in acked : a.key = key[s] /\ a.pos = at[s] => got[s] = Cells(a.val)
<1> SUFFICES ASSUME NEW s \in Threads, pc'[s] \in {"fread", "read_done"}
             PROVE  Good(s)'
  BY DEF ReaderPlaced, ReadReturnsWritten, Cells
<1>0. Mine(s) \in Buckets /\ Good(s)
  BY BucketType DEF Mine, TypeOK, ReaderPlaced, ReadReturnsWritten
<1>1. ASSUME pc'[s] = pc[s], key'[s] = key[s], at'[s] = at[s], got'[s] = got[s],
             pos'[Mine(s)] = pos[Mine(s)], acked' = acked
      PROVE  Good(s)'
  BY <1>0, <1>1 DEF Mine, Cells
<1>2. ASSUME NEW t \in Threads, NEW k, NEW v, CallWrite(t, k, v) \/ CallRead(t, k, v)
      PROVE  Good(s)'
  <2>1. s # t /\ pc[s] = pc'[s] /\ key'[s] = key[s] /\ at'[s] = at[s] /\ got' = got
        /\ pos' = pos /\ acked' = acked
    BY <1>2 DEF CallWrite, CallRead, Goto, TypeOK, stream
  <2> QED BY <1>1, <2>1
<1>3. ASSUME NEW t \in Threads, WriteStep(t)
      PROVE  Good(s)'
  <2>1. pc[t] \in WriteSteps
    BY <1>3 DEF WriteStep, Lock, FSeekEnd, FTell, FWrite, FFlush, Unlock, Goto
  <2>2. s # t
    BY <1>3 DEF WriteStep, Lock, FSeekEnd, FTell, FWrite, FFlush, Unlock, Goto, TypeOK
  <2>3. pc[s] = pc'[s]
    BY <1>3, <2>2, Frame
  <2> QED BY <2>1, <2>3 DEF Separate, WriteBusy, ReadBusy
<1>4. ASSUME NEW t \in Threads, ReadStep(t), s # t
      PROVE  Good(s)'
  <2>1. pc[s] = pc'[s] /\ pc[t] \in ReadSteps
    BY <1>4, Frame DEF ReadStep, FSeekSet, FRead, ReturnRead, Goto
  <2> QED BY <1>4, <2>1 DEF ReadersRead
<1>5. CASE FSeekSet(s)
  <2>1. pc'[s] = "fread" /\ pos'[Mine(s)] = at'[s] /\ Mine(s)' = Mine(s)
    BY <1>0, <1>5 DEF FSeekSet, Goto, TypeOK, thread, Mine
  <2> QED BY <2>1
<1>6. CASE FRead(s)
  <2>1. /\ pc[s] = "fread" /\ pc'[s] = "read_done" /\ pos[Mine(s)] = at[s]
        /\ at'[s] = at[s] /\ key'[s] = key[s] /\ acked' = acked
        /\ got'[s] = SubSeq(file'[Mine(s)], at[s] + 1, ReadEnd(file'[Mine(s)], at[s]))
    BY <1>0, <1>6 DEF FRead, Goto, TypeOK
  <2>2. ASSUME NEW a \in acked, a.key = key[s], a.pos = at[s]
        PROVE  got'[s] = Cells(a.val)
    <3>1. a.val \in Vals /\ a.pos \in Nat /\ file'[Mine(s)] \in Seq(Cell)
      BY <1>0 DEF TypeOK
    <3>2. Holds(file[Mine(s)], a.pos, a.val)
      BY <2>2 DEF AckedPlaced, Mine
    <3>3. Holds(file'[Mine(s)], a.pos, a.val)
      BY <1>0, <3>1, <3>2, KeepsHolding
    <3> QED BY <2>1, <2>2, <3>1, <3>3, ReadWhole
  <2> QED BY <2>1, <2>2 DEF Cells
<1>7. CASE ReturnRead(s)
  BY <1>7 DEF ReturnRead, Goto, TypeOK
<1>8. CASE Crash
  BY <1>8 DEF Crash
<1>9. CASE UNCHANGED vars
  BY <1>1, <1>9 DEF vars
<1>10. CASE (\A t \in Threads : pc[t] = "idle") /\ CloseFiles
  BY <1>10 DEF CloseFiles
<1> QED
  BY <1>2, <1>3, <1>4, <1>5, <1>6, <1>7, <1>8, <1>9, <1>10, ValueAssumption DEF AnyNext, AnyRead, Next, ReadStep

LEMMA ReadStepInv ==
  ASSUME MaxShort = 0, \A r, s \in Readers : r = s, ReadInv, Separate', [AnyNext]_vars
  PROVE  ReadInv'
<1>1. PlacedInv' /\ TypeOK'
  BY PlacedStep DEF ReadInv, PlacedInv
<1>2. ReadersRead'
  BY ReadersReadStep DEF ReadInv, PlacedInv
<1>3. ReaderPlaced' /\ ReadReturnsWritten'
  BY <1>1, <1>2, ReaderStep DEF ReadInv
<1> QED BY <1>1, <1>2, <1>3 DEF ReadInv

LEMMA InitRead == Init => ReadInv
BY InitPlaced DEF Init, ReadInv, ReadersRead, ReaderPlaced, ReadReturnsWritten, ReadSteps

\* Between the steps of a lone reader the stream stays where its seek left
\* it, and the offset it was given stays good: the whole invariant of the
\* value files, from which the reader's result follows.
THEOREM ReaderInvariant ==
  ASSUME ~Overlap, MaxShort = 0, \A r, s \in Readers : r = s
  PROVE  Spec => []ReadInv
<1>1. ReadInv /\ [Next]_vars => ReadInv'
  BY ReadStepInv, SeparateStep DEF ReadInv, PlacedInv, AnyNext
<1> QED BY <1>1, InitRead, PTL DEF Spec

\* One reader thread, running while nothing is written, gets exactly the
\* value that was stored at the offset, without any mutex: what read()
\* (value_resources.cc:28-37) can promise.  With two readers it cannot.
THEOREM OneReaderReadsRight ==
  ASSUME ~Overlap, MaxShort = 0, \A r, s \in Readers : r = s
  PROVE  Spec => []ReadReturnsWritten
<1>1. ReadInv => ReadReturnsWritten
  BY DEF ReadInv
<1> QED BY <1>1, ReaderInvariant, PTL
=============================================================================
