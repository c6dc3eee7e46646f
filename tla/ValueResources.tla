--------------------------- MODULE ValueResources ---------------------------
(***************************************************************************)
(* CPP/value_resources.cc: the value files.  Every key hashes to one of    *)
(* WRITE_RESOURCES_NUMBER files; a file is one stdio stream, opened "a+"   *)
(* and shared by every thread.  write() holds the file's mutex over        *)
(* fseek / ftell / fwrite / fflush and returns the offset ftell saw;       *)
(* read() does fseek / fread on the same stream WITHOUT the mutex (the     *)
(* lock calls are commented out).  A single stdio call is atomic (POSIX    *)
(* locks the FILE), a sequence of them is not.                             *)
(*                                                                         *)
(* A stored value is VALUE_SIZE cells <<value, i>>, so that torn, shifted  *)
(* and short reads are visible; offsets count cells.                       *)
(***************************************************************************)
EXTENDS Hash, Sequences, FiniteSets

CONSTANTS
  Threads, Writers, Readers,  \* who may call at all, write() and read()
  Keys, Vals,
  RawHash,        \* (int) std::hash of each key
  VALUE_SIZE,     \* cells per value, 4096 bytes in conf.h
  NoThread,       \* "the mutex is free"
  Overlap,        \* may reads run while a write is in progress?
  MaxCalls,       \* bound on the calls of write()
  MaxCrashes,     \* bound on process kills
  MaxShort        \* bound on short fwrites (disk full)

ASSUME ValueAssumption ==
  /\ Writers \subseteq Threads /\ Readers \subseteq Threads
  /\ NoThread \notin Threads
  /\ Keys # {} /\ Vals # {}
  /\ RawHash \in [Keys -> CInt]
  /\ VALUE_SIZE \in Nat \ {0}
  /\ Overlap \in BOOLEAN
  /\ MaxCalls \in Nat /\ MaxCrashes \in Nat /\ MaxShort \in Nat

VARIABLES
  file,     \* per bucket: the cells in the file, as the kernel has them
  buf,      \* per bucket: cells still in the stream's buffer
  pos,      \* per bucket: the stream's position
  lock,     \* per bucket: resources_lock, its owner or NoThread
  pc, key, val,   \* per thread: where in write()/read(), its arguments
  at,       \* per thread: write()'s result, read()'s start
  got,      \* per thread: the cells fread delivered
  acked,    \* history: every [key, val, pos] that write() returned
  calls, crashes, shorts

stream == <<file, buf, pos>>
thread == <<key, val, at, got>>
counts == <<calls, crashes, shorts>>
vars   == <<file, buf, pos, lock, pc, key, val, at, got, acked,
            calls, crashes, shorts>>

Bucket(k) == BucketOf(RawHash[k])
Cells(v)  == [i \in 1 .. VALUE_SIZE |-> <<v, i>>]
Cell      == Vals \X (1 .. VALUE_SIZE)
Mine(t)   == Bucket(key[t])          \* the file thread t works on

WriteSteps == {"lock", "fseek_end", "ftell", "fwrite", "fflush", "unlock"}
ReadSteps  == {"fseek_set", "fread", "read_done"}
WriteBusy  == \E t \in Threads : pc[t] \in WriteSteps
ReadBusy   == \E t \in Threads : pc[t] \in ReadSteps

Goto(t, from, to) == pc[t] = from /\ pc' = [pc EXCEPT ![t] = to]

\* Write out the buffer; "a+" is O_APPEND, so it lands at the end of the file
\* wherever the stream's position is.
Flush(b) ==
  /\ file' = [file EXCEPT ![b] = @ \o buf[b]]
  /\ buf'  = [buf EXCEPT ![b] = << >>]

\* What a thread that has not called yet has for a key and a value.
NoKeys == [t \in Threads |-> CHOOSE k \in Keys : TRUE]
NoVals == [t \in Threads |-> CHOOSE v \in Vals : TRUE]

Init ==
  /\ file = [b \in Buckets |-> << >>]
  /\ buf  = [b \in Buckets |-> << >>]
  /\ pos  = [b \in Buckets |-> 0]
  /\ lock = [b \in Buckets |-> NoThread]
  /\ pc   = [t \in Threads |-> "idle"]
  /\ key  = NoKeys /\ val = NoVals
  /\ at   = [t \in Threads |-> 0]
  /\ got  = [t \in Threads |-> << >>]
  /\ acked = {}
  /\ calls = 0 /\ crashes = 0 /\ shorts = 0

-----------------------------------------------------------------------------
(* ValueResources::write *)

CallWrite(t, k, v) ==
  /\ calls < MaxCalls
  /\ Overlap \/ ~ReadBusy
  /\ Goto(t, "idle", "lock")
  /\ key' = [key EXCEPT ![t] = k]
  /\ val' = [val EXCEPT ![t] = v]
  /\ calls' = calls + 1
  /\ UNCHANGED <<stream, lock, at, got, acked, crashes, shorts>>

\* Fault: the mutex is not there (as in read()).
Lock_None(t) ==
  /\ Goto(t, "lock", "fseek_end")
  /\ lock' = [lock EXCEPT ![Mine(t)] = t]
  /\ UNCHANGED <<stream, thread, acked, counts>>

Lock(t) ==
  /\ Goto(t, "lock", "fseek_end")
  /\ lock[Mine(t)] = NoThread
  /\ lock' = [lock EXCEPT ![Mine(t)] = t]
  /\ UNCHANGED <<stream, thread, acked, counts>>

FSeekEnd(t) ==
  /\ Goto(t, "fseek_end", "ftell")
  /\ Flush(Mine(t))
  /\ pos' = [pos EXCEPT ![Mine(t)] = Len(file'[Mine(t)])]
  /\ UNCHANGED <<lock, thread, acked, counts>>

\* Fault: the offset of the record before.
FTell_Before(t) ==
  /\ Goto(t, "ftell", "fwrite")
  /\ at' = [at EXCEPT ![t] = pos[Mine(t)] - VALUE_SIZE]
  /\ UNCHANGED <<stream, lock, key, val, got, acked, counts>>

FTell(t) ==
  /\ Goto(t, "ftell", "fwrite")
  /\ at' = [at EXCEPT ![t] = pos[Mine(t)]]
  /\ UNCHANGED <<stream, lock, key, val, got, acked, counts>>

\* stdio accepts n of the cells of write()'s value, hands m of them to the
\* kernel at once (after what it had buffered) and keeps the others.
Accept(t, b, n, m) ==
  /\ file' = [file EXCEPT ![b] = @ \o (buf[b] \o SubSeq(Cells(val[t]), 1, m))]
  /\ buf'  = [buf EXCEPT ![b] = SubSeq(Cells(val[t]), m + 1, n)]
  /\ pos'  = [pos EXCEPT ![b] = Len(file[b]) + Len(buf[b]) + n]

\* n < VALUE_SIZE is a full disk; the code ignores the result of fwrite.
FWrite(t) ==
  /\ Goto(t, "fwrite", "fflush")
  /\ \E n \in 0 .. VALUE_SIZE : \E m \in 0 .. n :
       /\ n < VALUE_SIZE => shorts < MaxShort
       /\ shorts' = IF n < VALUE_SIZE THEN shorts + 1 ELSE shorts
       /\ Accept(t, Mine(t), n, m)
  /\ UNCHANGED <<lock, thread, acked, calls, crashes>>

\* Fault: the value is left in the stream's buffer.
FFlush_None(t) ==
  /\ Goto(t, "fflush", "unlock")
  /\ UNCHANGED <<stream, lock, thread, acked, counts>>

FFlush(t) ==
  /\ Goto(t, "fflush", "unlock")
  /\ Flush(Mine(t))
  /\ UNCHANGED <<pos, lock, thread, acked, counts>>

\* Fault: the mutex is kept.
Unlock_None(t) ==
  /\ Goto(t, "unlock", "idle")
  /\ acked' = acked \union {[key |-> key[t], val |-> val[t], pos |-> at[t]]}
  /\ UNCHANGED <<stream, lock, thread, counts>>

Unlock(t) ==
  /\ Goto(t, "unlock", "idle")
  /\ lock' = [lock EXCEPT ![Mine(t)] = NoThread]
  /\ acked' = acked \union {[key |-> key[t], val |-> val[t], pos |-> at[t]]}
  /\ UNCHANGED <<stream, thread, counts>>

-----------------------------------------------------------------------------
(* ValueResources::read: no mutex between the two stdio calls *)

CallRead(t, k, p) ==
  /\ Overlap \/ ~WriteBusy
  /\ Goto(t, "idle", "fseek_set")
  /\ key' = [key EXCEPT ![t] = k]
  /\ at'  = [at EXCEPT ![t] = p]
  /\ UNCHANGED <<stream, lock, val, got, acked, counts>>

\* Fault: the read starts wherever the stream is.
FSeekSet_None(t) ==
  /\ Goto(t, "fseek_set", "fread")
  /\ Flush(Mine(t))
  /\ UNCHANGED <<pos, lock, thread, acked, counts>>

FSeekSet(t) ==
  /\ Goto(t, "fseek_set", "fread")
  /\ Flush(Mine(t))
  /\ pos' = [pos EXCEPT ![Mine(t)] = at[t]]
  /\ UNCHANGED <<lock, thread, acked, counts>>

\* Where a read of VALUE_SIZE cells from p stops: at the end of the file.
ReadEnd(s, p) == IF p + VALUE_SIZE <= Len(s) THEN p + VALUE_SIZE ELSE Len(s)

FRead(t) ==
  LET b    == Mine(t)
      last == ReadEnd(file'[b], pos[b])
  IN
  /\ Goto(t, "fread", "read_done")
  /\ Flush(b)
  /\ got' = [got EXCEPT ![t] = SubSeq(file'[b], pos[b] + 1, last)]
  /\ pos' = [pos EXCEPT ![b] = IF last > @ THEN last ELSE @]
  /\ UNCHANGED <<lock, key, val, at, acked, counts>>

ReturnRead(t) ==
  /\ Goto(t, "read_done", "idle")
  /\ UNCHANGED <<stream, lock, thread, acked, counts>>

-----------------------------------------------------------------------------
\* Fault: the files are opened "w+".
Crash_Truncates ==
  /\ crashes < MaxCrashes
  /\ crashes' = crashes + 1
  /\ file' = [b \in Buckets |-> << >>]
  /\ buf'  = [b \in Buckets |-> << >>]
  /\ pos'  = [b \in Buckets |-> 0]
  /\ lock' = [b \in Buckets |-> NoThread]
  /\ pc'   = [t \in Threads |-> "idle"]
  /\ key'  = NoKeys /\ val' = NoVals
  /\ at'   = [t \in Threads |-> 0]
  /\ got'  = [t \in Threads |-> << >>]
  /\ UNCHANGED <<acked, calls, shorts>>

\* The process is killed and opens the files again: what the kernel has
\* stays, the stream buffers, the mutexes and the threads with their calls
\* are gone.
Crash ==
  /\ crashes < MaxCrashes
  /\ crashes' = crashes + 1
  /\ buf'  = [b \in Buckets |-> << >>]
  /\ pos'  = [b \in Buckets |-> 0]
  /\ lock' = [b \in Buckets |-> NoThread]
  /\ pc'   = [t \in Threads |-> "idle"]
  /\ key'  = NoKeys /\ val' = NoVals
  /\ at'   = [t \in Threads |-> 0]
  /\ got'  = [t \in Threads |-> << >>]
  /\ UNCHANGED <<file, acked, calls, shorts>>

\* ~ValueResources, and the constructor of the next engine: fclose writes
\* out what is buffered.
CloseFiles ==
  /\ file' = [b \in Buckets |-> file[b] \o buf[b]]
  /\ buf'  = [b \in Buckets |-> << >>]
  /\ pos'  = [b \in Buckets |-> 0]
  /\ lock' = [b \in Buckets |-> NoThread]
  /\ UNCHANGED <<pc, thread, acked, counts>>

\* The steps of a call that has been made.
WriteStep(t) == Lock(t) \/ FSeekEnd(t) \/ FTell(t) \/ FWrite(t) \/ FFlush(t)
                \/ Unlock(t)
ReadStep(t)  == FSeekSet(t) \/ FRead(t) \/ ReturnRead(t)

\* The offsets that write() has returned for the key.
Returned(k) == {a.pos : a \in {x \in acked : x.key = k}}

\* A caller reads at an offset that write() returned for the key, and closes
\* the files when no call runs.
Next ==
  \/ \E t \in Writers, k \in Keys, v \in Vals : CallWrite(t, k, v)
  \/ \E t \in Readers, k \in Keys : \E p \in Returned(k) : CallRead(t, k, p)
  \/ \E t \in Threads : WriteStep(t) \/ ReadStep(t)
  \/ Crash
  \/ (\A t \in Threads : pc[t] = "idle") /\ CloseFiles

Spec == Init /\ [][Next]_vars

\* A caller whose index is damaged reads anywhere in the file.
AnyRead == \E t \in Readers, k \in Keys :
             \E p \in 0 .. Len(file[Bucket(k)]) : CallRead(t, k, p)
AnyNext == Next \/ AnyRead

-----------------------------------------------------------------------------
TypeOK ==
  /\ file \in [Buckets -> Seq(Cell)]
  /\ buf  \in [Buckets -> Seq(Cell)]
  /\ pos  \in [Buckets -> Nat]
  /\ lock \in [Buckets -> Threads \union {NoThread}]
  /\ pc   \in [Threads -> {"idle"} \union WriteSteps \union ReadSteps]
  /\ key  \in [Threads -> Keys]
  /\ val  \in [Threads -> Vals]
  /\ at   \in [Threads -> Nat]
  /\ got  \in [Threads -> Seq(Cell)]
  /\ acked \subseteq [key : Keys, val : Vals, pos : Nat]
  /\ calls \in 0 .. MaxCalls /\ crashes \in 0 .. MaxCrashes
  /\ shorts \in 0 .. MaxShort

\* The cells of v are in s from offset p on.
Holds(s, p, v) == /\ p + VALUE_SIZE <= Len(s)
                  /\ \A i \in 1 .. VALUE_SIZE : s[p + i] = <<v, i>>

\* Every offset write() returned addresses, in the kernel's file, the whole
\* value that was written: a kill after the return loses nothing, and no two
\* writers were told the same place.
AckedPlaced == \A a \in acked : Holds(file[Bucket(a.key)], a.pos, a.val)

\* Even when a reader moves the stream under a writer, the value itself is
\* in the file, whole, at SOME offset.
Stored(s, v) == \E p \in 0 .. Len(s) : Holds(s, p, v)
AckedStored == \A a \in acked : Stored(file[Bucket(a.key)], a.val)

\* A read at an offset that write() returned delivers the value written.
ReadReturnsWritten ==
  \A t \in Threads : pc[t] = "read_done" =>
    \A a \in acked : a.key = key[t] /\ a.pos = at[t] => got[t] = Cells(a.val)

\* No step overwrites or drops a cell that has reached a file.
AppendOnly ==
  [][\A b \in Buckets :
       /\ Len(file[b]) <= Len(file'[b])
       /\ \A i \in 1 .. Len(file[b]) : file'[b][i] = file[b][i]]_vars

-----------------------------------------------------------------------------
(* Why the offsets are right: the parts of the inductive invariants.       *)

Critical == WriteSteps \ {"lock"}

\* Inside the critical section a thread owns its file's mutex.
LockOwned == \A t \in Threads : pc[t] \in Critical => lock[Mine(t)] = t

\* Only readers are inside read().
ReadersRead == \A t \in Threads : pc[t] \in ReadSteps => t \in Readers

\* No read runs during a write (only when reads may not overlap writes).
Separate == ~(WriteBusy /\ ReadBusy)

\* What the writer of a file knows between two of its stdio calls.
WriterKnows ==
  \A t \in Threads :
    LET b == Mine(t) IN
    /\ pc[t] = "ftell"  => buf[b] = << >> /\ pos[b] = Len(file[b])
    /\ pc[t] = "fwrite" => buf[b] = << >> /\ at[t] = Len(file[b])
    /\ pc[t] = "fflush" => Holds(file[b] \o buf[b], at[t], val[t])
    /\ pc[t] = "unlock" => Holds(file[b], at[t], val[t])

PlacedInv == TypeOK /\ LockOwned /\ Separate /\ WriterKnows /\ AckedPlaced

\* The same without the offset: what survives readers that move the stream.
WriterStored ==
  \A t \in Threads :
    LET b == Mine(t) IN
    /\ pc[t] \in {"ftell", "fwrite"} => buf[b] = << >>
    /\ pc[t] = "fflush" => Stored(file[b] \o buf[b], val[t])
    /\ pc[t] = "unlock" => Stored(file[b], val[t])

StoredInv == TypeOK /\ LockOwned /\ WriterStored /\ AckedStored

\* With one reader the stream stays where its fseek left it.
ReaderPlaced == \A t \in Threads : pc[t] = "fread" => pos[Mine(t)] = at[t]

ReadInv == PlacedInv /\ ReadersRead /\ ReaderPlaced /\ ReadReturnsWritten
=============================================================================
