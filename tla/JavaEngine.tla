----------------------------- MODULE JavaEngine -----------------------------
(***************************************************************************)
(* The Java engine (EngineRace.java and the classes of hpkv it uses), as   *)
(* many threads share it.  value.db holds the values, key.db one entry per *)
(* write: a key and the position of its value, two words of eight bytes in *)
(* two separate writes.  keyTreeMap is the index in memory, filled from    *)
(* key.db when the engine is opened.                                       *)
(*                                                                         *)
(* write() and the second half of read() are synchronized; looking the key *)
(* up and getting value.db, whose static handle the first caller creates,  *)
(* are not.  Every handle has its own position.                            *)
(***************************************************************************)
EXTENDS Integers, Sequences, FiniteSets, SequencesExt

CONSTANTS
  Keys,           \* numbers: the eight bytes
  Vals,
  Writers, Readers,
  ValueSize,      \* Configuration.ValueSize, 4096
  NoThread,       \* nobody is inside synchronized (this)
  NoValue,        \* null; and of stored: nothing
  Unknown,        \* of expect: the read may end in any way
  MaxWrites, MaxKills   \* bounds

Threads == Writers \union Readers

ASSUME JavaAssumption ==
  /\ Keys \subseteq Nat /\ ValueSize \in Nat \ {0}
  /\ Writers \intersect Readers = {}      \* a thread that does both counts as two
  /\ NoThread \notin Threads
  /\ NoValue \notin Vals \union Nat /\ Unknown \notin Vals \union {NoValue}
  /\ MaxWrites \in Nat /\ MaxKills \in Nat

VARIABLES
  values,      \* value.db, one value per position; on disk ("rwd")
  words,       \* key.db
  up,          \* of the process: "open", "closed", "failed" to open again
  tree,        \* keyTreeMap: the keys in it -> position or NoValue
  databaseFile,   \* the static handle of value.db, 0: null
  handles,     \* how many have been created
  seek,        \* position of each handle, counted in values
  monitor,
  pc, key, val,
  mine,        \* per thread: the handle it works with
  at,          \* per thread: valuePosition
  got,         \* per reader: what read() returns, NoValue: it throws
  stored,      \* history: the value of the last entry of each key
  risk,        \* history: the words that a torn entry has made unreliable
  expect,      \* history, per reader: what its read must return
  writes, kills

disk    == <<values, words>>
statics == <<databaseFile, handles, seek>>
locals  == <<key, val, mine, at, got, expect>>
history == <<stored, risk>>
jvars   == <<disk, up, tree, statics, monitor, pc, locals, history, writes, kills>>

Position(i) == i * ValueSize          \* of the value i + 1
\* Once an entry is torn, the entries after it are read one word off.
Torn == Len(words) % 2 = 1
InFlight(k) == \E t \in Threads : pc[t] = "put" /\ key[t] = k

Step(t, from, to) == up = "open" /\ pc[t] = from /\ pc' = [pc EXCEPT ![t] = to]

\* The locals of a call end with it.
Forget(t) ==
  /\ key' = [key EXCEPT ![t] = NoValue] /\ val' = [val EXCEPT ![t] = NoValue]
  /\ mine' = [mine EXCEPT ![t] = 0] /\ at' = [at EXCEPT ![t] = 0]
  /\ got' = [got EXCEPT ![t] = NoValue] /\ expect' = [expect EXCEPT ![t] = Unknown]

ForAll(x) == [t \in Threads |-> x]

JavaInit ==
  /\ values = << >> /\ words = << >>
  /\ up = "open" /\ tree = << >>
  /\ databaseFile = 0 /\ handles = 0 /\ seek = << >>
  /\ monitor = NoThread /\ pc = ForAll("idle")
  /\ key = ForAll(NoValue) /\ val = ForAll(NoValue) /\ mine = ForAll(0) /\ at = ForAll(0)
  /\ got = ForAll(NoValue) /\ expect = ForAll(Unknown)
  /\ stored = [k \in Keys |-> NoValue] /\ risk = {}
  /\ writes = 0 /\ kills = 0

-----------------------------------------------------------------------------
(* DatabaseResources.getDatabaseFile: write() calls it before, read() after *)
(* it has entered synchronized (this).                                      *)

Check(t) ==
  /\ IF databaseFile = 0 THEN Step(t, "check", "create") ELSE Step(t, "check", "return_file")
  /\ UNCHANGED <<disk, up, tree, statics, monitor, locals, history, writes, kills>>

Create(t) ==
  /\ Step(t, "create", "return_file")
  /\ handles' = handles + 1
  /\ databaseFile' = handles + 1
  /\ seek' = Append(seek, 0)
  /\ UNCHANGED <<disk, up, tree, monitor, locals, history, writes, kills>>

\* The field is read again.
ReturnFile(t) ==
  /\ Step(t, "return_file", IF t \in Writers THEN "enter" ELSE "seek_read")
  /\ mine' = [mine EXCEPT ![t] = databaseFile]
  /\ UNCHANGED <<disk, up, tree, statics, monitor, key, val, at, got, expect, history, writes, kills>>

\* Fault: read() is not synchronized.
Enter_None(t) ==
  /\ IF t \in Writers THEN Step(t, "enter", "seek_value") ELSE Step(t, "enter", "check")
  /\ t \in Writers => monitor = NoThread
  /\ monitor' = t
  /\ UNCHANGED <<disk, up, tree, statics, locals, history, writes, kills>>

\* synchronized (this)
Enter(t) ==
  /\ IF t \in Writers THEN Step(t, "enter", "seek_value") ELSE Step(t, "enter", "check")
  /\ monitor = NoThread
  /\ monitor' = t
  /\ UNCHANGED <<disk, up, tree, statics, locals, history, writes, kills>>

-----------------------------------------------------------------------------
(* write; WriteDisk.write is a seek and a write *)

BeginWrite(t, k, v) ==
  /\ writes < MaxWrites
  /\ Step(t, "idle", "check")
  /\ key' = [key EXCEPT ![t] = k]
  /\ val' = [val EXCEPT ![t] = v]
  /\ writes' = writes + 1
  /\ UNCHANGED <<disk, up, tree, statics, monitor, mine, at, got, expect, history, kills>>

SeekValue(t) ==
  /\ Step(t, "seek_value", "write_value")
  /\ at' = [at EXCEPT ![t] = Position(Len(values))]
  /\ seek' = [seek EXCEPT ![mine[t]] = Len(values)]
  /\ UNCHANGED <<disk, up, tree, databaseFile, handles, monitor, key, val, mine, got, expect,
                 history, writes, kills>>

\* The handle's position is the end of the file unless somebody moved it.
WriteValue(t) ==
  /\ Step(t, "write_value", "write_key")
  /\ values' = IF seek[mine[t]] = Len(values) THEN Append(values, val[t])
               ELSE [values EXCEPT ![seek[mine[t]] + 1] = val[t]]
  /\ seek' = [seek EXCEPT ![mine[t]] = @ + 1]
  /\ UNCHANGED <<words, up, tree, databaseFile, handles, monitor, locals, history, writes, kills>>

\* Of write, read and open only the owner of the monitor uses key.db, so seek
\* and write are one step.  (range, which is not modelled, seeks it unlocked.)
WriteKey(t) ==
  /\ Step(t, "write_key", "write_position")
  /\ words' = Append(words, key[t])
  /\ UNCHANGED <<values, up, tree, statics, monitor, locals, history, writes, kills>>

WritePosition(t) ==
  /\ Step(t, "write_position", "put")
  /\ words' = Append(words, at[t])
  /\ stored' = [stored EXCEPT ![key[t]] = val[t]]
  /\ risk' = IF Torn' THEN risk \union {key[t], at[t]} ELSE risk
  /\ UNCHANGED <<values, up, tree, statics, monitor, locals, writes, kills>>

\* keyTreeMap.put, and the end of synchronized (this)
Put(t) ==
  /\ Step(t, "put", "idle")
  /\ tree' = [k \in DOMAIN tree \union {key[t]} |-> IF k = key[t] THEN at[t] ELSE tree[k]]
  /\ monitor' = NoThread
  /\ Forget(t)
  /\ UNCHANGED <<disk, up, statics, history, writes, kills>>

-----------------------------------------------------------------------------
(* read *)

BeginRead(t, k) ==
  /\ Step(t, "idle", "get")
  /\ key' = [key EXCEPT ![t] = k]
  /\ UNCHANGED <<disk, up, tree, statics, monitor, val, mine, at, got, expect, history, writes, kills>>

\* TreeMap is not synchronized: a get beside a put may miss any key.
Lookups(k) ==
  {IF k \in DOMAIN tree THEN tree[k] ELSE NoValue}
  \union IF \E t \in Threads : pc[t] = "put" THEN {NoValue} ELSE {}

\* ByteArrayToLong.convert throws a NullPointerException when it gets null.
Get(t) ==
  LET k == key[t] IN
  \E p \in Lookups(k) :
    /\ Step(t, "get", IF p = NoValue THEN "read_end" ELSE "enter")
    /\ at' = [at EXCEPT ![t] = IF p = NoValue THEN 0 ELSE p]
    /\ got' = [got EXCEPT ![t] = NoValue]
    /\ expect' = [expect EXCEPT ![t] =
         IF k \in risk \/ \E u \in Threads : pc[u] = "put" THEN Unknown ELSE stored[k]]
    /\ UNCHANGED <<disk, up, tree, statics, monitor, key, val, mine, history, writes, kills>>

SeekRead(t) ==
  /\ Step(t, "seek_read", "read_value")
  /\ seek' = [seek EXCEPT ![mine[t]] = at[t] \div ValueSize]
  /\ UNCHANGED <<disk, up, tree, databaseFile, handles, monitor, locals, history, writes, kills>>

\* ReadDisk.read returns null when the file ends before the value does.
ReadValue(t) ==
  LET s == seek[mine[t]] IN
  /\ Step(t, "read_value", "read_end")
  /\ got' = [got EXCEPT ![t] = IF s < Len(values) THEN values[s + 1] ELSE NoValue]
  /\ seek' = IF s < Len(values) THEN [seek EXCEPT ![mine[t]] = s + 1] ELSE seek
  /\ monitor' = NoThread
  /\ UNCHANGED <<disk, up, tree, databaseFile, handles, key, val, mine, at, expect, history,
                 writes, kills>>

ReadReturns(t) ==
  /\ Step(t, "read_end", "idle")
  /\ Forget(t)
  /\ UNCHANGED <<disk, up, tree, statics, monitor, history, writes, kills>>

-----------------------------------------------------------------------------
(* open and close *)

Entries(ws) == {i \in DOMAIN ws : i % 2 = 1}
Word(ws, i) == IF i > Len(ws) THEN NoValue ELSE ws[i]

\* Fault: a key that is already there is skipped.
GetMap_First(ws) ==
  [k \in {ws[i] : i \in Entries(ws)} |->
     Word(ws, 1 + Min({i \in Entries(ws) : ws[i] = k}))]

\* KeyCache.getMap: a later entry replaces an earlier one; the position of
\* half an entry is null.
GetMap(ws) ==
  [k \in {ws[i] : i \in Entries(ws)} |->
     Word(ws, 1 + Max({i \in Entries(ws) : ws[i] = k}))]

\* The process ends at any moment, and another one opens the engine.
KillAndOpen ==
  /\ kills < MaxKills
  /\ kills' = kills + 1
  /\ up' = "open" /\ tree' = GetMap(words)
  /\ databaseFile' = 0 /\ handles' = 0 /\ seek' = << >>
  /\ monitor' = NoThread /\ pc' = ForAll("idle")
  /\ key' = ForAll(NoValue) /\ val' = ForAll(NoValue) /\ mine' = ForAll(0) /\ at' = ForAll(0)
  /\ got' = ForAll(NoValue) /\ expect' = ForAll(Unknown)
  /\ risk' = risk \union {key[t] : t \in {u \in Threads : pc[u] = "write_position"}}
  /\ UNCHANGED <<disk, stored, writes>>

\* Before the first call of read or write close() throws a
\* NullPointerException and does nothing.
Close ==
  /\ up = "open" /\ \A t \in Threads : pc[t] = "idle"
  /\ databaseFile # 0
  /\ up' = "closed" /\ tree' = << >>
  /\ UNCHANGED <<disk, statics, monitor, pc, locals, history, writes, kills>>

\* The static handles stay, closed: getMap throws an IOException.
OpenAgain ==
  /\ up = "closed"
  /\ up' = "failed"
  /\ UNCHANGED <<disk, tree, statics, monitor, pc, locals, history, writes, kills>>

JavaNext ==
  \/ \E t \in Writers, k \in Keys, v \in Vals : BeginWrite(t, k, v)
  \/ \E t \in Readers, k \in Keys : BeginRead(t, k)
  \/ \E t \in Threads : Check(t) \/ Create(t) \/ ReturnFile(t) \/ Enter(t)
       \/ SeekValue(t) \/ WriteValue(t) \/ WriteKey(t) \/ WritePosition(t) \/ Put(t)
       \/ Get(t) \/ SeekRead(t) \/ ReadValue(t) \/ ReadReturns(t)
  \/ KillAndOpen \/ Close \/ OpenAgain

JavaSpec == JavaInit /\ [][JavaNext]_jvars

-----------------------------------------------------------------------------
\* The map in memory gives every key the value of its last write, now and
\* after any number of kills, whoever wins the race for the handle of
\* value.db.  A kill between the two words of an entry costs that entry's key
\* and, read one word off, the entries after it up to the next torn one (and
\* a key that has the bytes of a position among them); no others.
AckedReadable ==
  up = "open" => \A k \in Keys \ risk : ~InFlight(k) =>
    IF stored[k] = NoValue THEN k \notin DOMAIN tree
    ELSE /\ k \in DOMAIN tree /\ tree[k] \in {Position(i - 1) : i \in DOMAIN values}
         /\ values[tree[k] \div ValueSize + 1] = stored[k]

\* A read returns the value its key had when it was looked up, though it
\* waits for the monitor while others write and move the handle; it throws
\* for a key that is not there.
ReadExact ==
  \A t \in Readers : pc[t] = "read_end" /\ expect[t] # Unknown => got[t] = expect[t]

-----------------------------------------------------------------------------
(* The inductive invariant behind the two.                                 *)

WriterInside == {"seek_value", "write_value", "write_key", "write_position", "put"}
ReaderInside == {"check", "create", "return_file", "seek_read", "read_value"}
Inside(t)    == pc[t] \in IF t \in Writers THEN WriterInside ELSE ReaderInside

JavaTypeOK ==
  /\ values \in Seq(Vals) /\ words \in Seq(Nat)
  /\ up \in {"open", "closed", "failed"}
  /\ \A k \in DOMAIN tree : tree[k] \in Nat \union {NoValue}
  /\ seek \in Seq(Nat) /\ handles = Len(seek) /\ databaseFile \in 0 .. handles
  /\ monitor \in Threads \union {NoThread}
  /\ pc \in [Threads -> {"idle", "enter", "get", "read_end"} \union WriterInside \union ReaderInside]
  /\ key \in [Threads -> Keys \union {NoValue}] /\ val \in [Threads -> Vals \union {NoValue}]
  /\ mine \in [Threads -> Nat] /\ at \in [Threads -> Nat]
  /\ got \in [Threads -> Vals \union {NoValue}]
  /\ expect \in [Threads -> Vals \union {NoValue, Unknown}]
  /\ stored \in [Keys -> Vals \union {NoValue}]

\* Who is inside synchronized (this) is the monitor's owner, and nobody is
\* in a call of an engine that was closed.
Monitored ==
  /\ \A t \in Threads : Inside(t) <=> monitor = t
  /\ up # "open" => \A t \in Threads : pc[t] = "idle"

\* The place of a thread, and the handle that getDatabaseFile has given it.
Placed ==
  \A t \in Threads :
    /\ t \in Writers => pc[t] \notin {"get", "seek_read", "read_value", "read_end"}
    /\ t \in Readers => pc[t] \notin WriterInside
    /\ pc[t] # "idle" => key[t] \in Keys /\ (t \in Writers => val[t] \in Vals)
    /\ pc[t] = "return_file" => databaseFile # 0
    /\ pc[t] \in WriterInside \union {"seek_read", "read_value"} => mine[t] \in DOMAIN seek
    /\ t \in Writers /\ pc[t] = "enter" => mine[t] \in DOMAIN seek

\* In vs, value.db, the value v lies at position p.
Lies(vs, p, v) == \E i \in DOMAIN vs : p = Position(i - 1) /\ vs[i] = v

\* What a writer knows between two of its steps, and a reader.
WriterKnows ==
  \A t \in Writers :
    /\ pc[t] = "write_value" => at[t] = Position(Len(values)) /\ seek[mine[t]] = Len(values)
    /\ pc[t] \in {"write_key", "write_position", "put"} => Lies(values, at[t], val[t])
    /\ pc[t] = "put" => stored[key[t]] = val[t]
ReaderKnows ==
  \A t \in Readers :
    /\ pc[t] \in {"enter"} \union ReaderInside /\ expect[t] # Unknown => Lies(values, at[t], expect[t])
    /\ pc[t] = "read_value" => seek[mine[t]] = at[t] \div ValueSize

\* The last entry of each key in key.db is whole and names its last value,
\* but for the keys at risk and the one whose entry is being written.
Adding(k) == \E t \in Threads : pc[t] = "write_position" /\ key[t] = k
LastEntry(ws, k, i) ==
  /\ i \in Entries(ws) /\ ws[i] = k
  /\ \A j \in Entries(ws) : ws[j] = k => j <= i
KeyFileRight ==
  /\ \A k \in Keys \ risk : ~Adding(k) =>
       \/ stored[k] = NoValue /\ \A i \in Entries(words) : words[i] # k
       \/ \E i \in 1 .. Len(words) - 1 : LastEntry(words, k, i) /\ Lies(values, words[i + 1], stored[k])
  /\ \A t \in Threads : pc[t] = "write_position" /\ Torn => words[Len(words)] = key[t]

JavaInv ==
  /\ JavaTypeOK /\ Monitored /\ Placed /\ WriterKnows /\ ReaderKnows
  /\ KeyFileRight /\ AckedReadable /\ ReadExact
=============================================================================
